------------------------------- MODULE Scopes -------------------------------
(***************************************************************************)
(* Reading definitions: HIDE sections, MODULEs and the symbol table        *)
(* (src/src/symbol.c, module.c, undefs.c, getsym of scan.c, repl.c and     *)
(* readterm of factor.c).                                                  *)
(*                                                                         *)
(* The symbol table is flat.  A name defined in the private part of the    *)
(* k-th section is entered as k.name, a name defined in module m as m.name. *)
(* getsym reads MODULE .. END and HIDE .. END twice: during the first pass *)
(* every name in front of == is declared, then the display (the stacks of  *)
(* open sections and modules) is set back and the same tokens are read     *)
(* again, from a list of tokens, by the functions that define.             *)
(*                                                                         *)
(* The C functions call each other; frames holds, for each call that is    *)
(* active, what it does next with the symbol read last.  An error jumps    *)
(* back to repl and leaves all variables as they are.                      *)
(*                                                                         *)
(* A name is a sequence: <<n>>, or <<p, n>> with a number or a module as   *)
(* prefix.  Numbers and strings in programs do nothing here, bodies hold   *)
(* the entries they refer to, and CONST sections are left out.             *)
(***************************************************************************)
EXTENDS Integers, Sequences

CONSTANTS
  Names,        \* identifiers, of symbols and of modules
  NoName,       \* no identifier
  Programs,     \* what may be read
  Text,         \* the tokens of each program
  DISPLAYMAX,   \* size of the stacks of open sections and modules
  InFront       \* numbers that may lie in front of hide_stack: g_argc

ASSUME NamesAreNoNumbers == Names \cap Nat = {} /\ NoName \notin Names \cup Nat
ASSUME DisplayIsPositive == DISPLAYMAX \in Nat \ {0}
ASSUME InFrontAreNumbers == InFront \subseteq Nat

Plain == {<<n>> : n \in Names}
Keys == Plain \cup ((Nat \cup Names) \X Names)

Definers == {"LIBRA", "HIDE", "MODULE_"}
Keywords == Definers \cup {"EQDEF", "IN__", "PRIVATE", "PUBLIC"}
Symbols == Keywords \cup {"USR_", "INTEGER_", ";", "."}
Tokens == [sym : Symbols, str : Keys \cup {<<>>}]

ASSUME TextIsTokens ==
  /\ DOMAIN Text = Programs
  /\ \A p \in Programs : Text[p] \in Seq(Tokens)
  /\ \A p \in Programs : \A i \in DOMAIN Text[p] :
       Text[p][i].sym = "USR_" => Text[p][i].str \in Plain \cup (Names \X Names)

VARIABLES
  program,      \* the program that is read
  source,       \* what has not been read of it
  tokens,       \* env->tokens, the next one first
  token,        \* env->scanner.sym and env->str
  reading,      \* getsym: "no", "get", or "declare" in its first pass
  pass,         \* its local variables
  frames,       \* the active calls, the innermost first
  hide_index, hide_stack, hide_count, inside_hide, been_inside,
  module_index, module_stack, mod_name,
  symtab,       \* the entries
  unhashed,     \* the entries that env->hash does not lead to
  name, body,   \* the name that is being defined, the term read so far
  events        \* definitions made and terms executed (a history variable)

input == <<program, source, tokens, token, reading, pass>>
display == <<hide_index, hide_stack, hide_count, inside_hide, been_inside,
             module_index, module_stack>>
table == <<symtab, unhashed>>
term == <<name, body, events>>
vars == <<input, frames, display, mod_name, table, term>>

Frames == {"command", "endcommand", "endmodule", "factor", "execute", "compound",
           "module", "exitmod", "definition", "sequence", "period", "equals",
           "enter", "public", "exitpriv"}
Indices == -1 .. DISPLAYMAX - 1
Display == 0 .. DISPLAYMAX - 1
Modules == [name : Names \cup {NoName}, hide : Indices]
Passes == [hide : Indices, modl : Indices, hcnt : Nat,
           module : Nat, private : Nat, previous : Tokens]
Entries == [name : Keys, body : Seq(Nat \ {0}), is_ok : BOOLEAN]

NoToken == [sym |-> ".", str |-> <<>>]

Init ==
  /\ program \in Programs
  /\ source = Text[program]
  /\ tokens = <<>> /\ token = NoToken
  /\ reading = "get"
  /\ pass = [hide |-> -1, modl |-> -1, hcnt |-> 0, module |-> 0, private |-> 0,
             previous |-> NoToken]
  /\ frames = <<"command">>
  /\ hide_index = -1 /\ hide_count = 0
  /\ \E g \in InFront : hide_stack = [i \in Indices |-> IF i = -1 THEN g ELSE 0]
  /\ inside_hide = FALSE /\ been_inside = FALSE
  /\ module_index = -1
  /\ module_stack = [i \in Display |-> [name |-> NoName, hide |-> -1]]
  /\ mod_name = NoName
  /\ symtab = <<>> /\ unhashed = {}
  /\ name = <<>> /\ body = <<>> /\ events = <<>>

-----------------------------------------------------------------------------
(* The symbol table. *)

HasPrefix(k) == Len(k) = 2
Hashed(k) == {i \in DOMAIN symtab \ unhashed : symtab[i].name = k}

(* Where a plain name is looked for: the open sections, those around the
   module excepted, then the module, then the name as it is. *)
Limit == IF module_index >= 0 THEN module_stack[module_index].hide ELSE -1
Sections(n) ==
  [i \in 1 .. hide_index - Limit |-> <<hide_stack[hide_index + 1 - i], n>>]
InModule(n) ==
  IF module_index >= 0 THEN << <<module_stack[module_index].name, n>> >> ELSE <<>>

(* Mutant of Searched: the module before the open sections. *)
SearchedModuleFirst(k) ==
  IF HasPrefix(k) THEN <<k>> ELSE InModule(k[1]) \o Sections(k[1]) \o <<k>>

Searched(k) == IF HasPrefix(k) THEN <<k>> ELSE Sections(k[1]) \o InModule(k[1]) \o <<k>>

(* The entries a name leads to: none, or one. *)
qualify(k) ==
  LET s == Searched(k)
  IN {i \in DOMAIN symtab : \E j \in DOMAIN s :
        /\ i \in Hashed(s[j])
        /\ \A h \in 1 .. j - 1 : Hashed(s[h]) = {}}

(* With a private part but no section open this reads hide_stack[-1]. *)
classify(k) ==
  IF HasPrefix(k) THEN k
  ELSE IF inside_hide THEN <<hide_stack[hide_index], k[1]>>
  ELSE IF module_index >= 0 THEN <<module_stack[module_index].name, k[1]>>
  ELSE k

enterglobal(k) ==
  /\ symtab' = Append(symtab, [name |-> k, body |-> <<>>, is_ok |-> FALSE])
  /\ unhashed' = unhashed \cup Hashed(k)

(* Mutant of enteratom: entered without a look at what is there. *)
enteratomAnew(k) == enterglobal(classify(k))

(* The entry of a name that is declared or defined. *)
enteratom(k) ==
  IF qualify(k) # {} THEN UNCHANGED table ELSE enterglobal(classify(k))

-----------------------------------------------------------------------------
(* The display. *)

(* Mutant of SectionFits: one too many. *)
SectionFitsLate == hide_index # DISPLAYMAX

SectionFits == hide_index + 1 # DISPLAYMAX

initpriv ==
  /\ SectionFits
  /\ hide_index' = hide_index + 1
  /\ hide_count' = hide_count + 1
  /\ hide_stack' = [hide_stack EXCEPT ![hide_index + 1] = hide_count + 1]
  /\ inside_hide' = TRUE
  /\ UNCHANGED <<been_inside, module_index, module_stack>>

stoppriv ==
  /\ been_inside' = TRUE
  /\ inside_hide' = FALSE
  /\ UNCHANGED <<hide_index, hide_stack, hide_count, module_index, module_stack>>

(* Mutant of LeaveSection: the section stays on the display. *)
LeaveSectionNot ==
  /\ been_inside' = FALSE
  /\ UNCHANGED <<hide_index, hide_stack, hide_count, inside_hide, module_stack>>

LeaveSection ==
  /\ been_inside' = FALSE
  /\ hide_index' = IF been_inside /\ hide_index >= 0 THEN hide_index - 1 ELSE hide_index
  /\ UNCHANGED <<hide_stack, hide_count, inside_hide, module_stack>>

exitpriv == LeaveSection /\ UNCHANGED module_index

ModuleFits == module_index + 1 # DISPLAYMAX
initmod(k) ==
  /\ ModuleFits
  /\ module_index' = module_index + 1
  /\ module_stack' = [module_stack EXCEPT ![module_index + 1] =
                        [name |-> k[1], hide |-> hide_index]]
  /\ UNCHANGED <<hide_index, hide_stack, hide_count, inside_hide, been_inside>>

exitmod ==
  /\ module_index' = IF module_index >= 0 THEN module_index - 1 ELSE module_index
  /\ \/ module_index > 0
        /\ UNCHANGED <<hide_index, hide_stack, hide_count, inside_hide, been_inside,
                       module_stack>>
     \/ module_index <= 0 /\ LeaveSection

(* execerror and abortexecution_: back to repl, which asks for a symbol. *)
abortexecution_ ==
  /\ frames' = <<"command">>
  /\ reading' = "get"
  /\ UNCHANGED <<display, table, mod_name, term>>

-----------------------------------------------------------------------------
(* getsym. *)

FromTokens ==
  /\ tokens # <<>>
  /\ token' = Head(tokens)
  /\ tokens' = Tail(tokens)
  /\ reading' = "no"
  /\ UNCHANGED <<source, pass>>

FromSource ==
  /\ tokens = <<>> /\ source # <<>>
  /\ token' = Head(source)
  /\ source' = Tail(source)
  /\ IF Head(source).sym \in {"MODULE_", "HIDE"}
     THEN /\ reading' = "declare"
          /\ pass' = [hide |-> hide_index, modl |-> module_index, hcnt |-> hide_count,
                      module |-> 0, private |-> 0, previous |-> Head(source)]
     ELSE reading' = "no" /\ UNCHANGED pass
  /\ UNCHANGED tokens

GetSymbol ==
  /\ reading = "get"
  /\ FromTokens \/ FromSource
  /\ UNCHANGED <<program, frames, display, mod_name, table, term>>

-----------------------------------------------------------------------------
(* The first pass of getsym over MODULE .. END or HIDE .. END.  push_sym puts
   the symbols on the list in the order in which they are read. *)

Advance(module, private) ==
  /\ tokens' = <<token>> \o tokens
  /\ token' = Head(source)
  /\ source' = Tail(source)
  /\ pass' = [pass EXCEPT !.module = module, !.private = private, !.previous = token]
  /\ UNCHANGED <<program, reading, frames, mod_name, term>>

Declaring == reading = "declare" /\ source # <<>>

(* No room on the display for what token begins. *)
TooDeep ==
  \/ token.sym \in {"HIDE", "PRIVATE"} /\ ~SectionFits
  \/ /\ token.sym = "MODULE_" /\ source # <<>> /\ Head(source).sym = "USR_"
     /\ ~ModuleFits

(* MODULE and the symbol after it, which should be a name. *)
DeclareModule ==
  /\ Declaring /\ token.sym = "MODULE_"
  /\ Len(source) > 1
  /\ tokens' = <<Head(source), token>> \o tokens
  /\ \/ /\ Head(source).sym = "USR_"
        /\ initmod(Head(source).str)
        /\ pass' = [pass EXCEPT !.module = @ + 1, !.previous = Head(source)]
     \/ /\ Head(source).sym # "USR_"                 \* an error, but reading goes on
        /\ pass' = [pass EXCEPT !.previous = Head(source)]
        /\ UNCHANGED display
  /\ token' = source[2]
  /\ source' = Tail(Tail(source))
  /\ UNCHANGED <<program, reading, frames, mod_name, table, term>>

DeclarePrivate ==
  /\ Declaring /\ token.sym \in {"HIDE", "PRIVATE"}
  /\ initpriv
  /\ Advance(pass.module, IF pass.module = 0 THEN pass.private + 1 ELSE pass.private)
  /\ UNCHANGED table

DeclarePublic ==
  /\ Declaring /\ token.sym \in {"IN__", "PUBLIC"}
  /\ stoppriv
  /\ Advance(pass.module, pass.private)
  /\ UNCHANGED table

DeclareName ==
  /\ Declaring /\ token.sym = "EQDEF" /\ pass.previous.sym = "USR_"
  /\ enteratom(classify(pass.previous.str))
  /\ Advance(pass.module, pass.private)
  /\ UNCHANGED display

DeclareOther ==
  /\ Declaring
  /\ \/ token.sym \in {"LIBRA", "USR_", "INTEGER_", ";"}
     \/ token.sym = "EQDEF" /\ pass.previous.sym # "USR_"
  /\ Advance(pass.module, pass.private)
  /\ UNCHANGED <<display, table>>

(* END of a module or section inside the one that is read. *)
ClosesModule == pass.module > 0
ClosesSection == pass.module = 0 /\ pass.private > 0
Outermost == pass.module + pass.private <= 1

DeclareEnd ==
  /\ Declaring /\ token.sym = "." /\ ~Outermost
  /\ \/ ClosesModule /\ exitmod /\ Advance(pass.module - 1, pass.private)
     \/ ClosesSection /\ exitpriv /\ Advance(pass.module, pass.private - 1)
  /\ UNCHANGED table

Reversed(s) == [i \in DOMAIN s |-> s[Len(s) + 1 - i]]

(* Mutant of EndPass: sections go on being numbered. *)
EndPassCounting ==
  /\ reading = "declare" /\ token.sym = "." /\ Outermost
  /\ been_inside' = FALSE
  /\ hide_index' = pass.hide
  /\ module_index' = pass.modl
  /\ LET all == Reversed(<<token>> \o tokens)
     IN token' = Head(all) /\ tokens' = Tail(all)
  /\ reading' = "no"
  /\ UNCHANGED <<program, source, pass, frames, hide_stack, hide_count, inside_hide,
                 module_stack, mod_name, table, term>>

(* The last END: undomod, and the first symbol is read again. *)
EndPass ==
  /\ reading = "declare" /\ token.sym = "." /\ Outermost
  /\ been_inside' = /\ been_inside
                    /\ pass.private = 0
                    /\ pass.module = 1 => module_index > 0
  /\ hide_index' = pass.hide
  /\ module_index' = pass.modl
  /\ hide_count' = pass.hcnt
  /\ LET all == Reversed(<<token>> \o tokens)
     IN token' = Head(all) /\ tokens' = Tail(all)
  /\ reading' = "no"
  /\ UNCHANGED <<program, source, pass, frames, hide_stack, inside_hide, module_stack,
                 mod_name, table, term>>

(* Too many sections or modules inside each other: an error, with the symbols
   read so far on the list, the last one first. *)
DeclareTooDeep ==
  /\ reading = "declare" /\ TooDeep
  /\ IF token.sym = "MODULE_"
     THEN /\ tokens' = <<token>> \o tokens
          /\ token' = Head(source)
          /\ source' = Tail(source)
     ELSE UNCHANGED <<tokens, token, source>>
  /\ abortexecution_
  /\ UNCHANGED <<program, pass>>

(* The end of the file: ABORT_QUIT. *)
Quit ==
  /\ \/ reading = "get" /\ tokens = <<>> /\ source = <<>>
     \/ /\ reading = "declare" /\ ~TooDeep
        /\ ~(token.sym = "." /\ Outermost)
        /\ Len(source) < IF token.sym = "MODULE_" THEN 2 ELSE 1
  /\ frames' = <<>>
  /\ reading' = "no"
  /\ UNCHANGED <<program, source, tokens, token, pass, display, mod_name, table, term>>

-----------------------------------------------------------------------------
(* What the active functions do with a symbol. *)

At(frame) == reading = "no" /\ frames # <<>> /\ Head(frames) = frame
Then(fs) == frames' = fs \o Tail(frames)
Ask == reading' = "get" /\ UNCHANGED <<program, source, tokens, token, pass>>
Keep == UNCHANGED input

(* repl.  The name of a module is that of the next token on the list; when
   the list is empty, that reads in front of it. *)
hide_inner_modules1 ==
  IF tokens = <<>> THEN mod_name' \in Names \cup {NoName}
  ELSE mod_name' = IF Head(tokens).sym = "USR_" THEN Head(tokens).str[1] ELSE NoName

Command ==
  /\ At("command")
  /\ \/ /\ token.sym = "MODULE_"
        /\ hide_inner_modules1
        /\ Then(<<"compound", "endmodule">>)
        /\ UNCHANGED body
     \/ /\ token.sym \in {"LIBRA", "HIDE"}
        /\ Then(<<"compound", "endcommand">>)
        /\ UNCHANGED <<mod_name, body>>
     \/ /\ token.sym \notin Definers
        /\ body' = <<>>
        /\ Then(<<"factor", "execute">>)
        /\ UNCHANGED mod_name
  /\ Keep
  /\ UNCHANGED <<display, table, name, events>>

(* hide_inner_modules after the module: among the entries since the last one
   that is no member of a module or section, or ends an earlier module, those
   of other modules in front of the last one of this module. *)
Recent == {i \in DOMAIN symtab : \A j \in i .. Len(symtab) :
             HasPrefix(symtab[j].name) /\ ~symtab[j].is_ok}
Members == {i \in Recent : symtab[i].name[1] = mod_name}
LastMember == {i \in Members : \A j \in Members : j <= i}
Inner == {i \in Recent : /\ symtab[i].name[1] \in Names \ {mod_name}
                         /\ \E l \in LastMember : i < l}

EndModule ==
  /\ At("endmodule")
  /\ symtab' = [i \in DOMAIN symtab |->
                  [symtab[i] EXCEPT !.is_ok = @ \/ i \in LastMember]]
  /\ unhashed' = unhashed \cup UNION {Hashed(symtab[i].name) : i \in Inner}
  /\ frames' = <<"command">>
  /\ Ask
  /\ UNCHANGED <<display, mod_name, term>>

EndCommand ==
  /\ At("endcommand")
  /\ frames' = <<"command">>
  /\ Ask
  /\ UNCHANGED <<display, mod_name, table, term>>

Execute ==
  /\ At("execute")
  /\ events' = Append(events, [name |-> <<>>, body |-> body])
  /\ frames' = <<"command">>
  /\ Ask
  /\ UNCHANGED <<display, mod_name, table, name, body>>

(* readterm and readfactor: a name is looked up, and entered when it is
   unknown, unless it names a member of a module. *)
lookup(k) ==
  \/ /\ qualify(k) # {}
     /\ body' = Append(body, CHOOSE i \in qualify(k) : TRUE)
     /\ UNCHANGED table
  \/ /\ qualify(k) = {} /\ ~HasPrefix(k)
     /\ enterglobal(k)
     /\ body' = Append(body, Len(symtab'))
  \/ /\ qualify(k) = {} /\ HasPrefix(k)               \* no such field in module
     /\ UNCHANGED <<table, body>>

EndsTerm == token.sym \in Keywords \cup {";", "."}

Factor ==
  /\ At("factor") /\ ~EndsTerm
  /\ IF token.sym = "USR_" THEN lookup(token.str) ELSE UNCHANGED <<table, body>>
  /\ Ask
  /\ UNCHANGED <<frames, display, mod_name, name, events>>

EndTerm ==
  /\ At("factor") /\ EndsTerm
  /\ Then(<<>>)
  /\ Keep
  /\ UNCHANGED <<display, mod_name, table, term>>

(* compound_def. *)
CompoundModule ==
  /\ At("compound") /\ token.sym = "MODULE_"
  /\ Then(<<"module">>)
  /\ Ask
  /\ UNCHANGED <<display, mod_name, table, term>>

CompoundPrivate ==
  /\ At("compound") /\ token.sym \in {"PRIVATE", "HIDE"}
  /\ initpriv
  /\ Then(<<"definition", "sequence", "public">>)
  /\ Ask
  /\ UNCHANGED <<mod_name, table, term>>

CompoundPublic ==
  /\ At("compound") /\ token.sym \in {"PUBLIC", "LIBRA", "IN__"}
  /\ Then(<<"definition", "sequence">>)
  /\ Ask
  /\ UNCHANGED <<display, mod_name, table, term>>

CompoundEmpty ==
  /\ At("compound") /\ token.sym \notin Definers \cup {"PRIVATE", "PUBLIC", "IN__"}
  /\ Then(<<>>)
  /\ Keep
  /\ UNCHANGED <<display, mod_name, table, term>>

ModuleName ==
  /\ At("module") /\ token.sym = "USR_"
  /\ initmod(token.str)
  /\ Then(<<"compound", "exitmod">>)
  /\ Ask
  /\ UNCHANGED <<mod_name, table, term>>

(* A module without a name, or no room on the display. *)
CompoundFails ==
  /\ \/ At("module") /\ (token.sym = "USR_" => ~ModuleFits)
     \/ At("compound") /\ token.sym \in {"PRIVATE", "HIDE"} /\ ~SectionFits
  /\ abortexecution_
  /\ UNCHANGED <<program, source, tokens, token, pass>>

StopPrivate ==
  /\ At("public")
  /\ stoppriv
  /\ Then(<<"compound", "exitpriv">>)
  /\ Keep
  /\ UNCHANGED <<mod_name, table, term>>

ExitPrivate ==
  /\ At("exitpriv")
  /\ exitpriv
  /\ Then(<<>>)
  /\ Keep
  /\ UNCHANGED <<mod_name, table, term>>

ExitModule ==
  /\ At("exitmod")
  /\ exitmod
  /\ Then(<<>>)
  /\ Keep
  /\ UNCHANGED <<mod_name, table, term>>

(* defsequence. *)
Sequence ==
  /\ At("sequence")
  /\ \/ token.sym = ";" /\ Then(<<"definition", "sequence">>) /\ Ask
     \/ token.sym # ";" /\ Then(<<>>) /\ Keep
  /\ UNCHANGED <<display, mod_name, table, term>>

(* definition. *)
Definition ==
  /\ At("definition")
  /\ \/ /\ token.sym \in Definers \cup {"PRIVATE"}
        /\ Then(<<"compound", "period">>)
        /\ Keep
        /\ UNCHANGED name
     \/ /\ token.sym = "USR_"
        /\ name' = token.str
        /\ Then(<<"equals">>)
        /\ Ask
     \/ /\ token.sym \notin Definers \cup {"PRIVATE", "USR_"}   \* empty definition
        /\ Then(<<>>)
        /\ Keep
        /\ UNCHANGED name
  /\ UNCHANGED <<display, mod_name, table, body, events>>

Period ==
  /\ At("period")
  /\ Then(<<>>)
  /\ IF token.sym = "." THEN Ask ELSE Keep            \* an error is reported
  /\ UNCHANGED <<display, mod_name, table, term>>

Equals ==
  /\ At("equals")
  /\ Then(<<"factor", "enter">>)
  /\ body' = <<>>
  /\ IF token.sym = "EQDEF" THEN Ask ELSE Keep        \* an error is reported
  /\ UNCHANGED <<display, mod_name, table, name, events>>

(* The end of definition: the name is entered and gets its body. *)
Enter ==
  /\ At("enter")
  /\ IF qualify(name) # {}
     THEN /\ symtab' = [i \in DOMAIN symtab |->
                          IF i \in qualify(name) THEN [symtab[i] EXCEPT !.body = body]
                          ELSE symtab[i]]
          /\ UNCHANGED unhashed
     ELSE /\ symtab' = Append(symtab, [name |-> classify(name), body |-> body,
                                       is_ok |-> FALSE])
          /\ unhashed' = unhashed \cup Hashed(classify(name))
  /\ events' = Append(events, [name |-> IF qualify(name) # {}
                                        THEN symtab[CHOOSE i \in qualify(name) : TRUE].name
                                        ELSE classify(name),
                               body |-> body])
  /\ Then(<<>>)
  /\ Keep
  /\ UNCHANGED <<display, mod_name, name, body>>

Next ==
  \/ GetSymbol \/ Quit
  \/ DeclareModule \/ DeclarePrivate \/ DeclarePublic \/ DeclareName \/ DeclareOther
  \/ DeclareEnd \/ EndPass \/ DeclareTooDeep
  \/ Command \/ EndModule \/ EndCommand \/ Execute \/ Factor \/ EndTerm
  \/ CompoundModule \/ CompoundPrivate \/ CompoundPublic \/ CompoundEmpty
  \/ ModuleName \/ CompoundFails \/ StopPrivate \/ ExitPrivate \/ ExitModule
  \/ Sequence \/ Definition \/ Period \/ Equals \/ Enter

Spec == Init /\ [][Next]_vars

-----------------------------------------------------------------------------
(***************************************************************************)
(* The stacks of the display are never written outside their bounds, nor   *)
(* read, but for hide_stack[-1] (DISPLAYMAX, module.c:44); bodies refer to *)
(* entries that exist.                                                     *)
(***************************************************************************)
TypeOK ==
  /\ program \in Programs
  /\ source \in Seq(Tokens) /\ tokens \in Seq(Tokens) /\ token \in Tokens
  /\ reading \in {"no", "get", "declare"}
  /\ pass \in Passes
  /\ frames \in Seq(Frames)
  /\ hide_index \in Indices /\ module_index \in Indices
  /\ hide_stack \in [Indices -> Nat] /\ hide_count \in Nat
  /\ inside_hide \in BOOLEAN /\ been_inside \in BOOLEAN
  /\ module_stack \in [Display -> Modules]
  /\ mod_name \in Names \cup {NoName}
  /\ symtab \in Seq(Entries)
  /\ unhashed \subseteq DOMAIN symtab
  /\ name \in Keys \cup {<<>>}
  /\ body \in Seq(DOMAIN symtab)
  /\ \A i \in DOMAIN symtab : symtab[i].body \in Seq(DOMAIN symtab)

(* A private part is open around the module that is read, and none in it:
   classify gives its names the prefix of a section that qualify leaves out. *)
PrivateAround == inside_hide /\ hide_index <= Limit

(***************************************************************************)
(* The entry a name leads to, which bodies refer to, is never replaced by  *)
(* another of the same name (addsymbol): hide_inner_modules takes names    *)
(* from the hash table, and otherwise only the definitions of a module in  *)
(* a private part, that has no private part itself, enter a name of the    *)
(* surrounding section again.                                              *)
(***************************************************************************)
EntriesStay ==
  [][unhashed' # unhashed => At("endmodule") \/ (At("enter") /\ PrivateAround)]_vars
=============================================================================
