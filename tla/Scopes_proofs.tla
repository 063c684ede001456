--------------------------- MODULE Scopes_proofs ---------------------------
(* Theorems about the symbol table and the display, for any programs and any *)
(* number of sections and modules inside each other.                         *)
EXTENDS Scopes, Induction, SequenceTheorems, TLAPS

(* A name as it is written in a program. *)
Given == Plain \cup (Names \X Names)
Read == {t \in Tokens : t.sym = "USR_" => t.str \in Given}

InputOK ==
  /\ program \in Programs
  /\ source \in Seq(Read) /\ tokens \in Seq(Read) /\ token \in Read
  /\ reading \in {"no", "get", "declare"}
  /\ pass \in Passes /\ pass.previous \in Read

(* definition has a name before it reads on. *)
FramesOK ==
  /\ frames \in Seq(Frames)
  /\ name \in Given \cup {<<>>}
  /\ \A i \in DOMAIN frames : frames[i] \in {"equals", "enter"} => name \in Given

(* Every open module has a name, those that were open before the first pass
   as well. *)
DisplayOK ==
  /\ hide_index \in Indices /\ module_index \in Indices
  /\ hide_stack \in [Indices -> Nat] /\ hide_count \in Nat
  /\ inside_hide \in BOOLEAN /\ been_inside \in BOOLEAN
  /\ module_stack \in [Display -> Modules]
  /\ \A i \in Display : i <= module_index => module_stack[i].name \in Names

PassOK == \A i \in Display : i <= pass.modl => module_stack[i].name \in Names

TableOK ==
  /\ symtab \in Seq(Entries)
  /\ unhashed \subseteq DOMAIN symtab
  /\ body \in Seq(DOMAIN symtab)
  /\ \A i \in DOMAIN symtab : symtab[i].body \in Seq(DOMAIN symtab)

ModNameOK == mod_name \in Names \cup {NoName}

IInv == InputOK /\ FramesOK /\ DisplayOK /\ PassOK /\ TableOK /\ ModNameOK

-----------------------------------------------------------------------------
(* Lemmas. *)

(* The first part of a written name is a name. *)
LEMMA GivenNames ==
  ASSUME NEW k \in Given
  PROVE  k \in Keys /\ k[1] \in Names
  BY DEF Given, Keys, Plain

(* A key without prefix is a name. *)
LEMMA PlainKeys ==
  ASSUME NEW k \in Keys, ~HasPrefix(k)
  PROVE  k[1] \in Names /\ k \in Plain
<1>1. \A x \in Nat \cup Names, y \in Names : Len(<<x, y>>) = 2
  OBVIOUS
<1> QED BY <1>1 DEF Keys, Plain, HasPrefix

(* The name of an entry is a key. *)
LEMMA ClassifyType ==
  ASSUME DisplayOK, NEW k \in Keys
  PROVE  classify(k) \in Keys
<1>1. CASE HasPrefix(k)
  BY <1>1 DEF classify
<1>2. CASE ~HasPrefix(k)
  <2>1. k[1] \in Names
    BY <1>2, PlainKeys
  <2>2. hide_stack[hide_index] \in Nat
    BY DEF DisplayOK
  <2>3. module_index >= 0 => module_stack[module_index].name \in Names
    BY DisplayIsPositive DEF DisplayOK, Indices, Display
  <2> QED BY <1>2, <2>1, <2>2, <2>3 DEF classify, Keys
<1> QED BY <1>1, <1>2

(* A reversed sequence is one. *)
LEMMA ReversedType ==
  ASSUME NEW S, NEW s \in Seq(S)
  PROVE  Reversed(s) \in Seq(S)
<1>1. Len(s) \in Nat /\ DOMAIN s = 1 .. Len(s)
  BY LenProperties
<1>2. \A i \in 1 .. Len(s) : Len(s) + 1 - i \in 1 .. Len(s)
  BY <1>1
<1>3. \A i \in 1 .. Len(s) : s[Len(s) + 1 - i] \in S
  BY <1>2, ElementOfSeq
<1>4. Reversed(s) \in [1 .. Len(s) -> S]
  BY <1>1, <1>3 DEF Reversed
<1> QED BY <1>1, <1>4, SeqDef

(* The next symbol and what follows it. *)
LEMMA ReadOn ==
  ASSUME NEW s \in Seq(Read), s # <<>>
  PROVE  Head(s) \in Read /\ Tail(s) \in Seq(Read)
  BY HeadTailProperties

(* What is pushed in front of the tokens. *)
LEMMA PushType ==
  ASSUME NEW s \in Seq(Read), NEW t \in Read
  PROVE  <<t>> \o s \in Seq(Read) /\ <<t>> \o s # <<>>
<1>1. <<t>> \in Seq(Read) /\ Len(<<t>>) = 1
  OBVIOUS
<1>2. <<t>> \o s \in Seq(Read) /\ Len(<<t>> \o s) = 1 + Len(s) /\ Len(s) \in Nat
  BY <1>1, ConcatProperties, LenProperties
<1> QED BY <1>2, EmptySeq

(* Bodies that refer to entries still do when there are more. *)
LEMMA MoreEntries ==
  ASSUME TableOK, NEW e \in Entries, e.body \in Seq(1 .. Len(symtab) + 1)
  PROVE  LET st == Append(symtab, e)
         IN /\ st \in Seq(Entries)
            /\ Len(st) = Len(symtab) + 1
            /\ DOMAIN st = 1 .. Len(symtab) + 1
            /\ unhashed \subseteq DOMAIN st
            /\ body \in Seq(DOMAIN st)
            /\ \A i \in DOMAIN st : st[i].body \in Seq(DOMAIN st)
<1> DEFINE st == Append(symtab, e)
<1>1. Len(symtab) \in Nat /\ DOMAIN symtab = 1 .. Len(symtab)
  BY LenProperties DEF TableOK
<1>2. /\ st \in Seq(Entries) /\ Len(st) = Len(symtab) + 1
      /\ \A i \in 1 .. Len(symtab) : st[i] = symtab[i]
      /\ st[Len(symtab) + 1] = e
  BY AppendProperties DEF TableOK
<1>3. DOMAIN st = 1 .. Len(symtab) + 1
  BY <1>2, LenProperties
<1>4. DOMAIN symtab \subseteq 1 .. Len(symtab) + 1
  BY <1>1
<1>5. \A s \in Seq(DOMAIN symtab) : s \in Seq(1 .. Len(symtab) + 1)
  BY <1>4, SeqMonotonic
<1> HIDE DEF st
<1>6. \A i \in 1 .. Len(symtab) + 1 : st[i].body \in Seq(1 .. Len(symtab) + 1)
  <2> TAKE i \in 1 .. Len(symtab) + 1
  <2>1. CASE i \in 1 .. Len(symtab)
    BY <2>1, <1>1, <1>2, <1>5 DEF TableOK
  <2>2. CASE i = Len(symtab) + 1
    BY <2>2, <1>2
  <2> QED BY <2>1, <2>2, <1>1
<1>7. unhashed \subseteq 1 .. Len(symtab) + 1 /\ body \in Seq(1 .. Len(symtab) + 1)
  BY <1>4, <1>5 DEF TableOK
<1>8. /\ st \in Seq(Entries) /\ Len(st) = Len(symtab) + 1
      /\ DOMAIN st = 1 .. Len(symtab) + 1
      /\ unhashed \subseteq DOMAIN st
      /\ body \in Seq(DOMAIN st)
      /\ \A i \in DOMAIN st : st[i].body \in Seq(DOMAIN st)
  BY <1>2, <1>3, <1>6, <1>7
<1> QED BY <1>8 DEF st

(* A new entry has no body yet. *)
LEMMA EnteredType ==
  ASSUME TableOK, NEW k \in Keys, enterglobal(k)
  PROVE  /\ Len(symtab') = Len(symtab) + 1
         /\ Len(symtab) \in Nat
         /\ symtab' \in Seq(Entries)
         /\ DOMAIN symtab' = 1 .. Len(symtab) + 1
         /\ unhashed' \subseteq DOMAIN symtab'
         /\ body \in Seq(DOMAIN symtab')
         /\ \A i \in DOMAIN symtab' : symtab'[i].body \in Seq(DOMAIN symtab')
<1> DEFINE e == [name |-> k, body |-> <<>>, is_ok |-> FALSE]
<1>1. e \in Entries /\ e.body \in Seq(1 .. Len(symtab) + 1)
  BY EmptySeq DEF Entries
<1>2. symtab' = Append(symtab, e) /\ unhashed' = unhashed \cup Hashed(k)
  BY DEF enterglobal
<1>3. Len(symtab) \in Nat /\ DOMAIN symtab = 1 .. Len(symtab)
  BY LenProperties DEF TableOK
<1>4. Hashed(k) \subseteq 1 .. Len(symtab) + 1
  BY <1>3 DEF Hashed
<1> HIDE DEF e
<1> QED BY <1>1, <1>2, <1>3, <1>4, MoreEntries
-----------------------------------------------------------------------------
(* What the parts of the actions preserve. *)

(* Nothing is read. *)
LEMMA KeepType ==
  ASSUME InputOK, UNCHANGED <<program, source, tokens, token, pass>>,
         reading' \in {"no", "get", "declare"}
  PROVE  InputOK'
  BY DEF InputOK

(* The display is left alone. *)
LEMMA SameDisplay ==
  ASSUME DisplayOK, PassOK, UNCHANGED display, pass'.modl = pass.modl
  PROVE  DisplayOK' /\ PassOK'
  BY DEF DisplayOK, PassOK, display

(* The symbol table is left alone. *)
LEMMA SameTable ==
  ASSUME TableOK, UNCHANGED table, UNCHANGED body
  PROVE  TableOK'
  BY DEF TableOK, table

(* Calls return and others begin. *)
LEMMA GoOn ==
  ASSUME FramesOK, frames # <<>>, NEW fs \in Seq(Frames), Then(fs),
         name' = name \/ name' \in Given,
         \A i \in DOMAIN fs : fs[i] \in {"equals", "enter"} => name' \in Given
  PROVE  FramesOK'
<1> DEFINE t == Tail(frames)
<1>1. t \in Seq(Frames) /\ \A i \in 1 .. Len(t) : t[i] = frames[i + 1]
  BY HeadTailProperties DEF FramesOK
<1>2. /\ Len(t) = Len(frames) - 1 /\ Len(frames) \in Nat
      /\ DOMAIN frames = 1 .. Len(frames)
      /\ Len(fs) \in Nat /\ DOMAIN fs = 1 .. Len(fs) /\ Len(t) \in Nat
  BY <1>1, HeadTailProperties, LenProperties DEF FramesOK
<1>3. frames' = fs \o t
  BY DEF Then
<1> HIDE DEF t
<1>4. /\ frames' \in Seq(Frames) /\ DOMAIN frames' = 1 .. Len(fs) + Len(t)
      /\ \A i \in 1 .. Len(fs) + Len(t) :
           frames'[i] = IF i <= Len(fs) THEN fs[i] ELSE t[i - Len(fs)]
  BY <1>1, <1>3, ConcatProperties, LenProperties
<1>5. \A i \in DOMAIN frames' : frames'[i] \in {"equals", "enter"} => name' \in Given
  <2> SUFFICES ASSUME NEW i \in 1 .. Len(fs) + Len(t), frames'[i] \in {"equals", "enter"}
               PROVE  name' \in Given
    BY <1>4
  <2>1. CASE i <= Len(fs)
    BY <2>1, <1>2, <1>4
  <2>2. CASE ~(i <= Len(fs))
    <3>1. i - Len(fs) \in 1 .. Len(t) /\ i - Len(fs) + 1 \in DOMAIN frames
      BY <2>2, <1>2
    <3>2. frames'[i] = t[i - Len(fs)] /\ t[i - Len(fs)] = frames[i - Len(fs) + 1]
      BY <2>2, <3>1, <1>1, <1>4
    <3>3. name \in Given
      BY <3>1, <3>2 DEF FramesOK
    <3> QED BY <3>3
  <2> QED BY <2>1, <2>2
<1> QED BY <1>4, <1>5 DEF FramesOK

(* Back to repl. *)
LEMMA OneFrame ==
  ASSUME FramesOK, name' = name, frames' = <<"command">> \/ frames' = <<>>
  PROVE  FramesOK'
<1>1. <<"command">> \in Seq(Frames) /\ DOMAIN <<"command">> = {1}
  BY DEF Frames
<1>2. <<>> \in Seq(Frames) /\ DOMAIN <<>> = {}
  OBVIOUS
<1>3. CASE frames' = <<"command">>
  BY <1>1, <1>3 DEF FramesOK
<1>4. CASE frames' = <<>>
  BY <1>2, <1>4 DEF FramesOK
<1> QED BY <1>3, <1>4

(* Frames that stay. *)
LEMMA SameFrames ==
  ASSUME FramesOK, frames' = frames, name' = name
  PROVE  FramesOK'
  BY DEF FramesOK

(* A section is opened where there is room. *)
LEMMA InitprivType ==
  ASSUME DisplayOK, PassOK, initpriv, pass'.modl = pass.modl
  PROVE  DisplayOK' /\ PassOK'
<1>1. hide_index + 1 \in Indices /\ hide_count + 1 \in Nat
  BY DisplayIsPositive DEF DisplayOK, Indices, initpriv, SectionFits
<1> QED BY <1>1 DEF DisplayOK, PassOK, initpriv

(* A private part ends. *)
LEMMA StopprivType ==
  ASSUME DisplayOK, PassOK, stoppriv, pass'.modl = pass.modl
  PROVE  DisplayOK' /\ PassOK'
  BY DEF DisplayOK, PassOK, stoppriv

(* A section ends. *)
LEMMA LeaveType ==
  ASSUME DisplayOK, PassOK, LeaveSection, module_index' \in Indices,
         module_index' <= module_index, pass'.modl = pass.modl
  PROVE  DisplayOK' /\ PassOK'
<1>1. hide_index' \in Indices
  BY DisplayIsPositive DEF DisplayOK, Indices, LeaveSection
<1>2. \A i \in Display : i <= module_index' => i <= module_index
  BY DisplayIsPositive DEF DisplayOK, Indices, Display
<1> QED BY <1>1, <1>2 DEF DisplayOK, PassOK, LeaveSection

(* A section ends, and no module. *)
LEMMA ExitprivType ==
  ASSUME DisplayOK, PassOK, exitpriv, pass'.modl = pass.modl
  PROVE  DisplayOK' /\ PassOK'
<1>1. module_index' \in Indices /\ module_index' <= module_index
  BY DisplayIsPositive DEF DisplayOK, Indices, exitpriv
<1> QED BY <1>1, LeaveType DEF exitpriv

(* A module ends, and a section with it when no other module is open. *)
LEMMA ExitmodType ==
  ASSUME DisplayOK, PassOK, exitmod, pass'.modl = pass.modl
  PROVE  DisplayOK' /\ PassOK'
<1>1. module_index' \in Indices /\ module_index' <= module_index
  BY DisplayIsPositive DEF DisplayOK, Indices, exitmod
<1>2. CASE LeaveSection
  BY <1>1, <1>2, LeaveType
<1>3. CASE UNCHANGED <<hide_index, hide_stack, hide_count, inside_hide, been_inside,
                       module_stack>>
  <2>1. \A i \in Display : i <= module_index' => i <= module_index
    BY <1>1, DisplayIsPositive DEF DisplayOK, Indices, Display
  <2> QED BY <1>1, <1>3, <2>1 DEF DisplayOK, PassOK
<1> QED BY <1>2, <1>3 DEF exitmod

(* A module is opened where there is room. *)
LEMMA InitmodType ==
  ASSUME DisplayOK, PassOK, NEW k \in Given, initmod(k), pass'.modl = pass.modl
  PROVE  DisplayOK' /\ PassOK'
<1>1. module_index + 1 \in Display
  BY DisplayIsPositive DEF DisplayOK, Indices, Display, initmod, ModuleFits
<1>2. k[1] \in Names
  BY GivenNames
<1> DEFINE opened == [name |-> k[1], hide |-> hide_index]
<1>3. opened \in Modules /\ opened.name \in Names
  BY <1>2 DEF DisplayOK, Modules
<1>4. module_stack' = [module_stack EXCEPT ![module_index + 1] = opened]
      /\ module_index' = module_index + 1
  BY DEF initmod
<1> HIDE DEF opened
<1>5. module_stack' \in [Display -> Modules]
  BY <1>3, <1>4 DEF DisplayOK
<1>6. \A i \in Display : module_stack'[i] = IF i = module_index + 1 THEN opened
                                            ELSE module_stack[i]
  BY <1>4 DEF DisplayOK
<1>7. \A i \in Display : i <= module_index' => module_stack'[i].name \in Names
  <2> SUFFICES ASSUME NEW i \in Display, i <= module_index + 1
               PROVE  module_stack'[i].name \in Names
    BY <1>4
  <2>1. CASE i = module_index + 1
    BY <2>1, <1>3, <1>6
  <2>2. CASE i # module_index + 1
    <3>1. i <= module_index
      BY <2>2, DisplayIsPositive DEF DisplayOK, Indices, Display
    <3> QED BY <2>2, <3>1, <1>6 DEF DisplayOK
  <2> QED BY <2>1, <2>2
<1>8. \A i \in Display : i <= pass'.modl => module_stack'[i].name \in Names
  BY <1>3, <1>6 DEF PassOK
<1>9. module_index' \in Indices
  BY <1>1, <1>4, DisplayIsPositive DEF Indices, Display
<1> QED BY <1>5, <1>7, <1>8, <1>9 DEF DisplayOK, PassOK, initmod

(* A name is entered and the term stays. *)
LEMMA EnterType ==
  ASSUME TableOK, NEW k \in Keys, enterglobal(k), body' = body
  PROVE  TableOK'
  BY EnteredType DEF TableOK

(* A name that is declared. *)
LEMMA EnteratomType ==
  ASSUME TableOK, DisplayOK, NEW k \in Keys, enteratom(k), body' = body
  PROVE  TableOK'
<1>1. CASE UNCHANGED table
  BY <1>1, SameTable
<1>2. CASE enterglobal(classify(k))
  BY <1>2, ClassifyType, EnterType
<1> QED BY <1>1, <1>2 DEF enteratom

(* A name in a term. *)
LEMMA LookupType ==
  ASSUME TableOK, NEW k \in Given, lookup(k)
  PROVE  TableOK'
<1>1. k \in Keys
  BY GivenNames
<1>2. CASE qualify(k) # {} /\ body' = Append(body, CHOOSE i \in qualify(k) : TRUE)
           /\ UNCHANGED table
  <2>1. (CHOOSE i \in qualify(k) : TRUE) \in DOMAIN symtab
    BY <1>2 DEF qualify
  <2>2. body' \in Seq(DOMAIN symtab)
    BY <1>2, <2>1, AppendProperties DEF TableOK
  <2> QED BY <1>2, <2>2 DEF TableOK, table
<1>3. CASE enterglobal(k) /\ body' = Append(body, Len(symtab'))
  <2>1. /\ Len(symtab') \in DOMAIN symtab'
        /\ body \in Seq(DOMAIN symtab')
    BY <1>1, <1>3, EnteredType
  <2>2. body' \in Seq(DOMAIN symtab')
    BY <1>3, <2>1, AppendProperties
  <2> QED BY <1>1, <1>3, <2>2, EnteredType DEF TableOK
<1>4. CASE UNCHANGED <<table, body>>
  BY <1>4, SameTable
<1> QED BY <1>2, <1>3, <1>4 DEF lookup

-----------------------------------------------------------------------------
(* IInv is inductive. *)

(* It holds at first. *)
LEMMA InitIInv == Init => IInv
<1> SUFFICES ASSUME Init PROVE IInv
  OBVIOUS
<1>1. Text[program] \in Seq(Read)
  <2>1. Text[program] \in Seq(Tokens)
        /\ \A i \in DOMAIN Text[program] :
             Text[program][i].sym = "USR_" => Text[program][i].str \in Given
    BY TextIsTokens DEF Init, Given
  <2>2. /\ Len(Text[program]) \in Nat /\ DOMAIN Text[program] = 1 .. Len(Text[program])
        /\ Text[program] \in [1 .. Len(Text[program]) -> Tokens]
    BY <2>1, LenProperties
  <2>3. Text[program] \in [1 .. Len(Text[program]) -> Read]
    BY <2>1, <2>2 DEF Read
  <2> QED BY <2>2, <2>3, SeqDef
<1>2. NoToken \in Read /\ NoToken \in Tokens
  BY DEF NoToken, Read, Tokens, Symbols
<1>3. -1 \in Indices /\ \A i \in Display : ~(i <= -1)
  BY DisplayIsPositive DEF Indices, Display
<1>4. InputOK
  BY <1>1, <1>2, <1>3, EmptySeq DEF Init, InputOK, Passes
<1>5. FramesOK
  <2>1. <<"command">> \in Seq(Frames) /\ DOMAIN <<"command">> = {1}
    BY DEF Frames
  <2> QED BY <2>1 DEF Init, FramesOK
<1>6. DisplayOK /\ PassOK
  <2>1. PICK g \in InFront : hide_stack = [i \in Indices |-> IF i = -1 THEN g ELSE 0]
    BY DEF Init
  <2>2. hide_stack \in [Indices -> Nat]
    BY <2>1, InFrontAreNumbers
  <2>3. module_stack \in [Display -> Modules]
    BY <1>3 DEF Init, Modules
  <2> QED BY <1>3, <2>2, <2>3 DEF Init, DisplayOK, PassOK
<1>7. TableOK /\ ModNameOK
  BY EmptySeq DEF Init, TableOK, ModNameOK
<1> QED BY <1>4, <1>5, <1>6, <1>7 DEF IInv

(* A symbol is read. *)
LEMMA GetStep ==
  ASSUME IInv, GetSymbol
  PROVE  IInv'
<1>1. InputOK /\ FramesOK /\ DisplayOK /\ PassOK /\ TableOK /\ ModNameOK
  BY DEF IInv
<1>2. InputOK'
  <2>1. CASE FromTokens
    BY <1>1, <2>1, ReadOn DEF InputOK, FromTokens, GetSymbol
  <2>2. CASE FromSource
    <3>1. Head(source) \in Read /\ Tail(source) \in Seq(Read) /\ Head(source) \in Tokens
      BY <1>1, <2>2, ReadOn DEF InputOK, FromSource, Read
    <3>2. pass' \in Passes /\ pass'.previous \in Read
      BY <1>1, <2>2, <3>1 DEF InputOK, FromSource, DisplayOK, Passes
    <3>3. UNCHANGED <<program, tokens>>
      BY <2>2 DEF FromSource, GetSymbol
    <3> QED BY <1>1, <2>2, <3>1, <3>2, <3>3 DEF InputOK, FromSource
  <2> QED BY <2>1, <2>2 DEF GetSymbol
<1>3. FramesOK'
  BY <1>1, SameFrames DEF GetSymbol, term
<1>4. DisplayOK' /\ PassOK'
  <2>1. UNCHANGED display
    BY DEF GetSymbol
  <2>2. pass' = pass \/ pass'.modl = module_index
    BY DEF GetSymbol, FromTokens, FromSource
  <2> QED BY <1>1, <2>1, <2>2 DEF DisplayOK, PassOK, display
<1>5. TableOK'
  BY <1>1, SameTable DEF GetSymbol, term
<1>6. ModNameOK'
  BY <1>1 DEF GetSymbol, ModNameOK
<1> QED BY <1>2, <1>3, <1>4, <1>5, <1>6 DEF IInv

(* The end of the file. *)
LEMMA QuitStep ==
  ASSUME IInv, Quit
  PROVE  IInv'
<1>1. InputOK /\ FramesOK /\ DisplayOK /\ PassOK /\ TableOK /\ ModNameOK
  BY DEF IInv
<1>2. InputOK'
  BY <1>1, KeepType DEF Quit
<1>3. FramesOK'
  BY <1>1, OneFrame DEF Quit, term
<1>4. DisplayOK' /\ PassOK'
  BY <1>1, SameDisplay DEF Quit
<1>5. TableOK'
  BY <1>1, SameTable DEF Quit, term
<1>6. ModNameOK'
  BY <1>1 DEF Quit, ModNameOK
<1> QED BY <1>2, <1>3, <1>4, <1>5, <1>6 DEF IInv

(* The first pass goes on to the next symbol. *)
LEMMA AdvanceType ==
  ASSUME IInv, Declaring, NEW x \in Nat, NEW y \in Nat, Advance(x, y)
  PROVE  InputOK' /\ FramesOK' /\ ModNameOK' /\ pass'.modl = pass.modl /\ body' = body
<1>1. InputOK /\ FramesOK /\ ModNameOK
  BY DEF IInv
<1>2. Head(source) \in Read /\ Tail(source) \in Seq(Read)
  BY <1>1, ReadOn DEF InputOK, Declaring
<1>3. <<token>> \o tokens \in Seq(Read)
  BY <1>1, PushType DEF InputOK
<1>4. token \in Tokens
  BY <1>1 DEF InputOK, Read
<1>5. pass' \in Passes /\ pass'.previous = token /\ pass'.modl = pass.modl
  BY <1>1, <1>4 DEF Advance, InputOK, Passes
<1>6. InputOK'
  BY <1>1, <1>2, <1>3, <1>5 DEF InputOK, Advance
<1>7. FramesOK' /\ ModNameOK' /\ body' = body
  BY <1>1, SameFrames DEF Advance, ModNameOK, term
<1> QED BY <1>5, <1>6, <1>7

(* A private part begins. *)
LEMMA DeclarePrivateStep ==
  ASSUME IInv, DeclarePrivate
  PROVE  IInv'
<1>1. InputOK /\ FramesOK /\ DisplayOK /\ PassOK /\ TableOK /\ ModNameOK
  BY DEF IInv
<1>2. pass.module \in Nat /\ pass.private \in Nat
  BY <1>1 DEF InputOK, Passes
<1>3. InputOK' /\ FramesOK' /\ ModNameOK' /\ pass'.modl = pass.modl /\ body' = body
  <2>1. (IF pass.module = 0 THEN pass.private + 1 ELSE pass.private) \in Nat
    BY <1>2
  <2> QED BY <1>2, <2>1, AdvanceType DEF DeclarePrivate
<1>4. DisplayOK' /\ PassOK'
  BY <1>1, <1>3, InitprivType DEF DeclarePrivate
<1>5. TableOK'
  BY <1>1, <1>3, SameTable DEF DeclarePrivate
<1> QED BY <1>3, <1>4, <1>5 DEF IInv

(* A public part begins. *)
LEMMA DeclarePublicStep ==
  ASSUME IInv, DeclarePublic
  PROVE  IInv'
<1>1. InputOK /\ FramesOK /\ DisplayOK /\ PassOK /\ TableOK /\ ModNameOK
  BY DEF IInv
<1>2. pass.module \in Nat /\ pass.private \in Nat
  BY <1>1 DEF InputOK, Passes
<1>3. InputOK' /\ FramesOK' /\ ModNameOK' /\ pass'.modl = pass.modl /\ body' = body
  BY <1>2, AdvanceType DEF DeclarePublic
<1>4. DisplayOK' /\ PassOK'
  BY <1>1, <1>3, StopprivType DEF DeclarePublic
<1>5. TableOK'
  BY <1>1, <1>3, SameTable DEF DeclarePublic
<1> QED BY <1>3, <1>4, <1>5 DEF IInv

(* Other symbols. *)
LEMMA DeclareOtherStep ==
  ASSUME IInv, DeclareOther
  PROVE  IInv'
<1>1. InputOK /\ FramesOK /\ DisplayOK /\ PassOK /\ TableOK /\ ModNameOK
  BY DEF IInv
<1>2. pass.module \in Nat /\ pass.private \in Nat
  BY <1>1 DEF InputOK, Passes
<1>3. InputOK' /\ FramesOK' /\ ModNameOK' /\ pass'.modl = pass.modl /\ body' = body
  BY <1>2, AdvanceType DEF DeclareOther
<1>4. DisplayOK' /\ PassOK'
  BY <1>1, <1>3, SameDisplay DEF DeclareOther
<1>5. TableOK'
  BY <1>1, <1>3, SameTable DEF DeclareOther
<1> QED BY <1>3, <1>4, <1>5 DEF IInv

(* A name is declared. *)
LEMMA DeclareNameStep ==
  ASSUME IInv, DeclareName
  PROVE  IInv'
<1>1. InputOK /\ FramesOK /\ DisplayOK /\ PassOK /\ TableOK /\ ModNameOK
  BY DEF IInv
<1>2. pass.module \in Nat /\ pass.private \in Nat
  BY <1>1 DEF InputOK, Passes
<1>3. InputOK' /\ FramesOK' /\ ModNameOK' /\ pass'.modl = pass.modl /\ body' = body
  BY <1>2, AdvanceType DEF DeclareName
<1>4. DisplayOK' /\ PassOK'
  BY <1>1, <1>3, SameDisplay DEF DeclareName
<1>5. TableOK'
  <2>1. pass.previous.str \in Given
    BY <1>1 DEF DeclareName, InputOK, Read
  <2>2. classify(pass.previous.str) \in Keys
    BY <1>1, <2>1, GivenNames, ClassifyType
  <2> QED BY <1>1, <1>3, <2>2, EnteratomType DEF DeclareName
<1> QED BY <1>3, <1>4, <1>5 DEF IInv

(* A module or section ends. *)
LEMMA DeclareEndStep ==
  ASSUME IInv, DeclareEnd
  PROVE  IInv'
<1>1. InputOK /\ FramesOK /\ DisplayOK /\ PassOK /\ TableOK /\ ModNameOK
  BY DEF IInv
<1>2. pass.module \in Nat /\ pass.private \in Nat
  BY <1>1 DEF InputOK, Passes
<1>3. CASE ClosesModule /\ exitmod /\ Advance(pass.module - 1, pass.private)
  <2>1. pass.module - 1 \in Nat
    BY <1>2, <1>3 DEF ClosesModule
  <2>2. InputOK' /\ FramesOK' /\ ModNameOK' /\ pass'.modl = pass.modl /\ body' = body
    BY <1>2, <1>3, <2>1, AdvanceType DEF DeclareEnd
  <2>3. DisplayOK' /\ PassOK'
    BY <1>1, <1>3, <2>2, ExitmodType
  <2>4. TableOK'
    BY <1>1, <2>2, SameTable DEF DeclareEnd
  <2> QED BY <2>2, <2>3, <2>4 DEF IInv
<1>4. CASE ClosesSection /\ exitpriv /\ Advance(pass.module, pass.private - 1)
  <2>1. pass.private - 1 \in Nat
    BY <1>2, <1>4 DEF ClosesSection
  <2>2. InputOK' /\ FramesOK' /\ ModNameOK' /\ pass'.modl = pass.modl /\ body' = body
    BY <1>2, <1>4, <2>1, AdvanceType DEF DeclareEnd
  <2>3. DisplayOK' /\ PassOK'
    BY <1>1, <1>4, <2>2, ExitprivType
  <2>4. TableOK'
    BY <1>1, <2>2, SameTable DEF DeclareEnd
  <2> QED BY <2>2, <2>3, <2>4 DEF IInv
<1> QED BY <1>3, <1>4 DEF DeclareEnd

(* A module begins. *)
LEMMA DeclareModuleStep ==
  ASSUME IInv, DeclareModule
  PROVE  IInv'
<1>1. InputOK /\ FramesOK /\ DisplayOK /\ PassOK /\ TableOK /\ ModNameOK
  BY DEF IInv
<1>2. pass.module \in Nat /\ pass.private \in Nat
  BY <1>1 DEF InputOK, Passes
<1>3. /\ Head(source) \in Read /\ Tail(source) \in Seq(Read) /\ Head(source) \in Tokens
      /\ Len(Tail(source)) = Len(source) - 1 /\ Tail(source)[1] = source[2]
      /\ Len(source) \in Nat /\ Len(source) > 1
  <2>1. source \in Seq(Read) /\ source # <<>> /\ Len(source) > 1
    BY <1>1 DEF InputOK, Declaring, DeclareModule
  <2>2. Len(source) \in Nat
    BY <2>1, LenProperties
  <2>3. /\ Head(source) \in Read /\ Tail(source) \in Seq(Read)
        /\ Len(Tail(source)) = Len(source) - 1
        /\ \A i \in 1 .. Len(Tail(source)) : Tail(source)[i] = source[i + 1]
    BY <2>1, HeadTailProperties
  <2>4. Tail(source)[1] = source[2]
    BY <2>1, <2>2, <2>3
  <2> QED BY <2>1, <2>2, <2>3, <2>4 DEF Read
<1>4. Tail(source) # <<>>
  BY <1>3, EmptySeq
<1>5. source[2] \in Read /\ Tail(Tail(source)) \in Seq(Read)
  <2>1. source[2] = Head(Tail(source))
    BY <1>3, <1>4
  <2> QED BY <1>3, <1>4, <2>1, ReadOn
<1>6. tokens' \in Seq(Read)
  <2>1. <<Head(source), token>> \in Seq(Read)
    BY <1>1, <1>3 DEF InputOK
  <2> QED BY <1>1, <2>1, ConcatProperties DEF InputOK, DeclareModule
<1>7. /\ pass' \in Passes /\ pass'.previous = Head(source) /\ pass'.modl = pass.modl
  <2>1. pass' = [pass EXCEPT !.module = @ + 1, !.previous = Head(source)]
        \/ pass' = [pass EXCEPT !.previous = Head(source)]
    BY DEF DeclareModule
  <2>2. pass \in Passes /\ pass.module + 1 \in Nat
    BY <1>1, <1>2 DEF InputOK
  <2>3. CASE pass' = [pass EXCEPT !.module = @ + 1, !.previous = Head(source)]
    BY <1>3, <2>2, <2>3 DEF Passes
  <2>4. CASE pass' = [pass EXCEPT !.previous = Head(source)]
    BY <1>3, <2>2, <2>4 DEF Passes
  <2> QED BY <2>1, <2>3, <2>4
<1>8. InputOK'
  BY <1>1, <1>3, <1>5, <1>6, <1>7 DEF InputOK, DeclareModule
<1>9. FramesOK' /\ ModNameOK'
  BY <1>1, SameFrames DEF DeclareModule, ModNameOK, term
<1>10. DisplayOK' /\ PassOK'
  <2>1. CASE Head(source).sym = "USR_" /\ initmod(Head(source).str)
    <3>1. Head(source).str \in Given
      BY <1>3, <2>1 DEF Read
    <3> QED BY <1>1, <1>7, <2>1, <3>1, InitmodType
  <2>2. CASE UNCHANGED display
    BY <1>1, <1>7, <2>2, SameDisplay
  <2> QED BY <2>1, <2>2 DEF DeclareModule
<1>11. TableOK'
  BY <1>1, SameTable DEF DeclareModule, term
<1> QED BY <1>8, <1>9, <1>10, <1>11 DEF IInv

(* The first pass ends. *)
LEMMA EndPassStep ==
  ASSUME IInv, EndPass
  PROVE  IInv'
<1>1. InputOK /\ FramesOK /\ DisplayOK /\ PassOK /\ TableOK /\ ModNameOK
  BY DEF IInv
<1>2. InputOK'
  <2> DEFINE all == Reversed(<<token>> \o tokens)
  <2>1. <<token>> \o tokens \in Seq(Read) /\ <<token>> \o tokens # <<>>
    BY <1>1, PushType DEF InputOK
  <2>2. all \in Seq(Read)
    BY <2>1, ReversedType
  <2>3. all # <<>>
    <3>1. DOMAIN all = DOMAIN (<<token>> \o tokens)
      BY DEF Reversed
    <3>2. 1 \in DOMAIN (<<token>> \o tokens)
      BY <2>1, EmptySeq, LenProperties
    <3>3. DOMAIN <<>> = {}
      OBVIOUS
    <3> QED BY <3>1, <3>2, <3>3
  <2>4. token' = Head(all) /\ tokens' = Tail(all) /\ reading' = "no"
        /\ UNCHANGED <<program, source, pass>>
    BY DEF EndPass
  <2> HIDE DEF all
  <2>5. token' \in Read /\ tokens' \in Seq(Read)
    BY <2>2, <2>3, <2>4, ReadOn
  <2> QED BY <1>1, <2>4, <2>5 DEF InputOK
<1>3. FramesOK'
  BY <1>1, SameFrames DEF EndPass, term
<1>4. DisplayOK' /\ PassOK'
  <2>1. pass.hide \in Indices /\ pass.modl \in Indices /\ pass.hcnt \in Nat
    BY <1>1 DEF InputOK, Passes
  <2> QED BY <1>1, <2>1 DEF EndPass, DisplayOK, PassOK
<1>5. TableOK'
  BY <1>1, SameTable DEF EndPass, term
<1>6. ModNameOK'
  BY <1>1 DEF EndPass, ModNameOK
<1> QED BY <1>2, <1>3, <1>4, <1>5, <1>6 DEF IInv

(* Too many sections or modules inside each other. *)
LEMMA DeclareTooDeepStep ==
  ASSUME IInv, DeclareTooDeep
  PROVE  IInv'
<1>1. InputOK /\ FramesOK /\ DisplayOK /\ PassOK /\ TableOK /\ ModNameOK
  BY DEF IInv
<1>2. InputOK'
  <2>1. CASE token.sym = "MODULE_"
    <3>1. source # <<>>
      BY <2>1 DEF DeclareTooDeep, TooDeep
    <3>2. Head(source) \in Read /\ Tail(source) \in Seq(Read)
      BY <1>1, <3>1, ReadOn DEF InputOK
    <3>3. <<token>> \o tokens \in Seq(Read)
      BY <1>1, PushType DEF InputOK
    <3> QED BY <1>1, <2>1, <3>2, <3>3 DEF InputOK, DeclareTooDeep, abortexecution_
  <2>2. CASE token.sym # "MODULE_"
    BY <1>1, <2>2 DEF InputOK, DeclareTooDeep, abortexecution_
  <2> QED BY <2>1, <2>2
<1>3. FramesOK'
  BY <1>1, OneFrame DEF DeclareTooDeep, abortexecution_, term
<1>4. DisplayOK' /\ PassOK'
  BY <1>1, SameDisplay DEF DeclareTooDeep, abortexecution_
<1>5. TableOK'
  BY <1>1, SameTable DEF DeclareTooDeep, abortexecution_, term
<1>6. ModNameOK'
  BY <1>1 DEF DeclareTooDeep, abortexecution_, ModNameOK
<1> QED BY <1>2, <1>3, <1>4, <1>5, <1>6 DEF IInv

(* A command begins. *)
LEMMA CommandStep ==
  ASSUME IInv, Command
  PROVE  IInv'
<1>1. InputOK /\ FramesOK /\ DisplayOK /\ PassOK /\ TableOK /\ ModNameOK
  BY DEF IInv
<1>2. InputOK' /\ pass' = pass
  BY <1>1, KeepType DEF Command, Ask, Keep, InputOK, input, At
<1>3. FramesOK'
  <2>1. frames # <<>> /\ name' = name
    BY DEF Command, At, term
  <2>2. /\ <<"compound", "endmodule">> \in Seq(Frames)
        /\ \A i \in DOMAIN <<"compound", "endmodule">> : <<"compound", "endmodule">>[i] \notin {"equals", "enter"}
    BY DEF Frames
  <2>3. /\ <<"compound", "endcommand">> \in Seq(Frames)
        /\ \A i \in DOMAIN <<"compound", "endcommand">> : <<"compound", "endcommand">>[i] \notin {"equals", "enter"}
    BY DEF Frames
  <2>4. /\ <<"factor", "execute">> \in Seq(Frames)
        /\ \A i \in DOMAIN <<"factor", "execute">> : <<"factor", "execute">>[i] \notin {"equals", "enter"}
    BY DEF Frames
  <2> QED BY <1>1, <2>1, <2>2, <2>3, <2>4, GoOn DEF Command
<1>4. DisplayOK' /\ PassOK'
  BY <1>1, <1>2, SameDisplay DEF Command
<1>5. TableOK'
  <2>1. body' = body \/ body' = <<>>
    BY DEF Command
  <2>2. <<>> \in Seq(DOMAIN symtab) /\ UNCHANGED table
    BY EmptySeq DEF Command
  <2> QED BY <1>1, <2>1, <2>2 DEF TableOK, table
<1>6. ModNameOK'
  <2>1. CASE token.sym = "MODULE_" /\ hide_inner_modules1
    <3>1. tokens # <<>> => Head(tokens) \in Read
      BY <1>1, ReadOn DEF InputOK
    <3>2. tokens # <<>> /\ Head(tokens).sym = "USR_" => Head(tokens).str[1] \in Names
      BY <3>1, GivenNames DEF Read
    <3> QED BY <2>1, <3>2 DEF hide_inner_modules1, ModNameOK
  <2>2. CASE mod_name' = mod_name
    BY <1>1, <2>2 DEF ModNameOK
  <2> QED BY <2>1, <2>2 DEF Command
<1> QED BY <1>2, <1>3, <1>4, <1>5, <1>6 DEF IInv

(* After a module. *)
LEMMA EndModuleStep ==
  ASSUME IInv, EndModule
  PROVE  IInv'
<1>1. InputOK /\ FramesOK /\ DisplayOK /\ PassOK /\ TableOK /\ ModNameOK
  BY DEF IInv
<1>2. InputOK' /\ pass' = pass
  BY <1>1, KeepType DEF EndModule, Ask, Keep, InputOK, input, At
<1>3. FramesOK'
  BY <1>1, OneFrame DEF EndModule, term
<1>4. DisplayOK' /\ PassOK'
  BY <1>1, <1>2, SameDisplay DEF EndModule
<1>5. TableOK'
  <2>1. /\ Len(symtab) \in Nat /\ DOMAIN symtab = 1 .. Len(symtab)
        /\ \A i \in DOMAIN symtab : symtab[i] \in Entries
    BY <1>1, LenProperties, ElementOfSeq DEF TableOK
  <2>2. \A i \in DOMAIN symtab :
          LET e == [symtab[i] EXCEPT !.is_ok = @ \/ i \in LastMember]
          IN e \in Entries /\ e.body = symtab[i].body
    BY <2>1 DEF Entries
  <2>3. /\ symtab' = [i \in DOMAIN symtab |->
                       [symtab[i] EXCEPT !.is_ok = @ \/ i \in LastMember]]
        /\ unhashed' = unhashed \cup UNION {Hashed(symtab[i].name) : i \in Inner}
        /\ body' = body
    BY DEF EndModule, term
  <2>4. symtab' \in [1 .. Len(symtab) -> Entries] /\ DOMAIN symtab' = DOMAIN symtab
        /\ \A i \in DOMAIN symtab' : symtab'[i].body = symtab[i].body
    BY <2>1, <2>2, <2>3
  <2>5. symtab' \in Seq(Entries)
    BY <2>1, <2>4, SeqDef
  <2>6. unhashed' \subseteq DOMAIN symtab
    BY <1>1, <2>3 DEF TableOK, Hashed
  <2> QED BY <1>1, <2>3, <2>4, <2>5, <2>6 DEF TableOK
<1>6. ModNameOK'
  BY <1>1 DEF EndModule, ModNameOK
<1> QED BY <1>2, <1>3, <1>4, <1>5, <1>6 DEF IInv

(* After a definition. *)
LEMMA EndCommandStep ==
  ASSUME IInv, EndCommand
  PROVE  IInv'
<1>1. InputOK /\ FramesOK /\ DisplayOK /\ PassOK /\ TableOK /\ ModNameOK
  BY DEF IInv
<1>2. InputOK' /\ pass' = pass
  BY <1>1, KeepType DEF EndCommand, Ask, Keep, InputOK, input, At
<1>3. FramesOK'
  BY <1>1, OneFrame DEF EndCommand, term
<1>4. DisplayOK' /\ PassOK'
  BY <1>1, <1>2, SameDisplay DEF EndCommand
<1>5. TableOK'
  BY <1>1, SameTable DEF EndCommand, term
<1>6. ModNameOK'
  BY <1>1 DEF EndCommand, ModNameOK
<1> QED BY <1>2, <1>3, <1>4, <1>5, <1>6 DEF IInv

(* A term is executed. *)
LEMMA ExecuteStep ==
  ASSUME IInv, Execute
  PROVE  IInv'
<1>1. InputOK /\ FramesOK /\ DisplayOK /\ PassOK /\ TableOK /\ ModNameOK
  BY DEF IInv
<1>2. InputOK' /\ pass' = pass
  BY <1>1, KeepType DEF Execute, Ask, Keep, InputOK, input, At
<1>3. FramesOK'
  BY <1>1, OneFrame DEF Execute
<1>4. DisplayOK' /\ PassOK'
  BY <1>1, <1>2, SameDisplay DEF Execute
<1>5. TableOK'
  BY <1>1, SameTable DEF Execute
<1>6. ModNameOK'
  BY <1>1 DEF Execute, ModNameOK
<1> QED BY <1>2, <1>3, <1>4, <1>5, <1>6 DEF IInv

(* A name in a term. *)
LEMMA FactorStep ==
  ASSUME IInv, Factor
  PROVE  IInv'
<1>1. InputOK /\ FramesOK /\ DisplayOK /\ PassOK /\ TableOK /\ ModNameOK
  BY DEF IInv
<1>2. InputOK' /\ pass' = pass
  BY <1>1, KeepType DEF Factor, Ask, Keep, InputOK, input, At
<1>3. FramesOK'
  BY <1>1, SameFrames DEF Factor
<1>4. DisplayOK' /\ PassOK'
  BY <1>1, <1>2, SameDisplay DEF Factor
<1>5. TableOK'
  <2>1. CASE token.sym = "USR_"
    <3>1. token.str \in Given /\ lookup(token.str)
      BY <1>1, <2>1 DEF Factor, InputOK, Read
    <3> QED BY <1>1, <3>1, LookupType
  <2>2. CASE token.sym # "USR_"
    BY <1>1, <2>2, SameTable DEF Factor
  <2> QED BY <2>1, <2>2
<1>6. ModNameOK'
  BY <1>1 DEF Factor, ModNameOK
<1> QED BY <1>2, <1>3, <1>4, <1>5, <1>6 DEF IInv

(* A term ends. *)
LEMMA EndTermStep ==
  ASSUME IInv, EndTerm
  PROVE  IInv'
<1>1. InputOK /\ FramesOK /\ DisplayOK /\ PassOK /\ TableOK /\ ModNameOK
  BY DEF IInv
<1>2. InputOK' /\ pass' = pass
  BY <1>1, KeepType DEF EndTerm, Ask, Keep, InputOK, input, At
<1>3. FramesOK'
  <2>1. frames # <<>> /\ name' = name
    BY DEF EndTerm, At, term
  <2>2. /\ <<>> \in Seq(Frames)
        /\ \A i \in DOMAIN <<>> : <<>>[i] \notin {"equals", "enter"}
    BY DEF Frames
  <2> QED BY <1>1, <2>1, <2>2, GoOn DEF EndTerm
<1>4. DisplayOK' /\ PassOK'
  BY <1>1, <1>2, SameDisplay DEF EndTerm
<1>5. TableOK'
  BY <1>1, SameTable DEF EndTerm, term
<1>6. ModNameOK'
  BY <1>1 DEF EndTerm, ModNameOK
<1> QED BY <1>2, <1>3, <1>4, <1>5, <1>6 DEF IInv

(* MODULE. *)
LEMMA CompoundModuleStep ==
  ASSUME IInv, CompoundModule
  PROVE  IInv'
<1>1. InputOK /\ FramesOK /\ DisplayOK /\ PassOK /\ TableOK /\ ModNameOK
  BY DEF IInv
<1>2. InputOK' /\ pass' = pass
  BY <1>1, KeepType DEF CompoundModule, Ask, Keep, InputOK, input, At
<1>3. FramesOK'
  <2>1. frames # <<>> /\ name' = name
    BY DEF CompoundModule, At, term
  <2>2. /\ <<"module">> \in Seq(Frames)
        /\ \A i \in DOMAIN <<"module">> : <<"module">>[i] \notin {"equals", "enter"}
    BY DEF Frames
  <2> QED BY <1>1, <2>1, <2>2, GoOn DEF CompoundModule
<1>4. DisplayOK' /\ PassOK'
  BY <1>1, <1>2, SameDisplay DEF CompoundModule
<1>5. TableOK'
  BY <1>1, SameTable DEF CompoundModule, term
<1>6. ModNameOK'
  BY <1>1 DEF CompoundModule, ModNameOK
<1> QED BY <1>2, <1>3, <1>4, <1>5, <1>6 DEF IInv

(* A private part begins. *)
LEMMA CompoundPrivateStep ==
  ASSUME IInv, CompoundPrivate
  PROVE  IInv'
<1>1. InputOK /\ FramesOK /\ DisplayOK /\ PassOK /\ TableOK /\ ModNameOK
  BY DEF IInv
<1>2. InputOK' /\ pass' = pass
  BY <1>1, KeepType DEF CompoundPrivate, Ask, Keep, InputOK, input, At
<1>3. FramesOK'
  <2>1. frames # <<>> /\ name' = name
    BY DEF CompoundPrivate, At, term
  <2>2. /\ <<"definition", "sequence", "public">> \in Seq(Frames)
        /\ \A i \in DOMAIN <<"definition", "sequence", "public">> : <<"definition", "sequence", "public">>[i] \notin {"equals", "enter"}
    BY DEF Frames
  <2> QED BY <1>1, <2>1, <2>2, GoOn DEF CompoundPrivate
<1>4. DisplayOK' /\ PassOK'
  BY <1>1, <1>2, InitprivType DEF CompoundPrivate
<1>5. TableOK'
  BY <1>1, SameTable DEF CompoundPrivate, term
<1>6. ModNameOK'
  BY <1>1 DEF CompoundPrivate, ModNameOK
<1> QED BY <1>2, <1>3, <1>4, <1>5, <1>6 DEF IInv

(* A public part. *)
LEMMA CompoundPublicStep ==
  ASSUME IInv, CompoundPublic
  PROVE  IInv'
<1>1. InputOK /\ FramesOK /\ DisplayOK /\ PassOK /\ TableOK /\ ModNameOK
  BY DEF IInv
<1>2. InputOK' /\ pass' = pass
  BY <1>1, KeepType DEF CompoundPublic, Ask, Keep, InputOK, input, At
<1>3. FramesOK'
  <2>1. frames # <<>> /\ name' = name
    BY DEF CompoundPublic, At, term
  <2>2. /\ <<"definition", "sequence">> \in Seq(Frames)
        /\ \A i \in DOMAIN <<"definition", "sequence">> : <<"definition", "sequence">>[i] \notin {"equals", "enter"}
    BY DEF Frames
  <2> QED BY <1>1, <2>1, <2>2, GoOn DEF CompoundPublic
<1>4. DisplayOK' /\ PassOK'
  BY <1>1, <1>2, SameDisplay DEF CompoundPublic
<1>5. TableOK'
  BY <1>1, SameTable DEF CompoundPublic, term
<1>6. ModNameOK'
  BY <1>1 DEF CompoundPublic, ModNameOK
<1> QED BY <1>2, <1>3, <1>4, <1>5, <1>6 DEF IInv

(* Nothing is defined. *)
LEMMA CompoundEmptyStep ==
  ASSUME IInv, CompoundEmpty
  PROVE  IInv'
<1>1. InputOK /\ FramesOK /\ DisplayOK /\ PassOK /\ TableOK /\ ModNameOK
  BY DEF IInv
<1>2. InputOK' /\ pass' = pass
  BY <1>1, KeepType DEF CompoundEmpty, Ask, Keep, InputOK, input, At
<1>3. FramesOK'
  <2>1. frames # <<>> /\ name' = name
    BY DEF CompoundEmpty, At, term
  <2>2. /\ <<>> \in Seq(Frames)
        /\ \A i \in DOMAIN <<>> : <<>>[i] \notin {"equals", "enter"}
    BY DEF Frames
  <2> QED BY <1>1, <2>1, <2>2, GoOn DEF CompoundEmpty
<1>4. DisplayOK' /\ PassOK'
  BY <1>1, <1>2, SameDisplay DEF CompoundEmpty
<1>5. TableOK'
  BY <1>1, SameTable DEF CompoundEmpty, term
<1>6. ModNameOK'
  BY <1>1 DEF CompoundEmpty, ModNameOK
<1> QED BY <1>2, <1>3, <1>4, <1>5, <1>6 DEF IInv

(* A module begins. *)
LEMMA ModuleNameStep ==
  ASSUME IInv, ModuleName
  PROVE  IInv'
<1>1. InputOK /\ FramesOK /\ DisplayOK /\ PassOK /\ TableOK /\ ModNameOK
  BY DEF IInv
<1>2. InputOK' /\ pass' = pass
  BY <1>1, KeepType DEF ModuleName, Ask, Keep, InputOK, input, At
<1>3. FramesOK'
  <2>1. frames # <<>> /\ name' = name
    BY DEF ModuleName, At, term
  <2>2. /\ <<"compound", "exitmod">> \in Seq(Frames)
        /\ \A i \in DOMAIN <<"compound", "exitmod">> : <<"compound", "exitmod">>[i] \notin {"equals", "enter"}
    BY DEF Frames
  <2> QED BY <1>1, <2>1, <2>2, GoOn DEF ModuleName
<1>4. DisplayOK' /\ PassOK'
  <2>1. token.str \in Given
    BY <1>1 DEF ModuleName, InputOK, Read
  <2> QED BY <1>1, <1>2, <2>1, InitmodType DEF ModuleName
<1>5. TableOK'
  BY <1>1, SameTable DEF ModuleName, term
<1>6. ModNameOK'
  BY <1>1 DEF ModuleName, ModNameOK
<1> QED BY <1>2, <1>3, <1>4, <1>5, <1>6 DEF IInv

(* An error in a module or section. *)
LEMMA CompoundFailsStep ==
  ASSUME IInv, CompoundFails
  PROVE  IInv'
<1>1. InputOK /\ FramesOK /\ DisplayOK /\ PassOK /\ TableOK /\ ModNameOK
  BY DEF IInv
<1>2. InputOK'
  BY <1>1, KeepType DEF CompoundFails, abortexecution_
<1>3. FramesOK'
  BY <1>1, OneFrame DEF CompoundFails, abortexecution_, term
<1>4. DisplayOK' /\ PassOK'
  BY <1>1, SameDisplay DEF CompoundFails, abortexecution_
<1>5. TableOK'
  BY <1>1, SameTable DEF CompoundFails, abortexecution_, term
<1>6. ModNameOK'
  BY <1>1 DEF CompoundFails, abortexecution_, ModNameOK
<1> QED BY <1>2, <1>3, <1>4, <1>5, <1>6 DEF IInv

(* A private part ends. *)
LEMMA StopPrivateStep ==
  ASSUME IInv, StopPrivate
  PROVE  IInv'
<1>1. InputOK /\ FramesOK /\ DisplayOK /\ PassOK /\ TableOK /\ ModNameOK
  BY DEF IInv
<1>2. InputOK' /\ pass' = pass
  BY <1>1, KeepType DEF StopPrivate, Ask, Keep, InputOK, input, At
<1>3. FramesOK'
  <2>1. frames # <<>> /\ name' = name
    BY DEF StopPrivate, At, term
  <2>2. /\ <<"compound", "exitpriv">> \in Seq(Frames)
        /\ \A i \in DOMAIN <<"compound", "exitpriv">> : <<"compound", "exitpriv">>[i] \notin {"equals", "enter"}
    BY DEF Frames
  <2> QED BY <1>1, <2>1, <2>2, GoOn DEF StopPrivate
<1>4. DisplayOK' /\ PassOK'
  BY <1>1, <1>2, StopprivType DEF StopPrivate
<1>5. TableOK'
  BY <1>1, SameTable DEF StopPrivate, term
<1>6. ModNameOK'
  BY <1>1 DEF StopPrivate, ModNameOK
<1> QED BY <1>2, <1>3, <1>4, <1>5, <1>6 DEF IInv

(* A section ends. *)
LEMMA ExitPrivateStep ==
  ASSUME IInv, ExitPrivate
  PROVE  IInv'
<1>1. InputOK /\ FramesOK /\ DisplayOK /\ PassOK /\ TableOK /\ ModNameOK
  BY DEF IInv
<1>2. InputOK' /\ pass' = pass
  BY <1>1, KeepType DEF ExitPrivate, Ask, Keep, InputOK, input, At
<1>3. FramesOK'
  <2>1. frames # <<>> /\ name' = name
    BY DEF ExitPrivate, At, term
  <2>2. /\ <<>> \in Seq(Frames)
        /\ \A i \in DOMAIN <<>> : <<>>[i] \notin {"equals", "enter"}
    BY DEF Frames
  <2> QED BY <1>1, <2>1, <2>2, GoOn DEF ExitPrivate
<1>4. DisplayOK' /\ PassOK'
  BY <1>1, <1>2, ExitprivType DEF ExitPrivate
<1>5. TableOK'
  BY <1>1, SameTable DEF ExitPrivate, term
<1>6. ModNameOK'
  BY <1>1 DEF ExitPrivate, ModNameOK
<1> QED BY <1>2, <1>3, <1>4, <1>5, <1>6 DEF IInv

(* A module ends. *)
LEMMA ExitModuleStep ==
  ASSUME IInv, ExitModule
  PROVE  IInv'
<1>1. InputOK /\ FramesOK /\ DisplayOK /\ PassOK /\ TableOK /\ ModNameOK
  BY DEF IInv
<1>2. InputOK' /\ pass' = pass
  BY <1>1, KeepType DEF ExitModule, Ask, Keep, InputOK, input, At
<1>3. FramesOK'
  <2>1. frames # <<>> /\ name' = name
    BY DEF ExitModule, At, term
  <2>2. /\ <<>> \in Seq(Frames)
        /\ \A i \in DOMAIN <<>> : <<>>[i] \notin {"equals", "enter"}
    BY DEF Frames
  <2> QED BY <1>1, <2>1, <2>2, GoOn DEF ExitModule
<1>4. DisplayOK' /\ PassOK'
  BY <1>1, <1>2, ExitmodType DEF ExitModule
<1>5. TableOK'
  BY <1>1, SameTable DEF ExitModule, term
<1>6. ModNameOK'
  BY <1>1 DEF ExitModule, ModNameOK
<1> QED BY <1>2, <1>3, <1>4, <1>5, <1>6 DEF IInv

(* The next definition, or no more. *)
LEMMA SequenceStep ==
  ASSUME IInv, Sequence
  PROVE  IInv'
<1>1. InputOK /\ FramesOK /\ DisplayOK /\ PassOK /\ TableOK /\ ModNameOK
  BY DEF IInv
<1>2. InputOK' /\ pass' = pass
  BY <1>1, KeepType DEF Sequence, Ask, Keep, InputOK, input, At
<1>3. FramesOK'
  <2>1. frames # <<>> /\ name' = name
    BY DEF Sequence, At, term
  <2>2. /\ <<"definition", "sequence">> \in Seq(Frames)
        /\ \A i \in DOMAIN <<"definition", "sequence">> : <<"definition", "sequence">>[i] \notin {"equals", "enter"}
    BY DEF Frames
  <2>3. /\ <<>> \in Seq(Frames)
        /\ \A i \in DOMAIN <<>> : <<>>[i] \notin {"equals", "enter"}
    BY DEF Frames
  <2> QED BY <1>1, <2>1, <2>2, <2>3, GoOn DEF Sequence
<1>4. DisplayOK' /\ PassOK'
  BY <1>1, <1>2, SameDisplay DEF Sequence
<1>5. TableOK'
  BY <1>1, SameTable DEF Sequence, term
<1>6. ModNameOK'
  BY <1>1 DEF Sequence, ModNameOK
<1> QED BY <1>2, <1>3, <1>4, <1>5, <1>6 DEF IInv

(* A definition begins. *)
LEMMA DefinitionStep ==
  ASSUME IInv, Definition
  PROVE  IInv'
<1>1. InputOK /\ FramesOK /\ DisplayOK /\ PassOK /\ TableOK /\ ModNameOK
  BY DEF IInv
<1>2. InputOK' /\ pass' = pass
  BY <1>1, KeepType DEF Definition, Ask, Keep, InputOK, input, At
<1>3. FramesOK'
  <2>1. frames # <<>>
    BY DEF Definition, At
  <2>2. CASE token.sym \in Definers \cup {"PRIVATE"} /\ Then(<<"compound", "period">>) /\ UNCHANGED name
    <3>1. /\ <<"compound", "period">> \in Seq(Frames)
          /\ \A i \in DOMAIN <<"compound", "period">> :
               <<"compound", "period">>[i] \notin {"equals", "enter"}
      BY DEF Frames
    <3> QED BY <1>1, <2>1, <2>2, <3>1, GoOn
  <2>3. CASE token.sym = "USR_" /\ name' = token.str /\ Then(<<"equals">>)
    <3>1. <<"equals">> \in Seq(Frames)
      BY DEF Frames
    <3>2. name' \in Given
      BY <1>1, <2>3 DEF InputOK, Read
    <3> QED BY <1>1, <2>1, <2>3, <3>1, <3>2, GoOn
  <2>4. CASE Then(<<>>) /\ UNCHANGED name
    <3>1. <<>> \in Seq(Frames) /\ DOMAIN <<>> = {}
      BY EmptySeq
    <3> QED BY <1>1, <2>1, <2>4, <3>1, GoOn
  <2> QED BY <2>2, <2>3, <2>4 DEF Definition
<1>4. DisplayOK' /\ PassOK'
  BY <1>1, <1>2, SameDisplay DEF Definition
<1>5. TableOK'
  BY <1>1, SameTable DEF Definition
<1>6. ModNameOK'
  BY <1>1 DEF Definition, ModNameOK
<1> QED BY <1>2, <1>3, <1>4, <1>5, <1>6 DEF IInv

(* END is expected. *)
LEMMA PeriodStep ==
  ASSUME IInv, Period
  PROVE  IInv'
<1>1. InputOK /\ FramesOK /\ DisplayOK /\ PassOK /\ TableOK /\ ModNameOK
  BY DEF IInv
<1>2. InputOK' /\ pass' = pass
  BY <1>1, KeepType DEF Period, Ask, Keep, InputOK, input, At
<1>3. FramesOK'
  <2>1. frames # <<>> /\ name' = name
    BY DEF Period, At, term
  <2>2. /\ <<>> \in Seq(Frames)
        /\ \A i \in DOMAIN <<>> : <<>>[i] \notin {"equals", "enter"}
    BY DEF Frames
  <2> QED BY <1>1, <2>1, <2>2, GoOn DEF Period
<1>4. DisplayOK' /\ PassOK'
  BY <1>1, <1>2, SameDisplay DEF Period
<1>5. TableOK'
  BY <1>1, SameTable DEF Period, term
<1>6. ModNameOK'
  BY <1>1 DEF Period, ModNameOK
<1> QED BY <1>2, <1>3, <1>4, <1>5, <1>6 DEF IInv

(* == is expected. *)
LEMMA EqualsStep ==
  ASSUME IInv, Equals
  PROVE  IInv'
<1>1. InputOK /\ FramesOK /\ DisplayOK /\ PassOK /\ TableOK /\ ModNameOK
  BY DEF IInv
<1>2. InputOK' /\ pass' = pass
  BY <1>1, KeepType DEF Equals, Ask, Keep, InputOK, input, At
<1>3. FramesOK'
  <2>1. frames # <<>> /\ Head(frames) = "equals" /\ name' = name
    BY DEF Equals, At
  <2>2. name \in Given
    <3>1. 1 \in DOMAIN frames /\ frames[1] = "equals"
      BY <1>1, <2>1, EmptySeq, LenProperties DEF FramesOK
    <3> QED BY <1>1, <3>1 DEF FramesOK
  <2>3. <<"factor", "enter">> \in Seq(Frames)
    BY DEF Frames
  <2> QED BY <1>1, <2>1, <2>2, <2>3, GoOn DEF Equals
<1>4. DisplayOK' /\ PassOK'
  BY <1>1, <1>2, SameDisplay DEF Equals
<1>5. TableOK'
  BY <1>1, EmptySeq DEF Equals, TableOK, table
<1>6. ModNameOK'
  BY <1>1 DEF Equals, ModNameOK
<1> QED BY <1>2, <1>3, <1>4, <1>5, <1>6 DEF IInv

(* A name gets its body. *)
LEMMA EnterStep ==
  ASSUME IInv, Enter
  PROVE  IInv'
<1>1. InputOK /\ FramesOK /\ DisplayOK /\ PassOK /\ TableOK /\ ModNameOK
  BY DEF IInv
<1>2. InputOK' /\ pass' = pass
  BY <1>1, KeepType DEF Enter, Ask, Keep, InputOK, input, At
<1>3. FramesOK'
  <2>1. frames # <<>> /\ name' = name
    BY DEF Enter, At
  <2>2. <<>> \in Seq(Frames) /\ DOMAIN <<>> = {}
    BY EmptySeq
  <2> QED BY <1>1, <2>1, <2>2, GoOn DEF Enter
<1>4. DisplayOK' /\ PassOK'
  BY <1>1, <1>2, SameDisplay DEF Enter
<1>5. TableOK'
  <2>1. name \in Given
    <3>1. frames # <<>> /\ Head(frames) = "enter"
      BY DEF Enter, At
    <3>2. 1 \in DOMAIN frames /\ frames[1] = "enter"
      BY <1>1, <3>1, EmptySeq, LenProperties DEF FramesOK
    <3> QED BY <1>1, <3>2 DEF FramesOK
  <2>2. /\ Len(symtab) \in Nat /\ DOMAIN symtab = 1 .. Len(symtab)
        /\ \A i \in DOMAIN symtab : symtab[i] \in Entries
        /\ body \in Seq(DOMAIN symtab) /\ body' = body
    BY <1>1, LenProperties, ElementOfSeq DEF TableOK, Enter
  <2>3. body \in Seq(Nat \ {0}) /\ body \in Seq(1 .. Len(symtab) + 1)
    <3>1. DOMAIN symtab \subseteq Nat \ {0} /\ DOMAIN symtab \subseteq 1 .. Len(symtab) + 1
      BY <2>2
    <3> QED BY <2>2, <3>1, SeqMonotonic
  <2>4. CASE qualify(name) # {}
    <3>1. \A i \in DOMAIN symtab : LET e == [symtab[i] EXCEPT !.body = body]
                                  IN e \in Entries /\ e.body = body
      BY <2>2, <2>3 DEF Entries
    <3>2. symtab' = [i \in DOMAIN symtab |->
                      IF i \in qualify(name) THEN [symtab[i] EXCEPT !.body = body]
                      ELSE symtab[i]]
          /\ unhashed' = unhashed
      BY <2>4 DEF Enter
    <3>3. /\ symtab' \in [1 .. Len(symtab) -> Entries] /\ DOMAIN symtab' = DOMAIN symtab
          /\ \A i \in DOMAIN symtab' : symtab'[i].body \in {body, symtab[i].body}
      BY <2>2, <3>1, <3>2
    <3>4. symtab' \in Seq(Entries)
      BY <2>2, <3>3, SeqDef
    <3> QED BY <1>1, <2>2, <3>2, <3>3, <3>4 DEF TableOK
  <2>5. CASE qualify(name) = {}
    <3> DEFINE e == [name |-> classify(name), body |-> body, is_ok |-> FALSE]
    <3>1. classify(name) \in Keys
      BY <1>1, <2>1, GivenNames, ClassifyType
    <3>2. e \in Entries /\ e.body \in Seq(1 .. Len(symtab) + 1)
      BY <2>3, <3>1 DEF Entries
    <3>3. symtab' = Append(symtab, e) /\ unhashed' = unhashed \cup Hashed(classify(name))
      BY <2>5 DEF Enter
    <3>4. Hashed(classify(name)) \subseteq 1 .. Len(symtab) + 1
      BY <2>2 DEF Hashed
    <3> HIDE DEF e
    <3>5. /\ symtab' \in Seq(Entries) /\ DOMAIN symtab' = 1 .. Len(symtab) + 1
          /\ unhashed \subseteq DOMAIN symtab' /\ body \in Seq(DOMAIN symtab')
          /\ \A i \in DOMAIN symtab' : symtab'[i].body \in Seq(DOMAIN symtab')
      BY <1>1, <3>2, <3>3, MoreEntries
    <3> QED BY <2>2, <3>3, <3>4, <3>5 DEF TableOK
  <2> QED BY <2>4, <2>5
<1>6. ModNameOK'
  BY <1>1 DEF Enter, ModNameOK
<1> QED BY <1>2, <1>3, <1>4, <1>5, <1>6 DEF IInv

(* Every step keeps it. *)
LEMMA NextIInv == IInv /\ [Next]_vars => IInv'
<1> SUFFICES ASSUME IInv, [Next]_vars PROVE IInv'
  OBVIOUS
<1>1. CASE GetSymbol
  BY <1>1, GetStep
<1>2. CASE Quit
  BY <1>2, QuitStep
<1>3. CASE DeclareModule
  BY <1>3, DeclareModuleStep
<1>4. CASE DeclarePrivate
  BY <1>4, DeclarePrivateStep
<1>5. CASE DeclarePublic
  BY <1>5, DeclarePublicStep
<1>6. CASE DeclareName
  BY <1>6, DeclareNameStep
<1>7. CASE DeclareOther
  BY <1>7, DeclareOtherStep
<1>8. CASE DeclareEnd
  BY <1>8, DeclareEndStep
<1>9. CASE EndPass
  BY <1>9, EndPassStep
<1>10. CASE DeclareTooDeep
  BY <1>10, DeclareTooDeepStep
<1>11. CASE Command
  BY <1>11, CommandStep
<1>12. CASE EndModule
  BY <1>12, EndModuleStep
<1>13. CASE EndCommand
  BY <1>13, EndCommandStep
<1>14. CASE Execute
  BY <1>14, ExecuteStep
<1>15. CASE Factor
  BY <1>15, FactorStep
<1>16. CASE EndTerm
  BY <1>16, EndTermStep
<1>17. CASE CompoundModule
  BY <1>17, CompoundModuleStep
<1>18. CASE CompoundPrivate
  BY <1>18, CompoundPrivateStep
<1>19. CASE CompoundPublic
  BY <1>19, CompoundPublicStep
<1>20. CASE CompoundEmpty
  BY <1>20, CompoundEmptyStep
<1>21. CASE ModuleName
  BY <1>21, ModuleNameStep
<1>22. CASE CompoundFails
  BY <1>22, CompoundFailsStep
<1>23. CASE StopPrivate
  BY <1>23, StopPrivateStep
<1>24. CASE ExitPrivate
  BY <1>24, ExitPrivateStep
<1>25. CASE ExitModule
  BY <1>25, ExitModuleStep
<1>26. CASE Sequence
  BY <1>26, SequenceStep
<1>27. CASE Definition
  BY <1>27, DefinitionStep
<1>28. CASE Period
  BY <1>28, PeriodStep
<1>29. CASE Equals
  BY <1>29, EqualsStep
<1>30. CASE Enter
  BY <1>30, EnterStep
<1>31. CASE UNCHANGED vars
  BY <1>31 DEF vars, input, display, table, term, IInv, InputOK, FramesOK, DisplayOK,
             PassOK, TableOK, ModNameOK
<1> QED BY <1>1, <1>2, <1>3, <1>4, <1>5, <1>6, <1>7, <1>8, <1>9, <1>10, <1>11, <1>12, <1>13, <1>14, <1>15, <1>16,
          <1>17, <1>18, <1>19, <1>20, <1>21, <1>22, <1>23, <1>24, <1>25, <1>26, <1>27, <1>28, <1>29, <1>30, <1>31 DEF Next

(***************************************************************************)
(* Whatever is read, the stacks of the display are never written outside   *)
(* their bounds, not even after errors, names are made of names, and       *)
(* bodies refer to entries that exist (module.c:42, symbol.c:33).          *)
(***************************************************************************)
THEOREM TypeCorrect == Spec => []TypeOK
<1>1. IInv => TypeOK
  <2> SUFFICES ASSUME IInv PROVE TypeOK
    OBVIOUS
  <2>1. Read \subseteq Tokens /\ Given \subseteq Keys
    BY GivenNames DEF Read
  <2>2. source \in Seq(Tokens) /\ tokens \in Seq(Tokens)
    BY <2>1, SeqMonotonic DEF IInv, InputOK
  <2>3. token \in Tokens /\ name \in Keys \cup {<<>>}
    BY <2>1 DEF IInv, InputOK, FramesOK
  <2> QED BY <2>2, <2>3 DEF IInv, InputOK, FramesOK, DisplayOK, TableOK, ModNameOK, TypeOK
<1> QED BY InitIInv, NextIInv, <1>1, PTL DEF Spec

-----------------------------------------------------------------------------
(* Entries stay. *)

(* Where a name is looked for: in the innermost section that belongs to the
   module, or that is open without one, in the module, and in the end as it is. *)
LEMMA SearchedPlaces ==
  ASSUME DisplayOK, NEW k \in Keys
  PROVE  /\ \E n \in Nat : DOMAIN Searched(k) = 1 .. n
         /\ \E j \in DOMAIN Searched(k) : Searched(k)[j] = k
         /\ ~HasPrefix(k) /\ hide_index > Limit =>
              \E j \in DOMAIN Searched(k) : Searched(k)[j] = <<hide_stack[hide_index], k[1]>>
         /\ ~HasPrefix(k) /\ module_index >= 0 =>
              \E j \in DOMAIN Searched(k) :
                Searched(k)[j] = <<module_stack[module_index].name, k[1]>>
<1>1. CASE HasPrefix(k)
  <2>1. Searched(k) = <<k>> /\ DOMAIN <<k>> = 1 .. 1 /\ <<k>>[1] = k
    BY <1>1 DEF Searched
  <2> QED BY <1>1, <2>1
<1>2. CASE ~HasPrefix(k)
  <2> DEFINE s == Sections(k[1])
             m == InModule(k[1])
  <2>1. k[1] \in Names /\ k \in Keys
    BY <1>2, PlainKeys
  <2>2. hide_index \in Int /\ Limit \in Int /\ Limit >= -1 /\ hide_index <= DISPLAYMAX - 1
    BY DisplayIsPositive DEF DisplayOK, Limit, Indices, Display, Modules
  <2>3. \A i \in 1 .. hide_index - Limit : hide_stack[hide_index + 1 - i] \in Nat
    BY <2>2, DisplayIsPositive DEF DisplayOK, Indices
  <2>4. /\ s \in Seq(Keys)
        /\ hide_index > Limit => Len(s) > 0 /\ s[1] = <<hide_stack[hide_index], k[1]>>
    <3>1. CASE hide_index > Limit
      <4>1. s \in [1 .. hide_index - Limit -> Keys] /\ hide_index - Limit \in Nat
        BY <2>1, <2>2, <2>3, <3>1 DEF Sections, Keys
      <4>2. s[1] = <<hide_stack[hide_index], k[1]>>
        BY <2>2, <3>1 DEF Sections
      <4> HIDE DEF s
      <4>3. s \in Seq(Keys) /\ DOMAIN s = 1 .. hide_index - Limit
        BY <4>1, SeqDef
      <4>4. Len(s) = hide_index - Limit
        BY <4>1, <4>3, LenProperties
      <4> QED BY <2>2, <3>1, <4>2, <4>3, <4>4
    <3>2. CASE ~(hide_index > Limit)
      <4>1. 1 .. hide_index - Limit = 1 .. 0
        BY <2>2, <3>2
      <4>2. s \in [1 .. 0 -> Keys]
        BY <4>1 DEF Sections
      <4> HIDE DEF s
      <4> QED BY <3>2, <4>2, SeqDef
    <3> QED BY <3>1, <3>2
  <2>5. /\ m \in Seq(Keys)
        /\ module_index >= 0 =>
             Len(m) = 1 /\ m[1] = <<module_stack[module_index].name, k[1]>>
    <3>1. module_index >= 0 => module_stack[module_index].name \in Names
      BY DisplayIsPositive DEF DisplayOK, Indices, Display
    <3>2. module_index >= 0 => <<module_stack[module_index].name, k[1]>> \in Keys
      BY <2>1, <3>1 DEF Keys
    <3> QED BY <3>2 DEF InModule
  <2>6. Searched(k) = (s \o m) \o <<k>>
    BY <1>2 DEF Searched
  <2> HIDE DEF s, m
  <2>7. <<k>> \in Seq(Keys) /\ Len(<<k>>) = 1 /\ <<k>>[1] = k
    BY <2>1
  <2>8. /\ s \o m \in Seq(Keys) /\ Len(s \o m) = Len(s) + Len(m)
        /\ Len(s) \in Nat /\ Len(m) \in Nat
        /\ \A i \in 1 .. Len(s) + Len(m) :
             (s \o m)[i] = IF i <= Len(s) THEN s[i] ELSE m[i - Len(s)]
    BY <2>4, <2>5, ConcatProperties, LenProperties
  <2> DEFINE all == (s \o m) \o <<k>>
             n == Len(s) + Len(m)
  <2>9. /\ all \in Seq(Keys) /\ Len(all) = n + 1 /\ DOMAIN all = 1 .. n + 1
        /\ \A i \in 1 .. n + 1 : all[i] = IF i <= n THEN (s \o m)[i] ELSE <<k>>[i - n]
    BY <2>7, <2>8, ConcatProperties, LenProperties
  <2>10. n \in Nat /\ all[n + 1] = k
    BY <2>7, <2>8, <2>9
  <2>11. hide_index > Limit => 1 \in DOMAIN all /\ all[1] = <<hide_stack[hide_index], k[1]>>
    BY <2>4, <2>8, <2>9
  <2>12. module_index >= 0 =>
           n \in DOMAIN all /\ all[n] = <<module_stack[module_index].name, k[1]>>
    <3> SUFFICES ASSUME module_index >= 0
                 PROVE  n \in DOMAIN all /\ all[n] = <<module_stack[module_index].name, k[1]>>
      OBVIOUS
    <3>0. Len(s) \in Nat /\ n = Len(s) + 1
      BY <2>5, <2>8
    <3>1. n \in 1 .. n + 1 /\ n <= n /\ ~(n <= Len(s)) /\ n - Len(s) = 1 /\ n \in 1 .. n
      <4> HIDE DEF n
      <4> QED BY <3>0
    <3>2. all[n] = (s \o m)[n]
      BY <2>9, <3>1
    <3>3. (s \o m)[n] = m[1]
      BY <2>8, <3>1
    <3> QED BY <2>5, <2>9, <3>1, <3>2, <3>3
  <2>13. n + 1 \in Nat /\ n + 1 \in DOMAIN all
    BY <2>9, <2>10
  <2> HIDE DEF all, n
  <2>14. Searched(k) = all
    BY <2>6 DEF all
  <2> QED BY <2>9, <2>10, <2>11, <2>12, <2>13, <2>14
<1> QED BY <1>1, <1>2

(* A name that leads to no entry is in the hash table in none of its forms:
   of those that were, the first would be the one that is found. *)
LEMMA Unfound ==
  ASSUME DisplayOK, NEW k \in Keys, qualify(k) = {}, NEW j \in DOMAIN Searched(k)
  PROVE  Hashed(Searched(k)[j]) = {}
<1> DEFINE T == {h \in DOMAIN Searched(k) : Hashed(Searched(k)[h]) # {}}
<1>1. SUFFICES ASSUME T # {} PROVE FALSE
  OBVIOUS
<1>2. T \in SUBSET Nat
  BY SearchedPlaces
<1>3. PICK x \in T : \A y \in T : x <= y
  <2> HIDE DEF T
  <2> QED BY <1>1, <1>2, LeastNumber
<1>4. x \in DOMAIN Searched(k) /\ x \in Nat
  BY <1>2
<1>5. PICK i \in Hashed(Searched(k)[x]) : TRUE
  OBVIOUS
<1>6. ASSUME NEW h \in 1 .. x - 1 PROVE Hashed(Searched(k)[h]) = {}
  <2>1. h \in Nat /\ h < x
    BY <1>4
  <2>2. h \in DOMAIN Searched(k)
    BY <1>4, <2>1, SearchedPlaces
  <2>3. ~(x <= h)
    BY <1>4, <2>1
  <2> QED BY <1>3, <2>2, <2>3
<1>7. i \in DOMAIN symtab
  BY <1>5 DEF Hashed
<1>8. i \in qualify(k)
  BY <1>4, <1>5, <1>6, <1>7 DEF qualify
<1> QED BY <1>8

(* A name is entered in a form in which it has been looked for. *)
LEMMA ClassifiedSearched ==
  ASSUME DisplayOK, NEW k \in Keys, ~PrivateAround
  PROVE  \E j \in DOMAIN Searched(k) : Searched(k)[j] = classify(k)
<1>1. hide_index \in Int /\ Limit \in Int
  BY DisplayIsPositive DEF DisplayOK, Limit, Indices, Display, Modules
<1>2. inside_hide => hide_index > Limit
  BY <1>1 DEF PrivateAround
<1> QED BY <1>2, SearchedPlaces DEF classify

(* A name in a term is entered as it is, and has been looked for as it is. *)
LEMMA LookupStays ==
  ASSUME DisplayOK, NEW k \in Keys, lookup(k)
  PROVE  unhashed' = unhashed
<1>1. CASE UNCHANGED table
  BY <1>1 DEF table
<1>2. CASE qualify(k) = {} /\ enterglobal(k)
  <2>1. Hashed(k) = {}
    BY <1>2, SearchedPlaces, Unfound
  <2> QED BY <1>2, <2>1 DEF enterglobal
<1> QED BY <1>1, <1>2 DEF lookup, table

(* The first pass declares names in the form in which it looks for them. *)
LEMMA DeclareStays ==
  ASSUME DisplayOK, NEW str \in Keys, enteratom(classify(str))
  PROVE  unhashed' = unhashed
<1> DEFINE k == classify(str)
<1>1. k \in Keys
  BY ClassifyType
<1>2. classify(k) = k
  <2>1. CASE HasPrefix(k)
    BY <2>1 DEF classify
  <2>2. CASE ~HasPrefix(k)
    <3>1. k = str /\ ~HasPrefix(str) /\ ~inside_hide /\ ~(module_index >= 0)
      <4>1. \A x, y : HasPrefix(<<x, y>>)
        BY DEF HasPrefix
      <4> QED BY <2>2, <4>1 DEF classify
    <3> QED BY <3>1 DEF classify
  <2> QED BY <2>1, <2>2
<1> HIDE DEF k
<1>3. CASE qualify(k) # {}
  BY <1>3 DEF k, enteratom, table
<1>4. CASE qualify(k) = {}
  <2>1. Hashed(k) = {}
    BY <1>1, <1>4, SearchedPlaces, Unfound
  <2>2. enterglobal(k)
    BY <1>2, <1>4 DEF k, enteratom
  <2> QED BY <2>1, <2>2 DEF enterglobal
<1> QED BY <1>3, <1>4

(* The name of a definition is entered in a form in which it was looked for,
   but in a module that has no private part and lies in one. *)
LEMMA EnterStays ==
  ASSUME IInv, Enter, ~PrivateAround
  PROVE  unhashed' = unhashed
<1>1. DisplayOK /\ FramesOK
  BY DEF IInv
<1>2. name \in Keys
  <2>1. frames # <<>> /\ Head(frames) = "enter"
    BY DEF Enter, At
  <2>2. 1 \in DOMAIN frames /\ frames[1] = "enter"
    BY <1>1, <2>1, EmptySeq, LenProperties DEF FramesOK
  <2> QED BY <1>1, <2>2, GivenNames DEF FramesOK
<1>3. CASE qualify(name) # {}
  BY <1>3 DEF Enter
<1>4. CASE qualify(name) = {}
  <2>1. Hashed(classify(name)) = {}
    BY <1>1, <1>2, <1>4, ClassifiedSearched, Unfound
  <2>2. unhashed' = unhashed \cup Hashed(classify(name))
    BY <1>4 DEF Enter
  <2> QED BY <2>1, <2>2
<1> QED BY <1>3, <1>4

(***************************************************************************)
(* No definition and no term ever takes the entry of a name away, whatever *)
(* is read and however it went wrong before: only the end of a module does *)
(* (undefs.c), and a module that lies in a private part and has none       *)
(* (addsymbol, classify).                                                  *)
(***************************************************************************)
THEOREM EntriesAreKept == Spec => EntriesStay
<1>1. IInv /\ [Next]_vars =>
        [unhashed' # unhashed => At("endmodule") \/ (At("enter") /\ PrivateAround)]_vars
  <2> SUFFICES ASSUME IInv, Next, unhashed' # unhashed
               PROVE  At("endmodule") \/ (At("enter") /\ PrivateAround)
    OBVIOUS
  <2>1. DisplayOK /\ InputOK
    BY DEF IInv
  <2>2. CASE EndModule
    BY <2>2 DEF EndModule
  <2>3. CASE Enter
    BY <2>3, EnterStays DEF Enter
  <2>4. CASE Factor
    <3>1. token.sym = "USR_" => token.str \in Keys
      BY <2>1, GivenNames DEF InputOK, Read
    <3>2. unhashed' = unhashed
      BY <2>1, <2>4, <3>1, LookupStays DEF Factor, table
    <3> QED BY <3>2
  <2>5. CASE DeclareName
    <3>1. pass.previous.str \in Keys
      BY <2>1, <2>5, GivenNames DEF DeclareName, InputOK, Read
    <3> QED BY <2>1, <2>5, <3>1, DeclareStays DEF DeclareName
  <2>6. CASE GetSymbol \/ Quit \/ DeclareModule \/ DeclarePrivate \/ DeclarePublic
             \/ DeclareOther \/ DeclareEnd \/ EndPass \/ DeclareTooDeep
    BY <2>6 DEF GetSymbol, Quit, DeclareModule, DeclarePrivate, DeclarePublic,
                DeclareOther, DeclareEnd, EndPass, DeclareTooDeep, abortexecution_, table
  <2>7. CASE Command \/ EndCommand \/ Execute \/ EndTerm \/ CompoundModule
             \/ CompoundPrivate \/ CompoundPublic \/ CompoundEmpty \/ ModuleName
    BY <2>7 DEF Command, EndCommand, Execute, EndTerm, CompoundModule, CompoundPrivate,
                CompoundPublic, CompoundEmpty, ModuleName, table
  <2>8. CASE CompoundFails \/ StopPrivate \/ ExitPrivate \/ ExitModule \/ Sequence
             \/ Definition \/ Period \/ Equals
    BY <2>8 DEF CompoundFails, StopPrivate, ExitPrivate, ExitModule, Sequence,
                Definition, Period, Equals, abortexecution_, table
  <2> QED BY <2>2, <2>3, <2>4, <2>5, <2>6, <2>7, <2>8 DEF Next
<1> QED BY InitIInv, NextIInv, <1>1, PTL DEF Spec, EntriesStay
=============================================================================
