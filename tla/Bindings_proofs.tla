--------------------------- MODULE Bindings_proofs ---------------------------
(* Theorems about let, match and cases, for any names, values, patterns and *)
(* nesting.                                                                 *)
EXTENDS Bindings, SequenceTheorems, TLAPS

Stored == Values \cup {Lost}
Entry  == {Undefined} \cup [bound : BOOLEAN, value : Stored]
Tables == UNION {[S -> Entry] : S \in SUBSET Int}      \* of positions
Partial == UNION {[S -> Entry] : S \in SUBSET Names}   \* of names
FrameType ==
  [phase : {"let", "match", "body", "restore", "undo", "undefined"}, at : Int, names : Seq(Names),
   values : Seq(Stored), saved : Tables, bound : Partial]

TypeOK ==
  /\ symtab \in [Names -> Entry] /\ globals \in [Names -> Entry]
  /\ stack \in Seq(Stored) /\ frames \in Seq(FrameType)

(* Denotes for any frames fs and global entries gs. *)
In(fs, gs, k, x, e) ==
  \/ /\ \A i \in 1 .. k : x \notin DOMAIN fs[i].bound
     /\ e = gs[x]
  \/ \E i \in 1 .. k :
       /\ x \in DOMAIN fs[i].bound /\ e = fs[i].bound[x]
       /\ \A j \in i + 1 .. k : x \notin DOMAIN fs[j].bound

(* Of a name that occurs more than once the last position holds what the   *)
(* name denoted when the frame was opened.                                 *)
Keeps(fs, gs, k) ==
  \A i \in DOMAIN fs[k].saved :
    /\ i \in 1 .. Len(fs[k].names)
    /\ (\A j \in i + 1 .. Len(fs[k].names) : fs[k].names[j] # fs[k].names[i])
         => In(fs, gs, k - 1, fs[k].names[i], fs[k].saved[i])

(* How far a combinator has come with its frame f. *)
BindsItsNames(f) ==
  \A x \in DOMAIN f.bound : \E i \in 1 .. Len(f.names) : f.names[i] = x
KeepsAll(f) == \A i \in 1 .. Len(f.names) : i \in DOMAIN f.saved
InLet(f) ==
  f.phase = "let" =>
    /\ f.at \in 1 .. Len(f.names)
    /\ \A i \in 1 .. Len(f.names) : i \in DOMAIN f.saved <=> i > f.at
    /\ \A x \in DOMAIN f.bound : \E i \in f.at + 1 .. Len(f.names) : f.names[i] = x
InMatch(f) ==
  f.phase = "match" => f.at \in 1 .. Len(f.names) /\ Len(f.values) = Len(f.names)
Progress(f) ==
  /\ BindsItsNames(f) /\ InLet(f) /\ InMatch(f)
  /\ f.phase \in {"match", "body", "restore"} => KeepsAll(f)
  /\ f.phase = "restore" => f.at \in 1 .. Len(f.names)

FramesOK(fs, gs) ==
  \A k \in 1 .. Len(fs) :
    /\ Keeps(fs, gs, k) /\ Progress(fs[k])
    /\ k < Len(fs) => fs[k].phase = "body"

(* What the symbol table holds, given how far the innermost frame is. *)
TableOK(fs, gs, t) ==
  /\ (fs = <<>> \/ fs[Len(fs)].phase \in {"let", "match", "body"}) =>
       \A x \in Names : In(fs, gs, Len(fs), x, t[x])
  /\ (fs # <<>> /\ fs[Len(fs)].phase = "restore") =>
       LET f == fs[Len(fs)]
       IN  \A x \in Names :
             (\A j \in f.at .. Len(f.names) : f.names[j] # x) => In(fs, gs, Len(fs) - 1, x, t[x])

IInv == TypeOK /\ FramesOK(frames, globals) /\ TableOK(frames, globals, symtab)
-----------------------------------------------------------------------------
(* Lemmas about frames. *)

LEMMA Outside ==
  ASSUME NEW fs, NEW gs, NEW k \in Nat \ {0}, NEW x, x \notin DOMAIN fs[k].bound, NEW e
  PROVE  In(fs, gs, k, x, e) <=> In(fs, gs, k - 1, x, e)
<1>1. \A i \in Int : i \in 1 .. k <=> (i \in 1 .. k - 1 \/ i = k) OBVIOUS
<1>2. \A i \in 1 .. k : \A j \in Int : j \in i + 1 .. k <=> (j \in i + 1 .. k - 1 \/ (j = k /\ i # k))
  OBVIOUS
<1>3. ASSUME In(fs, gs, k, x, e) PROVE In(fs, gs, k - 1, x, e)
  BY <1>1, <1>2, <1>3 DEF In
<1>4. ASSUME In(fs, gs, k - 1, x, e) PROVE In(fs, gs, k, x, e)
  BY <1>1, <1>2, <1>4 DEF In
<1> QED BY <1>3, <1>4

LEMMA Inside ==
  ASSUME NEW fs, NEW gs, NEW k \in Nat \ {0}, NEW x \in DOMAIN fs[k].bound
  PROVE  In(fs, gs, k, x, fs[k].bound[x])
<1>1. k \in 1 .. k /\ \A j \in k + 1 .. k : x \notin DOMAIN fs[j].bound OBVIOUS
<1> QED BY <1>1 DEF In

LEMMA SameFrames ==
  ASSUME NEW fs, NEW gs, NEW fs2, NEW gs2, NEW k \in Nat, NEW x, NEW e,
         \A i \in 1 .. k : fs2[i].bound = fs[i].bound,
         gs2[x] = gs[x]
  PROVE  In(fs, gs, k, x, e) <=> In(fs2, gs2, k, x, e)
BY DEF In

LEMMA NoFrames ==
  ASSUME NEW gs, NEW x, NEW e
  PROVE  In(<<>>, gs, 0, x, e) <=> e = gs[x]
BY DEF In

LEMMA DenotesIsIn ==
  ASSUME NEW k, NEW x, NEW e
  PROVE  Denotes(k, x, e) <=> In(frames, globals, k, x, e)
BY DEF Denotes, In

LEMMA LosingIn ==
  ASSUME NEW fs, NEW gs, NEW fs2, NEW gs2, NEW k \in Nat, NEW x, NEW e,
         \A i \in 1 .. k : fs2[i].bound = LoseIn(fs[i].bound),
         x \in DOMAIN gs, gs2 = LoseIn(gs), In(fs, gs, k, x, e)
  PROVE  In(fs2, gs2, k, x, Lose(e))
<1>1. \A i \in 1 .. k : /\ DOMAIN fs2[i].bound = DOMAIN fs[i].bound
                        /\ \A y \in DOMAIN fs[i].bound : fs2[i].bound[y] = Lose(fs[i].bound[y])
  BY DEF LoseIn
<1>2. gs2[x] = Lose(gs[x])
  BY DEF LoseIn
<1>3. CASE (\A i \in 1 .. k : x \notin DOMAIN fs[i].bound) /\ e = gs[x]
  BY <1>1, <1>2, <1>3 DEF In
<1>4. CASE \E i \in 1 .. k :
             /\ x \in DOMAIN fs[i].bound /\ e = fs[i].bound[x]
             /\ \A j \in i + 1 .. k : x \notin DOMAIN fs[j].bound
  <2>1. PICK i \in 1 .. k :
             /\ x \in DOMAIN fs[i].bound /\ e = fs[i].bound[x]
             /\ \A j \in i + 1 .. k : x \notin DOMAIN fs[j].bound
    BY <1>4
  <2>2. x \in DOMAIN fs2[i].bound /\ Lose(e) = fs2[i].bound[x] BY <1>1, <2>1
  <2>3. \A j \in i + 1 .. k : j \in 1 .. k OBVIOUS
  <2>4. \A j \in i + 1 .. k : x \notin DOMAIN fs2[j].bound BY <1>1, <2>1, <2>3
  <2> QED BY <2>2, <2>4 DEF In
<1> QED BY <1>3, <1>4 DEF In

LEMMA Losing ==
  /\ \A e \in Entry : Lose(e) \in Entry
  /\ \A t \in [Names -> Entry] : LoseIn(t) \in [Names -> Entry]
  /\ \A t \in Tables : LoseIn(t) \in Tables /\ DOMAIN LoseIn(t) = DOMAIN t
  /\ \A t \in Partial : LoseIn(t) \in Partial /\ DOMAIN LoseIn(t) = DOMAIN t
<1>1. \A e \in Entry : Lose(e) \in Entry BY DEF Lose, Entry, Bound, Stored
<1>2. \A S : \A t \in [S -> Entry] : LoseIn(t) \in [S -> Entry] /\ DOMAIN LoseIn(t) = DOMAIN t
  BY <1>1 DEF LoseIn
<1>3. ASSUME NEW t \in Tables PROVE LoseIn(t) \in Tables /\ DOMAIN LoseIn(t) = DOMAIN t
  <2>1. PICK S \in SUBSET Int : t \in [S -> Entry] BY DEF Tables
  <2>2. LoseIn(t) \in [S -> Entry] /\ DOMAIN LoseIn(t) = DOMAIN t BY <1>2, <2>1
  <2> QED BY <2>2 DEF Tables
<1>4. ASSUME NEW t \in Partial PROVE LoseIn(t) \in Partial /\ DOMAIN LoseIn(t) = DOMAIN t
  <2>1. PICK S \in SUBSET Names : t \in [S -> Entry] BY DEF Partial
  <2>2. LoseIn(t) \in [S -> Entry] /\ DOMAIN LoseIn(t) = DOMAIN t BY <1>2, <2>1
  <2> QED BY <2>2 DEF Partial
<1> QED BY <1>1, <1>2, <1>3, <1>4

(* A table with one entry more. *)
LEMMA WithPosition ==
  ASSUME NEW e \in Entry, NEW t \in Tables, NEW i \in Int
  PROVE  /\ With(t, i, e) \in Tables /\ DOMAIN With(t, i, e) = DOMAIN t \cup {i}
         /\ With(t, i, e)[i] = e /\ \A j \in DOMAIN t : j # i => With(t, i, e)[j] = t[j]
<1>1. PICK S \in SUBSET Int : t \in [S -> Entry] BY DEF Tables
<1>2. With(t, i, e) \in [S \cup {i} -> Entry] /\ S \cup {i} \in SUBSET Int BY <1>1 DEF With
<1> QED BY <1>1, <1>2 DEF With, Tables

LEMMA WithName ==
  ASSUME NEW e \in Entry, NEW t \in Partial, NEW x \in Names
  PROVE  /\ With(t, x, e) \in Partial /\ DOMAIN With(t, x, e) = DOMAIN t \cup {x}
         /\ With(t, x, e)[x] = e /\ \A y \in DOMAIN t : y # x => With(t, x, e)[y] = t[y]
<1>1. PICK S \in SUBSET Names : t \in [S -> Entry] BY DEF Partial
<1>2. With(t, x, e) \in [S \cup {x} -> Entry] /\ S \cup {x} \in SUBSET Names BY <1>1 DEF With
<1> QED BY <1>1, <1>2 DEF With, Partial

(* A frame is opened. *)
LEMMA PushKeeps ==
  ASSUME NEW fs \in Seq(FrameType), NEW gs, NEW t, NEW f \in FrameType,
         FramesOK(fs, gs), TableOK(fs, gs, t), fs # <<>> => fs[Len(fs)].phase = "body",
         f.bound = <<>>, Progress(f), f.phase \in {"let", "match", "body", "undefined"},
         \A i \in DOMAIN f.saved : i \in 1 .. Len(f.names) /\ f.saved[i] = t[f.names[i]]
  PROVE  FramesOK(Append(fs, f), gs) /\ TableOK(Append(fs, f), gs, t)
<1> DEFINE n == Len(fs)
           fs2 == Append(fs, f)
<1>0. /\ n \in Nat /\ fs2 \in Seq(FrameType) /\ Len(fs2) = n + 1 /\ fs2[n + 1] = f
      /\ \A i \in 1 .. n : fs2[i] = fs[i]
  BY AppendProperties, LenProperties
<1>1. n \in Nat /\ Len(fs2) = n + 1 /\ fs2[n + 1] = f /\ fs2 # <<>>
  <2>1. fs2 # <<>>
    <3> HIDE DEF fs2, n
    <3> QED BY <1>0, EmptySeq
  <2> QED BY <1>0, <2>1
<1>2. \A i \in 1 .. n : fs2[i] = fs[i] BY <1>0
<1>3. \A k \in 0 .. n : \A x, e : In(fs, gs, k, x, e) <=> In(fs2, gs, k, x, e)
  <2> TAKE k \in 0 .. n
  <2> TAKE x, e
  <2>1. k \in Nat /\ \A i \in 1 .. k : i \in 1 .. n BY <1>1
  <2>2. \A i \in 1 .. k : fs2[i].bound = fs[i].bound BY <1>2, <2>1
  <2> HIDE DEF fs2, n
  <2> QED BY <2>1, <2>2, SameFrames
<1>4. \A x \in Names : In(fs, gs, n, x, t[x])
  BY <1>1 DEF TableOK
<1>5. f.names \in Seq(Names) BY DEF FrameType
<1> HIDE DEF fs2
<1>6. Keeps(fs2, gs, n + 1)
  <2> SUFFICES ASSUME NEW i \in DOMAIN f.saved PROVE In(fs2, gs, n, f.names[i], f.saved[i])
    BY <1>1 DEF Keeps
  <2>1. i \in 1 .. Len(f.names) /\ f.saved[i] = t[f.names[i]] OBVIOUS
  <2>2. f.names[i] \in Names BY <1>5, <2>1
  <2> QED BY <1>1, <1>3, <1>4, <2>1, <2>2
<1>7. ASSUME NEW k \in 1 .. n PROVE Keeps(fs2, gs, k)
  <2>1. Keeps(fs, gs, k) BY <1>7 DEF FramesOK
  <2>2. k - 1 \in 0 .. n /\ fs2[k] = fs[k] BY <1>1, <1>2
  <2> QED BY <1>3, <2>1, <2>2 DEF Keeps
<1>8. \A k \in 1 .. n : fs2[k].phase = "body" /\ Progress(fs2[k])
  <2> TAKE k \in 1 .. n
  <2>1. fs # <<>> BY <1>1
  <2>2. fs[k].phase = "body" /\ Progress(fs[k]) BY <1>1, <2>1 DEF FramesOK
  <2> QED BY <1>2, <2>2
<1>9. FramesOK(fs2, gs)
  <2> SUFFICES ASSUME NEW k \in 1 .. n + 1
               PROVE  /\ Keeps(fs2, gs, k) /\ Progress(fs2[k])
                      /\ k < n + 1 => fs2[k].phase = "body"
    BY <1>1 DEF FramesOK
  <2>1. CASE k = n + 1 BY <1>1, <1>6, <2>1
  <2>2. CASE k \in 1 .. n BY <1>7, <1>8, <2>2
  <2> QED BY <1>1, <2>1, <2>2
<1>10. TableOK(fs2, gs, t)
  <2>1. ASSUME NEW x \in Names PROVE In(fs2, gs, n + 1, x, t[x])
    <3>1. x \notin DOMAIN fs2[n + 1].bound BY <1>1
    <3>2. In(fs2, gs, n + 1 - 1, x, t[x]) BY <1>1, <1>3, <1>4
    <3> HIDE DEF n
    <3> QED BY <1>1, <3>1, <3>2, Outside
  <2> QED BY <1>1, <2>1 DEF TableOK
<1> QED BY <1>9, <1>10 DEF fs2

(* The innermost frame changes. *)
LEMMA SetTopKeeps ==
  ASSUME NEW fs \in Seq(FrameType), NEW gs, NEW f \in FrameType, fs # <<>>, FramesOK(fs, gs),
         Progress(f),
         \A i \in DOMAIN f.saved :
           /\ i \in 1 .. Len(f.names)
           /\ (\A j \in i + 1 .. Len(f.names) : f.names[j] # f.names[i])
                => In(fs, gs, Len(fs) - 1, f.names[i], f.saved[i])
  PROVE  LET fs2 == [fs EXCEPT ![Len(fs)] = f]
         IN  /\ FramesOK(fs2, gs) /\ fs2 \in Seq(FrameType) /\ fs2 # <<>>
             /\ Len(fs2) = Len(fs) /\ fs2[Len(fs)] = f
             /\ \A x, e : In(fs2, gs, Len(fs) - 1, x, e) <=> In(fs, gs, Len(fs) - 1, x, e)
<1> DEFINE n   == Len(fs)
           fs2 == [fs EXCEPT ![n] = f]
<1>1. n \in Nat \ {0} /\ Len(fs2) = n /\ fs2[n] = f /\ fs2 \in Seq(FrameType) /\ fs2 # <<>>
  OBVIOUS
<1>2. \A i \in 1 .. n - 1 : fs2[i] = fs[i] OBVIOUS
<1>3. \A k \in 0 .. n - 1 : \A x, e : In(fs, gs, k, x, e) <=> In(fs2, gs, k, x, e)
  <2> TAKE k \in 0 .. n - 1
  <2> TAKE x, e
  <2>1. k \in Nat /\ \A i \in 1 .. k : i \in 1 .. n - 1 BY <1>1
  <2>2. \A i \in 1 .. k : fs2[i].bound = fs[i].bound BY <1>2, <2>1
  <2> HIDE DEF n
  <2> QED BY <2>1, <2>2, SameFrames
<1>4. Keeps(fs2, gs, n)
  <2> SUFFICES ASSUME NEW i \in DOMAIN f.saved
               PROVE  /\ i \in 1 .. Len(f.names)
                      /\ (\A j \in i + 1 .. Len(f.names) : f.names[j] # f.names[i])
                            => In(fs2, gs, n - 1, f.names[i], f.saved[i])
    BY <1>1 DEF Keeps
  <2>1. n - 1 \in 0 .. n - 1 BY <1>1
  <2> QED BY <1>3, <2>1
<1>5. ASSUME NEW k \in 1 .. n - 1
      PROVE  Keeps(fs2, gs, k) /\ Progress(fs2[k]) /\ fs2[k].phase = "body"
  <2>0. k \in 1 .. Len(fs) /\ k < Len(fs) BY <1>1
  <2>1. Keeps(fs, gs, k) /\ Progress(fs[k]) /\ fs[k].phase = "body" BY <2>0 DEF FramesOK
  <2>2. k - 1 \in 0 .. n - 1 BY <1>1
  <2>3. fs2[k] = fs[k] BY <1>2
  <2> QED BY <1>3, <2>1, <2>2, <2>3 DEF Keeps
<1>6. FramesOK(fs2, gs)
  <2> SUFFICES ASSUME NEW k \in 1 .. n
               PROVE  /\ Keeps(fs2, gs, k) /\ Progress(fs2[k])
                      /\ k < n => fs2[k].phase = "body"
    BY <1>1 DEF FramesOK
  <2>1. CASE k = n BY <1>1, <1>4, <2>1
  <2>2. CASE k \in 1 .. n - 1 BY <1>5, <2>2
  <2>3. k = n \/ k \in 1 .. n - 1
    <3> HIDE DEF n
    <3> QED BY <1>1
  <2> QED BY <2>1, <2>2, <2>3
<1>7. n - 1 \in 0 .. n - 1 BY <1>1
<1> QED BY <1>1, <1>3, <1>6, <1>7

(* A frame is closed when the names denote again what they did before. *)
LEMMA PopKeeps ==
  ASSUME NEW fs \in Seq(FrameType), NEW gs, NEW t, fs # <<>>, FramesOK(fs, gs),
         \A x \in Names : In(fs, gs, Len(fs) - 1, x, t[x])
  PROVE  LET fs2 == SubSeq(fs, 1, Len(fs) - 1)
         IN  fs2 \in Seq(FrameType) /\ FramesOK(fs2, gs) /\ TableOK(fs2, gs, t)
<1> DEFINE n == Len(fs)
           fs2 == SubSeq(fs, 1, n - 1)
<1>0. n \in Nat \ {0} /\ \A i \in 1 .. n : fs[i] \in FrameType BY EmptySeq, ElementOfSeq
<1>1. n \in Nat \ {0} /\ n - 1 \in Nat /\ fs2 \in Seq(FrameType) /\ Len(fs2) = n - 1
  <2>1. \A i \in 1 .. n - 1 : fs[i] \in FrameType BY <1>0
  <2>2. 1 \in Int /\ n - 1 \in Int BY <1>0
  <2>3. fs2 \in Seq(FrameType) /\ Len(fs2) = IF 1 <= n - 1 THEN n - 1 - 1 + 1 ELSE 0
    <3> HIDE DEF n
    <3> QED BY <2>1, <2>2, SubSeqProperties
  <2> HIDE DEF n, fs2
  <2> QED BY <1>0, <2>3
<1>2. \A i \in 1 .. n - 1 : fs2[i] = fs[i]
  <2>1. \A i \in 1 .. n - 1 : fs[i] \in FrameType BY <1>0
  <2>2. 1 \in Int /\ n - 1 \in Int BY <1>0
  <2>3. \A i \in 1 .. n - 1 - 1 + 1 : fs2[i] = fs[1 + i - 1]
    <3> HIDE DEF n
    <3> QED BY <2>1, <2>2, SubSeqProperties
  <2> QED BY <1>0, <2>3
<1>3. \A k \in 0 .. n - 1 : \A x, e : In(fs, gs, k, x, e) <=> In(fs2, gs, k, x, e)
  <2> TAKE k \in 0 .. n - 1
  <2> TAKE x, e
  <2>1. k \in Nat /\ \A i \in 1 .. k : i \in 1 .. n - 1 BY <1>1
  <2>2. \A i \in 1 .. k : fs2[i].bound = fs[i].bound BY <1>2, <2>1
  <2> HIDE DEF n, fs2
  <2> QED BY <2>1, <2>2, SameFrames
<1>4. \A k \in 1 .. n - 1 : Keeps(fs2, gs, k) /\ Progress(fs2[k]) /\ fs2[k].phase = "body"
  <2> TAKE k \in 1 .. n - 1
  <2>1. k \in 1 .. Len(fs) /\ k < Len(fs) BY <1>1
  <2>2. Keeps(fs, gs, k) /\ Progress(fs[k]) /\ fs[k].phase = "body" BY <2>1 DEF FramesOK
  <2>3. k - 1 \in 0 .. n - 1 /\ fs2[k] = fs[k] BY <1>1, <1>2
  <2> HIDE DEF fs2
  <2> QED BY <1>3, <2>2, <2>3 DEF Keeps
<1>5. \A x \in Names : In(fs2, gs, n - 1, x, t[x])
  <2>1. n - 1 \in 0 .. n - 1 BY <1>1
  <2> HIDE DEF fs2
  <2> QED BY <1>3, <2>1
<1> HIDE DEF fs2
<1>6. FramesOK(fs2, gs) BY <1>1, <1>4 DEF FramesOK
<1>7. TableOK(fs2, gs, t)
  <2>1. fs2 # <<>> => fs2[Len(fs2)].phase = "body"
    <3> SUFFICES ASSUME fs2 # <<>> PROVE fs2[Len(fs2)].phase = "body" OBVIOUS
    <3>1. n - 1 \in 1 .. n - 1 BY <1>1
    <3> QED BY <1>1, <1>4, <3>1
  <2> QED BY <1>1, <1>5, <2>1 DEF TableOK
<1> QED BY <1>1, <1>6, <1>7 DEF fs2

(* Everything was dropped. *)
LEMMA AbortKeeps ==
  ASSUME NEW gs, NEW t, \A x \in Names : t[x] = gs[x]
  PROVE  <<>> \in Seq(FrameType) /\ FramesOK(<<>>, gs) /\ TableOK(<<>>, gs, t)
<1>1. Len(<<>>) = 0 /\ <<>> \in Seq(FrameType) BY EmptySeq
<1>2. \A x \in Names : In(<<>>, gs, 0, x, t[x]) BY NoFrames
<1> QED BY <1>1, <1>2 DEF FramesOK, TableOK
-----------------------------------------------------------------------------
(* Each action keeps the invariant. *)

LEMMA TopFacts ==
  ASSUME IInv, frames # <<>>
  PROVE  /\ Len(frames) \in Nat \ {0} /\ Top \in FrameType /\ Progress(Top)
         /\ Keeps(frames, globals, Len(frames)) /\ Top.names \in Seq(Names)
         /\ Len(Top.names) \in Nat /\ \A i \in 1 .. Len(Top.names) : Top.names[i] \in Names
<1>1. frames \in Seq(FrameType) BY DEF IInv, TypeOK
<1>2. Len(frames) \in Nat \ {0} /\ Len(frames) \in 1 .. Len(frames) BY <1>1, EmptySeq
<1>3. Top \in FrameType BY <1>1, <1>2, ElementOfSeq DEF Top
<1>4. Progress(Top) /\ Keeps(frames, globals, Len(frames)) BY <1>2 DEF IInv, FramesOK, Top
<1>5. Top.names \in Seq(Names) BY <1>3 DEF FrameType
<1> QED BY <1>2, <1>3, <1>4, <1>5, LenProperties, ElementOfSeq

(* A step that ends in longjmp. *)
LEMMA AbortStep ==
  ASSUME IInv, Abort, symtab' \in [Names -> Entry], stack' \in Seq(Stored)
  PROVE  IInv'
<1>1. frames' = <<>> /\ globals' = symtab' BY DEF Abort
<1>2. FramesOK(frames', globals') /\ TableOK(frames', globals', symtab') /\ frames' \in Seq(FrameType)
  BY <1>1, AbortKeeps
<1>3. TypeOK' BY <1>1, <1>2 DEF TypeOK
<1> QED BY <1>2, <1>3 DEF IInv

(* A step that opens a frame. *)
LEMMA PushStep ==
  ASSUME IInv, InBody, UNCHANGED symtab, stack' \in Seq(Stored), NEW f \in FrameType, PushFrame(f),
         f.bound = <<>>, Progress(f), f.phase \in {"let", "match", "body", "undefined"},
         \A i \in DOMAIN f.saved : i \in 1 .. Len(f.names) /\ f.saved[i] = symtab[f.names[i]]
  PROVE  IInv'
<1>1. frames' = Append(frames, f) /\ globals' = globals BY DEF PushFrame
<1>2. frames \in Seq(FrameType) BY DEF IInv, TypeOK
<1>3. FramesOK(frames', globals') /\ TableOK(frames', globals', symtab')
  <2>1. frames # <<>> => frames[Len(frames)].phase = "body" BY DEF InBody, Top
  <2> QED BY <1>1, <1>2, <2>1, PushKeeps DEF IInv
<1>4. frames' \in Seq(FrameType) BY <1>1, <1>2, AppendProperties
<1>5. TypeOK' BY <1>1, <1>4 DEF TypeOK, IInv
<1> QED BY <1>3, <1>5 DEF IInv

LEMMA Empty ==
  <<>> \in Tables /\ <<>> \in Partial /\ DOMAIN <<>> = {} /\ <<>> \in Seq(Stored)
<1>1. DOMAIN <<>> = {} /\ <<>> \in [{} -> Entry] OBVIOUS
<1>2. {} \in SUBSET Int /\ {} \in SUBSET Names OBVIOUS
<1>3. <<>> \in Tables BY <1>1, <1>2 DEF Tables
<1>4. <<>> \in Partial BY <1>1, <1>2 DEF Partial
<1> QED BY <1>1, <1>3, <1>4, EmptySeq

LEMMA FunctionIsSeq ==
  ASSUME NEW S, NEW m \in Nat, NEW g \in [1 .. m -> S]
  PROVE  g \in Seq(S) /\ Len(g) = m
<1>1. g \in Seq(S) BY SeqDef
<1>2. Len(g) \in Nat /\ 1 .. Len(g) = 1 .. m BY <1>1, LenProperties
<1> QED BY <1>1, <1>2

LEMMA LetStep ==
  ASSUME IInv, NEW names \in NameLists, let(names)
  PROVE  IInv'
<1> DEFINE m  == Len(names)
           ns == [i \in 1 .. m |-> names[i][2]]
           f  == Frame("let", m, ns, <<>>, <<>>)
<1>1. InBody /\ symtab' = symtab /\ stack' = stack BY DEF let, Enters
<1>2. symtab' \in [Names -> Entry] /\ stack' \in Seq(Stored) BY <1>1 DEF IInv, TypeOK
<1>3. CASE Abort BY <1>2, <1>3, AbortStep
<1>4. CASE PushFrame(f) /\ \A i \in 1 .. m : IsA(names[i], "USR")
  <2>1. m \in Nat /\ DOMAIN names = 1 .. m BY NamesGiven, LenProperties
  <2>2. ns \in [1 .. m -> Names] BY <1>4, <2>1, NamesGiven
  <2> HIDE DEF ns
  <2>3. ns \in Seq(Names) /\ Len(ns) = m BY <2>1, <2>2, FunctionIsSeq
  <2>4. ns = <<>> <=> m = 0 BY <2>3, EmptySeq
  <2> HIDE DEF m
  <2>5. /\ f.phase = (IF m = 0 THEN "body" ELSE "let") /\ f.at = m /\ f.names = ns
        /\ f.saved = <<>> /\ f.bound = <<>> /\ f.values = <<>>
    BY <2>4 DEF Frame
  <2>6. f \in FrameType
    BY <2>1, <2>3, <2>4, Empty DEF Frame, FrameType
  <2>7. Progress(f)
    <3> HIDE DEF f
    <3> QED BY <2>1, <2>3, <2>5, Empty DEF Progress, BindsItsNames, KeepsAll, InLet, InMatch
  <2>8. f.phase \in {"let", "match", "body"} BY <2>5
  <2> HIDE DEF f
  <2> QED BY <1>1, <1>2, <1>4, <2>5, <2>6, <2>7, <2>8, Empty, PushStep
<1> QED BY <1>3, <1>4 DEF let

(* match and cases open a frame for the bindings bs. *)
LEMMA MatchedStep ==
  ASSUME IInv, InBody, UNCHANGED symtab, stack' \in Seq(Stored),
         NEW bs \in Seq(Names \X Values), Matched(bs)
  PROVE  IInv'
<1> DEFINE m  == Len(bs)
           ns == [i \in 1 .. m |-> bs[i][1]]
           vs == [i \in 1 .. m |-> bs[i][2]]
           sv == [i \in 1 .. m |-> symtab[bs[i][1]]]
           f  == Frame("match", 1, ns, vs, sv)
<1>1. m \in Nat /\ \A i \in 1 .. m : bs[i] \in Names \X Values BY LenProperties, ElementOfSeq
<1>2. symtab \in [Names -> Entry] BY DEF IInv, TypeOK
<1>3. ns \in [1 .. m -> Names] /\ vs \in [1 .. m -> Stored] /\ sv \in [1 .. m -> Entry]
  BY <1>1, <1>2 DEF Stored
<1>4. \A i \in 1 .. m : ns[i] = bs[i][1] /\ sv[i] = symtab[ns[i]] OBVIOUS
<1>5. PushFrame(f) BY DEF Matched
<1> HIDE DEF ns, vs, sv
<1>6. ns \in Seq(Names) /\ Len(ns) = m /\ vs \in Seq(Stored) /\ Len(vs) = m
  BY <1>1, <1>3, FunctionIsSeq
<1>7. sv \in Tables /\ DOMAIN sv = 1 .. m
  <2>1. 1 .. m \in SUBSET Int BY <1>1
  <2> QED BY <1>3, <2>1 DEF Tables
<1>8. ns = <<>> <=> m = 0 BY <1>6, EmptySeq
<1> HIDE DEF m
<1>9. /\ f.phase = (IF m = 0 THEN "body" ELSE "match") /\ f.at = 1 /\ f.names = ns
      /\ f.saved = sv /\ f.bound = <<>> /\ f.values = vs
  BY <1>8 DEF Frame
<1>10. f \in FrameType BY <1>6, <1>7, <1>8, Empty DEF Frame, FrameType
<1>11. Progress(f)
  <2> HIDE DEF f
  <2> QED BY <1>1, <1>6, <1>7, <1>9, Empty DEF Progress, BindsItsNames, KeepsAll, InLet, InMatch
<1>12. f.phase \in {"let", "match", "body"} BY <1>9
<1>13. \A i \in DOMAIN f.saved : i \in 1 .. Len(f.names) /\ f.saved[i] = symtab[f.names[i]]
  <2> HIDE DEF f
  <2> QED BY <1>4, <1>6, <1>7, <1>9
<1> HIDE DEF f
<1> QED BY <1>5, <1>9, <1>10, <1>11, <1>12, <1>13, PushStep

LEMMA Singleton == ASSUME NEW S, NEW e \in S PROVE <<e>> \in Seq(S)
OBVIOUS

(* A pattern has too many heads.                                           *)
LEMMA OverflowsStep ==
  ASSUME IInv, InBody, UNCHANGED symtab, stack' \in Seq(Stored), Overflows
  PROVE  IInv'
<1> DEFINE g == Frame("body", 1, <<>>, <<>>, <<>>)
           f == [g EXCEPT !.phase = "undefined"]
<1>1. /\ f.phase = "undefined" /\ f.at = 1 /\ f.names = <<>> /\ f.values = <<>>
      /\ f.saved = <<>> /\ f.bound = <<>>
  BY DEF Frame
<1>2. f \in FrameType
  <2>1. f = [phase |-> "undefined", at |-> 1, names |-> <<>>, values |-> <<>>, saved |-> <<>>, bound |-> <<>>]
    BY DEF Frame
  <2> HIDE DEF f
  <2> QED BY <2>1, Empty DEF FrameType
<1>3. PushFrame(f) BY DEF Overflows
<1> HIDE DEF f
<1>4. Progress(f)
  BY <1>1, Empty DEF Progress, BindsItsNames, KeepsAll, InLet, InMatch
<1>5. \A i \in DOMAIN f.saved : i \in 1 .. Len(f.names) /\ f.saved[i] = symtab[f.names[i]]
  BY <1>1
<1> QED BY <1>1, <1>2, <1>3, <1>4, <1>5, PushStep

LEMMA MatchStep ==
  ASSUME IInv, NEW q \in Quotations, match(q)
  PROVE  IInv'
<1> DEFINE c == [wellformed |-> TRUE, pattern |-> q]
<1>1. InBody /\ symtab' = symtab /\ stack # <<>> /\ stack \in Seq(Stored)
  BY DEF match, Enters, IInv, TypeOK
<1>2. symtab' \in [Names -> Entry] BY <1>1 DEF IInv, TypeOK
<1>3. stack[1] \in Stored /\ Tail(stack) \in Seq(Stored)
  BY <1>1, HeadTailProperties, EmptySeq, ElementOfSeq
<1>4. c \in Cases BY DEF Cases
<1>5. PICK v \in Could(stack[1]) :
        \/ Tried(c, v).is = "yes" /\ Matched(Tried(c, v).bs) /\ stack' = Tail(stack)
        \/ Tried(c, v).is = "no" /\ stack' = <<Boolean(FALSE)>> \o Tail(stack) /\ UNCHANGED <<frames, globals>>
        \/ Tried(c, v).is = "error" /\ Abort /\ stack' = Tail(stack)
        \/ Tried(c, v).is = "undefined" /\ Overflows /\ stack' = Tail(stack)
  BY DEF match
<1>6. v \in Values BY <1>3 DEF Could, Stored
<1> HIDE DEF c
<1>7. Tried(c, v).bs \in Seq(Names \X Values) BY <1>4, <1>6, ValuesClosed
<1>8. CASE Matched(Tried(c, v).bs) /\ stack' = Tail(stack)
  BY <1>1, <1>3, <1>7, <1>8, MatchedStep
<1>9. CASE stack' = <<Boolean(FALSE)>> \o Tail(stack) /\ UNCHANGED <<frames, globals>>
  <2>1. Boolean(FALSE) \in Stored BY ValuesClosed DEF Stored
  <2>2. <<Boolean(FALSE)>> \in Seq(Stored)
    BY <2>1, Singleton
  <2>3. stack' \in Seq(Stored) BY <1>3, <1>9, <2>2, ConcatProperties
  <2> QED BY <1>1, <1>9, <2>3 DEF IInv, TypeOK
<1>10. CASE Abort /\ stack' = Tail(stack) BY <1>2, <1>3, <1>10, AbortStep
<1>11. CASE Overflows /\ stack' = Tail(stack) BY <1>1, <1>3, <1>11, OverflowsStep
<1> QED BY <1>5, <1>8, <1>9, <1>10, <1>11

LEMMA CasesStep ==
  ASSUME IInv, NEW cs \in CaseLists, cases(cs)
  PROVE  IInv'
<1>1. InBody /\ symtab' = symtab /\ stack # <<>> /\ stack \in Seq(Stored) /\ stack' = Tail(stack)
  BY DEF cases, Enters, IInv, TypeOK
<1>2. symtab' \in [Names -> Entry] BY <1>1 DEF IInv, TypeOK
<1>3. stack[1] \in Stored /\ stack' \in Seq(Stored)
  BY <1>1, HeadTailProperties, EmptySeq, ElementOfSeq
<1>4. PICK v \in Could(stack[1]) :
        \/ \E i \in 1 .. Len(cs) :
             /\ Decides(cs, v, i)
             /\ Matched(Tried(cs[i], v).bs) \/ Abort \/ Overflows
        \/ (\A i \in 1 .. Len(cs) : ~Decides(cs, v, i)) /\ Abort
  BY DEF cases
<1>5. v \in Values BY <1>3 DEF Could, Stored
<1>6. CASE Abort BY <1>2, <1>3, <1>6, AbortStep
<1>7. ASSUME NEW i \in 1 .. Len(cs), Matched(Tried(cs[i], v).bs) PROVE IInv'
  <2>1. cs[i] \in Cases BY ValuesClosed, ElementOfSeq
  <2>2. Tried(cs[i], v).bs \in Seq(Names \X Values) BY <1>5, <2>1, ValuesClosed
  <2> QED BY <1>1, <1>3, <1>7, <2>2, MatchedStep
<1>8. CASE Overflows BY <1>1, <1>3, <1>8, OverflowsStep
<1> QED BY <1>4, <1>6, <1>7, <1>8

(* A step in a quotation that leaves frames and entries alone. *)
LEMMA StackStep ==
  ASSUME IInv, stack' \in Seq(Stored), UNCHANGED <<symtab, frames, globals>>
  PROVE  IInv'
BY DEF IInv, TypeOK

LEMMA PushLiteralStep ==
  ASSUME IInv, PushLiteral
  PROVE  IInv'
<1>1. PICK v \in Literals : stack' = <<v>> \o stack BY DEF PushLiteral
<1>2. <<v>> \in Seq(Stored) /\ stack \in Seq(Stored)
  BY ValuesClosed, Singleton DEF Stored, IInv, TypeOK
<1>3. stack' \in Seq(Stored) BY <1>1, <1>2, ConcatProperties
<1> QED BY <1>3, StackStep DEF PushLiteral

LEMMA ExecuteStep ==
  ASSUME IInv, NEW x \in Names, Execute(x)
  PROVE  IInv'
<1>1. symtab[x].value \in Stored /\ stack \in Seq(Stored)
  BY DEF Execute, IInv, TypeOK, Entry
<1>2. <<symtab[x].value>> \in Seq(Stored) BY <1>1, Singleton
<1>3. stack' \in Seq(Stored) BY <1>1, <1>2, ConcatProperties DEF Execute
<1> QED BY <1>3, StackStep DEF Execute

LEMMA FailsStep ==
  ASSUME IInv, Fails
  PROVE  IInv'
BY AbortStep DEF Fails, IInv, TypeOK

(* A step that changes the innermost frame. *)
LEMMA SetTopStep ==
  ASSUME IInv, frames # <<>>, NEW f \in FrameType, Progress(f), SetTop(f),
         \A i \in DOMAIN f.saved :
           /\ i \in 1 .. Len(f.names)
           /\ (\A j \in i + 1 .. Len(f.names) : f.names[j] # f.names[i])
                => In(frames, globals, Len(frames) - 1, f.names[i], f.saved[i])
  PROVE  /\ FramesOK(frames', globals') /\ frames' \in Seq(FrameType) /\ frames' # <<>>
         /\ Len(frames') = Len(frames) /\ frames'[Len(frames)] = f /\ globals' = globals
         /\ \A x, e : In(frames', globals', Len(frames) - 1, x, e)
                       <=> In(frames, globals, Len(frames) - 1, x, e)
<1>1. frames \in Seq(FrameType) /\ FramesOK(frames, globals) BY DEF IInv, TypeOK
<1>2. frames' = [frames EXCEPT ![Len(frames)] = f] /\ globals' = globals BY DEF SetTop
<1>3. LET fs2 == [frames EXCEPT ![Len(frames)] = f]
      IN  /\ FramesOK(fs2, globals) /\ fs2 \in Seq(FrameType) /\ fs2 # <<>>
          /\ Len(fs2) = Len(frames) /\ fs2[Len(frames)] = f
          /\ \A x, e : In(fs2, globals, Len(frames) - 1, x, e)
                        <=> In(frames, globals, Len(frames) - 1, x, e)
  BY <1>1, SetTopKeeps
<1> QED BY <1>2, <1>3

LEMMA UndoStep ==
  ASSUME IInv, UndoName
  PROVE  IInv'
<1> DEFINE f  == Top
           i  == Top.at
           f2 == [Top EXCEPT !.at = @ - 1]
<1>1. frames # <<>> /\ f.phase = "undo" /\ stack' = stack BY DEF UndoName
<1>2. symtab \in [Names -> Entry] /\ stack' \in Seq(Stored) BY <1>1 DEF IInv, TypeOK
<1>3. CASE UNCHANGED symtab /\ Abort BY <1>2, <1>3, AbortStep
<1>4. CASE /\ i \in DOMAIN f.saved
           /\ symtab' = [symtab EXCEPT ![f.names[i]] = f.saved[i]]
           /\ SetTop(f2)
  <2>1. f \in FrameType /\ Progress(f) /\ Keeps(frames, globals, Len(frames))
    BY <1>1, TopFacts
  <2>2. f2 \in FrameType /\ f2.saved = f.saved /\ f2.names = f.names /\ f2.phase = "undo" /\ f2.bound = f.bound
    BY <1>1, <2>1 DEF FrameType
  <2>3. Progress(f2)
    <3> HIDE DEF f, f2
    <3> QED BY <2>1, <2>2 DEF Progress, BindsItsNames, InLet, InMatch
  <2>4. f.saved[i] \in Entry BY <1>4, <2>1 DEF FrameType, Tables
  <2>5. symtab' \in [Names -> Entry] BY <1>2, <1>4, <2>4
  <2>6. \A j \in DOMAIN f2.saved :
          /\ j \in 1 .. Len(f2.names)
          /\ (\A l \in j + 1 .. Len(f2.names) : f2.names[l] # f2.names[j])
               => In(frames, globals, Len(frames) - 1, f2.names[j], f2.saved[j])
    <3>1. f = frames[Len(frames)] BY DEF Top
    <3> HIDE DEF f, f2
    <3> QED BY <2>1, <2>2, <3>1 DEF Keeps
  <2>7. /\ FramesOK(frames', globals') /\ frames' \in Seq(FrameType) /\ frames' # <<>>
        /\ frames'[Len(frames')] = f2 /\ globals' = globals
    <3> HIDE DEF f2
    <3> QED BY <1>1, <1>4, <2>2, <2>3, <2>6, SetTopStep
  <2>8. TableOK(frames', globals', symtab')
    <3> HIDE DEF f2
    <3> QED BY <2>2, <2>7 DEF TableOK
  <2> QED BY <1>2, <2>5, <2>7, <2>8 DEF IInv, TypeOK
<1> QED BY <1>3, <1>4 DEF UndoName

(* The table when the innermost frame still binds or its quotation runs. *)
LEMMA TableBound ==
  ASSUME NEW fs, NEW gs, NEW t, fs # <<>>, fs[Len(fs)].phase \in {"let", "match", "body"},
         \A x \in Names : In(fs, gs, Len(fs), x, t[x])
  PROVE  TableOK(fs, gs, t)
BY DEF TableOK

(* A name x is bound to the entry e in the innermost frame. *)
LEMMA BindStep ==
  ASSUME IInv, frames # <<>>, Top.phase \in {"let", "match"}, NEW x \in Names, NEW e \in Entry,
         stack' \in Seq(Stored), symtab' = [symtab EXCEPT ![x] = e],
         NEW f \in FrameType, Progress(f), SetTop(f), f.bound = With(Top.bound, x, e),
         f.phase \in {"let", "match", "body"},
         \A i \in DOMAIN f.saved :
           /\ i \in 1 .. Len(f.names)
           /\ (\A j \in i + 1 .. Len(f.names) : f.names[j] # f.names[i])
                => In(frames, globals, Len(frames) - 1, f.names[i], f.saved[i])
  PROVE  IInv'
<1> DEFINE n == Len(frames)
<1>1. /\ FramesOK(frames', globals') /\ frames' \in Seq(FrameType) /\ frames' # <<>>
      /\ Len(frames') = n /\ frames'[n] = f /\ globals' = globals
      /\ \A y, d : In(frames', globals', n - 1, y, d) <=> In(frames, globals, n - 1, y, d)
  BY SetTopStep
<1>2. n \in Nat \ {0} /\ Top \in FrameType BY TopFacts
<1>3. symtab \in [Names -> Entry] /\ symtab' \in [Names -> Entry]
      /\ symtab'[x] = e /\ \A y \in Names : y # x => symtab'[y] = symtab[y]
  BY DEF IInv, TypeOK
<1>4. DOMAIN f.bound = DOMAIN Top.bound \cup {x} /\ f.bound[x] = e
      /\ \A y \in DOMAIN Top.bound : y # x => f.bound[y] = Top.bound[y]
  BY DEF With
<1>5. \A y \in Names : In(frames, globals, n, y, symtab[y]) BY DEF IInv, TableOK, Top
<1> HIDE DEF n
<1>6. ASSUME NEW y \in Names PROVE In(frames', globals', n, y, symtab'[y])
  <2>1. CASE y = x
    <3>1. x \in DOMAIN frames'[n].bound /\ frames'[n].bound[x] = symtab'[x] BY <1>1, <1>3, <1>4
    <3>2. In(frames', globals', n, x, frames'[n].bound[x]) BY <1>2, <3>1, Inside
    <3> QED BY <2>1, <3>1, <3>2
  <2>2. CASE y # x /\ y \in DOMAIN Top.bound
    <3>1. y \in DOMAIN frames'[n].bound /\ frames'[n].bound[y] = Top.bound[y] BY <1>1, <1>4, <2>2
    <3>2. In(frames', globals', n, y, frames'[n].bound[y]) BY <1>2, <3>1, Inside
    <3>3. Top = frames[n] BY DEF Top, n
    <3>4. symtab[y] = Top.bound[y]
      <4>1. \A i \in 1 .. n : \/ i = n \/ n \in i + 1 .. n BY <1>2
      <4>2. In(frames, globals, n, y, symtab[y]) /\ y \in DOMAIN frames[n].bound BY <1>5, <2>2, <3>3
      <4>3. n \in 1 .. n BY <1>2
      <4> QED BY <3>3, <4>1, <4>2, <4>3 DEF In
    <3> QED BY <1>3, <2>2, <3>1, <3>2, <3>4
  <2>3. CASE y # x /\ y \notin DOMAIN Top.bound
    <3>1. Top = frames[n] BY DEF Top, n
    <3>2. In(frames, globals, n - 1, y, symtab[y]) BY <1>2, <1>5, <2>3, <3>1, Outside
    <3>3. y \notin DOMAIN frames'[n].bound BY <1>1, <1>4, <2>3
    <3>4. In(frames', globals', n - 1, y, symtab'[y]) BY <1>1, <1>3, <2>3, <3>2
    <3> QED BY <1>2, <3>3, <3>4, Outside
  <2> QED BY <2>1, <2>2, <2>3
<1>7. TableOK(frames', globals', symtab')
  <2> DEFINE fs == frames'
             gs == globals'
             t  == symtab'
  <2>1. fs # <<>> /\ fs[Len(fs)].phase \in {"let", "match", "body"}
        /\ \A y \in Names : In(fs, gs, Len(fs), y, t[y])
    BY <1>1, <1>6
  <2> HIDE DEF fs, gs, t
  <2>2. TableOK(fs, gs, t) BY <2>1, TableBound
  <2> QED BY <2>2 DEF fs, gs, t
<1>8. globals' \in [Names -> Entry] BY <1>1 DEF IInv, TypeOK
<1> QED BY <1>1, <1>3, <1>7, <1>8 DEF IInv, TypeOK

LEMMA BindNameStep ==
  ASSUME IInv, BindName
  PROVE  IInv'
<1> DEFINE i  == Top.at
           x  == Top.names[i]
           m  == Len(Top.names)
           e  == Bound(stack[1])
           u  == [Top EXCEPT !.phase = "undo", !.at = m]
           f  == [Top EXCEPT !.saved = With(@, i, symtab[x]), !.bound = With(@, x, e),
                             !.phase = IF i = 1 THEN "body" ELSE "let", !.at = @ - 1]
<1>1. frames # <<>> /\ Top.phase = "let" BY DEF BindName
<1>2. /\ Top \in FrameType /\ Progress(Top) /\ Len(frames) \in Nat \ {0} /\ m \in Nat
      /\ Keeps(frames, globals, Len(frames)) /\ \A j \in 1 .. m : Top.names[j] \in Names
  BY <1>1, TopFacts
<1>3. symtab \in [Names -> Entry] /\ stack \in Seq(Stored) /\ globals \in [Names -> Entry]
  BY DEF IInv, TypeOK
<1>4. /\ i \in 1 .. m /\ \A j \in 1 .. m : j \in DOMAIN Top.saved <=> j > i
      /\ \A y \in DOMAIN Top.bound : \E j \in i + 1 .. m : Top.names[j] = y
  BY <1>1, <1>2 DEF Progress, InLet
<1>5. x \in Names BY <1>2, <1>4
<1>6. \A j \in DOMAIN Top.saved :
        /\ j \in 1 .. m
        /\ (\A l \in j + 1 .. m : Top.names[l] # Top.names[j])
             => In(frames, globals, Len(frames) - 1, Top.names[j], Top.saved[j])
  BY <1>2 DEF Keeps, Top
<1>7. CASE stack = <<>> /\ SetTop(u) /\ UNCHANGED <<symtab, stack>>
  <2>1. u \in FrameType /\ u.saved = Top.saved /\ u.names = Top.names /\ u.phase = "undo"
        /\ u.bound = Top.bound
    <3>1. m \in Int BY <1>2
    <3> HIDE DEF m
    <3> QED BY <1>2, <3>1 DEF FrameType
  <2> HIDE DEF u
  <2>2. Progress(u) BY <1>2, <2>1 DEF Progress, BindsItsNames, InLet, InMatch
  <2>3. /\ FramesOK(frames', globals') /\ frames' \in Seq(FrameType) /\ frames' # <<>>
        /\ frames'[Len(frames')] = u /\ globals' = globals
    BY <1>1, <1>6, <1>7, <2>1, <2>2, SetTopStep
  <2>4. TableOK(frames', globals', symtab') BY <2>1, <2>3 DEF TableOK
  <2> QED BY <1>3, <1>7, <2>3, <2>4 DEF IInv, TypeOK
<1>8. CASE /\ stack # <<>> /\ symtab' = [symtab EXCEPT ![x] = e]
           /\ stack' = Tail(stack) /\ SetTop(f)
  <2>1. stack[1] \in Stored /\ stack' \in Seq(Stored)
    BY <1>3, <1>8, HeadTailProperties, EmptySeq, ElementOfSeq
  <2>2. e \in Entry BY <2>1 DEF Entry, Bound
  <2>3. i \in Int /\ symtab[x] \in Entry BY <1>3, <1>4, <1>5
  <2>4. Top.saved \in Tables /\ Top.bound \in Partial BY <1>2 DEF FrameType
  <2> HIDE DEF i, x, e, m
  <2>5. /\ With(Top.saved, i, symtab[x]) \in Tables
        /\ DOMAIN With(Top.saved, i, symtab[x]) = DOMAIN Top.saved \cup {i}
        /\ With(Top.saved, i, symtab[x])[i] = symtab[x]
        /\ \A j \in DOMAIN Top.saved : j # i => With(Top.saved, i, symtab[x])[j] = Top.saved[j]
    <3>1. With(Top.saved, i, symtab[x]) \in Tables BY <2>3, <2>4, WithPosition
    <3> QED BY <3>1 DEF With
  <2>6. With(Top.bound, x, e) \in Partial /\ DOMAIN With(Top.bound, x, e) = DOMAIN Top.bound \cup {x}
    BY <1>5, <2>2, <2>4, WithName
  <2>7. /\ f.saved = With(Top.saved, i, symtab[x]) /\ f.bound = With(Top.bound, x, e)
        /\ f.phase = (IF i = 1 THEN "body" ELSE "let") /\ f.at = i - 1 /\ f.names = Top.names
        /\ f \in FrameType
    <3>1. (IF i = 1 THEN "body" ELSE "let") \in {"let", "match", "body", "restore", "undo", "undefined"} OBVIOUS
    <3>2. Top.at = i /\ i - 1 \in Int BY <2>3 DEF i
    <3>3. f = [Top EXCEPT !.saved = With(Top.saved, i, symtab[x]), !.bound = With(Top.bound, x, e),
                          !.phase = IF i = 1 THEN "body" ELSE "let", !.at = i - 1]
      BY <3>2
    <3> DEFINE sv == With(Top.saved, i, symtab[x])
               b  == With(Top.bound, x, e)
               p  == IF i = 1 THEN "body" ELSE "let"
               a  == i - 1
    <3>4. sv \in Tables /\ b \in Partial /\ a \in Int
          /\ p \in {"let", "match", "body", "restore", "undo", "undefined"}
      BY <2>5, <2>6, <3>1, <3>2
    <3>5. f = [Top EXCEPT !.saved = sv, !.bound = b, !.phase = p, !.at = a] BY <3>3
    <3> HIDE DEF f, sv, b, p, a
    <3>6. f \in FrameType /\ f.saved = sv /\ f.bound = b /\ f.phase = p /\ f.at = a
          /\ f.names = Top.names
      BY <1>2, <3>4, <3>5 DEF FrameType
    <3> QED BY <3>6 DEF sv, b, p, a
  <2> HIDE DEF f
  <2>8. Progress(f)
    <3>1. \A y \in DOMAIN f.bound : \E j \in i .. m : f.names[j] = y
      <4> TAKE y \in DOMAIN f.bound
      <4>1. CASE y = x BY <1>4, <2>7, <4>1 DEF x
      <4>2. CASE y \in DOMAIN Top.bound BY <1>4, <2>7, <4>2
      <4> QED BY <2>6, <2>7, <4>1, <4>2
    <3>2. \A j \in 1 .. m : j \in DOMAIN f.saved <=> j > i - 1
      BY <1>4, <2>5, <2>7
    <3>3. BindsItsNames(f) BY <1>4, <2>7, <3>1 DEF BindsItsNames, m
    <3>4. InLet(f)
      <4> SUFFICES ASSUME i # 1 
                   PROVE  /\ i - 1 \in 1 .. m
                          /\ \A j \in 1 .. m : j \in DOMAIN f.saved <=> j > i - 1
                          /\ \A y \in DOMAIN f.bound : \E j \in i - 1 + 1 .. m : f.names[j] = y
        BY <2>7 DEF InLet, m
      <4>1. i - 1 \in 1 .. m /\ i - 1 + 1 = i BY <1>2, <1>4
      <4> QED BY <3>1, <3>2, <4>1
    <3>5. f.phase \notin {"match", "restore"} BY <2>7
    <3>6. f.phase = "body" => KeepsAll(f)
      <4> SUFFICES ASSUME i = 1, NEW j \in 1 .. m PROVE j \in DOMAIN f.saved
        BY <2>7 DEF KeepsAll, m
      <4> QED BY <3>2
    <3> QED BY <3>3, <3>4, <3>5, <3>6 DEF Progress, InMatch
  <2>9. \A j \in DOMAIN f.saved :
          /\ j \in 1 .. Len(f.names)
          /\ (\A l \in j + 1 .. Len(f.names) : f.names[l] # f.names[j])
               => In(frames, globals, Len(frames) - 1, f.names[j], f.saved[j])
    <3> SUFFICES ASSUME NEW j \in DOMAIN f.saved
                 PROVE  /\ j \in 1 .. m
                        /\ (\A l \in j + 1 .. m : f.names[l] # f.names[j])
                             => In(frames, globals, Len(frames) - 1, f.names[j], f.saved[j])
      BY <2>7 DEF m
    <3>1. CASE j # i
      <4>1. j \in DOMAIN Top.saved /\ f.saved[j] = Top.saved[j] BY <2>5, <2>7, <3>1
      <4> QED BY <1>6, <2>7, <4>1
    <3>2. CASE j = i
      <4>1. f.saved[j] = symtab[x] /\ f.names[j] = x BY <2>5, <2>7, <3>2 DEF x
      <4>2. ASSUME \A l \in j + 1 .. m : f.names[l] # f.names[j]
            PROVE  In(frames, globals, Len(frames) - 1, x, symtab[x])
        <5>1. x \notin DOMAIN Top.bound BY <1>4, <2>7, <3>2, <4>1, <4>2
        <5>2. x \notin DOMAIN frames[Len(frames)].bound BY <5>1 DEF Top
        <5>3. In(frames, globals, Len(frames), x, symtab[x])
          BY <1>1, <1>5 DEF IInv, TableOK, Top
        <5> QED BY <1>2, <5>2, <5>3, Outside
      <4> QED BY <1>4, <3>2, <4>1, <4>2
    <3> QED BY <3>1, <3>2
  <2>10. f.phase \in {"let", "match", "body"} BY <2>7
  <2> QED BY <1>1, <1>5, <1>8, <2>1, <2>2, <2>7, <2>8, <2>9, <2>10, BindStep
<1> QED BY <1>7, <1>8 DEF BindName

LEMMA ApplyBindingStep ==
  ASSUME IInv, ApplyBinding
  PROVE  IInv'
<1> DEFINE i  == Top.at
           x  == Top.names[i]
           m  == Len(Top.names)
           e  == Bound(Top.values[i])
           f  == [Top EXCEPT !.bound = With(@, x, e),
                             !.phase = IF i = m THEN "body" ELSE "match", !.at = @ + 1]
<1>1. /\ frames # <<>> /\ Top.phase = "match" /\ UNCHANGED stack
      /\ symtab' = [symtab EXCEPT ![x] = e] /\ SetTop(f)
  BY DEF ApplyBinding
<1>2. /\ Top \in FrameType /\ Progress(Top) /\ Len(frames) \in Nat \ {0} /\ m \in Nat
      /\ Keeps(frames, globals, Len(frames)) /\ \A j \in 1 .. m : Top.names[j] \in Names
  BY <1>1, TopFacts
<1>3. i \in 1 .. m /\ Len(Top.values) = m /\ KeepsAll(Top)
  BY <1>1, <1>2 DEF Progress, InMatch
<1>4. x \in Names BY <1>2, <1>3
<1>5. e \in Entry
  <2>1. Top.values \in Seq(Stored) BY <1>2 DEF FrameType
  <2>2. Top.values[i] \in Stored BY <1>3, <2>1, ElementOfSeq
  <2> QED BY <2>2 DEF Entry, Bound
<1>6. Top.bound \in Partial /\ i \in Int BY <1>2, <1>3 DEF FrameType
<1> HIDE DEF i, x, e, m
<1>7. With(Top.bound, x, e) \in Partial /\ DOMAIN With(Top.bound, x, e) = DOMAIN Top.bound \cup {x}
  <2>1. With(Top.bound, x, e) \in Partial BY <1>4, <1>5, <1>6, WithName
  <2> QED BY <2>1 DEF With
<1>8. /\ f.saved = Top.saved /\ f.bound = With(Top.bound, x, e) /\ f.values = Top.values
      /\ f.phase = (IF i = m THEN "body" ELSE "match") /\ f.at = i + 1 /\ f.names = Top.names
      /\ f \in FrameType
  <2> DEFINE b == With(Top.bound, x, e)
             p == IF i = m THEN "body" ELSE "match"
             a == i + 1
  <2>1. b \in Partial /\ a \in Int /\ p \in {"let", "match", "body", "restore", "undo", "undefined"}
    BY <1>6, <1>7
  <2>2. f = [Top EXCEPT !.bound = b, !.phase = p, !.at = a] BY DEF i
  <2> HIDE DEF f, b, p, a
  <2>3. f \in FrameType /\ f.saved = Top.saved /\ f.bound = b /\ f.phase = p /\ f.at = a
        /\ f.names = Top.names /\ f.values = Top.values
    BY <1>2, <2>1, <2>2 DEF FrameType
  <2> QED BY <2>3 DEF b, p, a
<1> HIDE DEF f
<1>9. Progress(f)
  <2>1. BindsItsNames(f)
    <3> SUFFICES ASSUME NEW y \in DOMAIN f.bound PROVE \E j \in 1 .. m : f.names[j] = y
      BY <1>8 DEF BindsItsNames, m
    <3>1. CASE y = x BY <1>3, <1>8, <3>1 DEF x
    <3>2. CASE y \in DOMAIN Top.bound BY <1>2, <1>8, <3>2 DEF Progress, BindsItsNames, m
    <3> QED BY <1>7, <1>8, <3>1, <3>2
  <2>2. InLet(f) BY <1>8 DEF InLet
  <2>3. InMatch(f)
    <3> SUFFICES ASSUME i # m PROVE i + 1 \in 1 .. m /\ Len(f.values) = m
      BY <1>8 DEF InMatch, m
    <3> QED BY <1>2, <1>3, <1>8
  <2>4. KeepsAll(f) BY <1>3, <1>8 DEF KeepsAll
  <2> QED BY <1>8, <2>1, <2>2, <2>3, <2>4 DEF Progress
<1>10. \A j \in DOMAIN f.saved :
         /\ j \in 1 .. Len(f.names)
         /\ (\A l \in j + 1 .. Len(f.names) : f.names[l] # f.names[j])
              => In(frames, globals, Len(frames) - 1, f.names[j], f.saved[j])
  BY <1>2, <1>8 DEF Keeps, Top
<1>11. f.phase \in {"let", "match", "body"} BY <1>8
<1>12. stack' \in Seq(Stored) BY <1>1 DEF IInv, TypeOK
<1> QED BY <1>1, <1>4, <1>5, <1>8, <1>9, <1>10, <1>11, <1>12, BindStep

(* The innermost frame is closed. *)
LEMMA PopStep ==
  ASSUME IInv, frames # <<>>, PopFrame, UNCHANGED stack, symtab' \in [Names -> Entry],
         \A y \in Names : In(frames, globals, Len(frames) - 1, y, symtab'[y])
  PROVE  IInv'
<1>1. frames' = SubSeq(frames, 1, Len(frames) - 1) /\ globals' = globals BY DEF PopFrame
<1>2. frames \in Seq(FrameType) /\ FramesOK(frames, globals) BY DEF IInv, TypeOK
<1>3. LET fs2 == SubSeq(frames, 1, Len(frames) - 1)
      IN  fs2 \in Seq(FrameType) /\ FramesOK(fs2, globals) /\ TableOK(fs2, globals, symtab')
  BY <1>2, PopKeeps
<1> QED BY <1>1, <1>3 DEF IInv, TypeOK

LEMMA EndsStep ==
  ASSUME IInv, Ends
  PROVE  IInv'
<1> DEFINE m == Len(Top.names)
           f == [Top EXCEPT !.phase = "restore", !.at = 1]
<1>1. frames # <<>> /\ Top.phase = "body" /\ UNCHANGED <<symtab, stack>> BY DEF Ends
<1>2. /\ Top \in FrameType /\ Progress(Top) /\ Len(frames) \in Nat \ {0} /\ m \in Nat
      /\ Keeps(frames, globals, Len(frames)) /\ Top.names \in Seq(Names)
  BY <1>1, TopFacts
<1>3. \A y \in Names : In(frames, globals, Len(frames), y, symtab[y])
  BY <1>1 DEF IInv, TableOK, Top
<1>4. ASSUME NEW y \in Names, \A j \in 1 .. m : Top.names[j] # y
      PROVE  In(frames, globals, Len(frames) - 1, y, symtab[y])
  <2>1. y \notin DOMAIN Top.bound BY <1>2, <1>4 DEF Progress, BindsItsNames
  <2>2. y \notin DOMAIN frames[Len(frames)].bound BY <2>1 DEF Top
  <2> QED BY <1>2, <1>3, <2>2, Outside
<1>5. symtab' = symtab /\ symtab' \in [Names -> Entry] BY <1>1 DEF IInv, TypeOK
<1>6. CASE Top.names = <<>> /\ PopFrame
  <2>1. m = 0 BY <1>6
  <2>2. \A y \in Names : In(frames, globals, Len(frames) - 1, y, symtab'[y])
    <3> HIDE DEF m
    <3> QED BY <1>4, <1>5, <2>1
  <2> QED BY <1>1, <1>5, <1>6, <2>2, PopStep
<1>7. CASE Top.names # <<>> /\ SetTop(f)
  <2>1. f \in FrameType /\ f.saved = Top.saved /\ f.names = Top.names /\ f.phase = "restore"
        /\ f.at = 1 /\ f.bound = Top.bound
    <3> DEFINE p == "restore"
               a == 1
    <3>1. a \in Int /\ p \in {"let", "match", "body", "restore", "undo", "undefined"} OBVIOUS
    <3>2. f = [Top EXCEPT !.phase = p, !.at = a] OBVIOUS
    <3> HIDE DEF f, p, a
    <3>3. f \in FrameType /\ f.saved = Top.saved /\ f.names = Top.names /\ f.phase = p
          /\ f.at = a /\ f.bound = Top.bound
      BY <1>2, <3>1, <3>2 DEF FrameType
    <3> QED BY <3>3 DEF p, a
  <2> HIDE DEF f
  <2>2. m # 0 BY <1>2, <1>7, EmptySeq
  <2>3. Progress(f)
    <3>1. 1 \in 1 .. m BY <1>2, <2>2
    <3> QED BY <1>1, <1>2, <2>1, <3>1 DEF Progress, BindsItsNames, InLet, InMatch, KeepsAll
  <2>4. \A j \in DOMAIN f.saved :
          /\ j \in 1 .. Len(f.names)
          /\ (\A l \in j + 1 .. Len(f.names) : f.names[l] # f.names[j])
               => In(frames, globals, Len(frames) - 1, f.names[j], f.saved[j])
    BY <1>2, <2>1 DEF Keeps, Top
  <2>5. /\ FramesOK(frames', globals') /\ frames' \in Seq(FrameType) /\ frames' # <<>>
        /\ Len(frames') = Len(frames) /\ frames'[Len(frames)] = f /\ globals' = globals
        /\ \A y, d : In(frames', globals', Len(frames) - 1, y, d)
                      <=> In(frames, globals, Len(frames) - 1, y, d)
    BY <1>1, <1>7, <2>1, <2>3, <2>4, SetTopStep
  <2>6. ASSUME NEW y \in Names, \A j \in 1 .. m : Top.names[j] # y
        PROVE  In(frames', globals', Len(frames) - 1, y, symtab'[y])
    BY <1>4, <1>5, <2>5, <2>6
  <2>7. TableOK(frames', globals', symtab')
    <3>1. frames'[Len(frames')] = f /\ Len(frames') = Len(frames) BY <2>5
    <3> QED BY <2>1, <2>5, <2>6, <3>1 DEF TableOK
  <2> QED BY <1>1, <1>5, <2>5, <2>7 DEF IInv, TypeOK
<1> QED BY <1>6, <1>7 DEF Ends

LEMMA RestoresStep ==
  ASSUME IInv, Restores
  PROVE  IInv'
<1> DEFINE m == Len(Top.names)
           i == Top.at
           x == Top.names[i]
           f == [Top EXCEPT !.at = @ + 1]
<1>1. /\ frames # <<>> /\ Top.phase = "restore" /\ UNCHANGED stack
      /\ symtab' = [symtab EXCEPT ![x] = Top.saved[i]]
  BY DEF Restores
<1>2. /\ Top \in FrameType /\ Progress(Top) /\ Len(frames) \in Nat \ {0} /\ m \in Nat
      /\ Keeps(frames, globals, Len(frames)) /\ \A j \in 1 .. m : Top.names[j] \in Names
  BY <1>1, TopFacts
<1>3. i \in 1 .. m /\ i \in DOMAIN Top.saved BY <1>1, <1>2 DEF Progress, KeepsAll
<1>4. x \in Names BY <1>2, <1>3
<1>5. Top.saved[i] \in Entry BY <1>2, <1>3 DEF FrameType, Tables
<1>6. symtab \in [Names -> Entry] BY DEF IInv, TypeOK
<1>7. /\ symtab' \in [Names -> Entry] /\ symtab'[x] = Top.saved[i]
      /\ \A y \in Names : y # x => symtab'[y] = symtab[y]
  BY <1>1, <1>4, <1>5, <1>6
<1>8. ASSUME NEW y \in Names, \A j \in i + 1 .. m : Top.names[j] # y
      PROVE  In(frames, globals, Len(frames) - 1, y, symtab'[y])
  <2>1. CASE y = x BY <1>2, <1>3, <1>7, <1>8, <2>1 DEF Keeps, Top
  <2>2. CASE y # x
    <3>1. \A j \in i .. m : Top.names[j] # y BY <1>3, <1>8, <2>2
    <3>2. In(frames, globals, Len(frames) - 1, y, symtab[y])
      BY <1>1, <3>1 DEF IInv, TableOK, Top
    <3> QED BY <1>7, <2>2, <3>2
  <2> QED BY <2>1, <2>2
<1> HIDE DEF x
<1>9. CASE i = m /\ PopFrame
  <2>1. i + 1 .. m = {} BY <1>2, <1>9
  <2>2. \A y \in Names : In(frames, globals, Len(frames) - 1, y, symtab'[y])
    <3> HIDE DEF i, m
    <3> QED BY <1>8, <2>1
  <2> QED BY <1>1, <1>7, <1>9, <2>2, PopStep
<1>10. CASE i # m /\ SetTop(f)
  <2>1. f \in FrameType /\ f.saved = Top.saved /\ f.names = Top.names /\ f.phase = "restore"
        /\ f.at = i + 1 /\ f.bound = Top.bound
    BY <1>1, <1>2 DEF FrameType
  <2> HIDE DEF f
  <2>2. Progress(f)
    <3>1. i + 1 \in 1 .. m BY <1>2, <1>3, <1>10
    <3> QED BY <1>1, <1>2, <2>1, <3>1 DEF Progress, BindsItsNames, InLet, InMatch, KeepsAll
  <2>3. \A j \in DOMAIN f.saved :
          /\ j \in 1 .. Len(f.names)
          /\ (\A l \in j + 1 .. Len(f.names) : f.names[l] # f.names[j])
               => In(frames, globals, Len(frames) - 1, f.names[j], f.saved[j])
    BY <1>2, <2>1 DEF Keeps, Top
  <2>4. /\ FramesOK(frames', globals') /\ frames' \in Seq(FrameType) /\ frames' # <<>>
        /\ Len(frames') = Len(frames) /\ frames'[Len(frames)] = f /\ globals' = globals
        /\ \A y, d : In(frames', globals', Len(frames) - 1, y, d)
                      <=> In(frames, globals, Len(frames) - 1, y, d)
    BY <1>1, <1>10, <2>1, <2>2, <2>3, SetTopStep
  <2>5. ASSUME NEW y \in Names, \A j \in i + 1 .. m : Top.names[j] # y
        PROVE  In(frames', globals', Len(frames) - 1, y, symtab'[y])
    BY <1>8, <2>4, <2>5
  <2>6. TableOK(frames', globals', symtab')
    <3>1. frames'[Len(frames')] = f /\ Len(frames') = Len(frames) BY <2>4
    <3> QED BY <2>1, <2>4, <2>5, <3>1 DEF TableOK
  <2>7. globals' \in [Names -> Entry] BY <2>4 DEF IInv, TypeOK
  <2>8. stack' \in Seq(Stored) BY <1>1 DEF IInv, TypeOK
  <2> QED BY <1>7, <2>4, <2>6, <2>7, <2>8 DEF IInv, TypeOK
<1> QED BY <1>9, <1>10 DEF Restores

LEMMA DefineStep ==
  ASSUME IInv, NEW x \in Names, Define(x)
  PROVE  IInv'
<1>1. PICK v \in Literals :
        /\ symtab' = [LoseIn(symtab) EXCEPT ![x] = Defined(v)]
        /\ globals' = [LoseIn(globals) EXCEPT ![x] = Defined(v)]
  BY DEF Define
<1>2. frames = <<>> /\ frames' = <<>> /\ stack' = <<>> BY DEF Define
<1>3. symtab \in [Names -> Entry] /\ globals \in [Names -> Entry] BY DEF IInv, TypeOK
<1>4. Defined(v) \in Entry BY ValuesClosed DEF Entry, Defined, Stored
<1>5. LoseIn(symtab) \in [Names -> Entry] /\ LoseIn(globals) \in [Names -> Entry]
  BY <1>3, Losing
<1>6. symtab' \in [Names -> Entry] /\ globals' \in [Names -> Entry] BY <1>1, <1>4, <1>5
<1>7. \A y \in Names : symtab[y] = globals[y]
  <2> TAKE y \in Names
  <2>1. Len(<<>>) = 0 BY EmptySeq
  <2>2. In(<<>>, globals, 0, y, symtab[y])
    BY <1>2, <2>1 DEF IInv, TableOK
  <2> QED BY <2>2, NoFrames
<1>8. \A y \in Names : symtab'[y] = globals'[y]
  BY <1>1, <1>3, <1>5, <1>7 DEF LoseIn
<1>9. <<>> \in Seq(FrameType) /\ FramesOK(<<>>, globals') /\ TableOK(<<>>, globals', symtab')
  BY <1>8, AbortKeeps
<1> QED BY <1>2, <1>6, <1>9, Empty DEF IInv, TypeOK

(* A frame after a collection. *)
Collected(f) == [f EXCEPT !.saved = LoseIn(@), !.bound = LoseIn(@),
                        !.values = [i \in DOMAIN @ |-> Lost]]

LEMMA LosingFrame ==
  ASSUME NEW f \in FrameType
  PROVE  /\ Collected(f) \in FrameType /\ Collected(f).phase = f.phase /\ Collected(f).at = f.at
         /\ Collected(f).names = f.names /\ Collected(f).saved = LoseIn(f.saved)
         /\ Collected(f).bound = LoseIn(f.bound) /\ Len(Collected(f).values) = Len(f.values)
<1> DEFINE sv == LoseIn(f.saved)
           b  == LoseIn(f.bound)
           vs == [i \in DOMAIN f.values |-> Lost]
<1>1. f.saved \in Tables /\ f.bound \in Partial /\ f.values \in Seq(Stored) BY DEF FrameType
<1>2. sv \in Tables /\ b \in Partial BY <1>1, Losing
<1>3. vs \in Seq(Stored) /\ Len(vs) = Len(f.values)
  <2>1. Len(f.values) \in Nat /\ DOMAIN f.values = 1 .. Len(f.values) BY <1>1, LenProperties
  <2>2. vs \in [1 .. Len(f.values) -> Stored] BY <2>1 DEF Stored
  <2> HIDE DEF vs
  <2> QED BY <2>1, <2>2, FunctionIsSeq
<1>4. Collected(f) = [f EXCEPT !.saved = sv, !.bound = b, !.values = vs] BY DEF Collected
<1> HIDE DEF sv, b, vs
<1>5. /\ Collected(f) \in FrameType /\ Collected(f).phase = f.phase /\ Collected(f).at = f.at
      /\ Collected(f).names = f.names /\ Collected(f).saved = sv
      /\ Collected(f).bound = b /\ Collected(f).values = vs
  BY <1>2, <1>3, <1>4 DEF FrameType
<1> QED BY <1>3, <1>5 DEF sv, b

LEMMA LosingProgress ==
  ASSUME NEW f \in FrameType, Progress(f)
  PROVE  Progress(Collected(f))
<1> DEFINE g == Collected(f)
<1>1. f.saved \in Tables /\ f.bound \in Partial BY DEF FrameType
<1>2. /\ g.phase = f.phase /\ g.at = f.at /\ g.names = f.names
      /\ DOMAIN g.saved = DOMAIN f.saved /\ DOMAIN g.bound = DOMAIN f.bound
      /\ Len(g.values) = Len(f.values)
  BY <1>1, LosingFrame, Losing
<1> HIDE DEF g
<1>3. Progress(g) BY <1>2 DEF Progress, BindsItsNames, InLet, InMatch, KeepsAll
<1> QED BY <1>3 DEF g

LEMMA GcStep ==
  ASSUME IInv, gc
  PROVE  IInv'
<1> DEFINE n == Len(frames)
<1>1. /\ frames # <<>> /\ Top.phase \in {"let", "match", "body"} /\ UNCHANGED stack
      /\ symtab' = LoseIn(symtab) /\ globals' = LoseIn(globals)
      /\ frames' = [k \in 1 .. n |-> Collected(frames[k])]
  BY DEF gc, Collected
<1>2. frames \in Seq(FrameType) /\ n \in Nat \ {0} /\ \A k \in 1 .. n : frames[k] \in FrameType
  BY <1>1, TopFacts, ElementOfSeq DEF IInv, TypeOK
<1>3. symtab \in [Names -> Entry] /\ globals \in [Names -> Entry] BY DEF IInv, TypeOK
<1>4. symtab' \in [Names -> Entry] /\ globals' \in [Names -> Entry] BY <1>1, <1>3, Losing
<1> HIDE DEF n
<1>5. frames' \in Seq(FrameType) /\ Len(frames') = n /\ \A k \in 1 .. n : frames'[k] = Collected(frames[k])
  <2>1. frames' \in [1 .. n -> FrameType] BY <1>1, <1>2, LosingFrame
  <2> QED BY <1>1, <1>2, <2>1, FunctionIsSeq
<1>6. \A k \in 1 .. n : frames'[k].bound = LoseIn(frames[k].bound)
  BY <1>2, <1>5, LosingFrame
<1>7. ASSUME NEW k \in 0 .. n, NEW x \in Names, NEW e, In(frames, globals, k, x, e)
      PROVE  In(frames', globals', k, x, Lose(e))
  <2>1. k \in Nat /\ \A i \in 1 .. k : i \in 1 .. n BY <1>2
  <2>2. \A i \in 1 .. k : frames'[i].bound = LoseIn(frames[i].bound) BY <1>6, <2>1
  <2>3. x \in DOMAIN globals BY <1>3
  <2> QED BY <1>1, <1>7, <2>1, <2>2, <2>3, LosingIn
<1>8. ASSUME NEW k \in 1 .. n
      PROVE  Keeps(frames', globals', k)
  <2> DEFINE f == frames[k]
             g == frames'[k]
  <2>1. f \in FrameType /\ f.saved \in Tables /\ f.names \in Seq(Names) BY <1>2 DEF FrameType
  <2>2. g.names = f.names /\ g.saved = LoseIn(f.saved) /\ DOMAIN g.saved = DOMAIN f.saved
    BY <1>5, <2>1, LosingFrame, Losing
  <2>3. Keeps(frames, globals, k) BY DEF IInv, FramesOK, n
  <2>4. k - 1 \in 0 .. n BY <1>2
  <2> SUFFICES ASSUME NEW i \in DOMAIN g.saved
               PROVE  /\ i \in 1 .. Len(g.names)
                      /\ (\A j \in i + 1 .. Len(g.names) : g.names[j] # g.names[i])
                           => In(frames', globals', k - 1, g.names[i], g.saved[i])
    BY DEF Keeps
  <2>5. i \in 1 .. Len(f.names) BY <2>2, <2>3 DEF Keeps
  <2>6. f.names[i] \in Names BY <2>1, <2>5, ElementOfSeq
  <2>7. g.saved[i] = Lose(f.saved[i]) BY <2>2 DEF LoseIn
  <2>8. (\A j \in i + 1 .. Len(f.names) : f.names[j] # f.names[i])
          => In(frames, globals, k - 1, f.names[i], f.saved[i])
    BY <2>2, <2>3 DEF Keeps
  <2> HIDE DEF f, g
  <2> QED BY <1>7, <2>2, <2>4, <2>5, <2>6, <2>7, <2>8
<1>9. FramesOK(frames', globals')
  <2> SUFFICES ASSUME NEW k \in 1 .. n
               PROVE  Progress(frames'[k]) /\ (k < n => frames'[k].phase = "body")
    BY <1>5, <1>8 DEF FramesOK
  <2>1. Progress(frames[k]) /\ (k < n => frames[k].phase = "body") BY DEF IInv, FramesOK, n
  <2>2. frames'[k] = Collected(frames[k]) /\ frames[k] \in FrameType BY <1>2, <1>5
  <2>3. Progress(Collected(frames[k])) /\ Collected(frames[k]).phase = frames[k].phase
    BY <2>1, <2>2, LosingProgress, LosingFrame
  <2> QED BY <2>1, <2>2, <2>3
<1>10. TableOK(frames', globals', symtab')
  <2>1. frames' # <<>> BY <1>2, <1>5, EmptySeq
  <2>2. n \in 1 .. n /\ n \in 0 .. n BY <1>2
  <2>3. frames'[n].phase = Top.phase
    BY <1>2, <1>5, <2>2, LosingFrame DEF Top, n
  <2>4. ASSUME NEW x \in Names PROVE In(frames', globals', n, x, symtab'[x])
    <3>1. In(frames, globals, n, x, symtab[x]) BY <1>1 DEF IInv, TableOK, Top, n
    <3>2. symtab'[x] = Lose(symtab[x]) BY <1>1, <1>3 DEF LoseIn
    <3> QED BY <1>7, <2>2, <3>1, <3>2
  <2>5. frames'[Len(frames')].phase \in {"let", "match", "body"} BY <1>1, <1>5, <2>3
  <2>6. \A x \in Names : In(frames', globals', Len(frames'), x, symtab'[x]) BY <1>5, <2>4
  <2> QED BY <2>1, <2>5, <2>6 DEF TableOK
<1>11. stack' \in Seq(Stored) BY <1>1 DEF IInv, TypeOK
<1> QED BY <1>4, <1>5, <1>9, <1>10, <1>11 DEF IInv, TypeOK
-----------------------------------------------------------------------------
(* The initial states, all steps, and the theorem. *)

LEMMA InitOK == Init => IInv
<1> SUFFICES ASSUME Init PROVE IInv OBVIOUS
<1>1. symtab \in [Names -> Entry]
  <2>1. \A v \in Literals : Defined(v) \in Entry BY ValuesClosed DEF Entry, Defined, Stored
  <2>2. Undefined \in Entry BY DEF Entry
  <2>3. {Undefined} \cup {Defined(v) : v \in Literals} \subseteq Entry BY <2>1, <2>2
  <2>4. symtab \in [Names -> {Undefined} \cup {Defined(v) : v \in Literals}] BY DEF Init
  <2> QED BY <2>3, <2>4
<1>2. globals = symtab /\ stack = <<>> /\ frames = <<>> BY DEF Init
<1>3. <<>> \in Seq(FrameType) /\ FramesOK(<<>>, globals) /\ TableOK(<<>>, globals, symtab)
  BY <1>2, AbortKeeps
<1> QED BY <1>1, <1>2, <1>3, Empty DEF IInv, TypeOK

LEMMA StepOK == IInv /\ [Next]_vars => IInv'
<1> SUFFICES ASSUME IInv, [Next]_vars PROVE IInv' OBVIOUS
<1>1. CASE UNCHANGED vars BY <1>1 DEF vars, IInv, TypeOK
<1>2. ASSUME NEW names \in NameLists, let(names) PROVE IInv' BY <1>2, LetStep
<1>3. CASE BindName BY <1>3, BindNameStep
<1>4. CASE UndoName BY <1>4, UndoStep
<1>5. ASSUME NEW q \in Quotations, match(q) PROVE IInv' BY <1>5, MatchStep
<1>6. ASSUME NEW cs \in CaseLists, cases(cs) PROVE IInv' BY <1>6, CasesStep
<1>7. CASE ApplyBinding BY <1>7, ApplyBindingStep
<1>8. CASE PushLiteral BY <1>8, PushLiteralStep
<1>9. CASE Fails BY <1>9, FailsStep
<1>10. CASE Ends BY <1>10, EndsStep
<1>11. CASE Restores BY <1>11, RestoresStep
<1>12. CASE gc BY <1>12, GcStep
<1>13. ASSUME NEW x \in Names, Execute(x) PROVE IInv' BY <1>13, ExecuteStep
<1>14. ASSUME NEW x \in Names, Define(x) PROVE IInv' BY <1>14, DefineStep
<1> QED
  BY <1>1, <1>2, <1>3, <1>4, <1>5, <1>6, <1>7, <1>8, <1>9, <1>10, <1>11, <1>12, <1>13, <1>14
  DEF Next

(* In every program, whatever it binds, matches and executes, the entry of *)
(* a name while a quotation runs is the innermost binding of that name:    *)
(* each let, match and cases puts back what it found (combinators.c:496,   *)
(* pattern.c:250), also for names that occur twice in one list.            *)
THEOREM BindingsAreInnermost == Spec => []InnermostBinding
<1>1. IInv => InnermostBinding
  <2> SUFFICES ASSUME IInv, InBody, NEW x \in Names PROVE Denotes(Len(frames), x, symtab[x])
    BY DEF InnermostBinding
  <2>1. frames = <<>> \/ frames[Len(frames)].phase \in {"let", "match", "body"}
    BY DEF InBody, Top
  <2>2. In(frames, globals, Len(frames), x, symtab[x]) BY <2>1 DEF IInv, TableOK
  <2> QED BY <2>2, DenotesIsIn
<1> QED BY <1>1, InitOK, StepOK, PTL DEF Spec
==============================================================================
