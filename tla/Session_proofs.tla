--------------------------- MODULE Session_proofs ---------------------------
(* Theorems about persistent sessions, for any number of processes, files,  *)
(* names, failures and crashes.                                             *)
EXTENDS Session, TLAPS

Agrees(p, n) ==
  memory[p][n] \in {Stale, Defined(symbols[File(p)][n]), Loaded(symbols[File(p)][n])}

(* Memory and table agree but for what the call in progress has still to
   load. *)
AgreesSoFar(p) ==
  \/ call[p].op = "restore" /\ call[p].step \in {"insert", "load"}
  \/ call[p].op = "merge" /\ call[p].step = "load"
  \/ \A n \in Rows(symbols[File(p)]) :
       Agrees(p, n) \/ (call[p].op = "take" /\ call[p].symbol = n)

(* What the earlier statements of a call leave for the later ones. *)
OnCourse(p) ==
  /\ call[p].op = "snapshot" => snapshots[File(p)][call[p].name] = NoRows
  /\ call[p].op = "restore" =>
       /\ call[p].step = "insert" => symbols[File(p)] = NoRows
       /\ call[p].step = "load" => symbols[File(p)] = snapshots[File(p)][call[p].name]
  /\ call[p].op = "merge" =>
       /\ call[p].step = "insert" =>
            Conflicts(symbols[call[p].source], symbols[File(p)]) = {}
       /\ call[p].step = "load" =>
            \A n \in Rows(symbols[call[p].source]) :
              symbols[File(p)][n] = symbols[call[p].source][n]

(* What holds of a session that nothing has disturbed. *)
Undisturbed(p) ==
  quiet[p] => session[p].state = "ready" /\ AgreesSoFar(p) /\ OnCourse(p)

(* A call is made in a session. *)
CallsInSessions == \A p \in Procs : call[p] # Idle => IsOpen(p)

IInv == TypeOK /\ CallsInSessions /\ \A p \in Procs : Undisturbed(p)

-----------------------------------------------------------------------------
(* Lemmas about the operators on tables and bodies. *)

(* A handed back body is a body. *)
LEMMA ForgetType ==
  ASSUME NEW v \in MemoryValues
  PROVE  Forget(v) \in MemoryValues
  BY DEF Forget, MemoryValues

(* A row holds a body. *)
LEMMA RowsHoldBodies ==
  ASSUME NEW t \in Table, NEW n \in Rows(t)
  PROVE  n \in Names /\ t[n] \in Bodies
  BY DEF Table, Rows

(* A loaded symbol table is one. *)
LEMMA ReloadsType ==
  ASSUME NEW t \in Table, NEW m \in [Names -> MemoryValues], NEW r \in Reloads(t, m)
  PROVE  r \in [Names -> MemoryValues]
<1>1. \A n \in Rows(t) : Loaded(t[n]) \in MemoryValues
  BY RowsHoldBodies DEF Loaded, MemoryValues
<1>2. \A n \in Names : m[n] \in MemoryValues /\ Forget(m[n]) \in MemoryValues
  BY ForgetType
<1>3. Stale \in MemoryValues
  BY DEF MemoryValues
<1> QED
  BY <1>1, <1>2, <1>3 DEF Reloads

(* Inserting and merging rows gives a table. *)
LEMMA InsertAllType ==
  ASSUME NEW t \in Table, NEW u \in Table
  PROVE  InsertAll(u, t) \in Table
  BY DEF InsertAll, Table

LEMMA MergeRowsType ==
  ASSUME NEW t \in Table, NEW u \in Table
  PROVE  MergeRows(t, u) \in Table
  BY DEF MergeRows, Table

LEMMA NoRowsType == NoRows \in Table
  BY DEF NoRows, Table

-----------------------------------------------------------------------------
(* Type correctness. *)

(* What TypeOK says of a process. *)
LEMMA ProcTypes ==
  ASSUME TypeOK, NEW p \in Procs
  PROVE  /\ session[p] \in Sessions
         /\ IsOpen(p) => File(p) \in Files
         /\ memory[p] \in [Names -> MemoryValues]
         /\ call[p] \in Calls
         /\ \A f \in Files : symbols[f] \in Table
         /\ \A f \in Files, s \in Snapshots : snapshots[f][s] \in Table
  BY DEF TypeOK, Sessions, NoSession, SessionStates, IsOpen, File

(* What a call record holds. *)
LEMMA CallTypes ==
  ASSUME NEW c \in Calls
  PROVE  /\ c.op \in {"snapshot", "restore"} => c.name \in Snapshots
         /\ c.op = "merge" => c.source \in Files
         /\ c.op = "take" => c.source \in Files /\ c.symbol \in Names
  BY DEF Calls, Idle

(* The initial state is of the right type. *)
LEMMA InitType == Init => TypeOK
<1> SUFFICES ASSUME Init PROVE TypeOK
  OBVIOUS
<1>1. NoRows \in Table
  BY NoRowsType
<1>2. 0 \in 0 .. MaxCalls /\ 0 \in 0 .. MaxFailures
  BY BoundsAreNumbers
<1>3. NoSession \in Sessions /\ Idle \in Calls /\ Undefined \in MemoryValues
  BY DEF Sessions, Calls, MemoryValues
<1> QED
  BY <1>1, <1>2, <1>3 DEF Init, TypeOK

(* Counters stay in their range, quiet stays Boolean. *)
LEMMA CountersType ==
  ASSUME TypeOK
  PROVE  /\ \A p \in Procs : Begin(p) => calls' \in 0 .. MaxCalls
         /\ Failure => failures' \in 0 .. MaxFailures
         /\ \A p \in Procs : Works(p) \/ Fails(p) \/ PreparedFails(p)
              => failures' \in 0 .. MaxFailures
         /\ \A p \in Procs, ok \in BOOLEAN : Writes(p, ok) => quiet' \in [Procs -> BOOLEAN]
<1>1. calls \in Nat /\ failures \in Nat /\ MaxCalls \in Nat /\ MaxFailures \in Nat
  BY BoundsAreNumbers DEF TypeOK
<1>2. ASSUME NEW p \in Procs, Begin(p) PROVE calls' \in 0 .. MaxCalls
  BY <1>1, <1>2 DEF Begin
<1>3. Failure => failures' \in 0 .. MaxFailures
  BY <1>1 DEF Failure
<1>4. ASSUME NEW p \in Procs, Works(p) \/ Fails(p) \/ PreparedFails(p)
      PROVE  failures' \in 0 .. MaxFailures
  BY <1>3, <1>4 DEF Works, Fails, PreparedFails, TypeOK
<1>5. ASSUME NEW p \in Procs, NEW ok \in BOOLEAN, Writes(p, ok)
      PROVE  quiet' \in [Procs -> BOOLEAN]
  BY <1>5 DEF Writes
<1> QED
  BY <1>2, <1>3, <1>4, <1>5

(* Writing one row, or one snapshot. *)
LEMMA WriteTypes ==
  ASSUME TypeOK, NEW f \in Files
  PROVE  /\ \A n \in Names, b \in Bodies : [symbols EXCEPT ![f][n] = b] \in [Files -> Table]
         /\ \A t \in Table : [symbols EXCEPT ![f] = t] \in [Files -> Table]
         /\ \A s \in Snapshots, t \in Table :
              [snapshots EXCEPT ![f][s] = t] \in [Files -> [Snapshots -> Table]]
<1>1. \A n \in Names, b \in Bodies : [symbols[f] EXCEPT ![n] = b] \in Table
  BY DEF TypeOK, Table
<1>2. \A t \in Table : [symbols EXCEPT ![f] = t] \in [Files -> Table]
  BY DEF TypeOK
<1>3. \A s \in Snapshots, t \in Table :
        [snapshots[f] EXCEPT ![s] = t] \in [Snapshots -> Table]
  BY DEF TypeOK
<1>4. \A s \in Snapshots, t \in Table :
        [snapshots EXCEPT ![f][s] = t] \in [Files -> [Snapshots -> Table]]
  BY <1>3 DEF TypeOK
<1>5. \A n \in Names, b \in Bodies : [symbols EXCEPT ![f][n] = b] \in [Files -> Table]
  BY <1>1, <1>2
<1> QED
  BY <1>2, <1>4, <1>5

(* Every step keeps the types. *)
LEMMA StepType == TypeOK /\ CallsInSessions /\ [Next]_vars => TypeOK'
<1> SUFFICES ASSUME TypeOK, CallsInSessions, [Next]_vars PROVE TypeOK'
  OBVIOUS
<1>1. CASE UNCHANGED vars
  BY <1>1 DEF vars, TypeOK
<1>2. ASSUME NEW p \in Procs, Step(p) PROVE TypeOK'
  <2> USE <1>2
  <2>1. /\ \A m : SetMemory(p, m) /\ m \in [Names -> MemoryValues]
                    => memory' \in [Procs -> [Names -> MemoryValues]]
        /\ \A c \in Calls : Goto(p, c) => call' \in [Procs -> Calls]
        /\ \A b \in BOOLEAN : [quiet EXCEPT ![p] = b] \in [Procs -> BOOLEAN]
    BY DEF SetMemory, Goto, TypeOK
  <2>2. [n \in Names |-> Forget(memory[p][n])] \in [Names -> MemoryValues]
    BY ProcTypes, ForgetType
  <2>3. \A n \in Names, b \in Bodies, ok \in BOOLEAN : Persist(p, n, b, ok) =>
          /\ symbols' \in [Files -> Table]
          /\ snapshots' \in [Files -> [Snapshots -> Table]]
          /\ quiet' \in [Procs -> BOOLEAN]
          /\ failures' \in 0 .. MaxFailures
    <3> SUFFICES ASSUME NEW n \in Names, NEW b \in Bodies, NEW ok \in BOOLEAN,
                        Persist(p, n, b, ok)
                 PROVE  /\ symbols' \in [Files -> Table]
                        /\ snapshots' \in [Files -> [Snapshots -> Table]]
                        /\ quiet' \in [Procs -> BOOLEAN]
                        /\ failures' \in 0 .. MaxFailures
      OBVIOUS
    <3>1. CASE UNCHANGED db
      BY <3>1, CountersType DEF Persist, TypeOK, db
    <3>2. CASE session[p].state = "ready" /\ Replace(File(p), n, b)
      <4>1. File(p) \in Files
        BY <3>2, ProcTypes DEF IsOpen
      <4>2. symbols' \in [Files -> Table] /\ snapshots' = snapshots
        BY <3>2, <4>1, WriteTypes DEF Replace
      <4>3. quiet' \in [Procs -> BOOLEAN] /\ failures' \in 0 .. MaxFailures
        BY CountersType DEF Persist, TypeOK
      <4> QED
        BY <4>2, <4>3 DEF TypeOK
    <3> QED
      BY <3>1, <3>2 DEF Persist
  <2>4. ASSUME NEW f \in Files, Open(p, f) PROVE TypeOK'
    <3>1. CASE OpenReady(p, f)
      <4>1. \A m \in Reloads(symbols[f], memory[p]) : m \in [Names -> MemoryValues]
        BY ReloadsType, ProcTypes
      <4> QED
        BY <2>1, <2>4, <3>1, <4>1, CountersType
           DEF Open, OpenReady, TypeOK, Sessions, SessionStates, db
    <3>2. CASE OpenUnprepared(p, f)
      BY <2>1, <2>4, <3>2, CountersType
         DEF Open, OpenUnprepared, TypeOK, Sessions, SessionStates, db
    <3>3. CASE OpenFailed(p, f)
      BY <2>1, <2>4, <3>3, CountersType
         DEF Open, OpenFailed, TypeOK, Sessions, SessionStates, db
    <3> QED
      BY <2>4, <3>1, <3>2, <3>3 DEF Open
  <2>5. CASE Close(p)
    BY <2>1, <2>5 DEF Close, TypeOK, Sessions, db
  <2>6. ASSUME NEW n \in Names, NEW b \in Bodies, Define(p, n, b) PROVE TypeOK'
    <3>1. [k \in Names |-> IF k = n THEN Defined(b) ELSE Forget(memory[p][k])]
            \in [Names -> MemoryValues]
      BY <2>2 DEF Defined, MemoryValues
    <3> QED
      BY <2>1, <2>3, <2>6, <3>1, CountersType DEF Define, TypeOK
  <2>7. ASSUME NEW n \in Names, NEW b \in Bodies, DefineLocal(p, n, b) PROVE TypeOK'
    BY <2>1, <2>2, <2>3, <2>7, CountersType DEF DefineLocal, TypeOK
  <2>8. CASE Collect(p)
    BY <2>1, <2>2, <2>8 DEF Collect, TypeOK, db
  <2>9. ASSUME NEW s \in Snapshots, SnapshotDelete(p, s) PROVE TypeOK'
    <3>1. [op |-> "snapshot", step |-> "insert", name |-> s] \in Calls
      BY DEF Calls
    <3>2. snapshots' \in [Files -> [Snapshots -> Table]]
      <4>1. File(p) \in Files
        BY <2>9, ProcTypes DEF SnapshotDelete
      <4> QED
        <5>1. [snapshots EXCEPT ![File(p)][s] = NoRows] \in [Files -> [Snapshots -> Table]]
          BY <4>1, WriteTypes, NoRowsType
        <5>2. snapshots' = snapshots \/ snapshots' = [snapshots EXCEPT ![File(p)][s] = NoRows]
          BY <2>9 DEF SnapshotDelete
        <5> QED
          BY <5>1, <5>2 DEF TypeOK
    <3> QED
      BY <2>1, <2>9, <3>1, <3>2, CountersType DEF SnapshotDelete, TypeOK
  <2>10. CASE SnapshotInsert(p)
    <3>1. Idle \in Calls
      BY DEF Calls
    <3>2. snapshots' \in [Files -> [Snapshots -> Table]]
      <4>1. CASE UNCHANGED snapshots
        BY <4>1 DEF TypeOK
      <4>2. CASE snapshots' = [snapshots EXCEPT ![File(p)][call[p].name] =
                                 InsertAll(@, symbols[File(p)])]
        <5>1. \A f \in Files, s \in Snapshots :
                InsertAll(snapshots[f][s], symbols[f]) \in Table
          BY ProcTypes, InsertAllType
        <5> QED
          BY <4>2, <5>1 DEF TypeOK
      <4> QED
        BY <2>10, <4>1, <4>2 DEF SnapshotInsert
    <3> QED
      BY <2>1, <2>10, <3>1, <3>2, CountersType DEF SnapshotInsert, TypeOK
  <2>11. ASSUME NEW s \in Snapshots, RestoreCount(p, s) PROVE TypeOK'
    <3>1. [op |-> "restore", step |-> "delete", name |-> s] \in Calls
      BY DEF Calls
    <3> QED
      BY <2>1, <2>11, <3>1, CountersType DEF RestoreCount, TypeOK, db
  <2>12. CASE RestoreDelete(p)
    <3>1. [op |-> "restore", step |-> "insert", name |-> call[p].name] \in Calls
      BY <2>12, ProcTypes, CallTypes DEF Calls, RestoreDelete
    <3>2. symbols' \in [Files -> Table]
      BY <2>12, NoRowsType DEF RestoreDelete, TypeOK
    <3> QED
      BY <2>1, <2>12, <3>1, <3>2, CountersType DEF RestoreDelete, TypeOK
  <2>13. CASE RestoreInsert(p)
    <3>1. [op |-> "restore", step |-> "load", name |-> call[p].name] \in Calls
      BY <2>13, ProcTypes, CallTypes DEF Calls, RestoreInsert
    <3>2. symbols' \in [Files -> Table]
      <4>1. CASE UNCHANGED symbols
        BY <4>1 DEF TypeOK
      <4>2. CASE symbols' = [symbols EXCEPT ![File(p)] =
                               InsertAll(@, snapshots[File(p)][call[p].name])]
        <5>1. \A f \in Files, s \in Snapshots :
                InsertAll(symbols[f], snapshots[f][s]) \in Table
          BY ProcTypes, InsertAllType
        <5>2. call[p].name \in Snapshots
          BY <2>13, ProcTypes, CallTypes DEF RestoreInsert
        <5> QED
          BY <4>2, <5>1, <5>2 DEF TypeOK
      <4> QED
        BY <2>13, <4>1, <4>2 DEF RestoreInsert
    <3> QED
      BY <2>1, <2>13, <3>1, <3>2, CountersType DEF RestoreInsert, TypeOK
  <2>14. CASE LoadSymbols(p)
    <3>1. Idle \in Calls
      BY DEF Calls
    <3>2. memory' \in [Procs -> [Names -> MemoryValues]]
      <4>1. CASE UNCHANGED memory
        BY <4>1 DEF TypeOK
      <4>2. CASE session[p].state = "ready"
        <5>1. File(p) \in Files
          BY <4>2, ProcTypes DEF IsOpen
        <5>2. \A m \in Reloads(symbols[File(p)], memory[p]) : m \in [Names -> MemoryValues]
          BY <5>1, ReloadsType, ProcTypes
        <5> QED
          BY <2>1, <2>14, <4>1, <5>2 DEF LoadSymbols
      <4> QED
        BY <2>14, <4>1, <4>2 DEF LoadSymbols
    <3> QED
      BY <2>1, <2>14, <3>1, <3>2, CountersType DEF LoadSymbols, TypeOK, db
  <2>15. ASSUME NEW f \in Files, MergeCheck(p, f) PROVE TypeOK'
    <3>1. [op |-> "merge", step |-> "insert", source |-> f] \in Calls
      BY DEF Calls
    <3> QED
      BY <2>1, <2>15, <3>1, CountersType DEF MergeCheck, TypeOK, db
  <2>16. CASE MergeInsert(p)
    <3>1. [op |-> "merge", step |-> "load", source |-> call[p].source] \in Calls
      BY <2>16, ProcTypes, CallTypes DEF Calls, MergeInsert
    <3>2. symbols' \in [Files -> Table]
      <4>1. \A f, g \in Files : MergeRows(symbols[f], symbols[g]) \in Table
        BY ProcTypes, MergeRowsType
      <4>2. call[p].source \in Files
        BY <2>16, ProcTypes, CallTypes DEF MergeInsert
      <4>3. CASE UNCHANGED symbols
        BY <4>3 DEF TypeOK
      <4>4. CASE symbols' = [symbols EXCEPT ![File(p)] =
                               MergeRows(@, symbols[call[p].source])]
        BY <4>1, <4>2, <4>4 DEF TypeOK
      <4> QED
        BY <2>16, <4>3, <4>4 DEF MergeInsert
    <3> QED
      BY <2>1, <2>16, <3>1, <3>2, CountersType DEF MergeInsert, TypeOK
  <2>17. ASSUME NEW f \in Files, NEW n \in Names, TakeReplace(p, f, n) PROVE TypeOK'
    <3>1. [op |-> "take", step |-> "load", source |-> f, symbol |-> n] \in Calls
      BY DEF Calls
    <3>2. n \in Rows(symbols[f]) => symbols[f][n] \in Bodies
      BY RowsHoldBodies, ProcTypes
    <3>3. /\ symbols' \in [Files -> Table]
          /\ snapshots' \in [Files -> [Snapshots -> Table]]
      <4>1. CASE UNCHANGED db
        BY <4>1 DEF db, TypeOK
      <4>2. CASE n \in Rows(symbols[f]) /\ Replace(File(p), n, symbols[f][n])
        <5>1. File(p) \in Files
          BY <2>17, ProcTypes DEF TakeReplace
        <5> QED
          BY <3>2, <4>2, <5>1, WriteTypes DEF Replace, TypeOK
      <4> QED
        BY <2>17, <4>1, <4>2 DEF TakeReplace
    <3> QED
      BY <2>1, <2>17, <3>1, <3>3, CountersType DEF TakeReplace, TypeOK
  <2>18. CASE TakeLoad(p)
    <3>1. Idle \in Calls
      BY DEF Calls
    <3>2. memory' \in [Procs -> [Names -> MemoryValues]]
      <4> DEFINE t == symbols[File(p)]
                 n == call[p].symbol
                 row == [k \in Names |-> IF k = n THEN t[n] ELSE Absent]
      <4>1. CASE UNCHANGED memory
        BY <4>1 DEF TypeOK
      <4>2. CASE IsOpen(p)
        <5>1. t \in Table /\ n \in Names
          BY <2>18, <4>2, ProcTypes, CallTypes DEF TakeLoad
        <5>2. row \in Table
          BY <5>1 DEF Table
        <5>3. \A m \in Reloads(row, memory[p]) : m \in [Names -> MemoryValues]
          BY <5>2, ReloadsType, ProcTypes
        <5> QED
          BY <2>1, <2>18, <4>1, <5>3 DEF TakeLoad
      <4>3. UNCHANGED memory \/ \E m \in Reloads(row, memory[p]) : SetMemory(p, m)
        BY <2>18 DEF TakeLoad
      <4>4. IsOpen(p)
        BY <2>18 DEF TakeLoad, CallsInSessions, Idle
      <4> QED
        BY <4>1, <4>2, <4>3, <4>4
    <3> QED
      BY <2>1, <2>18, <3>1, <3>2, CountersType DEF TakeLoad, TypeOK, db
  <2>19. CASE Crash(p)
    <3>1. Idle \in Calls /\ NoSession \in Sessions /\ Undefined \in MemoryValues
      BY DEF Calls, Sessions, MemoryValues
    <3> QED
      BY <2>1, <2>19, <3>1, CountersType DEF Crash, TypeOK, db
  <2> QED
    BY <2>4, <2>5, <2>6, <2>7, <2>8, <2>9, <2>10, <2>11, <2>12, <2>13, <2>14,
       <2>15, <2>16, <2>17, <2>18, <2>19 DEF Step
<1> QED
  BY <1>1, <1>2 DEF Next

(* A session is only closed between calls. *)
LEMMA StepInSession == TypeOK /\ CallsInSessions /\ [Next]_vars => CallsInSessions'
<1> SUFFICES ASSUME TypeOK, CallsInSessions, [Next]_vars PROVE CallsInSessions'
  OBVIOUS
<1>1. CASE UNCHANGED vars
  BY <1>1 DEF vars, CallsInSessions, IsOpen
<1>2. ASSUME NEW p \in Procs, Step(p) PROVE CallsInSessions'
  <2> SUFFICES ASSUME NEW q \in Procs, call'[q] # Idle PROVE session'[q].state # "none"
    BY DEF CallsInSessions, IsOpen
  <2>1. CASE \/ \E n \in Names, b \in Bodies : Define(p, n, b) \/ DefineLocal(p, n, b)
             \/ Collect(p)
    BY <2>1 DEF Define, DefineLocal, Collect, CallsInSessions, IsOpen
  <2>2. CASE \/ \E s \in Snapshots : SnapshotDelete(p, s) \/ RestoreCount(p, s)
             \/ \E f \in Files : MergeCheck(p, f)
             \/ \E f \in Files, n \in Names : TakeReplace(p, f, n)
             \/ SnapshotInsert(p) \/ RestoreDelete(p) \/ RestoreInsert(p)
             \/ LoadSymbols(p) \/ MergeInsert(p) \/ TakeLoad(p)
    <3>1. IsOpen(p)
      <4>1. CASE call[p] = Idle
        <5>1. call[p].op = "idle"
          BY <4>1 DEF Idle
        <5> QED
          BY <2>2, <5>1 DEF SnapshotDelete, RestoreCount, MergeCheck, TakeReplace, SnapshotInsert,
             RestoreDelete, RestoreInsert, LoadSymbols, MergeInsert, TakeLoad
      <4> QED
        BY <4>1 DEF CallsInSessions
    <3>2. UNCHANGED session /\ \A r \in Procs \ {p} : call'[r] = call[r]
      BY <2>2 DEF SnapshotDelete, RestoreCount, MergeCheck, TakeReplace, Goto, TypeOK,
         SnapshotInsert, RestoreDelete, RestoreInsert, LoadSymbols, MergeInsert, TakeLoad
    <3> QED
      BY <3>1, <3>2 DEF CallsInSessions, IsOpen
  <2>3. CASE \/ \E f \in Files : Open(p, f)
             \/ Close(p)
             \/ Crash(p)
    <3>1. /\ \A r \in Procs \ {p} : session'[r] = session[r] /\ call'[r] = call[r]
          /\ call'[p] = Idle \/ (call'[p] = call[p] /\ session'[p].state # "none")
      BY <2>3 DEF Open, OpenReady, OpenUnprepared, OpenFailed, Close, Crash, Goto, TypeOK
    <3> QED
      BY <3>1 DEF CallsInSessions, IsOpen
  <2> QED
    BY <1>2, <2>1, <2>2, <2>3 DEF Step
<1> QED
  BY <1>1, <1>2 DEF Next

(***************************************************************************)
(* Type correctness: the tables hold a body or nothing for every name, the *)
(* calls in progress are those of session.c, the bounds are kept.          *)
(***************************************************************************)
THEOREM TypeCorrect == Spec => []TypeOK
<1>1. Init => CallsInSessions
  BY DEF Init, CallsInSessions
<1> QED
  BY <1>1, InitType, StepType, StepInSession, PTL DEF Spec

-----------------------------------------------------------------------------
(* What a step may do to the tables. *)

(* Only snapshot writes the table of snapshots. *)
LEMMA SnapshotSteps ==
  ASSUME NEW p \in Procs, Step(p)
  PROVE  \/ UNCHANGED snapshots
         \/ \E s \in Snapshots : SnapshotDelete(p, s)
         \/ SnapshotInsert(p)
  BY DEF Step, Open, Close, Define, DefineLocal, Persist, Replace, Collect, RestoreCount,
     RestoreDelete, RestoreInsert, LoadSymbols, MergeCheck, MergeInsert, TakeReplace, TakeLoad,
     Crash, db

(* Only a definition, restore, session-merge and session-take write rows. *)
LEMMA RowSteps ==
  ASSUME NEW p \in Procs, Step(p)
  PROVE  \/ UNCHANGED symbols
         \/ \E n \in Names, b \in Bodies : Define(p, n, b) \/ DefineLocal(p, n, b)
         \/ RestoreDelete(p)
         \/ RestoreInsert(p)
         \/ MergeInsert(p)
         \/ \E f \in Files, n \in Names : TakeReplace(p, f, n)
  BY DEF Step, Open, Close, Collect, SnapshotDelete, SnapshotInsert, RestoreCount,
     LoadSymbols, MergeCheck, TakeLoad, Crash, db

(***************************************************************************)
(* A snapshot changes only while snapshot_ (session.c:381) makes it.       *)
(***************************************************************************)
THEOREM SnapshotsAreKept == Spec => SnapshotsKept
<1>1. ASSUME TypeOK, CallsInSessions, [Next]_vars,
             NEW f \in Files, NEW s \in Snapshots, snapshots'[f][s] # snapshots[f][s]
      PROVE  \E p \in Procs :
               /\ File(p) = f /\ Moves(p)
               /\ \E c \in {call[p], call'[p]} : c.op = "snapshot" /\ c.name = s
  <2>1. CASE UNCHANGED vars
    BY <1>1, <2>1 DEF vars
  <2>2. ASSUME NEW p \in Procs, NEW r \in Snapshots, SnapshotDelete(p, r)
        PROVE  /\ File(p) = f /\ Moves(p)
               /\ \E c \in {call[p], call'[p]} : c.op = "snapshot" /\ c.name = s
    <3>1. snapshots' = [snapshots EXCEPT ![File(p)][r] = NoRows]
      BY <1>1, <2>2 DEF SnapshotDelete
    <3>2. File(p) = f /\ r = s
      BY <1>1, <3>1 DEF TypeOK
    <3>3. call'[p].op = "snapshot" /\ call'[p].name = r /\ call[p].op = "idle"
      BY <1>1, <2>2 DEF SnapshotDelete, Goto, Begin, Idle, TypeOK
    <3> QED
      BY <3>2, <3>3 DEF Moves
  <2>3. ASSUME NEW p \in Procs, SnapshotInsert(p)
        PROVE  /\ File(p) = f /\ Moves(p)
               /\ \E c \in {call[p], call'[p]} : c.op = "snapshot" /\ c.name = s
    <3>1. snapshots' = [snapshots EXCEPT ![File(p)][call[p].name] =
                          InsertAll(@, symbols[File(p)])]
      BY <1>1, <2>3 DEF SnapshotInsert
    <3>2. File(p) = f /\ call[p].name = s
      BY <1>1, <3>1 DEF TypeOK
    <3>3. call[p].op = "snapshot" /\ call'[p].op = "idle"
      BY <1>1, <2>3 DEF SnapshotInsert, Goto, Idle, TypeOK
    <3> QED
      BY <3>2, <3>3 DEF Moves
  <2> QED
    BY <1>1, <2>1, <2>2, <2>3, SnapshotSteps DEF Next
<1>2. Init => CallsInSessions
  BY DEF Init, CallsInSessions
<1>3. TypeOK /\ CallsInSessions /\ [Next]_vars =>
        [\A f \in Files, s \in Snapshots : snapshots'[f][s] # snapshots[f][s] =>
           \E p \in Procs :
             /\ File(p) = f /\ Moves(p)
             /\ \E c \in {call[p], call'[p]} : c.op = "snapshot" /\ c.name = s]_vars
  BY <1>1
<1> QED
  BY <1>2, <1>3, InitType, StepType, StepInSession, PTL DEF Spec, SnapshotsKept

(***************************************************************************)
(* Rows change only in the file of the process at work, and session_merge_ *)
(* (session.c:520) leaves every row that is there.                         *)
(***************************************************************************)
THEOREM RowsAreKept == Spec => RowsKept
<1>1. ASSUME TypeOK, CallsInSessions, [Next]_vars,
             NEW f \in Files, NEW n \in Names, symbols'[f][n] # symbols[f][n]
      PROVE  \E p \in Procs : /\ File(p) = f
                              /\ n \in Rows(symbols[f]) => MayOverwrite(p, n)
  <2> DEFINE Good(p) == File(p) = f /\ (n \in Rows(symbols[f]) => MayOverwrite(p, n))
  <2>1. CASE UNCHANGED vars
    BY <1>1, <2>1 DEF vars
  <2>2. ASSUME NEW p \in Procs, NEW m \in Names, NEW b \in Bodies,
               Define(p, m, b) \/ DefineLocal(p, m, b)
        PROVE  Good(p)
    <3>1. symbols' = [symbols EXCEPT ![File(p)][m] = b]
      BY <1>1, <2>2 DEF Define, DefineLocal, Persist, Replace, db
    <3>2. File(p) = f
      BY <1>1, <3>1 DEF TypeOK
    <3>3. call[p] = Idle /\ calls' = calls + 1 /\ call' = call
      BY <2>2 DEF Define, DefineLocal, Begin
    <3>4. call'[p].op = "idle"
      BY <3>3 DEF Idle
    <3> QED
      BY <3>2, <3>3, <3>4 DEF MayOverwrite
  <2>3. ASSUME NEW p \in Procs, RestoreDelete(p) \/ RestoreInsert(p) PROVE Good(p)
    <3>1. \E t : symbols' = [symbols EXCEPT ![File(p)] = t]
      BY <1>1, <2>3 DEF RestoreDelete, RestoreInsert
    <3>2. File(p) = f
      BY <1>1, <3>1 DEF TypeOK
    <3>3. CASE RestoreDelete(p)
      <4>1. call'[p] = [op |-> "restore", step |-> "insert", name |-> call[p].name]
        BY <1>1, <3>3 DEF RestoreDelete, Goto, TypeOK
      <4> QED
        BY <3>2, <3>3, <4>1 DEF RestoreDelete, MayOverwrite, Moves
    <3>4. CASE RestoreInsert(p)
      <4>1. call'[p] = [op |-> "restore", step |-> "load", name |-> call[p].name]
        BY <1>1, <3>4 DEF RestoreInsert, Goto, TypeOK
      <4> QED
        BY <3>2, <3>4, <4>1 DEF RestoreInsert, MayOverwrite, Moves
    <3> QED
      BY <2>3, <3>3, <3>4
  <2>4. ASSUME NEW p \in Procs, MergeInsert(p) PROVE Good(p)
    <3>1. symbols' = [symbols EXCEPT ![File(p)] = MergeRows(@, symbols[call[p].source])]
      BY <1>1, <2>4 DEF MergeInsert
    <3>2. File(p) = f
      BY <1>1, <3>1 DEF TypeOK
    <3>3. n \notin Rows(symbols[f])
      BY <1>1, <3>1, <3>2 DEF TypeOK, MergeRows
    <3> QED
      BY <3>2, <3>3
  <2>5. ASSUME NEW p \in Procs, NEW g \in Files, NEW m \in Names, TakeReplace(p, g, m)
        PROVE  Good(p)
    <3>1. symbols' = [symbols EXCEPT ![File(p)][m] = symbols[g][m]]
      BY <1>1, <2>5 DEF TakeReplace, Replace, db
    <3>2. File(p) = f /\ m = n
      BY <1>1, <3>1 DEF TypeOK, Table
    <3>3. call'[p] = [op |-> "take", step |-> "load", source |-> g, symbol |-> m]
      BY <1>1, <2>5 DEF TakeReplace, Goto, db, TypeOK
    <3>4. call[p] = Idle /\ calls' = calls + 1
      BY <2>5 DEF TakeReplace, Begin
    <3> QED
      BY <3>2, <3>3, <3>4 DEF MayOverwrite
  <2> QED
    BY <1>1, <2>1, <2>2, <2>3, <2>4, <2>5, RowSteps DEF Next
<1>2. Init => CallsInSessions
  BY DEF Init, CallsInSessions
<1>3. TypeOK /\ CallsInSessions /\ [Next]_vars =>
        [\A f \in Files, n \in Names : symbols'[f][n] # symbols[f][n] =>
           \E p \in Procs : /\ File(p) = f
                            /\ n \in Rows(symbols[f]) => MayOverwrite(p, n)]_vars
  BY <1>1
<1> QED
  BY <1>2, <1>3, InitType, StepType, StepInSession, PTL DEF Spec, RowsKept

-----------------------------------------------------------------------------
(* The invariant behind the other properties. *)

(* A process that is quiet after a step of another was quiet before, and      *)
(* nothing it sees has changed. *)
LEMMA OthersUndisturbed ==
  ASSUME TypeOK, NEW p \in Procs, Step(p), NEW q \in Procs, q # p, quiet'[q]
  PROVE  /\ quiet[q] /\ UNCHANGED db
         /\ session'[q] = session[q] /\ memory'[q] = memory[q] /\ call'[q] = call[q]
<1>1. \A ok \in BOOLEAN : ~Writes(p, ok)
  BY DEF Writes
<1>2. \/ \E f \in Files : Open(p, f) \/ MergeCheck(p, f)
      \/ Close(p) \/ Collect(p) \/ LoadSymbols(p) \/ TakeLoad(p) \/ Crash(p)
      \/ \E s \in Snapshots : RestoreCount(p, s)
      \/ \E n \in Names, b \in Bodies : /\ Define(p, n, b) \/ DefineLocal(p, n, b)
                                        /\ UNCHANGED <<db, quiet>>
  BY <1>1 DEF Step, Define, DefineLocal, Persist, SnapshotDelete, SnapshotInsert,
     RestoreDelete, RestoreInsert, MergeInsert, TakeReplace
<1>3. /\ quiet' = quiet \/ \E b \in BOOLEAN : quiet' = [quiet EXCEPT ![p] = b]
      /\ UNCHANGED db
  BY <1>2 DEF Open, OpenReady, OpenUnprepared, OpenFailed, MergeCheck, Close, Collect,
     LoadSymbols, TakeLoad, Crash, RestoreCount
<1>4. quiet[q]
  BY <1>3 DEF TypeOK
<1>5. session' = session \/ \E x : session' = [session EXCEPT ![p] = x]
  BY <1>2 DEF Open, OpenReady, OpenUnprepared, OpenFailed, MergeCheck, Close, Collect,
     LoadSymbols, TakeLoad, Crash, RestoreCount, Define, DefineLocal
<1>6. memory' = memory \/ \E x : memory' = [memory EXCEPT ![p] = x]
  BY <1>2 DEF Open, OpenReady, OpenUnprepared, OpenFailed, MergeCheck, Close, Collect,
     LoadSymbols, TakeLoad, Crash, RestoreCount, Define, DefineLocal, SetMemory
<1>7. call' = call \/ \E x : call' = [call EXCEPT ![p] = x]
  BY <1>2 DEF Open, MergeCheck, Close, Collect, LoadSymbols, TakeLoad, Crash, RestoreCount,
     Define, DefineLocal, Goto
<1> QED
  BY <1>3, <1>4, <1>5, <1>6, <1>7 DEF TypeOK

(* What load_symbols_from_db leaves in the symbol table. *)
LEMMA ReloadsAgree ==
  ASSUME NEW t, NEW m, NEW r \in Reloads(t, m), NEW n \in Names
  PROVE  /\ n \in Rows(t) => r[n] \in {Stale, Loaded(t[n])}
         /\ n \notin Rows(t) => r[n] \in {m[n], Forget(m[n])}
  BY DEF Reloads, Rows

(* Handing nodes back does not change the body of a name. *)
LEMMA ForgetAgrees ==
  ASSUME NEW b, NEW v \in {Stale, Defined(b), Loaded(b)}
  PROVE  Forget(v) \in {Stale, Defined(b), Loaded(b)}
  BY DEF Forget

(* A definition of the process itself. *)
LEMMA DefineUndisturbed ==
  ASSUME TypeOK, NEW p \in Procs, Undisturbed(p), quiet'[p],
         NEW n \in Names, NEW b \in Bodies, Define(p, n, b) \/ DefineLocal(p, n, b)
  PROVE  session'[p].state = "ready" /\ AgreesSoFar(p)' /\ OnCourse(p)'
<1>2. quiet[p] /\ ~Writes(p, FALSE)
  BY DEF Writes, Define, DefineLocal, Persist
<1>3. session[p].state = "ready" /\ File(p) \in Files /\ IsOpen(p)
  BY <1>2, ProcTypes DEF Undisturbed, IsOpen
<1>4. Define(p, n, b) /\ Replace(File(p), n, b)
  BY <1>2, <1>3 DEF Define, DefineLocal, Persist
<1>5. /\ session' = session /\ call' = call /\ call[p] = Idle
      /\ symbols' = [symbols EXCEPT ![File(p)][n] = b]
      /\ memory'[p] = [k \in Names |-> IF k = n THEN Defined(b) ELSE Forget(memory[p][k])]
  BY <1>4 DEF Define, Begin, Replace, SetMemory, TypeOK
<1>6. call[p].op = "idle"
  BY <1>5 DEF Idle
<1>7. \A k \in Rows(symbols[File(p)]) : Agrees(p, k)
  BY <1>2, <1>6 DEF Undisturbed, AgreesSoFar
<1>8. ASSUME NEW k \in Names, k \in Rows(symbols'[File(p)])
      PROVE  memory'[p][k] \in {Stale, Defined(symbols'[File(p)][k]), Loaded(symbols'[File(p)][k])}
  <2>1. CASE k = n
    BY <1>3, <1>5, <2>1 DEF TypeOK, Table
  <2>2. CASE k # n
    <3>1. symbols'[File(p)][k] = symbols[File(p)][k]
      BY <1>3, <1>5, <2>2 DEF TypeOK, Table
    <3>2. k \in Rows(symbols[File(p)])
      BY <1>8, <3>1 DEF Rows
    <3>3. memory'[p][k] = Forget(memory[p][k])
      BY <1>5, <2>2
    <3> QED
      BY <1>7, <3>1, <3>2, <3>3, ForgetAgrees DEF Agrees
  <2> QED
    BY <2>1, <2>2
<1>9. AgreesSoFar(p)'
  BY <1>5, <1>8 DEF AgreesSoFar, Agrees, Rows, File
<1> QED
  BY <1>3, <1>5, <1>6, <1>9 DEF OnCourse

(* Opening, closing, collecting, dying. *)
LEMMA SessionUndisturbed ==
  ASSUME TypeOK, NEW p \in Procs, Undisturbed(p), quiet'[p],
         \/ \E f \in Files : Open(p, f)
         \/ Close(p)
         \/ Collect(p)
         \/ Crash(p)
  PROVE  session'[p].state = "ready" /\ AgreesSoFar(p)' /\ OnCourse(p)'
<1>1. ~Close(p) /\ ~Crash(p)
  BY DEF Close, Crash, TypeOK
<1>2. ASSUME NEW f \in Files, Open(p, f)
      PROVE  session'[p].state = "ready" /\ AgreesSoFar(p)' /\ OnCourse(p)'
  <2>1. OpenReady(p, f)
    BY <1>2 DEF Open, OpenUnprepared, OpenFailed, TypeOK
  <2>2. PICK r \in Reloads(symbols[f], memory[p]) : SetMemory(p, r)
    BY <2>1 DEF OpenReady
  <2>3. memory'[p] = r
    BY <2>2 DEF SetMemory, TypeOK
  <2>4. /\ session'[p] = [file |-> f, state |-> "ready"]
        /\ UNCHANGED <<symbols, snapshots, call>>
        /\ call[p] = Idle
    BY <1>2, <2>1 DEF Open, OpenReady, Begin, TypeOK, db
  <2>5. call'[p].op = "idle"
    BY <2>4 DEF Idle
  <2>6. \A n \in Rows(symbols[f]) : n \in Names /\ r[n] \in {Stale, Loaded(symbols[f][n])}
    BY ReloadsAgree DEF Rows
  <2>7. AgreesSoFar(p)'
    BY <2>3, <2>4, <2>6 DEF AgreesSoFar, Agrees, Rows, File
  <2> QED
    BY <2>4, <2>5, <2>7 DEF OnCourse
<1>3. CASE Collect(p)
  <2>1. /\ UNCHANGED <<symbols, snapshots, call, session, quiet>> /\ call[p] = Idle
        /\ memory'[p] = [n \in Names |-> Forget(memory[p][n])]
    BY <1>3 DEF Collect, SetMemory, TypeOK, db
  <2>2. call[p].op = "idle"
    BY <2>1 DEF Idle
  <2>3. session[p].state = "ready" /\ \A n \in Rows(symbols[File(p)]) : Agrees(p, n)
    BY <2>1, <2>2 DEF Undisturbed, AgreesSoFar
  <2>4. \A n \in Rows(symbols[File(p)]) : memory'[p][n] \in
          {Stale, Defined(symbols[File(p)][n]), Loaded(symbols[File(p)][n])}
    BY <2>1, <2>3, ForgetAgrees DEF Agrees, Rows
  <2>5. AgreesSoFar(p)'
    BY <2>1, <2>4 DEF AgreesSoFar, Agrees, Rows, File
  <2> QED
    BY <2>1, <2>2, <2>3, <2>5 DEF OnCourse
<1> QED
  BY <1>1, <1>2, <1>3

(* Making a snapshot. *)
LEMMA SnapshotUndisturbed ==
  ASSUME TypeOK, CallsInSessions, NEW p \in Procs, Undisturbed(p), quiet'[p],
         (\E s \in Snapshots : SnapshotDelete(p, s)) \/ SnapshotInsert(p)
  PROVE  session'[p].state = "ready" /\ AgreesSoFar(p)' /\ OnCourse(p)'
<1>1. quiet[p] /\ ~Writes(p, FALSE)
  BY DEF Writes, SnapshotDelete, SnapshotInsert
<1>2. session[p].state = "ready" /\ File(p) \in Files
  BY <1>1, ProcTypes DEF Undisturbed, IsOpen
<1>3. UNCHANGED <<symbols, session, memory>>
  BY DEF SnapshotDelete, SnapshotInsert
<1>4. call[p].op \in {"idle", "snapshot"}
  <2>1. call[p] = Idle \/ call[p].op = "snapshot"
    BY DEF SnapshotDelete, SnapshotInsert, Begin
  <2> QED
    BY <2>1 DEF Idle
<1>5. \A n \in Rows(symbols[File(p)]) : Agrees(p, n)
  BY <1>1, <1>4 DEF Undisturbed, AgreesSoFar
<1>6. AgreesSoFar(p)'
  BY <1>3, <1>5 DEF AgreesSoFar, Agrees, Rows, File
<1>7. CASE SnapshotInsert(p)
  <2>1. call'[p].op = "idle"
    BY <1>7 DEF SnapshotInsert, Goto, Idle, TypeOK
  <2> QED
    BY <1>2, <1>3, <1>6, <2>1 DEF OnCourse
<1>8. ASSUME NEW s \in Snapshots, SnapshotDelete(p, s)
      PROVE  session'[p].state = "ready" /\ AgreesSoFar(p)' /\ OnCourse(p)'
  <2>1. call'[p] = [op |-> "snapshot", step |-> "insert", name |-> s]
    BY <1>8 DEF SnapshotDelete, Goto, TypeOK
  <2>2. snapshots' = [snapshots EXCEPT ![File(p)][s] = NoRows]
    BY <1>1, <1>8 DEF SnapshotDelete
  <2>3. snapshots'[File(p)][s] = NoRows
    BY <1>2, <2>2 DEF TypeOK
  <2> QED
    BY <1>2, <1>3, <1>6, <2>1, <2>3 DEF OnCourse, File
<1> QED
  BY <1>7, <1>8

(* A table without rows takes all rows of another. *)
LEMMA InsertAllIntoNone ==
  ASSUME NEW t \in Table
  PROVE  InsertAll(NoRows, t) = t
  BY DEF InsertAll, NoRows, Rows, Table

(* Restoring a snapshot. *)
LEMMA RestoreUndisturbed ==
  ASSUME TypeOK, CallsInSessions, NEW p \in Procs, Undisturbed(p), quiet'[p],
         (\E s \in Snapshots : RestoreCount(p, s)) \/ RestoreDelete(p) \/ RestoreInsert(p)
  PROVE  session'[p].state = "ready" /\ AgreesSoFar(p)' /\ OnCourse(p)'
<1>1. quiet[p] /\ ~Writes(p, FALSE)
  BY DEF Writes, RestoreCount, RestoreDelete, RestoreInsert
<1>2. session[p].state = "ready" /\ File(p) \in Files
  BY <1>1, ProcTypes DEF Undisturbed, IsOpen
<1>3. UNCHANGED <<snapshots, session, memory>>
  BY DEF RestoreCount, RestoreDelete, RestoreInsert, db
<1>4. ASSUME NEW s \in Snapshots, RestoreCount(p, s)
      PROVE  AgreesSoFar(p)' /\ OnCourse(p)'
  <2>1. call[p].op = "idle" /\ UNCHANGED symbols
    BY <1>4 DEF RestoreCount, Begin, Idle, db
  <2>2. \A n \in Rows(symbols[File(p)]) : Agrees(p, n)
    BY <1>1, <2>1 DEF Undisturbed, AgreesSoFar
  <2>3. AgreesSoFar(p)'
    BY <1>3, <2>1, <2>2 DEF AgreesSoFar, Agrees, Rows, File
  <2>4. \/ call'[p] = call[p]
        \/ call'[p] = [op |-> "restore", step |-> "delete", name |-> s]
    BY <1>4 DEF RestoreCount, Goto, TypeOK
  <2> QED
    BY <2>1, <2>3, <2>4 DEF OnCourse
<1>5. CASE RestoreDelete(p)
  <2>1. call'[p] = [op |-> "restore", step |-> "insert", name |-> call[p].name]
    BY <1>5 DEF RestoreDelete, Goto, TypeOK
  <2>2. symbols'[File(p)] = NoRows
    BY <1>1, <1>2, <1>5 DEF RestoreDelete, TypeOK
  <2> QED
    BY <1>2, <1>3, <2>1, <2>2 DEF AgreesSoFar, OnCourse, File
<1>6. CASE RestoreInsert(p)
  <2>1. call'[p] = [op |-> "restore", step |-> "load", name |-> call[p].name]
    BY <1>6 DEF RestoreInsert, Goto, TypeOK
  <2>2. call[p].name \in Snapshots /\ snapshots[File(p)][call[p].name] \in Table
    BY <1>2, <1>6, ProcTypes, CallTypes DEF RestoreInsert
  <2>3. symbols[File(p)] = NoRows
    BY <1>1, <1>6 DEF RestoreInsert, Undisturbed, OnCourse
  <2>4. symbols' = [symbols EXCEPT ![File(p)] =
                      InsertAll(@, snapshots[File(p)][call[p].name])]
    BY <1>1, <1>6 DEF RestoreInsert
  <2>5. symbols'[File(p)] = snapshots[File(p)][call[p].name]
    BY <1>2, <2>2, <2>3, <2>4, InsertAllIntoNone DEF TypeOK
  <2> QED
    BY <1>2, <1>3, <2>1, <2>5 DEF AgreesSoFar, OnCourse, File
<1> QED
  BY <1>2, <1>3, <1>4, <1>5, <1>6

(* Loading what restore or session-merge has written. *)
LEMMA LoadUndisturbed ==
  ASSUME TypeOK, CallsInSessions, NEW p \in Procs, Undisturbed(p), quiet'[p], LoadSymbols(p)
  PROVE  session'[p].state = "ready" /\ AgreesSoFar(p)' /\ OnCourse(p)'
<1>1. quiet[p] /\ \E m \in Reloads(symbols[File(p)], memory[p]) : SetMemory(p, m)
  BY DEF LoadSymbols, TypeOK
<1>2. PICK r \in Reloads(symbols[File(p)], memory[p]) : SetMemory(p, r)
  BY <1>1
<1>3. memory'[p] = r
  BY <1>2 DEF SetMemory, TypeOK
<1>4. UNCHANGED <<symbols, snapshots, session>> /\ call'[p].op = "idle"
  BY DEF LoadSymbols, Goto, Idle, TypeOK, db
<1>5. \A n \in Rows(symbols[File(p)]) : r[n] \in {Stale, Loaded(symbols[File(p)][n])}
  BY ReloadsAgree DEF Rows
<1>6. AgreesSoFar(p)'
  BY <1>3, <1>4, <1>5 DEF AgreesSoFar, Agrees, Rows, File
<1> QED
  BY <1>1, <1>4, <1>6 DEF Undisturbed, OnCourse

(* Merging another session. *)
LEMMA MergeUndisturbed ==
  ASSUME TypeOK, CallsInSessions, NEW p \in Procs, Undisturbed(p), quiet'[p],
         (\E f \in Files : MergeCheck(p, f)) \/ MergeInsert(p)
  PROVE  session'[p].state = "ready" /\ AgreesSoFar(p)' /\ OnCourse(p)'
<1>1. quiet[p] /\ ~Writes(p, FALSE)
  BY DEF Writes, MergeCheck, MergeInsert, TypeOK
<1>2. session[p].state = "ready" /\ File(p) \in Files
  BY <1>1, ProcTypes DEF Undisturbed, IsOpen
<1>3. UNCHANGED <<snapshots, session, memory>>
  BY DEF MergeCheck, MergeInsert, db
<1>4. ASSUME NEW f \in Files, MergeCheck(p, f)
      PROVE  AgreesSoFar(p)' /\ OnCourse(p)'
  <2>1. call[p] = Idle /\ UNCHANGED symbols
    BY <1>4 DEF MergeCheck, Begin, db
  <2>2. call[p].op = "idle"
    BY <2>1 DEF Idle
  <2>3. \A n \in Rows(symbols[File(p)]) : Agrees(p, n)
    BY <1>1, <2>2 DEF Undisturbed, AgreesSoFar
  <2>4. \/ call'[p] = call[p]
        \/ /\ call'[p] = [op |-> "merge", step |-> "insert", source |-> f]
           /\ Conflicts(symbols[f], symbols[File(p)]) = {}
    BY <1>4 DEF MergeCheck, Goto, TypeOK
  <2>5. AgreesSoFar(p)'
    BY <1>3, <2>1, <2>2, <2>3, <2>4 DEF AgreesSoFar, Agrees, Rows, File
  <2>6. CASE call'[p] = call[p]
    BY <2>2, <2>5, <2>6 DEF OnCourse
  <2>7. CASE /\ call'[p] = [op |-> "merge", step |-> "insert", source |-> f]
             /\ Conflicts(symbols[f], symbols[File(p)]) = {}
    <3>1. OnCourse(p)'
      BY <1>3, <2>1, <2>7 DEF OnCourse, File, Conflicts, Rows
    <3> QED
      BY <2>5, <3>1
  <2> QED
    BY <2>4, <2>6, <2>7
<1>5. CASE MergeInsert(p)
  <2> DEFINE s == call[p].source
             f == File(p)
  <2>1. call'[p] = [op |-> "merge", step |-> "load", source |-> s]
    BY <1>5 DEF MergeInsert, Goto, TypeOK
  <2>2. s \in Files
    BY <1>5, ProcTypes, CallTypes DEF MergeInsert
  <2>3. Conflicts(symbols[s], symbols[f]) = {}
    BY <1>1, <1>5 DEF MergeInsert, Undisturbed, OnCourse
  <2>4. symbols' = [symbols EXCEPT ![f] = MergeRows(@, symbols[s])]
    BY <1>1, <1>5 DEF MergeInsert
  <2>5. \A n \in Rows(symbols[s]) : MergeRows(symbols[f], symbols[s])[n] = symbols[s][n]
    BY <2>3 DEF MergeRows, Conflicts, Rows
  <2>6. symbols'[f] = MergeRows(symbols[f], symbols[s])
    BY <1>2, <2>4 DEF TypeOK
  <2>7. \A n \in Rows(symbols'[s]) : symbols'[f][n] = symbols'[s][n]
    <3>1. CASE s = f
      BY <3>1
    <3>2. CASE s # f
      <4>1. symbols'[s] = symbols[s]
        BY <2>2, <2>4, <3>2 DEF TypeOK
      <4> QED
        BY <2>5, <2>6, <4>1
    <3> QED
      BY <3>1, <3>2
  <2>8. OnCourse(p)'
    BY <1>3, <2>1, <2>7 DEF OnCourse, File, Rows
  <2> QED
    BY <1>2, <1>3, <2>1, <2>8 DEF AgreesSoFar
<1> QED
  BY <1>2, <1>3, <1>4, <1>5

(* Taking one definition of another session. *)
LEMMA TakeUndisturbed ==
  ASSUME TypeOK, CallsInSessions, NEW p \in Procs, Undisturbed(p), quiet'[p],
         (\E f \in Files, n \in Names : TakeReplace(p, f, n)) \/ TakeLoad(p)
  PROVE  session'[p].state = "ready" /\ AgreesSoFar(p)' /\ OnCourse(p)'
<1>1. quiet[p] /\ ~Writes(p, FALSE)
  BY DEF Writes, TakeReplace, TakeLoad, TypeOK
<1>2. session[p].state = "ready" /\ File(p) \in Files
  BY <1>1, ProcTypes DEF Undisturbed, IsOpen
<1>3. UNCHANGED <<snapshots, session>>
  BY DEF TakeReplace, TakeLoad, Replace, db
<1>4. ASSUME NEW g \in Files, NEW n \in Names, TakeReplace(p, g, n)
      PROVE  AgreesSoFar(p)' /\ OnCourse(p)'
  <2>1. call[p] = Idle /\ UNCHANGED memory
    BY <1>4 DEF TakeReplace, Begin
  <2>2. call[p].op = "idle"
    BY <2>1 DEF Idle
  <2>3. \A k \in Rows(symbols[File(p)]) : Agrees(p, k)
    BY <1>1, <2>2 DEF Undisturbed, AgreesSoFar
  <2>4. call'[p] = [op |-> "take", step |-> "load", source |-> g, symbol |-> n]
    BY <1>1, <1>4 DEF TakeReplace, Goto, TypeOK
  <2>5. \A k \in Names \ {n} : symbols'[File(p)][k] = symbols[File(p)][k]
    <3>1. UNCHANGED symbols \/ symbols' = [symbols EXCEPT ![File(p)][n] = symbols[g][n]]
      BY <1>1, <1>4 DEF TakeReplace, Replace, db
    <3>2. symbols[File(p)] \in Table
      BY <1>2 DEF TypeOK
    <3>3. CASE symbols' = [symbols EXCEPT ![File(p)][n] = symbols[g][n]]
      <4>1. symbols'[File(p)] = [symbols[File(p)] EXCEPT ![n] = symbols[g][n]]
        BY <1>2, <3>3 DEF TypeOK
      <4> QED
        BY <3>2, <4>1 DEF Table
    <3> QED
      BY <3>1, <3>3
  <2>6. AgreesSoFar(p)'
    BY <1>3, <2>1, <2>3, <2>4, <2>5 DEF AgreesSoFar, Agrees, Rows, File
  <2> QED
    BY <2>4, <2>6 DEF OnCourse
<1>5. CASE TakeLoad(p)
  <2> DEFINE n == call[p].symbol
             t == symbols[File(p)]
             row == [k \in Names |-> IF k = n THEN t[n] ELSE Absent]
  <2>1. UNCHANGED symbols /\ call'[p].op = "idle" /\ call[p].op = "take"
    BY <1>5 DEF TakeLoad, Goto, Idle, TypeOK, db
  <2>2. PICK r \in Reloads(row, memory[p]) : SetMemory(p, r)
    BY <1>1, <1>5 DEF TakeLoad, TypeOK
  <2>3. memory'[p] = r
    BY <2>2 DEF SetMemory, TypeOK
  <2>4. \A k \in Rows(t) : Agrees(p, k) \/ n = k
    BY <1>1, <2>1 DEF Undisturbed, AgreesSoFar
  <2>5. ASSUME NEW k \in Rows(t)
        PROVE  r[k] \in {Stale, Defined(t[k]), Loaded(t[k])}
    <3>1. k \in Names
      BY DEF Rows
    <3>2. CASE k = n
      <4>1. k \in Rows(row) /\ row[k] = t[k]
        BY <3>1, <3>2 DEF Rows
      <4> HIDE DEF row
      <4> QED
        BY <3>1, <4>1, ReloadsAgree
    <3>3. CASE k # n
      <4>1. k \notin Rows(row)
        BY <3>1, <3>3 DEF Rows
      <4>2. memory[p][k] \in {Stale, Defined(t[k]), Loaded(t[k])}
        BY <2>4, <3>3 DEF Agrees
      <4> HIDE DEF row
      <4>3. r[k] \in {memory[p][k], Forget(memory[p][k])}
        BY <3>1, <4>1, ReloadsAgree
      <4> QED
        BY <4>2, <4>3, ForgetAgrees
    <3> QED
      BY <3>2, <3>3
  <2>6. AgreesSoFar(p)'
    BY <1>3, <2>1, <2>3, <2>5 DEF AgreesSoFar, Agrees, Rows, File
  <2> QED
    BY <1>2, <1>3, <2>1, <2>6 DEF OnCourse
<1> QED
  BY <1>2, <1>3, <1>4, <1>5

(* The invariant holds of every reachable state. *)
LEMMA StepUndisturbed == IInv /\ [Next]_vars => IInv'
<1> SUFFICES ASSUME IInv, [Next]_vars PROVE IInv'
  OBVIOUS
<1>1. TypeOK' /\ CallsInSessions'
  BY StepType, StepInSession DEF IInv
<1>2. CASE UNCHANGED vars
  BY <1>1, <1>2 DEF IInv, vars, Undisturbed, AgreesSoFar, Agrees, OnCourse, File
<1>3. ASSUME NEW p \in Procs, Step(p) PROVE \A q \in Procs : Undisturbed(q)'
  <2> SUFFICES ASSUME NEW q \in Procs, quiet'[q]
               PROVE  session'[q].state = "ready" /\ AgreesSoFar(q)' /\ OnCourse(q)'
    BY DEF Undisturbed
  <2>1. Undisturbed(q)
    BY DEF IInv
  <2>2. CASE q # p
    <3>1. /\ quiet[q] /\ UNCHANGED db
          /\ session'[q] = session[q] /\ memory'[q] = memory[q] /\ call'[q] = call[q]
      BY <1>3, <2>2, OthersUndisturbed DEF IInv
    <3> QED
      BY <2>1, <3>1 DEF Undisturbed, AgreesSoFar, Agrees, OnCourse, File, db
  <2>3. CASE q = p
    BY <1>3, <2>1, <2>3, DefineUndisturbed, SessionUndisturbed, SnapshotUndisturbed,
       RestoreUndisturbed, LoadUndisturbed, MergeUndisturbed, TakeUndisturbed DEF IInv, Step
  <2> QED
    BY <2>2, <2>3
<1> QED
  BY <1>1, <1>2, <1>3 DEF IInv, Next

LEMMA InitUndisturbed == Init => IInv
  BY InitType DEF Init, IInv, CallsInSessions, Undisturbed

LEMMA Invariant == Spec => []IInv
  BY InitUndisturbed, StepUndisturbed, PTL DEF Spec

-----------------------------------------------------------------------------

(***************************************************************************)
(* While a process has the session to itself, the bodies it holds are      *)
(* those of the database (load_symbols_from_db, session.c:200).            *)
(***************************************************************************)
THEOREM MemoryAgreesAlways == Spec => []MemoryAgrees
<1>1. IInv => MemoryAgrees
  <2> SUFFICES ASSUME IInv, NEW p \in Procs, quiet[p], call[p] = Idle,
                      NEW n \in Rows(symbols[File(p)])
               PROVE  Agrees(p, n)
    BY DEF MemoryAgrees, Agrees
  <2>1. call[p].op = "idle"
    BY DEF Idle
  <2> QED
    BY <2>1 DEF IInv, Undisturbed, AgreesSoFar
<1> QED
  BY <1>1, Invariant, PTL

(* Which step ends a call that is still quiet. *)
LEMMA CallEnd ==
  ASSUME IInv, [Next]_vars, NEW p \in Procs, Moves(p), call'[p] = Idle, quiet'[p]
  PROVE  /\ quiet[p] /\ session' = session
         /\ SnapshotInsert(p) \/ LoadSymbols(p) \/ TakeLoad(p)
<1>1. TypeOK /\ Undisturbed(p)
  BY DEF IInv
<1>2. PICK q \in Procs : Step(q)
  BY DEF Next, vars, Moves
<1>3. q = p
  BY <1>1, <1>2, OthersUndisturbed DEF Moves
<1>4. call[p] # Idle
  BY DEF Moves
<1>5. Step(p) /\ ~Crash(p)
  BY <1>1, <1>2, <1>3 DEF Crash, TypeOK
<1>6. SnapshotInsert(p) \/ LoadSymbols(p) \/ TakeLoad(p) \/ RestoreDelete(p)
        \/ RestoreInsert(p) \/ MergeInsert(p)
  BY <1>4, <1>5 DEF Step, Open, Close, Define, DefineLocal, Collect, Begin, SnapshotDelete,
     RestoreCount, MergeCheck, TakeReplace
<1>7. call'[p].op = "idle"
  BY DEF Idle
<1>8. ~RestoreDelete(p)
  <2>1. RestoreDelete(p) =>
          call'[p] = [op |-> "restore", step |-> "insert", name |-> call[p].name]
    BY <1>1 DEF RestoreDelete, Goto, TypeOK
  <2> QED
    BY <1>7, <2>1
<1>9. ~RestoreInsert(p)
  <2>1. RestoreInsert(p) =>
          call'[p] = [op |-> "restore", step |-> "load", name |-> call[p].name]
    BY <1>1 DEF RestoreInsert, Goto, TypeOK
  <2> QED
    BY <1>7, <2>1
<1>10. ~MergeInsert(p)
  <2>1. MergeInsert(p) =>
          call'[p] = [op |-> "merge", step |-> "load", source |-> call[p].source]
    BY <1>1 DEF MergeInsert, Goto, TypeOK
  <2> QED
    BY <1>7, <2>1
<1> QED
  BY <1>1, <1>6, <1>8, <1>9, <1>10 DEF SnapshotInsert, LoadSymbols, TakeLoad, Writes, TypeOK

(***************************************************************************)
(* Undisturbed, snapshot_ ends with an exact copy of the definitions, and  *)
(* restore_ (session.c:418) with exactly the rows of the snapshot.         *)
(***************************************************************************)
THEOREM SnapshotsAreExact == Spec => SnapshotsExact
<1>1. ASSUME IInv, [Next]_vars, NEW p \in Procs, Moves(p), call'[p] = Idle, quiet'[p]
      PROVE  /\ call[p].op = "snapshot" =>
                  snapshots'[File(p)][call[p].name] = symbols[File(p)]
             /\ call[p].op = "restore" =>
                  symbols'[File(p)] = snapshots[File(p)][call[p].name]
  <2>1. quiet[p] /\ (SnapshotInsert(p) \/ LoadSymbols(p) \/ TakeLoad(p))
    BY <1>1, CallEnd
  <2>2. OnCourse(p) /\ session[p].state = "ready" /\ TypeOK
    BY <1>1, <2>1 DEF IInv, Undisturbed
  <2>3. ASSUME call[p].op = "snapshot"
        PROVE  snapshots'[File(p)][call[p].name] = symbols[File(p)]
    <3>1. SnapshotInsert(p)
      BY <2>1, <2>3 DEF LoadSymbols, TakeLoad
    <3>2. ~Writes(p, FALSE)
      BY <1>1 DEF Writes
    <3>3. snapshots' = [snapshots EXCEPT ![File(p)][call[p].name] =
                          InsertAll(@, symbols[File(p)])]
      BY <3>1, <3>2 DEF SnapshotInsert
    <3>4. File(p) \in Files /\ call[p].name \in Snapshots /\ symbols[File(p)] \in Table
      BY <2>2, <2>3, ProcTypes, CallTypes DEF IsOpen
    <3>5. snapshots[File(p)][call[p].name] = NoRows
      BY <2>2, <2>3 DEF OnCourse
    <3>6. snapshots'[File(p)][call[p].name] = InsertAll(NoRows, symbols[File(p)])
      BY <2>2, <3>3, <3>4, <3>5 DEF TypeOK
    <3> QED
      BY <3>4, <3>6, InsertAllIntoNone
  <2>4. ASSUME call[p].op = "restore"
        PROVE  symbols'[File(p)] = snapshots[File(p)][call[p].name]
    <3>1. LoadSymbols(p)
      BY <2>1, <2>4 DEF SnapshotInsert, TakeLoad
    <3> QED
      BY <2>2, <2>4, <3>1 DEF LoadSymbols, OnCourse, db
  <2> QED
    BY <2>3, <2>4
<1>2. IInv /\ [Next]_vars =>
        [\A p \in Procs : Moves(p) /\ call'[p] = Idle /\ quiet'[p] =>
           /\ call[p].op = "snapshot" =>
                snapshots'[File(p)][call[p].name] = symbols[File(p)]
           /\ call[p].op = "restore" =>
                symbols'[File(p)] = snapshots[File(p)][call[p].name]]_vars
  BY <1>1
<1> QED
  BY <1>2, Invariant, PTL DEF Spec, SnapshotsExact

(***************************************************************************)
(* Undisturbed, a session-merge that answers true (session.c:591) has got  *)
(* every definition of the source.                                         *)
(***************************************************************************)
THEOREM MergeIsComplete == Spec => MergeComplete
<1>1. ASSUME IInv, [Next]_vars, NEW p \in Procs,
             Moves(p), call[p].op = "merge", call'[p] = Idle, quiet'[p],
             NEW n \in Rows(symbols[call[p].source])
      PROVE  symbols'[File(p)][n] = symbols[call[p].source][n]
  <2>1. quiet[p] /\ (SnapshotInsert(p) \/ LoadSymbols(p) \/ TakeLoad(p))
    BY <1>1, CallEnd
  <2>2. LoadSymbols(p)
    BY <1>1, <2>1 DEF SnapshotInsert, TakeLoad
  <2>3. OnCourse(p)
    BY <1>1, <2>1 DEF IInv, Undisturbed
  <2> QED
    BY <1>1, <2>2, <2>3 DEF LoadSymbols, OnCourse, db
<1>2. IInv /\ [Next]_vars =>
        [\A p \in Procs :
           Moves(p) /\ call[p].op = "merge" /\ call'[p] = Idle /\ quiet'[p] =>
             \A n \in Rows(symbols[call[p].source]) :
               symbols'[File(p)][n] = symbols[call[p].source][n]]_vars
  BY <1>1
<1> QED
  BY <1>2, Invariant, PTL DEF Spec, MergeComplete
=============================================================================
