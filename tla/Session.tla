------------------------------ MODULE Session ------------------------------
(***************************************************************************)
(* Persistent sessions (src/src/builtin/session.c, built with JOY_SESSION). *)
(* Several Joy processes, each with its own symbol table, share database   *)
(* files.  A database holds the table "symbols", a row per definition, and *)
(* the table "snapshots", copies of the rows of "symbols" under a name.    *)
(*                                                                         *)
(* SQLite is outside the repository: every statement the code sends is     *)
(* atomic and durable on its own, since no statement opens a transaction,  *)
(* and any statement may fail (a lock held by another process, a full      *)
(* disk), which the code ignores.  Between two statements of one operation *)
(* another process may run, or the process may die.                        *)
(*                                                                         *)
(* A body stands for its text: serialize_value writes it and               *)
(* deserialize_value keeps it when it is an integer (a member of           *)
(* Literals), and wraps any other text in a string.                        *)
(***************************************************************************)
EXTENDS Naturals, FiniteSets

CONSTANTS
  Procs,        \* Joy processes
  Files,        \* session files
  Names,        \* names of definitions, numbered in the order ORDER BY gives
  Bodies,       \* bodies of definitions
  Literals,     \* the bodies deserialize_value reads back as they were
  Snapshots,    \* names of snapshots
  Absent,       \* no row
  Undefined,    \* a name without a body
  Stale,        \* a body whose nodes have been handed back
  NoFile,       \* no session
  MaxCalls,     \* bound on operations begun
  MaxFailures   \* bound on statements that fail and processes that die

ASSUME NamesOrdered == Names \subseteq Nat
ASSUME LiteralsAreBodies == Literals \subseteq Bodies
ASSUME AbsentIsNoBody == Absent \notin Bodies
ASSUME NoFileIsNoFile == NoFile \notin Files
ASSUME BoundsAreNumbers == MaxCalls \in Nat /\ MaxFailures \in Nat

VARIABLES
  symbols,      \* table symbols of each file
  snapshots,    \* table snapshots of each file
  session,      \* env->session of each process
  memory,       \* body of each public name in each process
  call,         \* the operation a process is in, and its next statement
  quiet,        \* since the session was loaded every statement of the
                \* process worked, it defined no local name, and no other
                \* process wrote (a history variable)
  calls,        \* operations begun
  failures      \* failed statements and crashes

db == <<symbols, snapshots>>
vars == <<symbols, snapshots, session, memory, call, quiet, calls, failures>>

Table == [Names -> Bodies \cup {Absent}]
NoRows == [n \in Names |-> Absent]
Rows(t) == {n \in Names : t[n] # Absent}

Defined(b) == [kind |-> "defined", body |-> b]
Loaded(b) == [kind |-> "loaded", body |-> b]
MemoryValues == [kind : {"defined", "loaded"}, body : Bodies] \cup {Undefined, Stale}

NoSession == [file |-> NoFile, state |-> "none"]
SessionStates == {"ready", "unprepared", "failed"}
Sessions == {NoSession} \cup [file : Files, state : SessionStates]

Idle == [op |-> "idle"]
Calls ==
  {Idle}
    \cup [op : {"snapshot"}, step : {"insert"}, name : Snapshots]
    \cup [op : {"restore"}, step : {"delete", "insert", "load"}, name : Snapshots]
    \cup [op : {"merge"}, step : {"insert", "load"}, source : Files]
    \cup [op : {"take"}, step : {"load"}, source : Files, symbol : Names]

TypeOK ==
  /\ symbols \in [Files -> Table]
  /\ snapshots \in [Files -> [Snapshots -> Table]]
  /\ session \in [Procs -> Sessions]
  /\ memory \in [Procs -> [Names -> MemoryValues]]
  /\ call \in [Procs -> Calls]
  /\ quiet \in [Procs -> BOOLEAN]
  /\ calls \in 0 .. MaxCalls
  /\ failures \in 0 .. MaxFailures

Init ==
  /\ symbols = [f \in Files |-> NoRows]
  /\ snapshots = [f \in Files |-> [s \in Snapshots |-> NoRows]]
  /\ session = [p \in Procs |-> NoSession]
  /\ memory = [p \in Procs |-> [n \in Names |-> Undefined]]
  /\ call = [p \in Procs |-> Idle]
  /\ quiet = [p \in Procs |-> FALSE]
  /\ calls = 0
  /\ failures = 0

File(p) == session[p].file
IsOpen(p) == session[p].state # "none"

-----------------------------------------------------------------------------
(* Statements of the database. *)

Failure ==
  /\ failures < MaxFailures
  /\ failures' = failures + 1

(* A statement works, unless sqlite3_open gave no usable handle. *)
Works(p) ==
  /\ session[p].state # "failed"
  /\ UNCHANGED failures

(* A statement fails; every caller ignores it or only reports it. *)
Fails(p) ==
  \/ session[p].state = "failed" /\ UNCHANGED failures
  \/ Failure

(* The same for a statement prepared when the session was opened. *)
PreparedFails(p) ==
  \/ session[p].state = "unprepared" /\ UNCHANGED failures
  \/ Fails(p)

(* INSERT OR REPLACE INTO symbols of file f. *)
Replace(f, n, b) ==
  /\ symbols' = [symbols EXCEPT ![f][n] = b]
  /\ UNCHANGED snapshots

(* INSERT of the rows of t into the table u: a key that is there already
   fails the statement as a whole. *)
InsertAll(u, t) ==
  IF Rows(u) \cap Rows(t) = {}
  THEN [n \in Names |-> IF n \in Rows(t) THEN t[n] ELSE u[n]]
  ELSE u

(* Process p wrote, or tried to. *)
Writes(p, ok) == quiet' = [q \in Procs |-> q = p /\ quiet[p] /\ ok]

-----------------------------------------------------------------------------
(* Bodies in memory.  A loaded body is a node above mem_low that is no root
   of the collector. *)

(* A collection, or inimem1 before a definition, hands the node back. *)
Forget(v) == IF v \notin {Undefined, Stale} /\ v.kind = "loaded" THEN Stale ELSE v

(* Mutant of Reloads: a name without a row is loaded as well. *)
ReloadsAll(t, m) == {[n \in Names |-> Loaded(t[n])]}

(* What load_symbols_from_db makes of a symbol table m and the rows of t:
   every row replaces the body of its name, other names keep theirs.  When the
   node of row i needed a collection, what was loaded before it is gone. *)
Reloads(t, m) ==
  {[n \in Names |-> IF n \in Rows(t) THEN Loaded(t[n]) ELSE m[n]]}
    \cup {[n \in Names |-> IF n \notin Rows(t) THEN Forget(m[n])
                           ELSE IF n < i THEN Stale ELSE Loaded(t[n])] : i \in Rows(t)}

SetMemory(p, m) == memory' = [memory EXCEPT ![p] = m]

Begin(p) ==
  /\ call[p] = Idle
  /\ calls < MaxCalls
  /\ calls' = calls + 1

Goto(p, c) == call' = [call EXCEPT ![p] = c]

-----------------------------------------------------------------------------
(* session, session-close and definitions. *)

(* The database is opened, its statements are prepared, its rows are loaded. *)
OpenReady(p, f) ==
  /\ session' = [session EXCEPT ![p] = [file |-> f, state |-> "ready"]]
  /\ \E m \in Reloads(symbols[f], memory[p]) : SetMemory(p, m)
  /\ quiet' = [quiet EXCEPT ![p] = TRUE]
  /\ UNCHANGED failures

(* The tables of a new file cannot be created, so no statement is prepared;
   nothing is loaded, and the session counts as open. *)
OpenUnprepared(p, f) ==
  /\ symbols[f] = NoRows /\ snapshots[f] = [s \in Snapshots |-> NoRows]
  /\ Failure
  /\ session' = [session EXCEPT ![p] = [file |-> f, state |-> "unprepared"]]
  /\ quiet' = [quiet EXCEPT ![p] = FALSE]
  /\ UNCHANGED memory

(* sqlite3_open fails: an error, which leaves env->session persistent. *)
OpenFailed(p, f) ==
  /\ Failure
  /\ session' = [session EXCEPT ![p] = [file |-> f, state |-> "failed"]]
  /\ quiet' = [quiet EXCEPT ![p] = FALSE]
  /\ UNCHANGED memory

(* session: closes the session that is open and opens f. *)
Open(p, f) ==
  /\ Begin(p)
  /\ OpenReady(p, f) \/ OpenUnprepared(p, f) \/ OpenFailed(p, f)
  /\ UNCHANGED <<db, call>>

(* session-close. *)
Close(p) ==
  /\ call[p] = Idle
  /\ IsOpen(p)
  /\ session' = [session EXCEPT ![p] = NoSession]
  /\ quiet' = [quiet EXCEPT ![p] = FALSE]
  /\ UNCHANGED <<db, memory, call, calls, failures>>

(* session_persist_symbol, of a public or of a local definition. *)
Persist(p, n, b, public) ==
  \/ ~IsOpen(p) /\ UNCHANGED <<db, quiet, failures>>
  \/ /\ session[p].state = "ready"
     /\ UNCHANGED failures
     /\ Replace(File(p), n, b)
     /\ Writes(p, public)
  \/ /\ IsOpen(p)
     /\ PreparedFails(p)
     /\ Writes(p, FALSE)
     /\ UNCHANGED db

(* DEFINE n == b, after inimem1 has handed back everything above mem_low. *)
Define(p, n, b) ==
  /\ Begin(p)
  /\ SetMemory(p, [k \in Names |-> IF k = n THEN Defined(b) ELSE Forget(memory[p][k])])
  /\ Persist(p, n, b, TRUE)
  /\ UNCHANGED <<session, call>>

(* The same in a HIDE section or a MODULE: the entry is that of the qualified
   name, the row is that of the plain one. *)
DefineLocal(p, n, b) ==
  /\ Begin(p)
  /\ IsOpen(p)
  /\ SetMemory(p, [k \in Names |-> Forget(memory[p][k])])
  /\ Persist(p, n, b, FALSE)
  /\ UNCHANGED <<session, call>>

(* A collection in the course of any other program. *)
Collect(p) ==
  /\ call[p] = Idle
  /\ \E n \in Names : Forget(memory[p][n]) # memory[p][n]
  /\ SetMemory(p, [n \in Names |-> Forget(memory[p][n])])
  /\ UNCHANGED <<db, session, call, quiet, calls, failures>>

(* Mutants of SnapshotDelete: the DELETE without its WHERE, and no DELETE. *)
SnapshotDeleteAll(p, s) ==
  /\ Begin(p)
  /\ IsOpen(p)
  /\ Works(p)
  /\ snapshots' = [snapshots EXCEPT ![File(p)] = [k \in Snapshots |-> NoRows]]
  /\ Writes(p, TRUE)
  /\ Goto(p, [op |-> "snapshot", step |-> "insert", name |-> s])
  /\ UNCHANGED <<symbols, session, memory>>

SnapshotDeleteNot(p, s) ==
  /\ Begin(p)
  /\ IsOpen(p)
  /\ Works(p)
  /\ Writes(p, TRUE)
  /\ Goto(p, [op |-> "snapshot", step |-> "insert", name |-> s])
  /\ UNCHANGED <<db, session, memory>>

-----------------------------------------------------------------------------
(* snapshot: DELETE the rows of that name, INSERT a copy of symbols. *)

SnapshotDelete(p, s) ==
  /\ Begin(p)
  /\ IsOpen(p)
  /\ \/ /\ Works(p)
        /\ snapshots' = [snapshots EXCEPT ![File(p)][s] = NoRows]
        /\ Writes(p, TRUE)
     \/ /\ Fails(p)
        /\ Writes(p, FALSE)
        /\ UNCHANGED snapshots
  /\ Goto(p, [op |-> "snapshot", step |-> "insert", name |-> s])
  /\ UNCHANGED <<symbols, session, memory>>

SnapshotInsert(p) ==
  /\ call[p].op = "snapshot"
  /\ LET f == File(p)
         s == call[p].name
     IN \/ /\ Works(p)
           /\ snapshots' = [snapshots EXCEPT ![f][s] = InsertAll(@, symbols[f])]
           /\ Writes(p, TRUE)
        \/ /\ Fails(p)
           /\ Writes(p, FALSE)
           /\ UNCHANGED snapshots
  /\ Goto(p, Idle)
  /\ UNCHANGED <<symbols, session, memory, calls>>

-----------------------------------------------------------------------------
(* restore: COUNT the rows of the snapshot, DELETE all symbols, INSERT the
   rows of the snapshot, load. *)

RestoreCount(p, s) ==
  /\ Begin(p)
  /\ IsOpen(p)
  /\ \/ /\ Works(p)
        /\ Rows(snapshots[File(p)][s]) # {}
        /\ Goto(p, [op |-> "restore", step |-> "delete", name |-> s])
     \/ /\ Works(p)                                   \* snapshot not found
        /\ Rows(snapshots[File(p)][s]) = {}
        /\ UNCHANGED call
     \/ /\ Fails(p)                                   \* the count stays 0
        /\ UNCHANGED call
  /\ UNCHANGED <<db, session, memory, quiet>>

RestoreDelete(p) ==
  /\ call[p].op = "restore" /\ call[p].step = "delete"
  /\ \/ /\ Works(p)
        /\ symbols' = [symbols EXCEPT ![File(p)] = NoRows]
        /\ Writes(p, TRUE)
     \/ /\ Fails(p)
        /\ Writes(p, FALSE)
        /\ UNCHANGED symbols
  /\ Goto(p, [op |-> "restore", step |-> "insert", name |-> call[p].name])
  /\ UNCHANGED <<snapshots, session, memory, calls>>

RestoreInsert(p) ==
  /\ call[p].op = "restore" /\ call[p].step = "insert"
  /\ LET f == File(p)
     IN \/ /\ Works(p)
           /\ symbols' = [symbols EXCEPT ![f] = InsertAll(@, snapshots[f][call[p].name])]
           /\ Writes(p, TRUE)
        \/ /\ Fails(p)
           /\ Writes(p, FALSE)
           /\ UNCHANGED symbols
  /\ Goto(p, [op |-> "restore", step |-> "load", name |-> call[p].name])
  /\ UNCHANGED <<snapshots, session, memory, calls>>

(* Mutant of LoadSymbols: what was restored or merged is not loaded. *)
LoadNothing(p) ==
  /\ call[p].op \in {"restore", "merge"} /\ call[p].step = "load"
  /\ Goto(p, Idle)
  /\ UNCHANGED <<db, session, memory, quiet, calls, failures>>

(* load_symbols_from_db, where restore and session-merge call it; an
   unprepared session has no statement to list the rows with. *)
LoadSymbols(p) ==
  /\ call[p].op \in {"restore", "merge"} /\ call[p].step = "load"
  /\ \/ /\ session[p].state = "ready"
        /\ \E m \in Reloads(symbols[File(p)], memory[p]) : SetMemory(p, m)
        /\ UNCHANGED <<failures, quiet>>
     \/ /\ PreparedFails(p)
        /\ quiet' = [quiet EXCEPT ![p] = FALSE]
        /\ UNCHANGED memory
  /\ Goto(p, Idle)
  /\ UNCHANGED <<db, session, calls>>

(* Mutant of Conflicts: the bodies are not compared. *)
NoConflicts(t, u) == {}

-----------------------------------------------------------------------------
(* session-merge: look for conflicts, INSERT the rows whose name is new,
   load.  No row means no conflict when the query itself fails. *)

Conflicts(t, u) == {n \in Rows(t) \cap Rows(u) : t[n] # u[n]}

(* Mutant of MergeRows: INSERT OR REPLACE instead of the new names only. *)
MergeRowsOver(t, u) == [n \in Names |-> IF n \in Rows(u) THEN u[n] ELSE t[n]]

MergeCheck(p, source) ==
  /\ Begin(p)
  /\ IsOpen(p)
  /\ \/ /\ Works(p)
        /\ Conflicts(symbols[source], symbols[File(p)]) = {}
        /\ Goto(p, [op |-> "merge", step |-> "insert", source |-> source])
        /\ UNCHANGED quiet
     \/ /\ session[p].state # "failed"                \* the query fails
        /\ Fails(p)
        /\ Goto(p, [op |-> "merge", step |-> "insert", source |-> source])
        /\ quiet' = [quiet EXCEPT ![p] = FALSE]
     \/ /\ Works(p)                                   \* false is pushed
        /\ Conflicts(symbols[source], symbols[File(p)]) # {}
        /\ UNCHANGED <<call, quiet>>
     \/ /\ Fails(p)                                   \* ATTACH: an error
        /\ quiet' = [quiet EXCEPT ![p] = FALSE]
        /\ UNCHANGED call
  /\ UNCHANGED <<db, session, memory>>

MergeRows(t, u) == [n \in Names |-> IF n \in Rows(t) THEN t[n] ELSE u[n]]

MergeInsert(p) ==
  /\ call[p].op = "merge" /\ call[p].step = "insert"
  /\ LET f == File(p)
     IN \/ /\ Works(p)
           /\ symbols' = [symbols EXCEPT ![f] = MergeRows(@, symbols[call[p].source])]
           /\ Writes(p, TRUE)
        \/ /\ Fails(p)
           /\ Writes(p, FALSE)
           /\ UNCHANGED symbols
  /\ Goto(p, [op |-> "merge", step |-> "load", source |-> call[p].source])
  /\ UNCHANGED <<snapshots, session, memory, calls>>

-----------------------------------------------------------------------------
(* session-take: INSERT OR REPLACE one row of the source, load that row. *)

TakeReplace(p, source, n) ==
  /\ Begin(p)
  /\ IsOpen(p)
  /\ \/ /\ Works(p)
        /\ IF n \in Rows(symbols[source])
           THEN Replace(File(p), n, symbols[source][n])
           ELSE UNCHANGED db
        /\ Writes(p, TRUE)
        /\ Goto(p, [op |-> "take", step |-> "load", source |-> source, symbol |-> n])
     \/ /\ session[p].state # "failed"
        /\ Fails(p)
        /\ Writes(p, FALSE)
        /\ Goto(p, [op |-> "take", step |-> "load", source |-> source, symbol |-> n])
        /\ UNCHANGED db
     \/ /\ Fails(p)                                   \* ATTACH: an error
        /\ Writes(p, FALSE)
        /\ UNCHANGED <<db, call>>
  /\ UNCHANGED <<session, memory>>

TakeLoad(p) ==
  /\ call[p].op = "take"
  /\ LET n == call[p].symbol
         t == symbols[File(p)]
         row == [k \in Names |-> IF k = n THEN t[n] ELSE Absent]
     IN \/ /\ Works(p)
           /\ \E m \in Reloads(row, memory[p]) : SetMemory(p, m)
           /\ UNCHANGED quiet
        \/ /\ Fails(p)
           /\ quiet' = [quiet EXCEPT ![p] = FALSE]
           /\ UNCHANGED memory
  /\ Goto(p, Idle)
  /\ UNCHANGED <<db, session, calls>>

-----------------------------------------------------------------------------
(* The process dies, at any point; a new one starts with no definitions. *)
Crash(p) ==
  /\ Failure
  /\ session' = [session EXCEPT ![p] = NoSession]
  /\ SetMemory(p, [n \in Names |-> Undefined])
  /\ quiet' = [quiet EXCEPT ![p] = FALSE]
  /\ Goto(p, Idle)
  /\ UNCHANGED <<db, calls>>

Step(p) ==
  \/ \E f \in Files : Open(p, f)
  \/ Close(p)
  \/ \E n \in Names, b \in Bodies : Define(p, n, b)
  \/ \E n \in Names, b \in Bodies : DefineLocal(p, n, b)
  \/ Collect(p)
  \/ \E s \in Snapshots : SnapshotDelete(p, s)
  \/ SnapshotInsert(p)
  \/ \E s \in Snapshots : RestoreCount(p, s)
  \/ RestoreDelete(p)
  \/ RestoreInsert(p)
  \/ LoadSymbols(p)
  \/ \E f \in Files : MergeCheck(p, f)
  \/ MergeInsert(p)
  \/ \E f \in Files, n \in Names : TakeReplace(p, f, n)
  \/ TakeLoad(p)
  \/ Crash(p)

Next == \E p \in Procs : Step(p)

Spec == Init /\ [][Next]_vars

-----------------------------------------------------------------------------
(* Properties. *)

Moves(p) == call'[p] # call[p]

(* Process p may overwrite or remove row n of its file: within restore, in a
   DEFINE, or in the first statement of a session-take of n. *)
MayOverwrite(p, n) ==
  \/ call[p].op = "restore" /\ Moves(p)
  \/ /\ call[p] = Idle /\ calls' = calls + 1
     /\ call'[p].op = "take" => call'[p].symbol = n
     /\ call'[p].op \in {"idle", "take"}

(***************************************************************************)
(* Rows of definitions change only in the file of the process at work, and *)
(* session_merge_ (session.c:520) adds rows but never touches one that is  *)
(* there, whatever another process wrote since it looked for conflicts.    *)
(***************************************************************************)
RowsKept ==
  [][\A f \in Files, n \in Names : symbols'[f][n] # symbols[f][n] =>
       \E p \in Procs : /\ File(p) = f
                        /\ n \in Rows(symbols[f]) => MayOverwrite(p, n)]_vars

(***************************************************************************)
(* A snapshot changes only while snapshot_ (session.c:381) makes one of    *)
(* that name in that file: restoring, merging, taking, a crash or another  *)
(* snapshot leave it.                                                      *)
(***************************************************************************)
SnapshotsKept ==
  [][\A f \in Files, s \in Snapshots : snapshots'[f][s] # snapshots[f][s] =>
       \E p \in Procs :
         /\ File(p) = f /\ Moves(p)
         /\ \E c \in {call[p], call'[p]} : c.op = "snapshot" /\ c.name = s]_vars

(***************************************************************************)
(* Unless a statement failed or another process wrote, snapshot_ ends with *)
(* an exact copy of the definitions, and restore_ (session.c:418) ends     *)
(* with exactly the rows of the snapshot.                                  *)
(***************************************************************************)
SnapshotsExact ==
  [][\A p \in Procs : Moves(p) /\ call'[p] = Idle /\ quiet'[p] =>
       /\ call[p].op = "snapshot" =>
            snapshots'[File(p)][call[p].name] = symbols[File(p)]
       /\ call[p].op = "restore" =>
            symbols'[File(p)] = snapshots[File(p)][call[p].name]]_vars

(***************************************************************************)
(* Under the same conditions a merge that answers true (session.c:591) has *)
(* every definition of the source, as it is in the source.                 *)
(***************************************************************************)
MergeComplete ==
  [][\A p \in Procs :
       Moves(p) /\ call[p].op = "merge" /\ call'[p] = Idle /\ quiet'[p] =>
         \A n \in Rows(symbols[call[p].source]) :
           symbols'[File(p)][n] = symbols[call[p].source][n]]_vars

(***************************************************************************)
(* While a process has the session to itself, the body it holds for a name *)
(* with a row is that of the row, through any sequence of definitions,     *)
(* restores, merges and takes (load_symbols_from_db, session.c:200), or is *)
(* lost to a collection.                                                   *)
(***************************************************************************)
MemoryAgrees ==
  \A p \in Procs : quiet[p] /\ call[p] = Idle =>
    LET t == symbols[File(p)]
    IN \A n \in Rows(t) : memory[p][n] \in {Stale, Defined(t[n]), Loaded(t[n])}

(* What executing a name does: run the body, or push a string. *)
Meaning(v) ==
  IF v.kind = "loaded" /\ v.body \notin Literals THEN <<"string", v.body>>
  ELSE <<"program", v.body>>

(***************************************************************************)
(* "Quit and restart Joy - definitions survive" (README.md:433): after     *)
(* session the name of a row runs the body that was defined.  It does not: *)
(* deserialize_value (session.c:105) makes strings of all but numbers.     *)
(***************************************************************************)
DefinitionsSurvive ==
  \A p \in Procs : quiet[p] /\ call[p] = Idle =>
    LET t == symbols[File(p)]
    IN \A n \in Rows(t) : memory[p][n] # Stale =>
         Meaning(memory[p][n]) = <<"program", t[n]>>
=============================================================================
