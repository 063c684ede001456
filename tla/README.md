# A TLA+ model of Joy

This directory specifies the core of the Joy interpreter in `src/` (the NOBDW
build: its own node memory and copying collector), checks the specification
with TLC on small instances and proves parts of it with TLAPS for every value
of the constants. `PROJECT.json` relates every definition to the lines it
models, lists the runs, the properties, the hazards and the theorems.

## 1. The system

| component | source | state it keeps | operations | hard behaviour |
|---|---|---|---|---|
| node memory, copying collector | `utils.c`, `macros.h`, `runtime.h`, `globals.h` | `memory`, `memoryindex`, `memorymax`, `mem_low`, `flibrary_busy`; roots `stck`, `prog`, `conts`, `dump`..`dump5` | `newnode`, `newnode2`, `gc_collect`, `inimem1`, `inimem2` | any allocation inside a builtin may move every node; parameters and locals that are not roots go stale; definitions must survive |
| stack and aggregate builtins | `builtin/stacks.c`, `builtin/aggregate.c` | none of their own | one C function each, over the allocation macros | several allocations with reads of the stack in between |
| variables | `aggregate.c` (`assign_`, `unassign_`) | `symtab` entry: `body`, `is_root`, `is_last`; `variable_busy` | assign, unassign, evaluation of the name | bodies of variables are roots; found by a scan of the table that stops early |
| interpreter loop | `interp.c`, `error.c` | `prog`, `conts`, the C recursion of `exec_term` | `exec_term`, tail calls, `execerror` (longjmp) | an error leaves `conts` and the dumps as they were |
| front ends | `repl.c`, `joy.c`, `cli/main.c` | which input is read, how a definition is bracketed | `repl`, `joy_eval_string`, `joy_push_*` | two front ends over one memory with different protocols |
| reader and scanner | `factor.c`, `scan.c` | pushback, include stack, the list under construction (on `dump`) | `readterm`, `getsym`, `getch`, `include`, `redirect` | lists are linked in place while allocation may collect |
| symbol table, modules | `symbol.c`, `module.c`, `undefs.c`, `getsym` of `scan.c`, `optable.c` | `symtab`, name table, `hide_*` and `module_*` stacks, list of tokens | `definition`, `compound_def`, `enteratom`, `lookup`, `initmod` .. `exitmod` | every section and module is read twice, and both reads must agree; scopes left open by an error |
| bindings | `builtin/combinators.c` (`let_`), `builtin/pattern.c` | arrays of saved entries in the C frame of each combinator | `let`, `match`, `cases` | the same name bound again, errors and collections inside |
| conservative collector | `gc.c` | per context table of blocks, stack bounds | allocate, `realloc`, `ctx_scan`, collect | a block must be reachable at every allocation |
| combinators | `builtin/control.c`, `n_ary.c`, `recursion.c`, `combinators.c` | saved stacks on the dumps | `i`, `dip`, `ifte`, `linrec`, ... | nested execution, errors inside |
| parallel combinators | `builtin/parallel.c`, `parallel.h` | child contexts with memory of their own, shared tables | `pmap`, `pfork`, `pfilter`, `preduce` | threads, copying in and out, first error |
| sessions | `builtin/session.c` | an SQLite file, shared between processes | write-through, load, snapshot, restore, merge, take | a crash, a failed statement or another process between two statements |
| dictionaries | `builtin/dict.c` | hash tables of node indices | put, get, merge, ... | tables share nodes; indices no root covers |
| sets, strings and comparison | `builtin/sets.c`, `comparison.c`, `builtin_macros.h` | none | `and`, `has`, `at`, `take`, `=`, `equal`, ... | each builtin has a branch for each type |
| vectors and matrices | `builtin/vector.c` | none | `v+` .. `inv`, and those on native types | elimination, shapes, lists built without a root |
| I/O, JSON, arithmetic, system | the other files of `builtin/`, `write.c`, `print.c`, `iolib.c`, `setraw.c` | little | sequential functions | numeric edges |

How they interact: a front end reads a term with the reader (which allocates
nodes and links them), hands it to the interpreter loop, which dispatches to
builtins and to the bodies of names in the symbol table. Everything shares one
node memory. Only the parallel combinators create other threads; only sessions
persist anything. The node memory is what every other part relies on, and its
correctness is what a test can hardly reach: it depends on where in a builtin
a collection happens to fall. It is therefore modelled first.

What makes each component correct: the memory must never lose, change or
confuse a value that the program can still reach (`RefsLive`,
`ImplementsValueStack`), must keep definitions (`DefinitionsClosed`,
`DefinitionsPermanent`, `BodiesAreDefinitions`), must stay inside what it
allocated (`WithinCapacity`), and must keep variables (`VariablesCollected`).
The interpreter must give a program its documented result (`ResultsCorrect`),
raise an error exactly when there is none (`ErrorsExpected`), leave the dumps
balanced when a command ends (`DumpsEmpty`, `ContsMatch`), never change a
definition (`DefinitionsIntact`) and come to an end (`Terminates`). Names must
mean what the structure of a program says (`BindsLexically`), and inside `let`
and `match` what the innermost binding says (`InnermostBinding`). The parallel
combinators must give what their definitions over a list give, whatever the
schedule (`OutcomeAsPromised`). A session
must keep what is in it (`RowsKept`, `SnapshotsKept`) and agree with the
process that uses it (`MemoryAgrees`). Aggregates of different types must
behave alike (`AggregatesUniform`), dictionaries like values
(`DictionariesAreValues`), and elimination must compute determinants and
inverses (`LinearAlgebraRight`).

## 2. Modules

| module | what it is |
|---|---|
| `NodeHeap` | the node memory, its collector, and the builtins as programs over the allocation macros; the properties of the memory |
| `ValueStack` | what the memory promises: a stack of immutable values and a table of names, each builtin by its documented effect |
| `HeapRefinement` | `NodeHeap` with the history variable `shown`, and the refinement mapping to `ValueStack` |
| `Combinators` | the builtins that move nodes and execute quotations, each as a program over the macros of `runtime.h` and `macros.h` |
| `Interpreter` | the machine that executes these programs: `readterm`, `exec_term`, the instructions, errors, collections, and the front ends `repl` and `joy_eval_string` |
| `JoySemantics` | what a program means: a recursive function from stacks to stacks, written from the documentation of each builtin |
| `InterpreterCheck` | `Interpreter` compared with `JoySemantics` |
| `MCInterpreter` | what is typed and defined in the runs |
| `Parallel` | `pmap`, `pfilter`, `preduce` and `pfork`: the parent, its clones and the team of workers |
| `ParallelCheck` | what the four promise: their definitions over a list, and what holds on the way |
| `MCParallel` | the calls of the runs |
| `Session` | processes that share session files, statement by statement, with failures and crashes |
| `Scopes` | reading definitions: both passes of `getsym`, the display of open sections and modules, the flat symbol table |
| `ScopesCheck` | lexical scope by the structure of a program, compared with `Scopes` |
| `Matrices` | the builtins of `vector.c` on exact fractions |
| `Aggregates` | the builtins of `aggregate.c`, `sets.c` and `comparison.c` on lists, strings and sets |
| `Values` | the dictionaries of `dict.c`, and a stack that all these builtins are applied to |
| `ValuesCheck` | reference definitions for the builtins of `Values` |
| `Bindings` | `let`, `match` and `cases` inside each other |
| `MCSession`, `MCScopes`, `MCValues`, `MCBindings` | the inputs of their runs |
| `Session_proofs`, `Scopes_proofs`, `Bindings_proofs` | their type invariants and safety properties for every value of the constants |
| `NodeHeap_proofs` | type correctness, the theorems about the definition space, and that no reference dangles when names are only defined at the top level |
| `HeapRefinement_proofs` | that `NodeHeap` implements `ValueStack`, and that variables are collected |
| `Interpreter_proofs` | that no reference dangles while programs of all but nine builtins are read and executed, and that these leave the dumps as they were and `conts` in step with the C stack |
| `Parallel_proofs` | that cursors stay in range, tasks are exclusive, the parent stands still, no clone is left and the outcome is the one defined |
| `Induction` | induction over the natural numbers, for predicates given as sets or functions |

### NodeHeap

State: the variables have the names of the fields of `Env` they model. `root`
collects the fields that `gc1` copies, with `l` and `r` for its two parameters;
`symtab` keeps the fields of an entry that concern memory.

A builtin of C is a sequence of macro calls (`NULLARY`, `GBINARY`,
`SAVESTACK`, `POP`, ...), and a collection can happen at each call that
allocates. `Command(b)` is that sequence: one instruction per macro, with the
operands it names (`S(k)` the k-th node below the top of the stack, `Saved(k)`
the macros `SAVED1`.., `First(k)` the list that `SAVED1` holds). `code` is what
is left to execute. Operands are read when the instruction is executed, as the
macros do, and handed to the allocation as `pend`, `root.l` and `root.r`, as
`newnode` does.

| action | code |
|---|---|
| `AllocFits`, `AllocLibrary`, `AllocGc`, `AllocResume` | the ways through `newnode`: there is room; a definition is being read and memory is enlarged; memorymax is enlarged and `gc1` starts; the node is built after `gc2` |
| `GcRoot` | `gc1` takes its next root (`COP2`), after the fixed roots the variables that `scan_roots` finds |
| `GcCopyNode` | `copy_one`; for a list an inner activation of `copy` starts |
| `GcChainEnd` | the loop of `copy` ends at a definition, nil or a node already moved, and its head goes where it was asked for |
| `Gc2` | `gc2`, with the change of capacity |
| `Run` | `POP`, `unstack_`, the assignments of `definition` and `assign_`, `inimem2`, `execerror` |
| `Builtin`, `PushNum`, `PushString`, `Eval`, `Assign`, `Unassign` | the dispatch of one command by `exec_term` |
| `Collect` | the builtin `gc` |
| `Define` | a definition read by `repl`, between `inimem1` and `inimem2` |
| `EmbedDefine` | a definition read by `joy_eval_string` |

What is abstracted: integers are the payloads of all unstructured values;
a string is the number of nodes it needs beyond its first; the union `u` is a
number or an index; a definition's body is one literal, quoted or not; the
name that `assign` takes from the stack is a parameter. Program nodes are not
in this module: `prog` and `conts` stay empty. Collections take one step per copied
node, so that their invariants can be stated; no other action is enabled
meanwhile, as the code is sequential.

### HeapRefinement

`Denote` reads the sequence of values that a chain of nodes stands for; it is
a recursive function of the depth up to which it looks. When a
command has ended (`Idle`), `shown` takes the values of the stack and of all
bodies. `ImplementsValueStack` says that the sequence of values of `shown` is
a behaviour of `ValueStack`: whatever collections a command started on its
way, it has exactly its documented effect on the stack and no effect on
anything else.

### Combinators and Interpreter

A C function such as `linrec` executes quotations by calling `exec_term`,
which calls C functions, and so on; between two calls it has its state on the
dumps, on the stack and in one local variable. `frames` is the C stack: for
each activation the function, what is left of its code, and its local
variable. `Combinators` gives the code of every builtin as a sequence of
instructions that correspond to macro calls one by one (`PARAMS` to
`TWOPARAMS`, `TWOQUOTES`.., `List(dump1, stck, dump1)` to
`env->dump1 = LIST_NEWNODE(env->stck, env->dump1)`, `Exec(Quote(2))` to
`exec_term(env, nodevalue(SAVED2).lis)`), so that they can be read beside the
C source. `Interpreter` has one action for each kind of instruction, for each
case of `exec_term`, for each case of `readfactor` and `readterm` and for what
the front ends do.

| action | code |
|---|---|
| `RequireStep` | the checks `ONEPARAM` .. `CHECKVALUE`, with `execerror` and its `longjmp` |
| `AssignStep`, `CopyStep`, `ListStep`, `NumberStep`, `FunctionStep`, `ConsStep` | an assignment to a register or a link; `newnode2`; the constructors of nodes |
| `ExecStep`, `CallStep`, `Return` | a call of `exec_term` or of a static function of `recursion.c`, and the return of a builtin |
| `IfStep`, `LoopStep`, `BreakStep`, `LocalStep` | the control flow of C, `result`, `i` and `n` |
| `PushLiteral`, `CallBuiltin`, `SkipUndefined`, `TailCall`, `Subroutine`, `BadNode`, `EndProgram` | the cases of the loop of `exec_term` and its end |
| `ReadFactor`, `ReadOpen`, `ReadClose`, `AttachFirst`, `AttachFurther` | `readfactor` and the list that `readterm` links in place |
| `StartTerm`, `Type`, `EndTerm`, `PrintStep` | a term in `repl` or `joy_eval_string`, up to its '.', and `print` |
| `StartDefinition`, `EndDefinition` | `inimem1`, `compound_def` with one definition, `inimem2` |
| `Collect` | `gc1` and `gc2` at any allocation, if there is garbage |

Memory is what `NodeHeap` shows it to be for a program: nodes with an identity
that collections keep. The numbers of nodes are never given twice, so that a
reference to a node that was dropped shows up in `RefsLive`. A collection may
fall before every allocation, not only when memory is full.

`JoySemantics` says what a command should do: `Run(p, s)` is the stack that
program `p` makes of stack `s`, or an error. It has neither memory nor dumps
nor conts: a quotation that runs on the side simply gets a stack as argument.
`text` and `before` record the symbols of the command and the stack it began
with, so that `ResultsCorrect` and `ErrorsExpected` can compare the two.

Not in these modules: strings, sets, dictionaries and the other aggregates (for
which `map`, `step`, `fold` etc. have cases of their own); `case` and `opcase`;
`IMMEDIATE` functions, `undeferror`, redefinition, several definitions
in one `DEFINE` (`Scopes` has those); unbalanced brackets and empty terms;
definitions read by `joy_eval_string` (they are in `NodeHeap`); `construct`
with members that are not quotations.

### Parallel

One call of one of the four functions of `parallel.c`. `call` is what the
stack holds when it begins; `pc` is where the parent thread is. `values`,
`quotation` and `results` are the C locals `inputs` or `values`, `quot1`..,
and `r1`, `r2` or `new_values`: indices into the parent's memory, each with
the number of collections after which it was taken (`at`). A collection moves
nodes, so that an index from before it reads `Garbage`, which is what the rule
in `utils.c:441` warns of; an index kept in a dump or on the stack is a root
and is modelled by the value itself (`built`). `child` says whether a clone's
memory is allocated, `task` holds a `ParallelTask` with the stack of its
clone, `worker` what each thread of the team does.

| action | code |
|---|---|
| `Enter` | empty lists, single members, lists of fewer than four members |
| `Prepare` | the arrays of a call or of a level of `preduce`, or `malloc` fails |
| `Clone`, `CloneFails` | `env_clone_for_parallel`; or its memory cannot be had |
| `Take`, `CopyIn`, `Run` | a worker takes the next iteration (`schedule(dynamic)`) or section, copies the input, executes the quotation or is brought back by the clone's `error_jmp` |
| `CopyInDies`, `CollectFilterDies` | the bytes of a string are followed as a pointer that leads nowhere |
| `JoinError`, `Join`, `JoinFails` | the end of the region: the first error, the results, or no memory for them |
| `CollectMap`, `CollectFilter`, `CollectLocal` | the results are copied to the parent, a collection before each if `gcs` allows |
| `EndMap`, `EndFork`, `EndLevel`, `EndReduce`, `PushFork` | the clones are destroyed; the result is pushed, or the next level begins |
| `FallBack`, `SequentialStep`, `EndSequential` | the code after the label `sequential` |

A clone whose memory cannot be had ends the process: `globals.h:35` defines
`TEST_MALLOC_RETURN`, so that `inimem1` calls `fatal`, and what the four
functions do when they find `child_env.memory` to be null is never executed.

The bytes of a string or of a big number lie in its node (`Inline`). `pmap` and
`pfork` copy them as bytes. `preduce` hands the union of the node to `newnode`
(`CopyOf`, `parallel.c:766`), and so does `pfilter` with each member that is kept
(`CollectFilter`, `parallel.c:594`); `newnode` takes it for the address of a
string. `pfilter` follows it as well to see whether a string is empty (`Truths`,
`parallel.c:576`). What comes of it is `Garbage`, either answer, or a fault.

What is abstracted: `Exec(q, s)` is the stack that quotation `q` makes of
stack `s` in an environment of its own, or an error; that an environment
executes a quotation correctly is the subject of `Interpreter`. Deep copies of
lists are copies of values; the dumps `dump4` and `dump5`, which root the
copies, are pushed and popped in pairs and left out. `Garbage` stands for
anything: what a quotation does with it is `Garbage` again. Tasks do not
assign variables, as `doc/parallel.md:294` demands.

The functions need `struct ParallelTask` and the functions of
`include/parallel.h`, which no source file includes at this commit: a build
with `-DJOY_PARALLEL=ON` does not compile. The model takes the header as
included, as the header's own comment presupposes; what it shows was compared
with a program compiled with `-include include/parallel.h`. Without
`JOY_PARALLEL` only `Enter` and the sequential code remain.

### Session

`symbols` and `snapshots` are the two tables of each file, `session` is
`env->session` of each process, `memory` the body that each process holds for
a name, `call` the operation a process is in and its next statement. SQLite is
external: a statement is atomic and durable on its own, as the code never opens
a transaction around several, and it may fail, which the code ignores nearly
everywhere. Between two statements of one operation any other process may run
and the process may die (`Crash`).

| action | code |
|---|---|
| `Open`, `Close` | `session_` with `ensure_schema`, `prepare_statements` and `load_symbols_from_db`; `session_close_internal` |
| `Define`, `DefineLocal` | the end of `definition` with `session_persist_symbol`, for a public name and for one in a section or module, whose row has the plain name |
| `SnapshotDelete`, `SnapshotInsert` | the two statements of `snapshot_` |
| `RestoreCount`, `RestoreDelete`, `RestoreInsert`, `LoadSymbols` | the statements of `restore_` and what it loads |
| `MergeCheck`, `MergeInsert`, `LoadSymbols` | `session_merge_`: the query for conflicts, the insertion of new rows, the load |
| `TakeReplace`, `TakeLoad` | `session_take_` |
| `Collect` | a collection: loaded bodies are above `mem_low` and no root leads to them |

A body stands for its text; a member of `Literals` is read back as what it
was, any other text as a string. `quiet` is a history variable: since it opened
its session a process saw no failing statement, made no local definition, and no
other process wrote. The cache, formatting (floats are written with `%g`),
`sessions`, `snapshots` and `session-diff`, which only print, and `sql` are left
out. A session may be merged with itself and with files nobody opened.

### Scopes

The input is a sequence of tokens. `frames` is the C stack from `repl` down to
`readfactor`: for each active call, what it does with the symbol that
`getsym` gives it. `reading = "declare"` is the first pass of `getsym`, which
declares the name before every `==` up to the matching END and puts the tokens
on a list; the second reading takes them from there. `hide_*`, `inside_hide`,
`been_inside` and `module_*` are the static variables of `module.c`. A name is a
sequence, `<<n>>` or `<<prefix, n>>`; bodies hold the entries they refer to.
`classify`, `qualify`, `enteratom`, `lookup`, `initpriv` .. `exitmod` are
operators or actions of these names; the actions `Declare...` are the cases of
the switch in `getsym`, `Compound...` those of `compound_def`, `Definition`,
`Period`, `Equals` and `Enter` the parts of `definition`. `unhashed` is the
set of entries that the hash table no longer leads to, because
`hide_inner_modules` or a second entry of the same name took them out. An
error jumps back to `repl` and leaves the display and the list of tokens as
they are. Reading in front of `hide_stack` gives a number of `InFront`, as
`g_argc` lies there.

`ScopesCheck` has items (definitions, sections, modules, libraries, terms), the
tokens they are written with, and `Meant`: each definition and term with its
names bound by lexical scope. `events` records what `Scopes` makes of the
tokens. Left out: CONST sections and inlining, numbers and strings in programs.

### Matrices, Aggregates and Values

A value is `<<type, contents>>`; a builtin is an operator from a stack to the
stack it leaves and whether it raised an error, with the checks and the order
of pops of the C function. Floats are exact fractions with the infinities and
NaN of IEEE arithmetic; rounding is left out, and with it `vnorm` and
`vnormalize`. Pivots below the threshold 1e-15 are pivots of 0: the inputs
have no others that small. `Aggregates` has sets as sets of small numbers with
their word where the code compares words, strings as sequences of codes.
`Values` adds dictionaries: `tables` hold pairs of a key and a node, copies share
the nodes, `gc` takes all nodes as no root leads to them. The order of a hash
table is any order. `Builds` lets a collection in `build_matrix` lose the list
under construction, which no root covers.

The counts and positions of `at`, `of`, `drop` and `take` are cut to an `int`
after they were tested, and `cons` cuts a character to a `char`, which ends the
string if it is 0: `Narrow` with `INT_BITS` and `CHAR_BITS`. Where the code then
looks or writes in front of a string the result is `Lost`: any value, or a fault,
after which nothing is applied to it. `split` executes a quotation for each
member: `Splits` lets it succeed on any of them, or end in an error at one.

A builtin is one step, with two exceptions for the collections inside it:
`Builds`, and those of `dict.c` that loop over pairs (`Disturbed`). `todict` holds
its place in the list as an index (`lis`, `dict.c:335`) while it copies the value
of a pair. `dkeys` and `dvals` reserve one node for each entry and `fromdict`
four before they link a list by its `head` and `tail`; strings of more than
`TYPES_SIZE` bytes, the 0 at the end included, need one more node for each
`NODE_SIZE` bytes (`NodesOf`), so that the reserve is too small. In these cases
a collection leaves anything. The other builtins of `dict.c` read all their
parameters before they allocate.

### Bindings

`symtab` has one entry for each name; `frames` are the C frames of the `let`,
`match` and `cases` that are active, with the array of saved entries in `saved`.
Names are bound one step at a time (`BindName`, `ApplyBinding`), too few values
undo what was bound (`UndoName`) and raise an error, `Ends` and `Restores` put
the entries back one by one. The quotation inside is any program that does not
`assign`: it pushes literals, executes names, nests further combinators, ends, or
`Fails`, which drops all frames (`Abort`, `longjmp`). A pattern with more than
`MAX_BINDINGS` heads before its colon is written past the end of an array of the
C stack; `Overflows` ends the behaviour there, in a frame that is "undefined". `Define` reads a definition between two
programs. `gc` takes the bodies of bound names, which are no roots, and the
values that `match` has popped. `pattern_match` is an operator with the order
in which names are bound and the errors in the middle. `globals` and `bound` are
history variables. Left out: a collection in the middle of one match, and
values that are names.

## 3. Runs

All constants of a run are in its `.cfg`. In the `heap_` runs `MEM_LOW` (1100 in
the code) is 5 or 6, so that a builtin runs out of memory after two or three
values and most commands collect at some interleaving; `MaxOps` commands (5 or
6) are enough for a definition, a use of it, two collections and a builtin that
allocates twice. `MaxIndex` bounds the indices the model follows; with these
values no passing run is cut off by it before `MaxOps` is reached. `Doublings`
bounds how often one request may double memory. Deadlock is not checked, as a
program that has been read or executed to its end stops, in every run.

| run | shows |
|---|---|
| `heap_definitions` | integers, lists, top level definitions and explicit collections: no reference dangles, bodies are definitions, and the refinement holds |
| `heap_values` | strings of one and two nodes, rotate, over, unstack and a variable: there is room for what a collection copies, the variable is copied, and the refinement holds; the builtin `gc` is left out (see below) |
| `heap_mixed` | the definition space is closed and permanent, even when variables and embedded definitions dangle |
| `interp_builtins` | every builtin gives its documented result and leaves the dumps empty, wherever collections fall, and ends; executing the bad nodes that `cleave` can leave makes no reference dangle |
| `interp_calls` | any three of nine chunks of program with subroutine calls, tail calls, undefined names, errors, quotations that take too much from the stack, and definitions between commands: errors exactly as documented, never a bad value, `conts` in step with the C stack, definitions as they were read |
| `parallel` | three workers: the outcome of every call is that of its definition over the list, for `preduce` in one order of the operands or the other, no clone is left, no task is executed twice, the parent stands still meanwhile, and every call ends, unless the process exits |
| `session` | two processes, two files, one failing statement or crash anywhere in six operations: rows and snapshots are changed only by what may change them, undisturbed operations end with exactly what they promise, and memory agrees with the file |
| `scopes` | every pair of a section, module or library, nested ones, and any five symbols: names bind lexically, the display is closed between commands, the second read finds what the first declared, and the stacks stay within bounds |
| `values` | builtins on aggregates, vectors and matrices applied to the literals of `MCValues`, and six builtins on dictionaries in a row with collections in between and inside. Compared with reference definitions are `null`, `small`, `size`, `first`, `rest`, `uncons`, `unswons`, `at`, `of`, `drop`, `take`, `cons`, `swons`, `has`, `in`, `concat`, `enconcat` and `split`; `det`, `inv`, `transpose`, `ndot`, `nmv` and `nmm`; and every builtin of `dict.c`. The others are executed, and what they leave is not judged |
| `bindings` | two combinators deep, with two names, names that occur twice, malformed patterns, too many heads, errors, definitions and collections: a name denotes its innermost binding |
| `parallel_nested` (violation) | a task inside a task does not find the bodies of symbols |
| `session_reopen` (violation) | a definition is a string after the session is opened again |

`interp_builtins` types one phrase and either front end executes it; the bound
of 80 steps never cuts one off (`Terminates` would be violated if it did). There
are 57 phrases, at least one for each builtin with a branch both ways where
it has one; the 39 with a combinator also stand inside `nullary`, `dip`, `infra`
and `cleave`, where the stack, dumps and memory are busy. In `interp_calls` the
bound on steps, 20,
cuts off programs that do not end.

In `parallel`, three workers and up to five tasks (six members would only add
a third pair to `preduce`) make every order of taking, copying and ending
possible, with one idle worker and with tasks left over; `preduce` reaches a
third level and an odd member. `gcs`, how often the parent may collect during
one call, is up to 2 for `pmap`. One call of each of the others may collect once,
and one call each of `pfilter` and `preduce` has strings (`OtherCalls`): of their
outcome nothing is promised, but the properties other than `OutcomeAsPromised`
hold of them as well. One operator of `preduce`, `pick`, is not commutative.

In `session`, two names and two bodies make conflicts and partial overlaps, two
snapshots and two files make confusions possible; six operations are enough to
define, take a snapshot, define again and restore while the other process
does two things. The theorems hold without these bounds. `session_reopen` has
room for the shortest counterexample.

In `scopes`, `DISPLAYMAX` (10 in the code) is 2, so that programs reach it;
two names in up to two definitions of each part are enough for each name to
be private, public, global, shadowed or unknown at each place it is used.
`InFront` is `{1}`, the program called without arguments.

In `values`, `SETSIZE` (64 in the code) is 4: the lowest, the highest and inner
bits, with the highest as the sign. Aggregates have up to three members, matrices
up to three rows and columns, with singular ones, zeros on the diagonal and
exchanged rows; each of the aggregate and matrix behaviours is one builtin.
`INT_BITS` (32) is 4 and `CHAR_BITS` (8) is 3: the inputs have counts of 8, which
an `int` makes negative, 15 and 17, which it makes -1 and 1, and characters on both
sides of the bound. `TYPES_SIZE` (8) is 2 and `NODE_SIZE` (16) is 4, so that a
key of two characters takes two nodes.
In `bindings`, `MAX_BINDINGS` (64 in the code) is 2, so that a pattern of three
names, or with three heads, is too many.

Fairness: `interp_builtins` assumes weak fairness of `Machine`, that is, of the
interpreter's own steps. The program is one thread that runs until it reads, so
a step that can be taken is taken. Nothing is assumed of what is typed, nor
that a collection ever happens. `parallel` assumes weak fairness of the parent
and of each worker: they are threads of the operating system, which schedules
each that can run, and `exec_term` of a task is assumed to come to an end (that
is `Terminates` of `Interpreter`). The other runs state safety only: an
operation of a session is a sequence of statements that each return, and what
is read and typed need never end.

### What the code does otherwise

The two violations are findings: each was met as a disagreement between a doc
or a comment and the code while the module was written. `parallel_nested` was
reproduced with the compiled program. The other disagreements that were met
are modelled as the code has them, and the inputs of the passing runs keep
clear of them or the properties allow for them:

* Memory: a variable that lies in the table before the first one assigned is
  lost by a collection (`utils.c:324`); a definition read by `joy_eval_string` is
  freed by the next collection (`joy.c:232`); a definition is put over the values
  of variables, and `inimem1` does not reset `prog`; `copy_one` counts the first
  node of a string twice, so that collections grow the used memory past its capacity: "Make sure that, in the
  case of gc, enough nodes are available" (`utils.c:530`) counts the nodes of
  the request, not those that strings gain when they move. Repeated
  collections do it, and so does one when strings have three nodes: with
  `MEM_LOW = 6`, `StrLens = {0, 17}` and the builtins `list`, `uncons` and `pop`
  TLC finds `WithinCapacity` violated within eight commands.
* Interpreter: `while` keeps its intermediate stack by overwriting the link of
  a node it does not own (`combinators.c:384`), which through `unstack` or
  `infra` is one of a definition, so that `f` is changed by its own execution
  after `DEFINE f == [[pred] [] 3] unstack while`, against `utils.c:85`;
  `DefinitionsIntact` is checked on programs without such a `while`;
  `joy_eval_string` leaves the term on the stack and removes the
  result (`joy.c:239`, against `tests/test4/api.c:96`);
  `1 [pop] [pop] cleave` leaves bad nodes on the stack.
* Parallel: `pfork`, `pfilter` and `preduce` keep indices in C locals across
  copies that may collect (`pmap` does not), so that a call of theirs that
  collects may leave anything. `preduce` of strings or big numbers, and
  `pfilter` where it keeps one, take their bytes for a pointer, which nearly
  always is a crash; so is a string as the result of a test.
  `OutcomeAsPromised` speaks of none of these calls (`Proper`). The code
  that is to execute the tasks in order when a clone has no memory
  (`parallel.c:54`, 255, 479, 737) is never reached. `preduce` gives the operands
  in the other order than its comment and its own sequential code; the property
  allows either order, the same one throughout. `pmap` drops a member whose task
  leaves an empty stack; `pfilter` takes an empty set and -0.0 for other truth
  values than the sequential code; a task sees the member only, the sequential
  code the stack below it as well. The calls of which an outcome is promised
  look at the member and leave a value on which both agree.
* Sessions: a failed open leaves a session that is open and whose every
  operation fails; merging a session that does not exist makes its file and
  answers true; a local definition overwrites the row of a public one of its
  name; `restore` empties the table before it fills it, in two statements.
* Scopes: HIDE in the public part of HIDE, and a MODULE with PRIVATE inside
  another one with PRIVATE, leave a section open; HIDE in a private part ends
  the private part of the section around it (`inside_hide` is not restored); a
  module in the public part of HIDE closes the section; HIDE inside MODULE ends
  the first pass at HIDE's END, so that what follows is not declared;
  `hide_inner_modules` stops at the first plain entry; without IN `hide_stack[-1]`
  is read; after an error inside MODULE the module stays open, and
  the next `DEFINE z == 4` defines `m.z`; an overflow in the first pass leaves
  the list of tokens the wrong way round. `BindsLexically` and
  `DisplayClosed` speak of programs that are written otherwise.
* Scopes, the prefix of private names: `classify` looks for a private part
  before it looks for a module, so that a module in a private part enters its
  definitions as names of the section. In
  `HIDE y == 1; w == y; MODULE m DEFINE y == 2 END IN z == y; v == w END`
  the second `y` replaces the first: `z` is 2 and `v` is 1, although a comment says
  that the prefix allows "the same names to be used in different private
  sections and modules" (`module.c:93`). `EntriesStay` names this and
  `hide_inner_modules` as the only ways in which the entry of a name is replaced,
  and, like `TypeOK`, speaks of all programs; `scopes` reads this one too.
* Values: `xor` compares two integers as numbers; all empty values compare
  equal, and values without an order count as greater both ways; `null` is
  false of an empty dictionary; `vscale`, `mscale`, `vlinspace`, `drop`, `take` and
  `enconcat` have changed the stack when they raise an error; `m+` of matrices
  without columns gives `[]`; `2000 [40 meye trace pop] times` ends with an error,
  as a collection in `build_matrix` loses rows; a collection takes the values
  of every dictionary. `[1 2 3] 4294967296 at` gives 1, as the position is cut to
  an `int`, and counts of 2^31 and more are negative for `drop` and `take`;
  `cons` of the character 0 to a string gives the empty string. `AggregatesUniform`
  speaks of counts that an `int` can tell and characters that a `char` can hold.
  `>dict` that collects before it has read all pairs reads on in memory where they
  no longer are, and `dkeys`, `dvals` and `dict>` lose the list they link when
  long strings make them collect; `DictionariesAreValues` leaves out what these
  four give then (`Spoilt`), and nothing else.
* Bindings: after a collection a name that is bound, or a variable whose value
  `let` has saved, has any value, as `scan_roots` sees neither; `InnermostBinding`
  counts any value as the one that was bound. An error inside leaves a name
  bound, although the comment above `let_` says that bindings are restored, and
  what it leaves counts as the name's global meaning from then on; so
  do too few values for a list that has a name twice. More than 64 heads in a
  pattern overflow `head_patterns` (`pattern.c:100`); literals in patterns match
  whatever compares equal (`""` matches `[]`); only the first term of a pattern
  quotation counts.

## 4. Proofs

Each component is proved about as a module of its own; none of the proofs
depends on the bounds of the runs.

`NodeHeap_proofs` assumes `HeapAssumption` only: `MEM_LOW` and `MaxIndex` are
positive, the sets of names are names of the table.

* `TypeCorrect`: `Spec => []TypeOK`. The strengthening `FrameSlot` says that
  an activation of `copy` only exists for one of the roots. The lemmas follow
  the actions; those about operands (`AtType`), requests (`RequestType`) and
  chains (`LinkTailType`) are shared.
* `DefinitionSpaceClosed`: `Spec => []DefinitionsClosed` and
  `DefinitionSpacePermanent`: `Spec => DefinitionsPermanent`, for all
  constants: strings, variables and embedded definitions included, so that
  even where other references dangle the definition space is safe. The
  inductive invariant `DInv` adds: `Low` (definitions are
  allocated nodes); `CodeShape` (while a definition is being read the code
  ends in `inimem2` and contains only what `readterm` and `definition` do, and
  otherwise no `inimem2` occurs); `BusyInv` (while a definition is read
  nothing is collected and every reference is to an allocated node: this is
  what makes the new definition closed when `inimem2` adopts it);
  `ProgEmpty`; and `GcInv` (the new memory refers only to itself, forwarding
  addresses lie in it, and no activation of `copy` links or fills a node below
  `mem_low`).

Two more theorems of `NodeHeap_proofs` assume besides `DefinitionsOnly`: no
variables and no embedded definitions (`VarSyms` and `EmbedSyms` are empty). The
assumption is necessary: variables out of order and embedded definitions do
dangle.

* `ReferencesLive`: `Spec => []RefsLive`, and `BodiesKept`:
  `Spec => []BodiesAreDefinitions`. The inductive invariant `RInv` adds to
  `DInv`: `CodePlain` (a command at the top level never sets a body);
  `BodiesLow` (a body lies below `mem_low` unless its definition is being
  read); `RootsMoved` (the roots before `slot` have been moved, and only the
  eleven fixed roots are ever copied); and `HeapLive`, the goal for the times
  at which nothing is collected. The argument is that `copy` leaves a new
  memory that refers only to itself (`GcInv`), and that `gc1` has visited
  every root when `gc2` makes it the memory.

`HeapRefinement_proofs` assumes `HeapAssumption` and, as hypothesis of its
theorems, `Separate`: there are no embedded definitions, and there are either no
variables or one variable and no definitions. Each part is needed: with two
variables the one in front of the first assigned is lost, a definition
resets the memory that the body of a variable lies in, and an embedded
definition is freed. The runs `heap_definitions` and `heap_values` are
the two instances.

* `ValuesImplemented`: `HSpec => ImplementsValueStack`. The steps of the
  argument:
  1. `DenoteRight`: on a memory whose nodes in `D` have values `V` such that each
     node's value follows from those of the nodes it refers to, which have
     smaller `rank` (`Sound`), `Denote` is `V`. This is an induction over the
     rank; that the recursive function exists at all is one over its argument.
  2. What is left of a command, its `code`, leads from the values of the
     registers to a certain final state, whatever is collected meanwhile:
     `Arrives(code, Registers, g)`, a recursion over the instructions with
     the `Effect` of each on values. `Simulates(g)` says that some `D`, `V`
     and `rank` describe the memory and that the code arrives at `g`. Every
     step of the machine keeps it, for the same `g` (`StepSimulates`): an
     allocation extends `V` by the new node; a collection changes the
     indices and no values.
  3. The latter rests on `Sim`, the invariant of the collector: a node that
     was moved is like the one it was, with its references moved or still
     waiting in an activation of `copy`; forwarding is injective; the
     activations that wait have falling ranks, so that none waits for
     itself. At `gc2` nothing waits and every root has been moved, and the
     values of the new nodes are those of the nodes they were.
  4. The dispatch of a command puts code in place that arrives at the
     documented outcome (`CommandRight`, with a lemma for each builtin that
     executes its program on values). So `shown`, which changes when a
     command has ended, makes a step of `ValueStack`.
* `VariablesMoved`: `Spec => []VariablesCollected`, from the same invariant: the
  variable's body is one of the roots that `Sim` has seen moved.
* `CapacityKept`: `Spec => []WithinCapacity`, if besides there are no strings
  (`StrLens = {}`; with strings it is false, see section 3). The inductive
  invariant `Fits` counts what a collection has moved: the old nodes that are
  forwarded, and those at which an activation of `copy` waits (`Moves`), are
  as many as the places taken above `mem_low`. `CopyMoves` shows that a node
  is taken once, which needs the falling ranks of `Sim`: otherwise a list
  could wait for itself and be copied again. They all lie in `D`, the part of
  the old memory in use, so that the new one is no fuller (`FitsWithin`); and
  `gc2`, whichever way it changes the capacity, leaves the place that `newnode`
  takes without looking again (`ResizedFits`). `NoStrings`, that no string is
  ever asked for or built, makes each move cost one place (`CopyPlain`).

`Interpreter_proofs` assumes `InterpreterAssumption` and, as hypothesis of its
theorems, `Programs`: what may be typed and what the prelude defines are
sequences of brackets, literals, names of the table and builtins of `Unlinking`. These
are all of the module but nine: `filter` and `map`, which append to a list in
place; `unary2` to `unary4`, `app12` and `cleave`, which put the stack they leave
under a copy of their results; `construct`, which does both; and `while`,
which exchanges the stack for a list that it saved. The brackets need not be balanced, a
program may end with an error anywhere, and definitions may be recursive.

* `ReferencesAlive`: `Spec => []RefsLive`, of programs, preludes and quotations
  of any length. `IInv` consists of `Typed`; `Registered`, the memory; and
  `Mode`, what the C stack has to do with it.
  1. The memory is sound (`Sound`): a node refers to nodes, a node of a
     definition to nodes of definitions, node 0 to itself. The lists that lie
     on `dump1` and `dump3` belong to no definition (`Saved`). This is
     needed because `POP(DMP1)` and `POP(DMP3)` change such a list in place:
     without it they could make a definition refer to a node that a
     collection drops, as `while` does.
  2. The builtins are written in an instruction set of two layers
     (`Instructions`), whose operands are paths from the registers
     (`Operands`); `AtLive` shows by induction over the path that it ends at
     a node, where nothing dangles. Each of the 47 builtins, and each function
     that `recursion.c` puts into a quotation, is such a program
     (`BuiltinCodes` and the lemmas before it), so that
     it suffices to look at the instructions one by one: every step of
     every builtin keeps `StoreOK`, whatever the values on the stack. No
     balance of the dumps is needed: a `POP` of an empty one finds node 0, which
     is followed by itself and whose value nothing looks at.
  3. While a term is read (`ReadState`) the stack register is not a
     stack: the open terms lie on it, the innermost first, and in front of them a
     factor that was read and not yet attached. `readterm` links
     in place: `attach` stores into the open term when the factor is its first and
     behind the last factor otherwise, and the end of a term relinks
     it. `Shape` describes the open terms, the last factor of each on
     `dump`, and the set `B` of nodes that a factor never is, since it
     would be relinked; `Layered` ties them to the activations of
     `readterm` on the C stack and to their local variables.
  4. A collection keeps what a register reaches. That `ReachedFrom` ends
     with a closed set is shown by induction over how much of the memory is missing
     (`ReachedClosed`); that the recursive functions `ReachedFrom` and
     `At` exist, by `GrowExists` and `WalkExists`.
* `CommandsLeaveNothing`: `Spec => []DumpsEmpty`, and `ContsInStep`:
  `Spec => []ContsMatch`. The invariant is `IInv` with `Even` and `Lin(memory)`:
  1. `Lin`: from every node the links end at node 0 after finitely many. So the
     length of a list is defined (`Long`) and a push or a `POP` changes it by
     one. The reader relinks nodes in place, but only the last factor of an open
     term, and a collection keeps the links of what it copies.
  2. A builtin is a program with branches, loops and calls of itself. What it
     has on a dump `d` between two instructions is a height, and `Rules(d)` is
     the largest set of triples (instruction, height before, height after) in
     which the two branches of an `if` agree and the body of a loop comes back
     to the height it began with (`Obeys`). A point below 0 stands for a
     height that stays the same to the end of the loop's body, so that a `break`
     there leaves the loop at the height at which the body ends. That there is a largest such set is what makes
     codes that contain themselves tractable: a triple belongs to it as soon as
     some consistent set has it (`RulesObey`). `Flow` joins the triples along a
     sequence of instructions.
  3. Each of the 47 builtins, and each function that `recursion.c` puts into a
     quotation, flows from 0 to 0 on every dump (the lemmas that `BuiltinFlows`
     collects). This is a statement about the text of the C functions: whatever
     it saves on a dump (`SAVESTACK` and the like) is popped on every way through.
  4. `Even`: while a command is executed, the length of each dump is what the
     activations on the C stack still owe (`Sums`, `Owes`: the height from which
     the rest of their code flows to 0), and that of `conts` is the number of
     activations of `exec_term` (`Calls`); between commands both are empty,
     except that the reader keeps its open terms on `dump`. So the
     property at the end of a command follows from one about every step; an
     error ends the claim for the dumps until the next definition clears them,
     and a bad node that is executed ends it for `conts`.
  The claim is for both front ends in the first theorem and, as `ContsMatch`
  says, for `repl` in the second.

`Induction` has what the arguments over ranks and lengths use: the smallest
element of a set of numbers, from the library's facts about finite sets, and
induction stated for a set of numbers instead of a predicate.

`Parallel_proofs` assumes `RequestsAssumption` (the calls have the shape that
the stack checks at the beginning of the functions ensure) and nothing about
`Exec`, the team or the number of members.

* `CursorsInRange`: `Spec => []TypeOK`. The types alone are not inductive, as
  the cursors of one loop are read by the next: `CursorInv` relates `pos`, `next`
  and the lengths of the arrays of tasks, results and values to `pc` and the
  combinator (there is a pair of values wherever a level of `preduce`
  begins, the results below `pos` have been collected, a task array has the
  length of its level), and `TeamInv` gives the workers' tasks.
* `TasksExclusive`, `ParentStandsStill`, `NoCloneLeft`. The invariants:
  `TeamInv` says that a worker's task lies below `next`, that no two workers
  have the same one, and that only in the parallel region is a worker busy;
  `CloneInv` says for each `pc` which clones are allocated (while they are
  made those before `pos`, in the region all, after a way out none). The end
  of the process, which stops every worker, is the exception each of them names.
* `MapCorrect`: `Spec => []MapAsPromised`, for quotations that look at the
  member only (`LooksAtMembers`), as the clones have nothing else, and that
  find their symbols (`Resolves`). `CallInv` says for such a call: the inputs
  are current until the results are collected; each task is untouched, holds a
  copy of its member, or what the quotation makes of it (`TaskRight`); every
  task below `next` is finished or some worker has it, so that all are
  finished when the region ends; while results are collected `built` holds
  those of the tasks after `pos`, and in the sequential code those of the
  members before it. The first error is that of the first bad member because
  every task was executed by then; the sequential code stops at the same one.
* `OutcomeCorrect`: `Spec => []OutcomeAsPromised`. The property speaks of the
  requests that are `Proper`, which says what a caller has to see to, as the
  points on Parallel in section 3 show: the quotations find their symbols; only
  during a `pmap` does the parent collect; the quotation of `pmap` or `pfilter`
  looks at the member only; `pfilter` and `preduce` get no strings or big
  numbers; both codes of `pfilter` agree on the results of the test; the operator
  of `preduce` maps two values of `Operands` to one or fails, and is associative,
  as the levels group the members in pairs. It need not be commutative:
  the parallel code combines the members in the `swapped` order and the
  sequential code in the given one, and the property asks for one of the two.
  TLC checks that the calls of `parallel` of which an outcome is promised are
  `Proper` (`ProperCalls`).
  `SteadyInv` gives what `pfilter`, `preduce` and `pfork` have in common: the
  inputs are current, a finished task holds what its quotation makes of them.
  `FilterInv`: the members that pass among the first `pos` and those already
  built are together all that pass. `ForkInv`: the copies made so far are the
  tops of the two stacks. `ReduceInv`: the values of a level, combined from the
  left in the swapped order, give what the list gives so; `HalfFolded` shows by induction on the
  position that combining neighbours keeps this, and `PairFails` that a pair
  which cannot be combined makes the fold fail, so that a failed task is an
  error of the sequential code too. The recursive definitions are functions,
  whose existence for every length is proved first (`FoldExists`, `PassExists`).

`Session_proofs` assumes the module's assumptions: `Absent` is no body, `NoFile`
no file, names are numbers.

* `TypeCorrect`, `RowsAreKept`, `SnapshotsAreKept`, for any number of
  processes, operations, failures and crashes: action by action, from the type
  invariant.
* `SnapshotsAreExact`, `MergeIsComplete`, `MemoryAgreesAlways`. A process that
  is between two statements must not have been disturbed since the first: the
  inductive invariant (`Undisturbed`, with `AgreesSoFar` and `OnCourse`) says for each
  step of an operation of a process that is `quiet` what the statements before
  have done: no rows of the snapshot are left, or no rows of the table, or no conflicts with the source,
  or the rows of the source are in the table. A statement of another process
  ends `quiet`, so that only the process's own steps have to be looked at.

`Scopes_proofs` assumes the module's assumptions about names, tokens and
`DISPLAYMAX`.

* `TypeCorrect`: whatever symbols are read, right or wrong, the display stays
  within its bounds and bodies refer to entries that exist. The strengthening `IInv`
  says that each open module has a name, also those that were open before the
  first pass (`DisplayOK`, `PassOK`), that a name has been read where
  `definition` needs one (`FramesOK`), and that bodies are made of entries that
  exist (`TableOK`).
* `EntriesAreKept`: `Spec => EntriesStay`, of all programs, from the same
  invariant. An entry is only made for a name that the hash table does not
  have; the exception is a name that is looked up in one place (`qualify` searches the section)
  and entered in another, which `PrivateAround` describes.

`Bindings_proofs` assumes that values are closed under matching and that
lists of names have names of the table (`ValuesClosed`, `NamesGiven`).

* `BindingsAreInnermost`: `Spec => []InnermostBinding`, of programs that do not
  assign. A frame that is "undefined" claims nothing, and no step follows it.
  The inductive invariant `IInv`: the types; `FramesOK`, which says for each frame how far its
  combinator has come (`Progress`: `let` has saved exactly the positions after
  `at` and bound only their names, while `match` saves all entries before it
  binds the first) and that only the innermost is not executing its body, and
  (`Keeps`) that the last position of each name in it has saved the entry that
  the name denoted outside the frame; and `TableOK`: the symbol table holds of
  each name the entry that the frames make it denote, and while a frame is being
  restored does so, for the frame below, of the names whose positions have been
  passed. The last position matters because it is the one restored last.

What is model-checked only, and why:

* Liveness (`Terminates`, `CallEnds`): the provers have no rules for fairness.
* `ResultsCorrect`, `ErrorsExpected` and the structural properties of `Scopes`
  (`BindsLexically`, `DisplayClosed`, `FoundInSecondRead`): their reference
  definitions are RECURSIVE operators over programs, which a module with proofs
  cannot use.
* `AggregatesUniform`, `LinearAlgebraRight`, `DictionariesAreValues`: their
  definitions are folds and sums over permutations, and the library states
  nothing about folds without an operator parameter.
* `RefsLive`, `DumpsEmpty` and `ContsMatch` of `Interpreter` for programs with
  the nine builtins that relink nodes: which nodes they write, and so whether a
  dump is still the list it was, depends on what the quotation left on the stack.
* `ValuesOnly` and `TypeOK` of `Interpreter`. They need of each builtin that an
  operand still has the type tested some instructions, or a nested program,
  before; and `ValuesOnly` does not hold of all programs (`cleave` of too many
  `pop`).
* `DefinitionsIntact`: its statement compares what is parsed with what is
  denoted, both of them recursive.
* `WithinCapacity` with strings: it does not hold of strings of more than two
  nodes (section 3), so that `heap_values` states it of short ones, and the
  theorem `CapacityKept` excludes them. In the model a node beyond the
  capacity is a node like any other, as the memory has `MaxIndex` places;
  of the C program, where it is one outside the array, the other theorems
  about `NodeHeap` speak as long as `WithinCapacity` holds.

## 5. Not modelled

* The conservative collector (`gc.c`). The NOBDW build, for which the modules
  stand, has it too (`CMakeLists.txt:58`), beside the copying collector of
  `utils.c`: for dictionaries and for strings on their way to or from a node. It
  looks for references in the C stack and the registers of the machine, so that
  what it keeps depends on the compiler.
* The scanning of characters, include files, the pushback buffer and the echo
  of the input (`scan.c`), formatting and parsing of numbers, terms and JSON
  (`write.c`, `tostring.c`, `json.c`), terminal handling and the line editor:
  they change text to values and back and touch no state of the other parts.
* `vnorm`, `vnormalize`, rounding, and the functions of `math.c` and
  `arithmetic.c` that are one call of the C library.
* `assign` inside `let`, `match` and `cases`, and collections in the middle of a
  match.
* `case`, `opcase`, and the cases of combinators for sets, strings and
  dictionaries; CONST sections; the COMPILER and BYTECODE builds.
* Contexts, `joy_push_*` and the other accessors of the embedding interface;
  the command line; system calls.
* Vendored code (the hash tables, SQLite, tree-sitter, linenoise, the regular
  expressions of `ext/`), generated parsers and the libraries written in Joy.
  These are about two thirds of the lines in the repository.

A further step would be a module for the include stack with the pushback
buffer of `joy_eval_string`, the proof that a program without nesting binds
lexically, and the embedding interface over several contexts.
