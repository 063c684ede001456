------------------------------ MODULE Parallel ------------------------------
(***************************************************************************)
(* The parallel combinators pmap, pfilter, preduce and pfork               *)
(* (src/builtin/parallel.c, include/parallel.h), in a build with           *)
(* JOY_PARALLEL and NOBDW.                                                 *)
(*                                                                         *)
(* A combinator clones the environment once per task, a team of workers    *)
(* executes the tasks in the clones, and the parent copies the results     *)
(* back, one after the other.  Every copy allocates nodes of the parent    *)
(* and may start a collection, which moves them: an index that the C code  *)
(* keeps in a local variable is current until then, and an index kept in a *)
(* dump or on the stack is always current.  When malloc fails, or the list *)
(* is short, the combinator executes the tasks itself, in order; when a    *)
(* clone cannot have its memory the process exits.                         *)
(*                                                                         *)
(* The bytes of a string or of a big number are in its node.  Copying such *)
(* a node byte by byte is right, but in three places its union is read as  *)
(* the pointer that it is in the other build.                              *)
(*                                                                         *)
(* What one quotation does to a stack is a parameter: Exec.                *)
(***************************************************************************)
EXTENDS Integers, Sequences, FiniteSets

CONSTANTS
  Workers,        \* the threads of the team
  Members,        \* the values
  Quots,          \* the quotations
  Requests,       \* the calls of a combinator: see Calls
  Exec(_, _),     \* the stack that a quotation makes of a stack, or Failed
  Failed,         \* the quotation ends in execerror
  Defined,        \* the quotations that execute a user defined symbol
  TypeOf(_),      \* the op of the value's node
  Zero(_),        \* nodevalue(value).num is 0
  NegativeZero,   \* the FLOAT_ whose bits are not 0 although it equals 0.0
  Garbage         \* what is read through an index that is not current, or
                  \* through the bytes of a string

(* A call has the combinator's name, the members of the list or, for pfork, *)
(* the stack from X down, the quotations, the stack below the parameters,   *)
(* whether it is executed inside a task of another call (depth 1), and how  *)
(* often the parent may run out of memory while it lasts.                   *)
Calls ==
  [name  : {"pmap", "pfilter", "preduce", "pfork"},
   list  : Seq(Members),
   quots : Seq(Quots),
   below : Seq(Members),
   depth : {0, 1},
   gcs   : Nat]

ASSUME RequestsAssumption ==
  /\ Requests \subseteq Calls
  /\ \A c \in Requests : Len(c.quots) = IF c.name = "pfork" THEN 2 ELSE 1
  /\ Garbage \notin Members
  /\ Garbage \notin Quots

VARIABLES
  call,        \* the call: a member of Requests
  pc,          \* where the parent is
  values,      \* C locals: the indices of the inputs (inputs, values)
  quotation,   \* C locals: the indices of the quotations
  child,       \* the cloned environments
  task,        \* struct ParallelTask, and the stack of the clone
  next,        \* the next task that no worker took
  worker,      \* the task each worker executes, or 0
  collections, \* collections of the parent so far
  results,     \* C locals: the indices of the results (r1, r2, new_values)
  built,       \* the list or stack under construction, rooted
  pos,         \* loop counter of the parent
  outcome      \* what the call left behind

team  == <<task, next, worker>>
heap  == <<collections, results, built>>
param == <<call, values, quotation>>
vars  == <<param, pc, child, team, heap, pos, outcome>>

-----------------------------------------------------------------------------
N       == Len(call.list)
Top(s)  == IF s = <<>> THEN Garbage ELSE Head(s)

Inline(v) == v # Garbage /\ TypeOf(v) \in {"STRING_", "BIGNUM_"}

(* newnode with the op and the union of a node takes the bytes of a string *)
(* for the address of one.                                                 *)
Renewed(v) == IF Inline(v) THEN Garbage ELSE v

Ref(v, at) == [val |-> v, at |-> at]
Read(r, at) == IF r.at = at THEN r.val ELSE Garbage
Deref(r)   == Read(r, collections)

(* The parent allocates, and may have to collect first. *)
Allocate(gc) ==
  /\ collections + gc <= call.gcs
  /\ collections' = collections + gc

AllocateIf(needed, gc) ==
  /\ needed \/ gc = 0
  /\ Allocate(gc)

Quot(i) == IF call.name = "pfork" THEN quotation[i] ELSE quotation[1]

TaskCount ==
  CASE call.name = "pfork"   -> 2
    [] call.name = "preduce" -> Len(values) \div 2
    [] OTHER                 -> Len(values)

(* The indices from which the stack of a clone is made, the top first. *)
Inputs(i) ==
  CASE call.name = "pfork"   -> values
    [] call.name = "preduce" -> <<values[2 * i - 1], values[2 * i]>>
    [] OTHER                 -> <<values[i]>>

(* Symbols are looked up in the memory of the environment that started the *)
(* task, where their bodies are if that environment is not a clone itself. *)
Resolves(q) == call.depth = 0 \/ q \notin Defined

Execute(q, s) ==
  IF q = Garbage \/ ~Resolves(q) THEN <<Garbage>>
  ELSE IF \E k \in DOMAIN s : s[k] = Garbage THEN <<Garbage>>
  ELSE Exec(q, s)

NoTask == [state |-> "ready", stck |-> <<>>, failed |-> FALSE]

-----------------------------------------------------------------------------
Init ==
  /\ call \in Requests
  /\ pc = "enter"
  /\ values = [i \in 1 .. N |-> Ref(call.list[i], 0)]
  /\ quotation = [i \in 1 .. Len(call.quots) |-> Ref(call.quots[i], 0)]
  /\ child = <<>> /\ task = <<>>
  /\ next = 1
  /\ worker = [w \in Workers |-> 0]
  /\ collections = 0
  /\ results = <<>> /\ built = <<>>
  /\ pos = 0
  /\ outcome = [kind |-> "none"]

Return(s) ==
  /\ outcome' = [kind |-> "value", stack |-> s]
  /\ pc' = "done"

Raise(i) ==
  /\ outcome' = [kind |-> "error", task |-> i]
  /\ pc' = "done"

(* The process ends, and every thread with it. *)
Exit ==
  /\ pc' = "exit"
  /\ worker' = [w \in Workers |-> 0]
  /\ UNCHANGED <<param, child, task, next, heap, pos, outcome>>

(* Empty lists, lists of one member and short lists. *)
Enter ==
  /\ pc = "enter"
  /\ \/ /\ call.name \in {"pmap", "pfilter"} /\ N = 0
        /\ Return(<<>>)
     \/ /\ call.name = "preduce" /\ N = 0
        /\ Raise(0)
     \/ /\ call.name = "preduce" /\ N = 1
        /\ Return(<<Deref(values[1])>>)
     \/ /\ call.name # "pfork"
        /\ N < 4 /\ N > IF call.name = "preduce" THEN 1 ELSE 0
        /\ pc' = "fall back"
        /\ UNCHANGED outcome
     \/ /\ call.name = "pfork" \/ N >= 4
        /\ pc' = "prepare"
        /\ UNCHANGED outcome
  /\ UNCHANGED <<param, child, team, heap, pos>>

(* The task array of a level is allocated, or malloc fails. *)
Prepare ==
  /\ pc = "prepare"
  /\ call.name # "preduce" \/ Len(values) > 1
  /\ \/ /\ pc' = "clone"
        /\ task'  = [i \in 1 .. TaskCount |-> NoTask]
        /\ child' = [i \in 1 .. TaskCount |-> "absent"]
     \/ /\ call.name # "pfork"
        /\ pc' = "fall back"
        /\ UNCHANGED <<task, child>>
  /\ next' = 1
  /\ pos' = 1
  /\ UNCHANGED <<param, worker, heap, outcome>>

Release == [i \in DOMAIN child |-> IF child[i] = "live" THEN "freed" ELSE child[i]]

(* env_clone_for_parallel. *)
Clone ==
  /\ pc = "clone"
  /\ child' = [child EXCEPT ![pos] = "live"]
  /\ pos' = pos + 1
  /\ pc' = IF pos = TaskCount THEN "run" ELSE "clone"
  /\ UNCHANGED <<param, team, heap, outcome>>

(* inimem1 calls fatal when calloc fails: the test of child_env.memory that *)
(* follows it never finds a null pointer.                                   *)
CloneFails == pc = "clone" /\ Exit

-----------------------------------------------------------------------------
(* The parallel region. *)

TakePastEnd(w) ==
  /\ pc = "run"
  /\ worker[w] = 0
  /\ next <= TaskCount + 1
  /\ worker' = [worker EXCEPT ![w] = next]
  /\ next' = next + 1
  /\ UNCHANGED <<param, pc, child, task, heap, pos, outcome>>

TakeShared(w) ==
  /\ pc = "run"
  /\ worker[w] = 0
  /\ next <= TaskCount
  /\ worker' = [worker EXCEPT ![w] = next]
  /\ next' \in {next, next + 1}
  /\ UNCHANGED <<param, pc, child, task, heap, pos, outcome>>

(* schedule(dynamic): an idle worker takes the next task. *)
Take(w) ==
  /\ pc = "run"
  /\ worker[w] = 0
  /\ next <= TaskCount
  /\ worker' = [worker EXCEPT ![w] = next]
  /\ next' = next + 1
  /\ UNCHANGED <<param, pc, child, task, heap, pos, outcome>>

(* The input is copied from the parent's memory to the clone's: its node   *)
(* and, but for preduce, the bytes that lie in it.                         *)
CopyOf(v) == IF call.name = "preduce" THEN Renewed(v) ELSE v

CopyIn(w) == LET i == worker[w] IN
  /\ i # 0
  /\ task[i].state = "ready"
  /\ task' = [task EXCEPT
       ![i].state = "copied",
       ![i].stck = [k \in DOMAIN Inputs(i) |-> CopyOf(Deref(Inputs(i)[k]))]]
  /\ UNCHANGED <<param, pc, child, next, worker, heap, pos, outcome>>

(* There may be nothing at that address. *)
CopyInDies(w) == LET i == worker[w] IN
  /\ i # 0
  /\ task[i].state = "ready"
  /\ \E k \in DOMAIN Inputs(i) : CopyOf(Deref(Inputs(i)[k])) # Deref(Inputs(i)[k])
  /\ Exit

RunJumpsOut(w) == LET i == worker[w]
                      s == Execute(Deref(Quot(i)), task[i].stck) IN
  /\ i # 0
  /\ task[i].state = "copied"
  /\ task' = [task EXCEPT ![i] =
       [state  |-> "finished",
        stck   |-> IF s = Failed THEN <<>> ELSE s,
        failed |-> s = Failed]]
  /\ worker' = IF s = Failed THEN worker ELSE [worker EXCEPT ![w] = 0]
  /\ UNCHANGED <<param, pc, child, next, heap, pos, outcome>>

(* exec_term in the clone, or the jump to the clone's error_jmp. *)
Run(w) == LET i == worker[w]
              s == Execute(Deref(Quot(i)), task[i].stck) IN
  /\ i # 0
  /\ task[i].state = "copied"
  /\ task' = [task EXCEPT ![i] =
       [state  |-> "finished",
        stck   |-> IF s = Failed THEN <<>> ELSE s,
        failed |-> s = Failed]]
  /\ worker' = [worker EXCEPT ![w] = 0]
  /\ UNCHANGED <<param, pc, child, next, heap, pos, outcome>>

RegionEndsNoWait == next > TaskCount

RegionEnds == next > TaskCount /\ \A w \in Workers : worker[w] = 0

FailedTasks == {i \in DOMAIN task : task[i].failed}
First(S)    == CHOOSE i \in S : \A j \in S : i <= j

JoinErrorLeaking ==
  /\ pc = "run" /\ RegionEnds
  /\ FailedTasks # {}
  /\ Raise(First(FailedTasks))
  /\ UNCHANGED <<param, child, team, heap, pos>>

(* After the region: the first error, by position, is the call's. *)
JoinError ==
  /\ pc = "run" /\ RegionEnds
  /\ FailedTasks # {}
  /\ child' = Release
  /\ Raise(First(FailedTasks))
  /\ UNCHANGED <<param, team, heap, pos>>

Join ==
  /\ pc = "run" /\ RegionEnds
  /\ FailedTasks = {}
  /\ pc' = "collect"
  /\ pos' = IF call.name \in {"pmap", "pfilter"} THEN TaskCount ELSE 1
  /\ results' = <<>>
  /\ built' = <<>>
  /\ UNCHANGED <<param, child, team, collections, outcome>>

(* malloc fails for new_values. *)
JoinFails ==
  /\ pc = "run" /\ RegionEnds
  /\ FailedTasks = {}
  /\ call.name = "preduce"
  /\ child' = Release
  /\ pc' = "fall back"
  /\ UNCHANGED <<param, team, heap, pos, outcome>>

-----------------------------------------------------------------------------
(* The parent collects the results from the clones that still exist. *)

Stck(i) == IF child[i] = "live" THEN task[i].stck ELSE <<Garbage>>

CollectMapReversed(gc) ==
  /\ pc = "collect" /\ call.name = "pmap"
  /\ pos >= 1
  /\ AllocateIf(Stck(pos) # <<>> \/ pos = TaskCount, gc)
  /\ built' = IF Stck(pos) = <<>> THEN built ELSE built \o <<Head(Stck(pos))>>
  /\ pos' = pos - 1
  /\ UNCHANGED <<param, pc, child, team, results, outcome>>

(* The results are copied from the last to the first.  A task whose stack  *)
(* is empty adds nothing.                                                  *)
CollectMap(gc) ==
  /\ pc = "collect" /\ call.name = "pmap"
  /\ pos >= 1
  /\ AllocateIf(Stck(pos) # <<>> \/ pos = TaskCount, gc)
  /\ built' = IF Stck(pos) = <<>> THEN built ELSE <<Head(Stck(pos))>> \o built
  /\ pos' = pos - 1
  /\ UNCHANGED <<param, pc, child, team, results, outcome>>

(* The test of a result by its type; the bytes of a string are taken for a *)
(* pointer to it, so that either answer may come of them, or a fault.      *)
Truths(v) ==
  IF v = Garbage THEN BOOLEAN
  ELSE CASE TypeOf(v) \in {"BOOLEAN_", "CHAR_", "INTEGER_", "LIST_"} -> {~Zero(v)}
         [] TypeOf(v) = "FLOAT_"  -> {~Zero(v) /\ v # NegativeZero}
         [] TypeOf(v) = "STRING_" -> BOOLEAN
         [] OTHER                 -> {TRUE}

Keeps(i) == IF Stck(i) = <<>> THEN {FALSE} ELSE Truths(Head(Stck(i)))

CollectFilterResults(gc) ==
  /\ pc = "collect" /\ call.name = "pfilter"
  /\ pos >= 1
  /\ \E keep \in Keeps(pos) :
       /\ AllocateIf(keep \/ pos = TaskCount, gc)
       /\ built' = IF keep THEN <<Head(Stck(pos))>> \o built ELSE built
  /\ pos' = pos - 1
  /\ UNCHANGED <<param, pc, child, team, results, outcome>>

(* The members that are kept are read from the parent's list, after a copy *)
(* that is not used, and go through newnode.                               *)
CollectFilter(gc) ==
  /\ pc = "collect" /\ call.name = "pfilter"
  /\ pos >= 1
  /\ \E keep \in Keeps(pos) :
       /\ AllocateIf(keep \/ pos = TaskCount, gc)
       /\ built' = IF keep THEN <<Renewed(Read(values[pos], collections'))>> \o built
                   ELSE built
  /\ pos' = pos - 1
  /\ UNCHANGED <<param, pc, child, team, results, outcome>>

CollectFilterDies ==
  /\ pc = "collect" /\ call.name = "pfilter"
  /\ pos >= 1
  /\ \/ Stck(pos) # <<>> /\ Inline(Head(Stck(pos))) /\ TypeOf(Head(Stck(pos))) = "STRING_"
     \/ TRUE \in Keeps(pos) /\ Inline(Deref(values[pos]))
  /\ Exit

(* The copies are kept in C locals. *)
CollectLocal(gc) ==
  /\ pc = "collect" /\ call.name \in {"pfork", "preduce"}
  /\ pos <= TaskCount
  /\ Allocate(gc)
  /\ results' = Append(results, Ref(Top(Stck(pos)), collections'))
  /\ pos' = pos + 1
  /\ UNCHANGED <<param, pc, child, team, built, outcome>>

(* The clones are destroyed. *)
EndMap ==
  /\ pc = "collect" /\ call.name \in {"pmap", "pfilter"}
  /\ pos = 0
  /\ child' = Release
  /\ Return(built)
  /\ UNCHANGED <<param, team, heap, pos>>

EndFork ==
  /\ pc = "collect" /\ call.name = "pfork"
  /\ pos > TaskCount
  /\ child' = Release
  /\ pc' = "push"
  /\ pos' = 1
  /\ UNCHANGED <<param, team, heap, outcome>>

EndLevel ==
  /\ pc = "collect" /\ call.name = "preduce"
  /\ pos > TaskCount
  /\ child' = Release
  /\ values' = results \o
       IF Len(values) % 2 = 1 THEN <<values[Len(values)]>> ELSE <<>>
  /\ pc' = "prepare"
  /\ UNCHANGED <<call, quotation, team, heap, pos, outcome>>

(* r1 and r2 are pushed: each is read, then a node is allocated for it. *)
PushFork(gc) ==
  /\ pc = "push"
  /\ Allocate(gc)
  /\ LET s == <<Deref(results[pos])>> \o built IN
     /\ built' = s
     /\ IF pos = 2 THEN Return(s) ELSE UNCHANGED <<pc, outcome>>
  /\ pos' = pos + 1
  /\ UNCHANGED <<param, child, team, results>>

EndReduce ==
  /\ pc = "prepare" /\ call.name = "preduce"
  /\ Len(values) = 1
  /\ Return(<<Deref(values[1])>>)
  /\ UNCHANGED <<param, child, team, heap, pos>>

-----------------------------------------------------------------------------
(* The sequential code of pmap, pfilter and preduce: the parent executes   *)
(* the quotation itself, on its own stack, and keeps what it needs in the  *)
(* dumps.                                                                  *)
FallBack ==
  /\ pc = "fall back"
  /\ pc' = "sequential"
  /\ built' = IF call.name = "preduce" THEN <<call.list[1]>> \o call.below ELSE <<>>
  /\ pos' = IF call.name = "preduce" THEN 2 ELSE 1
  /\ UNCHANGED <<param, child, team, collections, results, outcome>>

SequentialStack ==
  <<call.list[pos]>> \o IF call.name = "preduce" THEN built ELSE call.below

SequentialStep ==
  /\ pc = "sequential"
  /\ pos <= N
  /\ LET s == Exec(call.quots[1], SequentialStack) IN
     IF s = Failed \/ s = <<>>
     THEN /\ Raise(pos)
          /\ UNCHANGED <<pos, built>>
     ELSE /\ built' = CASE call.name = "pmap"    -> Append(built, Head(s))
                        [] call.name = "pfilter" ->
                             IF Zero(Head(s)) THEN built
                             ELSE Append(built, call.list[pos])
                        [] call.name = "preduce" -> s
          /\ pos' = pos + 1
          /\ UNCHANGED <<pc, outcome>>
  /\ UNCHANGED <<param, child, team, collections, results>>

EndSequential ==
  /\ pc = "sequential"
  /\ pos > N
  /\ Return(IF call.name = "preduce" THEN <<Head(built)>> ELSE built)
  /\ UNCHANGED <<param, child, team, heap, pos>>

-----------------------------------------------------------------------------
WorkerStep(w) == Take(w) \/ CopyIn(w) \/ Run(w)

Collect ==
  \/ \E gc \in {0, 1} : CollectMap(gc) \/ CollectFilter(gc) \/ CollectLocal(gc) \/ PushFork(gc)
  \/ EndMap \/ EndFork \/ EndLevel \/ EndReduce

ParentStep ==
  \/ Enter \/ Prepare \/ Clone \/ JoinError \/ Join \/ JoinFails
  \/ Collect
  \/ FallBack \/ SequentialStep \/ EndSequential

Dies == CloneFails \/ CollectFilterDies \/ \E w \in Workers : CopyInDies(w)

Next == ParentStep \/ Dies \/ \E w \in Workers : WorkerStep(w)

Spec == Init /\ [][Next]_vars

(* The team is scheduled by the operating system, the parent is a thread. *)
FairSpec == Spec /\ WF_vars(ParentStep) /\ \A w \in Workers : WF_vars(WorkerStep(w))
=============================================================================
