--------------------------- MODULE ParallelCheck ---------------------------
(***************************************************************************)
(* What the parallel combinators promise, to the calls that are Proper:    *)
(* the outcome does not show how the tasks were scheduled, nor which malloc *)
(* failed, nor, but for the order of the operands of preduce, that they    *)
(* were parallel.                                                          *)
(***************************************************************************)
EXTENDS Parallel

CONSTANTS
  Operands(_)   \* the values that the operator of a reduction is an operator on

(* The clones are accounted for, the cursors stay in range.                *)
TypeOK ==
  /\ pc \in {"enter", "prepare", "clone", "run", "collect", "push",
             "fall back", "sequential", "done", "exit"}
  /\ worker \in [Workers -> 0 .. Len(task)]
  /\ next \in 1 .. Len(task) + 1
  /\ DOMAIN child = DOMAIN task
  /\ \A i \in DOMAIN task :
       /\ child[i] \in {"absent", "live", "freed"}
       /\ task[i].state \in {"ready", "copied", "finished"}
       /\ task[i].failed \in BOOLEAN
  /\ collections \in 0 .. call.gcs
  /\ pos \in 0 .. Len(call.list) + 3
  /\ outcome.kind \in {"none", "value", "error"}

-----------------------------------------------------------------------------
(* The definition of each combinator over the list.                        *)

Value(s) == [kind |-> "value", stack |-> s]
Error(i) == [kind |-> "error", task |-> i]

OnMember(x) == Exec(call.quots[1], <<x>> \o call.below)
BadMembers  == {i \in 1 .. N : OnMember(call.list[i]) \in {Failed, <<>>}}

MapOutcome ==
  IF BadMembers # {} THEN Error(First(BadMembers))
  ELSE Value([i \in 1 .. N |-> Head(OnMember(call.list[i]))])

(* The members among the first k that pass the test. *)
Passed ==
  LET f[k \in 0 .. N] ==
        IF k = 0 THEN <<>>
        ELSE IF Zero(Head(OnMember(call.list[k]))) THEN f[k - 1]
        ELSE Append(f[k - 1], call.list[k])
  IN  f

FilterOutcome ==
  IF BadMembers # {} THEN Error(First(BadMembers))
  ELSE Value(Passed[N])

(* The operator of a reduction, and the members combined from the left. *)
Combine(q, a, b) ==
  IF Failed \in {a, b} THEN Failed
  ELSE LET s == Exec(q, <<b, a>>) IN
       IF s \in {Failed, <<>>} THEN Failed ELSE Head(s)

(* The parallel code has the two operands the other way round.             *)
Joined(order, q, a, b) == IF order = "swapped" THEN Combine(q, b, a) ELSE Combine(q, a, b)

Folded(order, q, s) ==
  LET r[k \in 1 .. Len(s)] == IF k = 1 THEN s[1] ELSE Joined(order, q, r[k - 1], s[k])
  IN  r

Reduced(order) ==
  LET r == Folded(order, call.quots[1], call.list) IN
  IF N = 0 THEN Error(0) ELSE IF r[N] = Failed THEN Error(0) ELSE Value(<<r[N]>>)

(* A list that is long enough may be combined in parallel.                 *)
Orders == IF N < 4 THEN {"given"} ELSE {"given", "swapped"}

ForkOutcome ==
  LET R(i) == Exec(call.quots[i], call.list)
      bad  == {i \in {1, 2} : R(i) = Failed} IN
  IF bad # {} THEN Error(First(bad)) ELSE Value(<<Top(R(2)), Top(R(1))>>)

Promised ==
  CASE call.name = "pmap"    -> MapOutcome
    [] call.name = "pfilter" -> FilterOutcome
    [] call.name = "pfork"   -> ForkOutcome

(***************************************************************************)
(* What the callers see to.  A test or a function looks at the member only, *)
(* not at the stack below, and never leaves an empty stack.                 *)
(***************************************************************************)
LooksAtMembers(c) ==
  \A i \in 1 .. Len(c.list) :
    LET s == Exec(c.quots[1], <<c.list[i]>>)
        t == Exec(c.quots[1], <<c.list[i]>> \o c.below) IN
    /\ s # <<>> /\ t # <<>>
    /\ s = Failed <=> t = Failed
    /\ t # Failed => Head(s) = Head(t)

(* The parallel and the sequential code agree on the result of a test,     *)
(* which they do not on empty sets, negative zeros and strings.            *)
Tests(c) ==
  \A i \in 1 .. Len(c.list) :
    LET s == Exec(c.quots[1], <<c.list[i]>>) IN
    s # Failed => Truths(Head(s)) = {~Zero(Head(s))}

(* An operator on the set S: it replaces two values by one or fails, and   *)
(* the grouping of its operands does not matter.                           *)
Operator(q, below, S) ==
  /\ \A x, y \in S :
       LET s == Exec(q, <<x, y>>)
           t == Exec(q, <<x, y>> \o below) IN
       /\ s = Failed \/ \E z \in S : s = <<z>>
       /\ s = Failed <=> t = Failed
       /\ s # Failed => t = s \o below
  /\ \A x, y, z \in S :
       Combine(q, Combine(q, x, y), z) = Combine(q, x, Combine(q, y, z))

(* The quotations find the bodies of their symbols; only pmap may collect  *)
(* while it copies; neither pfilter nor preduce is given strings or big    *)
(* numbers, nor do the operands of preduce become such.                    *)
Proper(c) ==
  /\ \A i \in DOMAIN c.quots : c.depth = 0 \/ c.quots[i] \notin Defined
  /\ c.name # "pmap" => c.gcs = 0
  /\ c.name \in {"pmap", "pfilter"} => LooksAtMembers(c)
  /\ c.name = "pfilter" =>
       /\ \A i \in 1 .. Len(c.list) : ~Inline(c.list[i])
       /\ Tests(c)
  /\ c.name = "preduce" =>
       LET S == Operands(c.quots[1]) IN
       /\ Garbage \notin S /\ Failed \notin S
       /\ \A x \in S : ~Inline(x)
       /\ \A i \in 1 .. Len(c.list) : c.list[i] \in S
       /\ Operator(c.quots[1], c.below, S)

ProperRequests == {c \in Requests : Proper(c)}

(* However the workers interleave and whichever malloc fails, a Proper call *)
(* that ends leaves what the definition of the combinator over the list    *)
(* gives: the results in the order of the inputs, or the error of the first *)
(* member that has one ("Order of results matches order of inputs",        *)
(* parallel.c:190).  A reduction leaves the members combined, either       *)
(* throughout in the order of the list or throughout with the operands the *)
(* other way round, which only a list of four or more does (line 765); and *)
(* which of two bad members stops it is not promised.                      *)
OutcomeAsPromised ==
  pc = "done" /\ call \in ProperRequests =>
    IF call.name = "preduce"
    THEN \E order \in Orders :
           \/ outcome = Reduced(order)
           \/ outcome.kind = "error" /\ Reduced(order).kind = "error"
    ELSE outcome = Promised

(* pmap on its own: for such a quotation, wherever the bodies of its        *)
(* symbols are found, the list of results or the first error, through       *)
(* collections during the copying, failed allocations and every schedule.   *)
MapAsPromised ==
  pc = "done" /\ call.name = "pmap" /\ LooksAtMembers(call) /\ Resolves(call.quots[1]) =>
    outcome = MapOutcome

(* No way out of a combinator, by success, by the error of a task or by the *)
(* fallback when malloc fails after the tasks of a level of preduce, leaves *)
(* the memory of a clone allocated, and no clone is destroyed before every *)
(* task has ended.  (When the process exits nobody releases anything.)      *)
ClonesReleased ==
  /\ pc \in {"done", "fall back", "sequential", "push"} =>
       \A i \in DOMAIN child : child[i] # "live"
  /\ pc = "run" => \A i \in DOMAIN child : child[i] = "live"

(* While some worker is between taking a task and its end, the parent does  *)
(* not move: its memory, which that worker reads for the input, the         *)
(* quotation and the bodies of symbols, is as it was, and each task is      *)
(* touched by the worker that took it only.  The end of the process is the  *)
(* exception.                                                              *)
ParentWaits ==
  [][ (\E w \in Workers : worker[w] # 0) /\ pc' # "exit" =>
        /\ UNCHANGED <<pc, child, values, collections>>
        /\ \A i \in DOMAIN task : task'[i] # task[i] => \E w \in Workers : worker[w] = i
    ]_vars

(* Every member is executed by exactly one worker of the team.              *)
OneWorkerPerTask ==
  \A v, w \in Workers : v # w => worker[v] = 0 \/ worker[v] # worker[w]

(* Every call ends, unless the process does: a task that jumps out of its   *)
(* quotation reaches the end of the region all the same.                    *)
CallEnds == <>(pc \in {"done", "exit"})

-----------------------------------------------------------------------------
(* "symbol bodies live in parent memory" (interp.c:111): a task that calls  *)
(* a symbol executes its body.                                              *)
BodiesResolved ==
  \A i \in DOMAIN task :
    task[i].state = "finished" => task[i].stck # <<Garbage>>
=============================================================================
