-------------------------- MODULE Parallel_proofs --------------------------
(***************************************************************************)
(* Theorems about the parallel combinators, for every team, every list and *)
(* every meaning of the quotations.                                        *)
(***************************************************************************)
EXTENDS ParallelCheck, Induction, SequenceTheorems, TLAPS

(* The team: tasks below next were taken, each by one worker, and only     *)
(* inside the parallel region is a worker busy.                            *)
TeamInv ==
  /\ next \in Nat
  /\ worker \in [Workers -> Nat]
  /\ \A w \in Workers : worker[w] # 0 => worker[w] < next
  /\ OneWorkerPerTask
  /\ (\E w \in Workers : worker[w] # 0) => pc = "run"

(* The clones: made one by one, released together.                         *)
CloneInv ==
  /\ pc = "clone" =>
       /\ pos \in Nat
       /\ DOMAIN child = 1 .. TaskCount
       /\ \A i \in DOMAIN child : i < pos => child[i] = "live"
  /\ pc = "run" => \A i \in DOMAIN child : child[i] = "live"
  /\ pc \in {"enter", "prepare", "fall back", "sequential", "push", "done"} =>
       \A i \in DOMAIN child : child[i] # "live"

(* The end of the process, whatever brings it about. *)
LEMMA DeathIs == Dies => Exit
BY DEF Dies, CloneFails, CollectFilterDies, CopyInDies

LEMMA DeathKeeps == Dies => pc' = "exit" /\ UNCHANGED <<call, values, quotation>>
BY DeathIs DEF Exit, param

LEMMA InitTeam == Init => TeamInv
BY DEF Init, TeamInv, OneWorkerPerTask

LEMMA NextTeam == TeamInv /\ [Next]_vars => TeamInv'
<1> SUFFICES ASSUME TeamInv, [Next]_vars PROVE TeamInv'
  OBVIOUS
<1>1. CASE UNCHANGED vars
  BY <1>1 DEF vars, team, TeamInv, OneWorkerPerTask
<1>2. ASSUME NEW w \in Workers, Take(w) PROVE TeamInv'
  BY <1>2 DEF Take, TeamInv, OneWorkerPerTask
<1>3. ASSUME NEW w \in Workers, CopyIn(w) PROVE TeamInv'
  BY <1>3 DEF CopyIn, TeamInv, OneWorkerPerTask
<1>4. ASSUME NEW w \in Workers, Run(w) PROVE TeamInv'
  BY <1>4 DEF Run, TeamInv, OneWorkerPerTask
<1>6. CASE Dies
  <2>1. next' = next /\ worker' = [w \in Workers |-> 0]
    BY <1>6, DeathIs DEF Exit
  <2>2. \A w \in Workers : worker'[w] = 0
    BY <2>1
  <2> QED BY <2>1, <2>2 DEF TeamInv, OneWorkerPerTask
<1>5. CASE ParentStep
  <2>1. CASE Prepare
    <3>1. \A w \in Workers : worker[w] = 0
      BY <2>1 DEF Prepare, TeamInv
    <3>2. next' = 1 /\ worker' = worker
      BY <2>1 DEF Prepare
    <3> QED BY <3>1, <3>2 DEF TeamInv, OneWorkerPerTask
  <2>2. CASE Enter \/ Clone \/ FallBack \/ SequentialStep \/ EndSequential
    <3>1. UNCHANGED team /\ pc # "run"
      BY <2>2 DEF Enter, Clone, FallBack, SequentialStep, EndSequential, Raise, Return
    <3> QED BY <3>1 DEF team, TeamInv, OneWorkerPerTask
  <2>3. CASE JoinError \/ Join \/ JoinFails
    <3>1. UNCHANGED team /\ \A w \in Workers : worker[w] = 0
      BY <2>3 DEF JoinError, Join, JoinFails, RegionEnds
    <3> QED BY <3>1 DEF team, TeamInv, OneWorkerPerTask
  <2>4. CASE Collect
    <3>1. UNCHANGED team /\ pc # "run"
      BY <2>4 DEF Collect, CollectMap, CollectFilter, CollectLocal, PushFork,
                  EndMap, EndFork, EndLevel, EndReduce
    <3> QED BY <3>1 DEF team, TeamInv, OneWorkerPerTask
  <2> QED BY <1>5, <2>1, <2>2, <2>3, <2>4 DEF ParentStep
<1> QED BY <1>1, <1>2, <1>3, <1>4, <1>5, <1>6 DEF Next, WorkerStep

(* However many workers there are, no task is executed by two of them: what *)
(* schedule(dynamic) has to guarantee (parallel.c:272).                     *)
THEOREM TasksExclusive == Spec => []OneWorkerPerTask
<1>1. TeamInv => OneWorkerPerTask
  BY DEF TeamInv
<1> QED BY <1>1, InitTeam, NextTeam, PTL DEF Spec

(* For every call and every schedule the parent's memory stands still while *)
(* a worker may read it, as long as the process lives.                      *)
THEOREM ParentStandsStill == Spec => ParentWaits
<1> DEFINE Waits ==
      (\E w \in Workers : worker[w] # 0) /\ pc' # "exit" =>
        /\ UNCHANGED <<pc, child, values, collections>>
        /\ \A i \in DOMAIN task : task'[i] # task[i] => \E w \in Workers : worker[w] = i
<1>1. TeamInv /\ [Next]_vars => [Waits]_vars
  <2> SUFFICES ASSUME TeamInv, Next, NEW v \in Workers, worker[v] # 0, pc' # "exit" PROVE Waits
    OBVIOUS
  <2>1. pc = "run"
    BY DEF TeamInv
  <2>2. ASSUME NEW w \in Workers, Take(w) PROVE Waits
    BY <2>2 DEF Take, param, heap
  <2>3. ASSUME NEW w \in Workers, CopyIn(w) PROVE Waits
    <3>1. \A i \in DOMAIN task : i # worker[w] => task'[i] = task[i]
      BY <2>3 DEF CopyIn
    <3> QED BY <2>3, <3>1 DEF CopyIn, param, heap
  <2>4. ASSUME NEW w \in Workers, Run(w) PROVE Waits
    <3>1. \A i \in DOMAIN task : i # worker[w] => task'[i] = task[i]
      BY <2>4 DEF Run
    <3> QED BY <2>4, <3>1 DEF Run, param, heap
  <2>5. ~ParentStep
    <3>1. ~RegionEnds
      BY DEF RegionEnds
    <3> QED BY <2>1, <3>1 DEF ParentStep, Enter, Prepare, Clone, JoinError, Join,
              JoinFails, FallBack, SequentialStep, EndSequential, Collect, CollectMap,
              CollectFilter, CollectLocal, PushFork, EndMap, EndFork, EndLevel, EndReduce
  <2>6. ~Dies
    BY DeathIs DEF Exit
  <2> QED BY <2>2, <2>3, <2>4, <2>5, <2>6 DEF Next, WorkerStep
<1> QED BY <1>1, InitTeam, NextTeam, PTL DEF Spec, ParentWaits
-----------------------------------------------------------------------------
LEMMA ReleaseFrees == /\ DOMAIN Release = DOMAIN child
                      /\ \A i \in DOMAIN child : Release[i] # "live"
BY DEF Release

LEMMA InitClones == Init => CloneInv
BY DEF Init, CloneInv

LEMMA NextClones == CloneInv /\ [Next]_vars => CloneInv'
<1> SUFFICES ASSUME CloneInv, [Next]_vars PROVE CloneInv'
  OBVIOUS
<1>1. CASE UNCHANGED vars
  BY <1>1 DEF vars, param, CloneInv, TaskCount
<1>2. ASSUME NEW w \in Workers, WorkerStep(w) PROVE CloneInv'
  <2>1. UNCHANGED <<pc, child, pos, call, values>>
    BY <1>2 DEF WorkerStep, Take, CopyIn, Run, param
  <2> QED BY <2>1 DEF CloneInv, TaskCount
<1>3. CASE Enter
  BY <1>3 DEF Enter, CloneInv, Return, Raise
<1>4. CASE Prepare
  <2>1. UNCHANGED TaskCount
    BY <1>4 DEF Prepare, param, TaskCount
  <2>2. \A i \in DOMAIN child : child[i] # "live"
    BY <1>4 DEF Prepare, CloneInv
  <2>3. CASE pc' = "clone"
    <3>1. child' = [i \in 1 .. TaskCount |-> "absent"] /\ pos' = 1
      BY <1>4, <2>3 DEF Prepare
    <3>2. DOMAIN child' = 1 .. TaskCount'
      BY <2>1, <3>1
    <3>3. \A i \in DOMAIN child' : ~(i < pos')
      BY <3>1
    <3> QED BY <2>3, <3>1, <3>2, <3>3 DEF CloneInv
  <2>4. CASE pc' = "fall back"
    <3>1. UNCHANGED child
      BY <1>4, <2>4 DEF Prepare
    <3> QED BY <2>2, <2>4, <3>1 DEF CloneInv
  <2> QED BY <1>4, <2>3, <2>4 DEF Prepare
<1>12. CASE Dies
  BY <1>12, DeathIs DEF Exit, CloneInv
<1>5. CASE Clone
  <2>0. UNCHANGED TaskCount
    BY <1>5 DEF Clone, param, TaskCount
  <2>2. /\ child' = [child EXCEPT ![pos] = "live"]
        /\ pos' = pos + 1
        /\ pc' = IF pos = TaskCount THEN "run" ELSE "clone"
    BY <1>5 DEF Clone
  <2>1. pc = "clone" /\ pos \in Nat /\ DOMAIN child = 1 .. TaskCount
    BY <1>5 DEF Clone, CloneInv
  <2>3. \A i \in DOMAIN child : i < pos + 1 => child'[i] = "live"
    BY <2>2, <2>1 DEF CloneInv
  <2>4. DOMAIN child' = 1 .. TaskCount
    BY <2>2, <2>1
  <2>5. CASE pos = TaskCount
    <3>1. \A i \in DOMAIN child' : child'[i] = "live"
      BY <2>1, <2>3, <2>4, <2>5
    <3> QED BY <2>2, <2>5, <3>1 DEF CloneInv
  <2>6. CASE pos # TaskCount
    BY <2>0, <2>2, <2>1, <2>3, <2>4, <2>6 DEF CloneInv
  <2> QED BY <2>5, <2>6
<1>6. CASE JoinError \/ JoinFails
  BY <1>6, ReleaseFrees DEF JoinError, JoinFails, Raise, CloneInv
<1>7. CASE Join
  BY <1>7 DEF Join, CloneInv
<1>8. ASSUME NEW gc, CollectMap(gc) \/ CollectFilter(gc) \/ CollectLocal(gc) PROVE CloneInv'
  BY <1>8 DEF CollectMap, CollectFilter, CollectLocal, CloneInv
<1>9. ASSUME NEW gc, PushFork(gc) PROVE CloneInv'
  BY <1>9 DEF PushFork, Return, CloneInv
<1>10. CASE EndMap \/ EndFork \/ EndLevel
  BY <1>10, ReleaseFrees DEF EndMap, EndFork, EndLevel, Return, CloneInv
<1>11. CASE EndReduce \/ FallBack \/ SequentialStep \/ EndSequential
  BY <1>11 DEF EndReduce, FallBack, SequentialStep, EndSequential, Return, Raise, CloneInv
<1> QED BY <1>1, <1>2, <1>3, <1>4, <1>5, <1>6, <1>7, <1>8, <1>9, <1>10, <1>11, <1>12
        DEF Next, ParentStep, Collect

(* On every way out of a call that the process survives, success, the      *)
(* error of a task or the fallback, and for any number of tasks, the       *)
(* clones have been destroyed; during the region all of them exist.        *)
THEOREM NoCloneLeft == Spec => []ClonesReleased
<1>1. CloneInv => ClonesReleased
  BY DEF CloneInv, ClonesReleased
<1> QED BY <1>1, InitClones, NextClones, PTL DEF Spec

-----------------------------------------------------------------------------
(* pmap.  The results are collected from the last to the first, so what is *)
(* built is always a tail of the list of results; the sequential code      *)
(* builds a prefix of it.                                                  *)

LEMMA Prepend ==
  ASSUME NEW n \in Nat, NEW p \in 1 .. n, NEW g
  PROVE  << g[p] >> \o [k \in 1 .. n - p |-> g[p + k]]
           = [k \in 1 .. n - (p - 1) |-> g[p - 1 + k]]
<1> DEFINE S == {g[i] : i \in 1 .. n}
           t == [k \in 1 .. n - p |-> g[p + k]]
           u == [k \in 1 .. n - (p - 1) |-> g[p - 1 + k]]
<1>1. t \in Seq(S) /\ Len(t) = n - p
  OBVIOUS
<1>2. << g[p] >> \in Seq(S) /\ Len(<< g[p] >>) = 1
  OBVIOUS
<1>3. u \in Seq(S) /\ Len(u) = n - p + 1
  OBVIOUS
<1>4. /\ << g[p] >> \o t \in Seq(S)
      /\ Len(<< g[p] >> \o t) = n - p + 1
      /\ \A k \in 1 .. n - p + 1 :
           (<< g[p] >> \o t)[k] = IF k = 1 THEN g[p] ELSE t[k - 1]
  BY <1>1, <1>2
<1>5. \A k \in 1 .. n - p + 1 : (<< g[p] >> \o t)[k] = u[k]
  BY <1>4
<1> HIDE DEF S, t, u
<1>6. << g[p] >> \o t = u
  BY <1>3, <1>4, <1>5, SeqEqual
<1> QED BY <1>6 DEF t, u

LEMMA Extend ==
  ASSUME NEW p \in Nat \ {0}, NEW g
  PROVE  Append([k \in 1 .. p - 1 |-> g[k]], g[p]) = [k \in 1 .. p |-> g[k]]
<1> DEFINE S == {g[i] : i \in 1 .. p}
           t == [k \in 1 .. p - 1 |-> g[k]]
           u == [k \in 1 .. p |-> g[k]]
<1>1. t \in Seq(S) /\ Len(t) = p - 1 /\ g[p] \in S
  OBVIOUS
<1>2. u \in Seq(S) /\ Len(u) = p
  OBVIOUS
<1>3. /\ Append(t, g[p]) \in Seq(S)
      /\ Len(Append(t, g[p])) = p
      /\ \A k \in 1 .. p : Append(t, g[p])[k] = u[k]
  BY <1>1
<1> HIDE DEF S, t, u
<1>4. Append(t, g[p]) = u
  BY <1>2, <1>3, SeqEqual
<1> QED BY <1>4 DEF t, u

LEMMA EmptyList == ASSUME NEW g PROVE [k \in 1 .. 0 |-> g[k]] = <<>>
OBVIOUS

Ordinary == call.name = "pmap" /\ LooksAtMembers(call) /\ Resolves(call.quots[1])

Member(i) == Exec(call.quots[1], <<call.list[i]>>)

Heads == [i \in 1 .. N |-> Head(Member(i))]

(* A task on its way: its input, then its result.                          *)
TaskRight(i) ==
  /\ task[i].state \in {"ready", "copied", "finished"}
  /\ task[i].state # "finished" => ~task[i].failed
  /\ task[i].state = "copied" => task[i].stck = <<call.list[i]>>
  /\ task[i].state = "finished" => (task[i].failed <=> Member(i) = Failed)
  /\ task[i].state = "finished" /\ ~task[i].failed => task[i].stck = Member(i)

Finished(i) == task[i].state = "finished" /\ ~task[i].failed

MapInv ==
  /\ pc \in {"enter", "prepare", "clone", "run", "collect",
             "fall back", "sequential", "done", "exit"}
  /\ values = [i \in 1 .. N |-> Ref(call.list[i], 0)]
  /\ quotation = [i \in 1 .. Len(call.quots) |-> Ref(call.quots[i], 0)]
  /\ pc \notin {"collect", "done", "exit"} => collections = 0
  /\ pc \in {"clone", "run", "collect"} =>
       /\ DOMAIN task = 1 .. N
       /\ DOMAIN child = 1 .. N
       /\ \A i \in 1 .. N : TaskRight(i)
  /\ pc = "clone" => next = 1
  /\ pc = "run" =>
       /\ next \in 1 .. N + 1
       /\ \A i \in 1 .. N : i < next =>
            task[i].state = "finished" \/ \E w \in Workers : worker[w] = i
  /\ pc = "collect" =>
       /\ \A i \in 1 .. N : Finished(i) /\ child[i] = "live"
       /\ pos \in 0 .. N
       /\ built = [k \in 1 .. N - pos |-> Heads[pos + k]]
  /\ pc = "sequential" =>
       /\ pos \in 1 .. N + 1
       /\ built = [k \in 1 .. pos - 1 |-> Heads[k]]
       /\ \A k \in 1 .. N : k < pos => k \notin BadMembers
  /\ pc = "done" => outcome = MapOutcome

CallInv == call \in Requests /\ (Ordinary => MapInv)

(* What the parameters of a call say in every state.                       *)
LEMMA CallFacts ==
  ASSUME call \in Requests, call.name = "pmap"
  PROVE  /\ call.list \in Seq(Members)
         /\ N \in Nat
         /\ \A i \in 1 .. N : call.list[i] \in Members /\ call.list[i] # Garbage
         /\ Len(call.quots) = 1
         /\ call.quots[1] \in Quots /\ call.quots[1] # Garbage
<1>1. /\ call.list \in Seq(Members) /\ call.quots \in Seq(Quots)
      /\ Len(call.quots) = 1
  BY RequestsAssumption DEF Calls
<1> QED BY <1>1, RequestsAssumption DEF N

LEMMA ValuesFacts ==
  ASSUME call \in Requests, call.name = "pmap",
         values = [i \in 1 .. N |-> Ref(call.list[i], 0)]
  PROVE  Len(values) = N /\ TaskCount = N
<1>1. N \in Nat
  BY CallFacts
<1>2. Len(values) = N
  BY <1>1
<1> QED BY <1>2 DEF TaskCount

(* The first bad member is the only one with none before it.               *)
LEMMA FirstUnique ==
  ASSUME NEW S \in SUBSET Nat, NEW i \in S, \A j \in S : i <= j
  PROVE  First(S) = i
<1>1. \A j \in S : (\A k \in S : j <= k) => j = i
  OBVIOUS
<1> QED BY <1>1 DEF First

(* A task that executes the quotation does what the definition says.       *)
LEMMA ExecuteMember ==
  ASSUME call \in Requests, Ordinary, NEW i \in 1 .. N
  PROVE  Execute(call.quots[1], <<call.list[i]>>) = Member(i)
<1>1. call.quots[1] # Garbage /\ call.list[i] # Garbage
  BY CallFacts DEF Ordinary
<1>2. ~ \E k \in DOMAIN <<call.list[i]>> : <<call.list[i]>>[k] = Garbage
  BY <1>1
<1> QED BY <1>1, <1>2 DEF Execute, Ordinary, Member

LEMMA BadIffFailed ==
  ASSUME Ordinary, NEW i \in 1 .. N
  PROVE  /\ i \in BadMembers <=> Member(i) = Failed
         /\ Member(i) # <<>>
         /\ OnMember(call.list[i]) = Failed <=> i \in BadMembers
         /\ OnMember(call.list[i]) # <<>>
         /\ i \notin BadMembers => Head(OnMember(call.list[i])) = Heads[i]
BY DEF Ordinary, LooksAtMembers, BadMembers, Heads, Member, OnMember, N

(* The list of results, when no member is bad.                             *)
LEMMA AllHeads ==
  ASSUME Ordinary, BadMembers = {}
  PROVE  MapOutcome = Value(Heads)
<1>1. \A i \in 1 .. N : Head(OnMember(call.list[i])) = Head(Member(i))
  BY BadIffFailed DEF Heads
<1> QED BY <1>1 DEF MapOutcome, Heads

LEMMA InitMap == Init => CallInv
<1> SUFFICES ASSUME Init, Ordinary PROVE MapInv
  BY DEF Init, CallInv
<1> QED BY DEF Init, MapInv

LEMMA OrdinaryStable == [Next]_vars => UNCHANGED <<call, Ordinary, N, Heads, BadMembers, MapOutcome>>
<1> SUFFICES ASSUME [Next]_vars PROVE UNCHANGED call
  BY DEF Ordinary, LooksAtMembers, Member, OnMember, Resolves, N, Heads, BadMembers, MapOutcome
<1>1. CASE UNCHANGED vars
  BY <1>1 DEF vars, param
<1>2. CASE ParentStep
  BY <1>2 DEF ParentStep, Enter, Prepare, Clone, JoinError, Join, JoinFails,
     FallBack, SequentialStep, EndSequential, Collect, CollectMap, CollectFilter,
     CollectLocal, PushFork, EndMap, EndFork, EndLevel, EndReduce, param
<1>3. ASSUME NEW w \in Workers, WorkerStep(w) PROVE UNCHANGED call
  BY <1>3 DEF WorkerStep, Take, CopyIn, Run, param
<1>4. CASE Dies
  BY <1>4, DeathIs DEF Exit, param
<1> QED BY <1>1, <1>2, <1>3, <1>4 DEF Next

(* The tasks that failed are the bad members, once all have ended.         *)
LEMMA FailedAreBad ==
  ASSUME Ordinary, DOMAIN task = 1 .. N,
         \A i \in 1 .. N : TaskRight(i) /\ task[i].state = "finished"
  PROVE  FailedTasks = BadMembers
<1>1. \A i \in 1 .. N : task[i].failed <=> i \in BadMembers
  BY BadIffFailed DEF TaskRight
<1>2. BadMembers \subseteq 1 .. N
  BY DEF BadMembers
<1> QED BY <1>1, <1>2 DEF FailedTasks

(* The inputs and the quotation that a task reads are those of the call:   *)
(* the parent has not collected since it looked them up.                   *)
LEMMA TaskReads ==
  ASSUME call \in Requests, Ordinary, MapInv, collections = 0, NEW i \in 1 .. N
  PROVE  /\ [k \in DOMAIN Inputs(i) |-> CopyOf(Deref(Inputs(i)[k]))] = <<call.list[i]>>
         /\ Deref(Quot(i)) = call.quots[1]
<1>1. Inputs(i) = <<values[i]>> /\ Quot(i) = quotation[1]
  BY DEF Inputs, Quot, Ordinary
<1>2. values[i] = [val |-> call.list[i], at |-> 0]
  BY DEF MapInv, Ref
<1>3. quotation[1] = [val |-> call.quots[1], at |-> 0]
  <2>1. Len(call.quots) = 1
    BY CallFacts DEF Ordinary
  <2>2. quotation = [k \in 1 .. Len(call.quots) |-> Ref(call.quots[k], 0)]
    BY DEF MapInv
  <2> QED BY <2>1, <2>2 DEF Ref
<1>4. Deref(values[i]) = call.list[i] /\ Deref(quotation[1]) = call.quots[1]
  BY <1>2, <1>3 DEF Deref, Read
<1>5. [k \in DOMAIN Inputs(i) |-> CopyOf(Deref(Inputs(i)[k]))] = <<CopyOf(Deref(values[i]))>>
  BY <1>1
<1>6. CopyOf(Deref(values[i])) = Deref(values[i])
  BY DEF CopyOf, Ordinary
<1> QED BY <1>1, <1>4, <1>5, <1>6

(* A busy worker has a task of the list, and only inside the region.       *)
LEMMA BusyWorker ==
  ASSUME TeamInv, call \in Requests, Ordinary, MapInv, NEW w \in Workers, worker[w] # 0
  PROVE  /\ pc = "run" /\ collections = 0
         /\ worker[w] \in 1 .. N
<1>1. pc = "run"
  BY DEF TeamInv
<1>2. worker[w] \in Nat /\ worker[w] < next
  BY DEF TeamInv
<1>3. next \in 1 .. N + 1 /\ N \in Nat
  BY <1>1, CallFacts DEF MapInv, Ordinary
<1> QED BY <1>1, <1>2, <1>3 DEF MapInv

LEMMA WorkerKeepsMap ==
  ASSUME TeamInv, call \in Requests, Ordinary, MapInv, NEW w \in Workers, WorkerStep(w)
  PROVE  MapInv'
<1>0. /\ UNCHANGED <<call, values, quotation, pc, child, collections, pos, built, outcome>>
      /\ UNCHANGED <<N, Heads, BadMembers, MapOutcome>>
  BY DEF WorkerStep, Take, CopyIn, Run, param, heap, N, Heads, BadMembers, MapOutcome,
         OnMember, Member
<1>c. N \in Nat /\ TaskCount = N
  BY CallFacts, ValuesFacts DEF Ordinary, MapInv
<1>1. CASE Take(w)
  <2>1. pc = "run" /\ worker[w] = 0 /\ next <= N /\ next \in 1 .. N + 1
    BY <1>1, <1>c DEF Take, MapInv
  <2>2. next' \in 1 .. N + 1
    BY <1>1, <1>c, <2>1 DEF Take
  <2>3. ASSUME NEW i \in 1 .. N, i < next' PROVE
          task[i].state = "finished" \/ \E v \in Workers : worker'[v] = i
    <3>1. CASE i = next
      BY <1>1, <3>1 DEF Take, TeamInv
    <3>2. CASE i # next
      <4>1. i < next
        BY <1>1, <2>1, <2>3, <3>2 DEF Take
      <4>2. task[i].state = "finished" \/ \E v \in Workers \ {w} : worker[v] = i
        BY <2>1, <4>1 DEF MapInv
      <4> QED BY <1>1, <4>2 DEF Take, TeamInv
    <3> QED BY <3>1, <3>2
  <2>4. UNCHANGED task
    BY <1>1 DEF Take
  <2>5. \A i \in 1 .. N : TaskRight(i)' <=> TaskRight(i)
    BY <1>0, <2>4 DEF TaskRight, Member
  <2> QED BY <1>0, <2>1, <2>2, <2>3, <2>4, <2>5 DEF MapInv, Finished
<1>2. CASE CopyIn(w)
  <2> DEFINE i == worker[w]
  <2>1. pc = "run" /\ collections = 0 /\ i \in 1 .. N
    BY <1>2, BusyWorker DEF CopyIn
  <2>2. DOMAIN task = 1 .. N /\ TaskRight(i) /\ task[i].state = "ready"
    BY <1>2, <2>1 DEF CopyIn, MapInv
  <2>3. /\ UNCHANGED <<next, worker>> /\ DOMAIN task' = 1 .. N
        /\ \A j \in 1 .. N : j # i => task'[j] = task[j]
    BY <1>2, <2>2 DEF CopyIn
  <2>4. ASSUME NEW j \in 1 .. N, j = i PROVE TaskRight(j)'
    <3>1. /\ task'[j].state = "copied" /\ task'[j].failed = task[j].failed
          /\ task'[j].stck = [k \in DOMAIN Inputs(j) |-> CopyOf(Deref(Inputs(j)[k]))]
      BY <1>2, <2>2, <2>4 DEF CopyIn
    <3>2. task'[j].stck = <<call.list[j]>>
      BY <2>1, <3>1, TaskReads
    <3>3. ~task[j].failed
      BY <2>2, <2>4 DEF TaskRight
    <3> QED BY <1>0, <3>1, <3>2, <3>3 DEF TaskRight
  <2>5. \A j \in 1 .. N : TaskRight(j)'
    BY <1>0, <2>1, <2>3, <2>4 DEF TaskRight, MapInv, Member
  <2>6. \A j \in 1 .. N : task[j].state = "finished" => task'[j].state = "finished"
    BY <2>2, <2>3
  <2> QED BY <1>0, <2>1, <2>3, <2>5, <2>6 DEF MapInv
<1>3. CASE Run(w)
  <2> DEFINE i == worker[w]
  <2>1. pc = "run" /\ collections = 0 /\ i \in 1 .. N
    BY <1>3, BusyWorker DEF Run
  <2>2. DOMAIN task = 1 .. N /\ TaskRight(i) /\ task[i].state = "copied"
    BY <1>3, <2>1 DEF Run, MapInv
  <2>3. /\ next' = next /\ worker' = [worker EXCEPT ![w] = 0] /\ DOMAIN task' = 1 .. N
        /\ \A j \in 1 .. N : j # i => task'[j] = task[j]
    BY <1>3, <2>2 DEF Run
  <2>4. Execute(Deref(Quot(i)), task[i].stck) = Member(i)
    BY <2>1, <2>2, TaskReads, ExecuteMember DEF TaskRight
  <2>5. /\ task'[i].state = "finished"
        /\ task'[i].failed = (Member(i) = Failed)
        /\ Member(i) # Failed => task'[i].stck = Member(i)
    BY <1>3, <2>1, <2>2, <2>4 DEF Run
  <2>6. \A j \in 1 .. N : TaskRight(j)'
    BY <1>0, <2>1, <2>3, <2>5 DEF TaskRight, MapInv, Member
  <2>7. ASSUME NEW j \in 1 .. N, j < next PROVE
          task'[j].state = "finished" \/ \E v \in Workers : worker'[v] = j
    <3>1. CASE j = i
      BY <2>5, <3>1
    <3>2. CASE j # i
      <4>1. task[j].state = "finished" \/ \E v \in Workers \ {w} : worker[v] = j
        BY <2>1, <2>7, <3>2 DEF MapInv
      <4> QED BY <2>3, <3>2, <4>1 DEF TeamInv
    <3> QED BY <3>1, <3>2
  <2> QED BY <1>0, <2>1, <2>3, <2>6, <2>7 DEF MapInv
<1> QED BY <1>1, <1>2, <1>3 DEF WorkerStep

(* At the end of the region every task of the list is finished.            *)
LEMMA RegionFinished ==
  ASSUME TeamInv, call \in Requests, Ordinary, MapInv, pc = "run", RegionEnds
  PROVE  /\ \A i \in 1 .. N : TaskRight(i) /\ task[i].state = "finished"
         /\ FailedTasks = BadMembers
<1>1. N \in Nat /\ TaskCount = N
  BY CallFacts, ValuesFacts DEF Ordinary, MapInv
<1>2. next > N /\ next \in 1 .. N + 1
  BY <1>1 DEF RegionEnds, MapInv
<1>3. \A i \in 1 .. N : task[i].state = "finished"
  <2> SUFFICES ASSUME NEW i \in 1 .. N PROVE task[i].state = "finished"
    OBVIOUS
  <2>1. i < next /\ i # 0
    BY <1>1, <1>2
  <2>2. ~ \E w \in Workers : worker[w] = i
    BY <2>1 DEF RegionEnds
  <2> QED BY <2>1, <2>2 DEF MapInv
<1>4. \A i \in 1 .. N : TaskRight(i)
  BY DEF MapInv
<1>5. DOMAIN task = 1 .. N
  BY DEF MapInv
<1> QED BY <1>3, <1>4, <1>5, FailedAreBad

LEMMA RegionKeepsMap ==
  ASSUME TeamInv, CloneInv, call \in Requests, Ordinary, MapInv,
         JoinError \/ Join \/ JoinFails,
         UNCHANGED <<call, N, Heads, BadMembers, MapOutcome>>
  PROVE  MapInv'
<1>1. /\ pc = "run" /\ RegionEnds /\ UNCHANGED <<call, values, quotation>>
      /\ collections = 0 /\ ~JoinFails
  BY DEF JoinError, Join, JoinFails, MapInv, param, Ordinary
<1>2. /\ \A i \in 1 .. N : TaskRight(i) /\ task[i].state = "finished"
      /\ FailedTasks = BadMembers
      /\ N \in Nat /\ TaskCount = N
  BY <1>1, RegionFinished, CallFacts, ValuesFacts DEF Ordinary, MapInv
<1>3. CASE JoinError
  <2>1. outcome' = Error(First(BadMembers)) /\ pc' = "done" /\ BadMembers # {}
    BY <1>2, <1>3 DEF JoinError, Raise, Error
  <2>2. MapOutcome = Error(First(BadMembers))
    BY <2>1 DEF MapOutcome
  <2> QED BY <1>1, <2>1, <2>2 DEF MapInv
<1>4. CASE Join
  <2>1. /\ pc' = "collect" /\ pos' = N /\ built' = <<>> /\ FailedTasks = {}
        /\ UNCHANGED <<child, task, collections>>
    BY <1>2, <1>4 DEF Join, Ordinary, team
  <2>2. \A i \in 1 .. N : Finished(i) /\ child[i] = "live"
    <3>1. \A i \in 1 .. N : ~task[i].failed
      BY <1>1, <2>1 DEF FailedTasks, MapInv
    <3>2. \A i \in 1 .. N : child[i] = "live"
      BY <1>1 DEF CloneInv, MapInv
    <3> QED BY <1>2, <3>1, <3>2 DEF Finished
  <2>3. built' = [k \in 1 .. N - pos' |-> Heads[pos' + k]]
    BY <1>2, <2>1
  <2>4. \A i \in 1 .. N : TaskRight(i)' /\ (Finished(i) /\ child[i] = "live")'
    BY <1>1, <1>2, <2>1, <2>2 DEF TaskRight, Finished, Member
  <2>5. DOMAIN task' = 1 .. N /\ DOMAIN child' = 1 .. N
    BY <1>1, <2>1 DEF MapInv
  <2>6. pos' \in 0 .. N
    BY <1>2, <2>1
  <2> QED BY <1>1, <2>1, <2>3, <2>4, <2>5, <2>6 DEF MapInv
<1> QED BY <1>1, <1>3, <1>4

LEMMA CollectKeepsMap ==
  ASSUME call \in Requests, Ordinary, MapInv, Collect,
         UNCHANGED <<call, N, Heads, BadMembers, MapOutcome>>
  PROVE  MapInv'
<1>1. pc = "collect" /\ UNCHANGED <<call, values, quotation, task>>
  BY DEF Collect, CollectMap, CollectFilter, CollectLocal, PushFork, EndMap, EndFork,
         EndLevel, EndReduce, MapInv, Ordinary, param, team
<1>2. /\ \A i \in 1 .. N : Finished(i) /\ child[i] = "live" /\ TaskRight(i)
      /\ pos \in 0 .. N
      /\ built = [k \in 1 .. N - pos |-> Heads[pos + k]]
      /\ DOMAIN task = 1 .. N /\ DOMAIN child = 1 .. N
  BY <1>1 DEF MapInv
<1>3. N \in Nat
  BY CallFacts DEF Ordinary
<1>4. CASE \E gc \in {0, 1} : CollectMap(gc)
  <2>1. /\ pos >= 1 /\ pos' = pos - 1 /\ UNCHANGED <<pc, child>>
        /\ built' = IF Stck(pos) = <<>> THEN built ELSE <<Head(Stck(pos))>> \o built
    BY <1>4 DEF CollectMap
  <2>2. pos \in 1 .. N
    BY <1>2, <1>3, <2>1
  <2>3. Stck(pos) = Member(pos) /\ Member(pos) # <<>>
    BY <1>2, <2>2, BadIffFailed DEF Stck, TaskRight, Finished
  <2>4. built' = <<Heads[pos]>> \o [k \in 1 .. N - pos |-> Heads[pos + k]]
    BY <1>2, <2>1, <2>2, <2>3 DEF Heads
  <2>5. built' = [k \in 1 .. N - pos' |-> Heads[pos' + k]]
    <3> DEFINE g == Heads
    <3> HIDE DEF g
    <3>1. <<g[pos]>> \o [k \in 1 .. N - pos |-> g[pos + k]]
            = [k \in 1 .. N - (pos - 1) |-> g[pos - 1 + k]]
      BY <1>3, <2>2, Prepend
    <3>2. built' = [k \in 1 .. N - (pos - 1) |-> Heads[pos - 1 + k]]
      BY <2>4, <3>1 DEF g
    <3>3. pos' = pos - 1
      BY <2>1
    <3> QED BY <3>2, <3>3
  <2>6. \A i \in 1 .. N : TaskRight(i)' /\ (Finished(i) /\ child[i] = "live")'
    BY <1>1, <1>2, <2>1 DEF TaskRight, Finished, Member
  <2>7. pos' \in 0 .. N
    BY <1>3, <2>1, <2>2
  <2> QED BY <1>1, <1>2, <2>1, <2>5, <2>6, <2>7 DEF MapInv
<1>5. CASE EndMap
  <2>1. pos = 0 /\ outcome' = Value(built) /\ pc' = "done"
    BY <1>5 DEF EndMap, Return, Value
  <2>2. BadMembers = {}
    <3>1. FailedTasks = BadMembers
      BY <1>2, FailedAreBad DEF Finished
    <3>2. FailedTasks = {}
      BY <1>2 DEF FailedTasks, Finished
    <3> QED BY <3>1, <3>2
  <2>3. built = Heads
    BY <1>2, <1>3, <2>1 DEF Heads
  <2> QED BY <1>1, <2>1, <2>2, <2>3, AllHeads DEF MapInv
<1> QED BY <1>4, <1>5 DEF Collect, CollectFilter, CollectLocal, PushFork, EndFork,
           EndLevel, EndReduce, Ordinary, MapInv

(* Enter, Prepare, Clone and FallBack.                                     *)
LEMMA SetupKeepsMap ==
  ASSUME CloneInv, call \in Requests, Ordinary, MapInv,
         Enter \/ Prepare \/ Clone \/ FallBack,
         UNCHANGED <<call, N, Heads, BadMembers, MapOutcome>>
  PROVE  MapInv'
<1>1. N \in Nat /\ TaskCount = N
  BY CallFacts, ValuesFacts DEF Ordinary, MapInv
<1>2. CASE Enter
  <2>1. UNCHANGED <<values, quotation, collections>> /\ collections = 0
    BY <1>2 DEF Enter, param, heap, MapInv
  <2>2. CASE pc' = "done"
    <3>1. N = 0 /\ outcome' = Value(<<>>)
      BY <1>2, <2>2 DEF Enter, Return, Value, Ordinary
    <3>2. BadMembers = {}
      BY <3>1 DEF BadMembers
    <3>3. Heads = <<>>
      BY <3>1 DEF Heads
    <3> QED BY <2>1, <2>2, <3>1, <3>2, <3>3, AllHeads DEF MapInv
  <2>3. CASE pc' \in {"prepare", "fall back"}
    BY <2>1, <2>3 DEF MapInv
  <2> QED BY <1>2, <2>2, <2>3 DEF Enter, Return, Raise, Ordinary
<1>3. CASE Prepare
  <2>1. UNCHANGED <<values, quotation, collections>> /\ collections = 0 /\ next' = 1
    BY <1>3 DEF Prepare, param, heap, MapInv
  <2>2. CASE pc' = "clone"
    <3>1. task' = [i \in 1 .. N |-> NoTask] /\ child' = [i \in 1 .. N |-> "absent"]
      BY <1>1, <1>3, <2>2 DEF Prepare
    <3>2. \A i \in 1 .. N : TaskRight(i)'
      BY <3>1 DEF NoTask, TaskRight
    <3> QED BY <2>1, <2>2, <3>1, <3>2 DEF MapInv
  <2>3. CASE pc' = "fall back"
    BY <2>1, <2>3 DEF MapInv
  <2> QED BY <1>3, <2>2, <2>3 DEF Prepare
<1>4. CASE Clone
  <2>1. /\ UNCHANGED <<values, quotation, collections, task, next, worker>>
        /\ collections = 0 /\ pc = "clone" /\ next = 1
    BY <1>4 DEF Clone, param, heap, team, MapInv
  <2>2. pc' \in {"clone", "run"} /\ DOMAIN child' = DOMAIN child
    BY <1>4 DEF Clone
  <2>3. \A i \in 1 .. N : TaskRight(i)'
    BY <2>1 DEF TaskRight, Member, MapInv
  <2>4. next' \in 1 .. N + 1 /\ \A i \in 1 .. N : ~(i < next')
    BY <1>1, <2>1
  <2> QED BY <2>1, <2>2, <2>3, <2>4 DEF MapInv
<1>5. CASE FallBack
  <2>1. /\ pc' = "sequential" /\ built' = <<>> /\ pos' = 1
        /\ UNCHANGED <<values, quotation, collections>> /\ collections = 0
    BY <1>5 DEF FallBack, Ordinary, MapInv, param
  <2>2. built' = [k \in 1 .. pos' - 1 |-> Heads[k]]
    BY <2>1
  <2>3. pos' \in 1 .. N + 1 /\ \A k \in 1 .. N : ~(k < pos')
    BY <1>1, <2>1
  <2> QED BY <2>1, <2>2, <2>3 DEF MapInv
<1> QED BY <1>2, <1>3, <1>4, <1>5

LEMMA SequentialKeepsMap ==
  ASSUME call \in Requests, Ordinary, MapInv,
         SequentialStep \/ EndSequential,
         UNCHANGED <<call, N, Heads, BadMembers, MapOutcome>>
  PROVE  MapInv'
<1>1. /\ N \in Nat
      /\ pc = "sequential" /\ UNCHANGED <<values, quotation, collections>> /\ collections = 0
  BY CallFacts DEF Ordinary, SequentialStep, EndSequential, MapInv, param, heap
<1>2. /\ pos \in 1 .. N + 1
      /\ built = [k \in 1 .. pos - 1 |-> Heads[k]]
      /\ \A k \in 1 .. N : k < pos => k \notin BadMembers
  BY <1>1 DEF MapInv
<1>3. CASE SequentialStep
  <2>1. pos \in 1 .. N /\ call.name = "pmap"
    BY <1>1, <1>2, <1>3 DEF SequentialStep, Ordinary
  <2> DEFINE s == OnMember(call.list[pos])
  <2>2. SequentialStack = <<call.list[pos]>> \o call.below
    BY <2>1 DEF SequentialStack
  <2>3. s = Exec(call.quots[1], SequentialStack)
    BY <2>2 DEF OnMember
  <2> HIDE DEF s
  <2>4. CASE pos \in BadMembers
    <3>1. s = Failed
      BY <2>1, <2>4, BadIffFailed DEF s
    <3>2. pc' = "done" /\ outcome' = Error(pos)
      BY <1>3, <2>3, <3>1 DEF SequentialStep, Raise, Error
    <3>3. First(BadMembers) = pos
      <4>1. BadMembers \subseteq 1 .. N
        BY DEF BadMembers
      <4>2. BadMembers \in SUBSET Nat
        BY <1>1, <4>1
      <4>3. \A j \in BadMembers : pos <= j
        BY <1>1, <1>2, <2>1, <4>1
      <4> QED BY <2>4, <4>2, <4>3, FirstUnique
    <3>4. MapOutcome = Error(pos)
      BY <2>4, <3>3 DEF MapOutcome
    <3> QED BY <1>1, <3>2, <3>4 DEF MapInv
  <2>5. CASE pos \notin BadMembers
    <3>1. s # Failed /\ s # <<>> /\ Head(s) = Heads[pos]
      BY <2>1, <2>5, BadIffFailed DEF s
    <3>2. built' = Append(built, Heads[pos]) /\ pos' = pos + 1 /\ pc' = pc
      BY <1>3, <2>1, <2>3, <3>1 DEF SequentialStep
    <3>3. built' = [k \in 1 .. pos |-> Heads[k]]
      <4> DEFINE g == Heads
      <4> HIDE DEF g
      <4>1. Append([k \in 1 .. pos - 1 |-> g[k]], g[pos]) = [k \in 1 .. pos |-> g[k]]
        BY <2>1, Extend
      <4> QED BY <1>2, <3>2, <4>1 DEF g
    <3>4. pos' - 1 = pos /\ pos' \in 1 .. N + 1
      BY <1>1, <2>1, <3>2
    <3>5. \A k \in 1 .. N : k < pos' => k \notin BadMembers
      BY <1>2, <2>1, <2>5, <3>2
    <3> QED BY <1>1, <3>2, <3>3, <3>4, <3>5 DEF MapInv
  <2> QED BY <2>4, <2>5
<1>4. CASE EndSequential
  <2>1. pos = N + 1 /\ pc' = "done" /\ outcome' = Value(built)
    BY <1>1, <1>2, <1>4 DEF EndSequential, Return, Value, Ordinary
  <2>2. BadMembers = {}
    <3>1. BadMembers \subseteq 1 .. N
      BY DEF BadMembers
    <3> QED BY <1>1, <1>2, <2>1, <3>1
  <2>3. built = Heads
    BY <1>1, <1>2, <2>1 DEF Heads
  <2> QED BY <1>1, <2>1, <2>2, <2>3, AllHeads DEF MapInv
<1> QED BY <1>3, <1>4

LEMMA NextMap == CallInv /\ TeamInv /\ CloneInv /\ [Next]_vars => CallInv'
<1> SUFFICES ASSUME CallInv, TeamInv, CloneInv, [Next]_vars PROVE CallInv'
  OBVIOUS
<1>0. UNCHANGED <<call, Ordinary, N, Heads, BadMembers, MapOutcome>>
  BY OrdinaryStable
<1>1. call' \in Requests
  BY <1>0 DEF CallInv
<1>2. ASSUME Ordinary PROVE MapInv'
  <2>0. call \in Requests /\ MapInv
    BY <1>2 DEF CallInv
  <2>1. CASE UNCHANGED vars
    BY <1>0, <2>0, <2>1 DEF vars, param, team, heap, MapInv, TaskRight, Finished, Member
  <2>2. ASSUME NEW w \in Workers, WorkerStep(w) PROVE MapInv'
    BY <1>2, <2>0, <2>2, WorkerKeepsMap
  <2>3. CASE Enter \/ Prepare \/ Clone \/ FallBack
    BY <1>0, <1>2, <2>0, <2>3, SetupKeepsMap
  <2>4. CASE JoinError \/ Join \/ JoinFails
    BY <1>0, <1>2, <2>0, <2>4, RegionKeepsMap
  <2>5. CASE Collect
    BY <1>0, <1>2, <2>0, <2>5, CollectKeepsMap
  <2>6. CASE SequentialStep \/ EndSequential
    BY <1>0, <1>2, <2>0, <2>6, SequentialKeepsMap
  <2>7. CASE Dies
    BY <1>0, <2>0, <2>7, DeathIs DEF Exit, param, MapInv
  <2> QED BY <2>1, <2>2, <2>3, <2>4, <2>5, <2>6, <2>7 DEF Next, ParentStep
<1> QED BY <1>0, <1>1, <1>2 DEF CallInv

(* pmap of any list, by any number of workers, with any number of          *)
(* collections and failed allocations: the results of the members in their *)
(* order, or the error of the first bad one.                                *)
THEOREM MapCorrect == Spec => []MapAsPromised
<1>1. CallInv => MapAsPromised
  BY DEF CallInv, Ordinary, MapInv, MapAsPromised
<1> QED BY <1>1, InitMap, NextMap, InitTeam, NextTeam, InitClones, NextClones, PTL DEF Spec

-----------------------------------------------------------------------------
(* The cursors and the accounts of the clones. *)

(* A sequence of n members, of whatever set. *)
Listed(s, n) == n \in Nat /\ s = [i \in 1 .. n |-> s[i]]

LEMMA ListedSeq ==
  ASSUME NEW s, NEW n, Listed(s, n)
  PROVE  /\ s \in Seq({s[i] : i \in 1 .. n}) /\ Len(s) = n /\ DOMAIN s = 1 .. n
         /\ \A k \in 1 .. n : s[k] \in {s[i] : i \in 1 .. n}
<1> DEFINE S == {s[i] : i \in 1 .. n}
<1>1. n \in Nat /\ s \in [1 .. n -> S]
  BY DEF Listed
<1>2. s \in Seq(S)
  BY <1>1, SeqDef
<1>3. DOMAIN s = 1 .. n /\ \A k \in 1 .. n : s[k] \in S
  BY <1>1
<1> HIDE DEF S
<1>4. Len(s) = n
  BY <1>1, <1>2, <1>3, LenProperties
<1> QED BY <1>2, <1>3, <1>4 DEF S

LEMMA ListedFunction ==
  ASSUME NEW n \in Nat, NEW s, DOMAIN s = 1 .. n, s = [i \in DOMAIN s |-> s[i]]
  PROVE  Listed(s, n)
BY DEF Listed

LEMMA ListedAppend ==
  ASSUME NEW s, NEW n, NEW e, Listed(s, n)
  PROVE  /\ Listed(Append(s, e), n + 1)
         /\ \A i \in 1 .. n : Append(s, e)[i] = s[i]
         /\ Append(s, e)[n + 1] = e
<1> DEFINE S == {s[i] : i \in 1 .. n} \cup {e}
<1>1. s \in Seq(S) /\ Len(s) = n /\ e \in S /\ n \in Nat
  <2>1. {s[i] : i \in 1 .. n} \subseteq S
    OBVIOUS
  <2> HIDE DEF S
  <2>2. s \in Seq(S) /\ Len(s) = n /\ n \in Nat
    BY <2>1, ListedSeq, SeqMonotonic DEF Listed
  <2> QED BY <2>2 DEF S
<1> HIDE DEF S
<1>2. /\ Append(s, e) \in Seq(S) /\ Len(Append(s, e)) = n + 1
      /\ \A i \in 1 .. n : Append(s, e)[i] = s[i]
      /\ Append(s, e)[n + 1] = e
  BY <1>1, AppendProperties
<1>3. Append(s, e) \in [1 .. n + 1 -> S]
  BY <1>2, LenProperties
<1>4. Listed(Append(s, e), n + 1)
  BY <1>1, <1>3 DEF Listed
<1> QED BY <1>2, <1>4

LEMMA ListedConcat ==
  ASSUME NEW s, NEW n, NEW t, NEW m, Listed(s, n), Listed(t, m)
  PROVE  /\ Listed(s \o t, n + m)
         /\ \A i \in 1 .. n + m : (s \o t)[i] = IF i <= n THEN s[i] ELSE t[i - n]
<1> DEFINE S == {s[i] : i \in 1 .. n} \cup {t[i] : i \in 1 .. m}
<1>1. s \in Seq(S) /\ Len(s) = n /\ t \in Seq(S) /\ Len(t) = m /\ n \in Nat /\ m \in Nat
  <2>1. {s[i] : i \in 1 .. n} \subseteq S /\ {t[i] : i \in 1 .. m} \subseteq S
    OBVIOUS
  <2> HIDE DEF S
  <2> QED BY <2>1, ListedSeq, SeqMonotonic DEF Listed
<1> HIDE DEF S
<1>2. /\ s \o t \in Seq(S) /\ Len(s \o t) = n + m
      /\ \A i \in 1 .. n + m : (s \o t)[i] = IF i <= n THEN s[i] ELSE t[i - n]
  BY <1>1, ConcatProperties
<1>3. s \o t \in [1 .. n + m -> S]
  BY <1>2, LenProperties
<1>4. Listed(s \o t, n + m)
  BY <1>1, <1>3 DEF Listed
<1> QED BY <1>2, <1>4

LEMMA ListedEmpty == Listed(<<>>, 0)
BY DEF Listed

LEMMA ListedOne == ASSUME NEW e PROVE Listed(<<e>>, 1) /\ <<e>>[1] = e
BY DEF Listed

Parts == {"enter", "prepare", "clone", "run", "collect", "push",
          "fall back", "sequential", "done", "exit"}

Tasked == {"clone", "run", "collect"}

(* What TypeOK rests on: the lists keep their lengths, the tasks are those *)
(* of the level, and the loops of the parent stop where they should.       *)
CursorInv ==
  /\ call \in Requests
  /\ pc \in Parts
  /\ collections \in 0 .. call.gcs
  /\ outcome.kind \in {"none", "value", "error"}
  /\ Listed(values, Len(values)) /\ Len(values) <= N
  /\ call.name # "preduce" \/ pc = "enter" => Len(values) = N
  /\ call.name = "preduce" /\ pc \notin {"enter", "done", "exit"} => N > 0
  /\ pc = "prepare" => IF call.name = "preduce" THEN Len(values) > 0 ELSE TaskCount > 0
  /\ Listed(task, Len(task))
  /\ DOMAIN child = DOMAIN task
  /\ \A i \in DOMAIN task :
       /\ child[i] \in {"absent", "live", "freed"}
       /\ task[i].state \in {"ready", "copied", "finished"}
       /\ task[i].failed \in BOOLEAN
  /\ next \in 1 .. Len(task) + 1
  /\ pc \in Tasked => Len(task) = TaskCount /\ TaskCount > 0
  /\ pos \in 0 .. N + 3
  /\ pc = "clone" => pos \in 1 .. TaskCount
  /\ pc = "collect" => pos \in 0 .. TaskCount + 1
  /\ pc = "collect" /\ call.name \in {"pfork", "preduce"} =>
       pos >= 1 /\ Listed(results, pos - 1)
  /\ pc = "push" => pos \in 1 .. 2
  /\ pc = "sequential" => pos \in 1 .. N + 1

Typed == CursorInv /\ TeamInv

(* What is known of a request and of the lengths.                          *)
LEMMA Lengths ==
  ASSUME CursorInv
  PROVE  /\ call.name \in {"pmap", "pfilter", "preduce", "pfork"}
         /\ call.list \in Seq(Members) /\ N \in Nat /\ call.gcs \in Nat
         /\ Len(values) \in Nat /\ DOMAIN values = 1 .. Len(values)
         /\ TaskCount \in Nat
         /\ call.name # "pfork" => TaskCount <= N
         /\ call.name = "pfork" => TaskCount = 2
         /\ call.name = "preduce" => TaskCount = Len(values) \div 2
         /\ call.name \in {"pmap", "pfilter"} => TaskCount = N
         /\ Len(task) \in Nat /\ DOMAIN task = 1 .. Len(task)
<1>1. /\ call.name \in {"pmap", "pfilter", "preduce", "pfork"}
      /\ call.list \in Seq(Members) /\ call.gcs \in Nat
  BY RequestsAssumption DEF CursorInv, Calls
<1>2. N \in Nat
  BY <1>1 DEF N
<1>3. Len(values) \in Nat /\ DOMAIN values = 1 .. Len(values)
  BY ListedSeq DEF CursorInv, Listed
<1>4. Len(task) \in Nat /\ DOMAIN task = 1 .. Len(task)
  BY ListedSeq DEF CursorInv, Listed
<1>5. (Len(values) \div 2) \in Nat /\ Len(values) \div 2 <= Len(values)
  BY <1>3
<1>6. CASE call.name = "preduce"
  <2>1. TaskCount = Len(values) \div 2
    BY <1>6 DEF TaskCount
  <2>2. Len(values) <= N
    BY DEF CursorInv
  <2> HIDE DEF N
  <2>3. TaskCount \in Nat /\ TaskCount <= N
    BY <1>2, <1>3, <1>5, <2>1, <2>2
  <2> QED BY <1>1, <1>2, <1>3, <1>4, <1>6, <2>1, <2>3
<1>7. CASE call.name # "preduce"
  BY <1>1, <1>2, <1>3, <1>4, <1>7 DEF CursorInv, TaskCount
<1> QED BY <1>6, <1>7

(* TaskCount depends on the call and the list of inputs only.              *)
LEMMA SameCount == UNCHANGED <<call, values>> => UNCHANGED <<N, TaskCount>>
BY DEF N, TaskCount

(* Tasks and clones change one at a time.                                  *)
LEMMA Tasks ==
  ASSUME NEW f, NEW n, Listed(f, n), NEW i \in 1 .. n, NEW e
  PROVE  /\ Listed([f EXCEPT ![i] = e], n)
         /\ Len([f EXCEPT ![i] = e]) = n /\ DOMAIN [f EXCEPT ![i] = e] = 1 .. n
         /\ \A k \in 1 .. n : [f EXCEPT ![i] = e][k] = IF k = i THEN e ELSE f[k]
<1> DEFINE g == [f EXCEPT ![i] = e]
<1>1. n \in Nat /\ DOMAIN f = 1 .. n /\ f = [k \in 1 .. n |-> f[k]]
  BY ListedSeq DEF Listed
<1>2. g = [k \in 1 .. n |-> IF k = i THEN e ELSE f[k]]
  BY <1>1
<1>3. Listed(g, n)
  BY <1>1, <1>2 DEF Listed
<1> HIDE DEF g
<1>4. Len(g) = n /\ DOMAIN g = 1 .. n
  BY <1>3, ListedSeq
<1>5. \A k \in 1 .. n : g[k] = IF k = i THEN e ELSE f[k]
  BY <1>2
<1> QED BY <1>3, <1>4, <1>5 DEF g

LEMMA Kinds ==
  /\ \A s : Return(s) => outcome'.kind = "value"
  /\ \A i : Raise(i) => outcome'.kind = "error"
BY DEF Return, Raise

LEMMA InitCursor == Init => CursorInv
<1> SUFFICES ASSUME Init PROVE CursorInv
  OBVIOUS
<1>1. call \in Requests /\ call.list \in Seq(Members) /\ call.gcs \in Nat
  BY RequestsAssumption DEF Init, Calls
<1>2. N \in Nat
  BY <1>1 DEF N
<1>3. Listed(values, N)
  BY <1>2 DEF Init, Listed
<1>4. Len(values) = N
  BY <1>3, ListedSeq
<1>5. Len(task) = 0 /\ Listed(task, 0) /\ DOMAIN task = 1 .. 0 /\ DOMAIN child = DOMAIN task
  BY ListedEmpty, ListedSeq DEF Init
<1>6. /\ pc \in Parts /\ pc = "enter" /\ collections = 0 /\ outcome.kind = "none"
      /\ next = 1 /\ pos = 0
  BY DEF Init, Parts
<1> QED BY <1>1, <1>2, <1>3, <1>4, <1>5, <1>6 DEF CursorInv, Tasked

LEMMA WorkerKeepsCursor ==
  ASSUME Typed, NEW w \in Workers, WorkerStep(w)
  PROVE  CursorInv'
<1>0. /\ UNCHANGED <<call, values, quotation, pc, child, collections, results, built, pos, outcome>>
      /\ UNCHANGED <<N, TaskCount>>
  BY SameCount DEF WorkerStep, Take, CopyIn, Run, param, heap
<1>t. CursorInv /\ TeamInv
  BY DEF Typed
<1>1. CASE Take(w)
  <2>1. next <= TaskCount /\ next' = next + 1 /\ task' = task /\ pc = "run"
    BY <1>1 DEF Take
  <2>2. Len(task) = TaskCount
    BY <2>1, <1>t DEF CursorInv, Tasked
  <2>3. next' \in 1 .. Len(task) + 1
    BY <2>1, <2>2, <1>t, Lengths DEF CursorInv
  <2> QED BY <1>0, <1>t, <2>1, <2>3 DEF CursorInv
<1>2. CASE CopyIn(w) \/ Run(w)
  <2>1. worker[w] # 0 /\ pc = "run" /\ next' = next
    BY <1>2, <1>t DEF CopyIn, Run, TeamInv
  <2>2. worker[w] \in 1 .. Len(task)
    BY <2>1, <1>t, Lengths DEF CursorInv, TeamInv
  <2>3. PICK e : /\ task' = [task EXCEPT ![worker[w]] = e]
                 /\ e.state \in {"ready", "copied", "finished"}
                 /\ e.failed \in BOOLEAN
    <3>1. CASE CopyIn(w)
      <4> DEFINE f == [k \in DOMAIN Inputs(worker[w]) |-> CopyOf(Deref(Inputs(worker[w])[k]))]
                 e == [task[worker[w]] EXCEPT !.state = "copied", !.stck = f]
      <4>1. task' = [task EXCEPT ![worker[w]].state = "copied", ![worker[w]].stck = f]
        BY <3>1 DEF CopyIn
      <4>d. worker[w] \in DOMAIN task
        BY <2>2, <1>t, Lengths
      <4>2. task' = [task EXCEPT ![worker[w]] = e]
        BY <4>1, <4>d
      <4>3. e.state \in {"ready", "copied", "finished"}
        BY DEF e
      <4>4. e.failed = task[worker[w]].failed
        OBVIOUS
      <4> QED BY <4>2, <4>3, <4>4, <4>d, <1>t DEF CursorInv
    <3>2. CASE Run(w)
      <4> DEFINE s == Execute(Deref(Quot(worker[w])), task[worker[w]].stck)
                 e == [state |-> "finished", stck |-> IF s = Failed THEN <<>> ELSE s,
                       failed |-> s = Failed]
      <4>1. task' = [task EXCEPT ![worker[w]] = e]
        BY <3>2 DEF Run
      <4>2. e.state = "finished" /\ e.failed \in BOOLEAN
        OBVIOUS
      <4> HIDE DEF e
      <4> QED BY <4>1, <4>2
    <3> QED BY <1>2, <3>1, <3>2
  <2>4. Listed(task, Len(task)) /\ Len(task) \in Nat /\ DOMAIN task = 1 .. Len(task)
    BY <1>t, Lengths DEF CursorInv
  <2>5. /\ Listed(task', Len(task)) /\ Len(task') = Len(task) /\ DOMAIN task' = DOMAIN task
        /\ \A k \in 1 .. Len(task) : task'[k] = IF k = worker[w] THEN e ELSE task[k]
    <3> DEFINE n == Len(task)
               i == worker[w]
    <3>1. Listed(task, n) /\ i \in 1 .. n
      BY <2>2, <2>4
    <3>2. task' = [task EXCEPT ![i] = e]
      BY <2>3
    <3> HIDE DEF n, i
    <3>3. /\ Listed(task', n) /\ Len(task') = n /\ DOMAIN task' = 1 .. n
          /\ \A k \in 1 .. n : task'[k] = IF k = i THEN e ELSE task[k]
      BY <3>1, <3>2, Tasks
    <3> QED BY <3>3, <2>4 DEF n, i
  <2> QED BY <1>0, <1>t, <2>1, <2>3, <2>4, <2>5 DEF CursorInv
<1> QED BY <1>1, <1>2 DEF WorkerStep

(* Enter to Clone: a level has as many tasks as its list has members.      *)
LEMMA SetupKeepsCursor ==
  ASSUME CursorInv, Enter \/ Prepare \/ Clone
  PROVE  CursorInv'
<1>0. UNCHANGED <<call, values, worker, collections, results, N, TaskCount>>
  BY SameCount DEF Enter, Prepare, Clone, param, team, heap
<1>l. /\ call.name \in {"pmap", "pfilter", "preduce", "pfork"}
      /\ N \in Nat /\ Len(values) \in Nat /\ TaskCount \in Nat
      /\ call.name # "pfork" => TaskCount <= N
      /\ call.name = "pfork" => TaskCount = 2
      /\ call.name = "preduce" => TaskCount = Len(values) \div 2
      /\ call.name \in {"pmap", "pfilter"} => TaskCount = N
      /\ Len(task) \in Nat /\ DOMAIN task = 1 .. Len(task)
  BY Lengths
<1>1. CASE Enter
  <2>1. pc' \in {"prepare", "fall back", "done"} /\ outcome'.kind \in {"none", "value", "error"}
    <3>1. outcome'.kind \in {outcome.kind, "value", "error"}
      BY <1>1, Kinds DEF Enter
    <3>2. pc' \in {"prepare", "fall back", "done"}
      BY <1>1 DEF Enter, Return, Raise
    <3> QED BY <3>1, <3>2 DEF CursorInv
  <2>2. pc' = "prepare" =>
          IF call.name = "preduce" THEN Len(values) > 0 ELSE TaskCount > 0
    <3>1. ASSUME pc' = "prepare" PROVE call.name = "pfork" \/ N >= 4
      BY <1>1, <3>1 DEF Enter, Return, Raise
    <3>2. Len(values) = N
      BY <1>1 DEF Enter, CursorInv
    <3> QED BY <3>1, <3>2, <1>l
  <2>3. call.name = "preduce" /\ pc' # "done" => N > 0
    <3>1. ASSUME call.name = "preduce", ~(N > 0) PROVE pc' = "done"
      <4>1. N = 0
        BY <1>l, <3>1
      <4> QED BY <1>1, <3>1, <4>1 DEF Enter, Return, Raise
    <3> QED BY <3>1
  <2> QED BY <1>0, <1>1, <2>1, <2>2, <2>3 DEF Enter, team, CursorInv, Parts, Tasked
<1>2. CASE Prepare
  <2>0. pos' = 1 /\ next' = 1 /\ outcome' = outcome /\ pc = "prepare"
    BY <1>2 DEF Prepare
  <2>1. TaskCount > 0
    <3>1. CASE call.name = "preduce"
      <4>1. Len(values) > 1
        BY <1>2, <3>1 DEF Prepare
      <4>2. TaskCount = Len(values) \div 2 /\ Len(values) \in Nat
        BY <1>l, <3>1
      <4> QED BY <4>1, <4>2
    <3>2. CASE call.name # "preduce"
      BY <1>2, <3>2 DEF Prepare, CursorInv
    <3> QED BY <3>1, <3>2
  <2>2. CASE pc' = "fall back"
    <3>1. UNCHANGED <<task, child>>
      BY <1>2, <2>2 DEF Prepare
    <3>2. next' \in 1 .. Len(task) + 1 /\ pos' \in 0 .. N + 3
      BY <1>l, <2>0
    <3> QED BY <1>0, <2>0, <2>2, <3>1, <3>2 DEF CursorInv, Parts, Tasked
  <2>3. CASE pc' # "fall back"
    <3>1. /\ pc' = "clone"
          /\ task'  = [i \in 1 .. TaskCount |-> NoTask]
          /\ child' = [i \in 1 .. TaskCount |-> "absent"]
      BY <1>2, <2>3 DEF Prepare
    <3>2. Listed(task', TaskCount)
      BY <3>1, <1>l DEF Listed
    <3>3. Len(task') = TaskCount /\ DOMAIN task' = 1 .. TaskCount /\ DOMAIN child' = DOMAIN task'
      BY <3>1, <3>2, ListedSeq
    <3>4. \A i \in DOMAIN task' :
            /\ child'[i] = "absent"
            /\ task'[i].state = "ready"
            /\ task'[i].failed = FALSE
      BY <3>1 DEF NoTask
    <3>5. next' \in 1 .. TaskCount + 1 /\ pos' \in 0 .. N + 3 /\ pos' \in 1 .. TaskCount
      BY <1>l, <2>0, <2>1
    <3> QED BY <1>0, <2>0, <2>1, <3>1, <3>2, <3>3, <3>4, <3>5 DEF CursorInv, Parts, Tasked
  <2> QED BY <2>2, <2>3
<1>3. CASE Clone
  <2>0. /\ pc = "clone" /\ UNCHANGED <<task, next, outcome>>
        /\ pos \in 1 .. TaskCount /\ Len(task) = TaskCount /\ TaskCount > 0
    BY <1>3 DEF Clone, team, CursorInv, Tasked
  <2>1. /\ child' = [child EXCEPT ![pos] = "live"] /\ pos' = pos + 1
        /\ pc' = IF pos = TaskCount THEN "run" ELSE "clone"
    BY <1>3 DEF Clone
  <2>2. DOMAIN child' = DOMAIN child
    BY <2>1
  <2>3. \A i \in DOMAIN task : child'[i] \in {"absent", "live", "freed"}
    BY <2>1 DEF CursorInv
  <2>4. pos' \in 0 .. N + 3 /\ (pc' = "clone" => pos' \in 1 .. TaskCount)
    BY <1>l, <2>0, <2>1
  <2>5. pc' \in {"run", "clone"}
    BY <2>1
  <2> QED BY <1>0, <2>0, <2>2, <2>3, <2>4, <2>5 DEF CursorInv, Parts, Tasked
<1> QED BY <1>1, <1>2, <1>3

(* After the region the clones are released, or the results are collected. *)
LEMMA RegionKeepsCursor ==
  ASSUME CursorInv, JoinError \/ Join \/ JoinFails \/ FallBack \/ EndSequential
  PROVE  CursorInv'
<1>0. UNCHANGED <<call, values, task, next, worker, collections, N, TaskCount>>
  BY SameCount DEF JoinError, Join, JoinFails, FallBack, EndSequential, param, team, heap
<1>l. /\ call.name \in {"pmap", "pfilter", "preduce", "pfork"}
      /\ N \in Nat /\ TaskCount \in Nat
      /\ call.name # "pfork" => TaskCount <= N
      /\ call.name = "pfork" => TaskCount = 2
  BY Lengths
<1>c. /\ DOMAIN child' = DOMAIN child
      /\ \A i \in DOMAIN child : child'[i] \in {child[i], "freed"}
  BY DEF JoinError, Join, JoinFails, FallBack, EndSequential, Release
<1>1. CASE JoinError \/ JoinFails \/ EndSequential
  <2>1. pc' \in {"done", "fall back"} /\ outcome'.kind \in {"none", "value", "error"} /\ pos' = pos
    <3>1. outcome'.kind \in {outcome.kind, "value", "error"}
      BY <1>1, Kinds DEF JoinError, JoinFails, EndSequential
    <3>2. pc' \in {"done", "fall back"} /\ pos' = pos
      BY <1>1 DEF JoinError, JoinFails, EndSequential, Return, Raise
    <3> QED BY <3>1, <3>2 DEF CursorInv
  <2>2. pc \notin {"enter", "done", "exit"}
    BY <1>1 DEF JoinError, JoinFails, EndSequential
  <2> QED BY <1>0, <1>c, <2>1, <2>2 DEF CursorInv, Parts, Tasked
<1>2. CASE Join
  <2>1. /\ pc = "run" /\ pc' = "collect" /\ outcome' = outcome /\ results' = <<>>
        /\ pos' = IF call.name \in {"pmap", "pfilter"} THEN TaskCount ELSE 1
    BY <1>2 DEF Join
  <2>2. /\ pos' \in 0 .. N + 3 /\ pos' \in 0 .. TaskCount + 1
        /\ call.name \in {"pfork", "preduce"} => pos' = 1
    BY <1>l, <2>1
  <2>3. call.name \in {"pfork", "preduce"} => Listed(results', pos' - 1)
    BY <2>1, <2>2, ListedEmpty
  <2> QED BY <1>0, <1>c, <2>1, <2>2, <2>3 DEF CursorInv, Parts, Tasked
<1>3. CASE FallBack
  <2>1. pc' = "sequential" /\ outcome' = outcome /\ pc = "fall back"
        /\ IF call.name = "preduce" THEN pos' = 2 ELSE pos' = 1
    BY <1>3 DEF FallBack
  <2>2. pos' \in 1 .. N + 1
    <3>1. call.name = "preduce" => N > 0
      BY <2>1 DEF CursorInv
    <3>2. IF call.name = "preduce" THEN pos' = 2 ELSE pos' = 1
      BY <2>1
    <3>3. pos' \in {1, 2} /\ N \in Nat /\ (pos' = 2 => N > 0)
      BY <1>l, <3>1, <3>2
    <3> HIDE DEF N
    <3> QED BY <3>3
  <2>3. pos' \in 0 .. N + 3
    BY <1>l, <2>2
  <2> QED BY <1>0, <1>c, <2>1, <2>2, <2>3 DEF CursorInv, Parts, Tasked
<1> QED BY <1>1, <1>2, <1>3

(* Another collection, if there may be one.                                *)
LEMMA CountedOne ==
  ASSUME CursorInv, call.gcs \in Nat, NEW gc \in {0, 1}, Allocate(gc)
  PROVE  collections' \in 0 .. call.gcs
<1>1. collections \in 0 .. call.gcs
  BY DEF CursorInv
<1>2. collections + gc <= call.gcs /\ collections' = collections + gc
  BY DEF Allocate
<1> QED BY <1>1, <1>2

(* The results arrive one by one, and the next level has fewer members.    *)
LEMMA CollectKeepsCursor ==
  ASSUME CursorInv, Collect
  PROVE  CursorInv'
<1>0. UNCHANGED <<call, task, next, N>>
  BY DEF Collect, CollectMap, CollectFilter, CollectLocal, PushFork, EndMap, EndFork,
         EndLevel, EndReduce, param, team, heap, N
<1>l. /\ call.name \in {"pmap", "pfilter", "preduce", "pfork"}
      /\ N \in Nat /\ TaskCount \in Nat /\ Len(values) \in Nat /\ call.gcs \in Nat
      /\ call.name # "pfork" => TaskCount <= N
      /\ call.name = "pfork" => TaskCount = 2
      /\ call.name = "preduce" => TaskCount = Len(values) \div 2
      /\ Len(task) \in Nat
  BY Lengths
<1>1. ASSUME NEW gc \in {0, 1}, CollectMap(gc) \/ CollectFilter(gc) PROVE CursorInv'
  <2>1. /\ UNCHANGED <<values, pc, child, results, outcome>> /\ pc = "collect"
        /\ call.name \in {"pmap", "pfilter"}
        /\ pos >= 1 /\ pos' = pos - 1 /\ Allocate(gc)
    BY <1>1 DEF CollectMap, CollectFilter, AllocateIf, param
  <2>2. collections' \in 0 .. call.gcs
    BY <1>l, <2>1, CountedOne
  <2>3. pos' \in 0 .. N + 3 /\ pos' \in 0 .. TaskCount + 1
    BY <1>l, <2>1 DEF CursorInv
  <2>4. TaskCount' = TaskCount
    BY <1>0, <2>1, SameCount
  <2> QED BY <1>0, <2>1, <2>2, <2>3, <2>4 DEF CursorInv
<1>2. ASSUME NEW gc \in {0, 1}, CollectLocal(gc) PROVE CursorInv'
  <2>1. /\ UNCHANGED <<values, pc, child, outcome>> /\ pc = "collect"
        /\ call.name \in {"pfork", "preduce"}
        /\ pos <= TaskCount /\ pos' = pos + 1 /\ Allocate(gc)
        /\ results' = Append(results, Ref(Top(Stck(pos)), collections'))
    BY <1>2 DEF CollectLocal, param
  <2>2. collections' \in 0 .. call.gcs
    BY <1>l, <2>1, CountedOne
  <2>3. pos >= 1 /\ Listed(results, pos - 1) /\ pos \in 0 .. N + 3
    BY <2>1 DEF CursorInv
  <2>4. pos' \in 0 .. N + 3 /\ pos' \in 0 .. TaskCount + 1 /\ pos' >= 1 /\ pos - 1 + 1 = pos' - 1
    BY <1>l, <2>1, <2>3
  <2>5. Listed(results', pos' - 1)
    BY <2>1, <2>3, <2>4, ListedAppend
  <2>6. TaskCount' = TaskCount
    BY <1>0, <2>1, SameCount
  <2> QED BY <1>0, <2>1, <2>2, <2>4, <2>5, <2>6 DEF CursorInv
<1>3. ASSUME NEW gc \in {0, 1}, PushFork(gc) PROVE CursorInv'
  <2>1. /\ UNCHANGED <<values, child>> /\ pc = "push"
        /\ pos' = pos + 1 /\ Allocate(gc)
        /\ IF pos = 2 THEN pc' = "done" /\ outcome'.kind = "value" ELSE UNCHANGED <<pc, outcome>>
    BY <1>3, Kinds DEF PushFork, Return, param
  <2>2. collections' \in 0 .. call.gcs
    BY <1>l, <2>1, CountedOne
  <2>3. pos \in 1 .. 2
    BY <2>1 DEF CursorInv
  <2>4. pos' \in 0 .. N + 3 /\ (pos # 2 => pos' \in 1 .. 2)
    BY <1>l, <2>1, <2>3
  <2>5. TaskCount' = TaskCount
    BY <1>0, <2>1, SameCount
  <2>6. CASE pos = 2
    BY <1>0, <2>1, <2>2, <2>4, <2>5, <2>6 DEF CursorInv, Parts, Tasked
  <2>7. CASE pos # 2
    BY <1>0, <2>1, <2>2, <2>4, <2>5, <2>7 DEF CursorInv, Parts, Tasked
  <2> QED BY <2>6, <2>7
<1>c. Release = [i \in DOMAIN child |-> IF child[i] = "live" THEN "freed" ELSE child[i]]
  BY DEF Release
<1>4. CASE EndMap \/ EndFork
  <2>1. /\ UNCHANGED <<values, collections>> /\ pc = "collect"
        /\ child' = Release
        /\ \/ pc' = "done" /\ outcome'.kind = "value" /\ pos' = pos
           \/ pc' = "push" /\ outcome' = outcome /\ pos' = 1
    BY <1>4, Kinds DEF EndMap, EndFork, Return, param, heap
  <2>2. pos' \in 0 .. N + 3 /\ (pc' = "push" => pos' \in 1 .. 2)
    BY <1>l, <2>1 DEF CursorInv
  <2>3. DOMAIN child' = DOMAIN child /\ \A i \in DOMAIN child : child'[i] \in {child[i], "freed"}
    BY <1>c, <2>1
  <2>4. TaskCount' = TaskCount
    BY <1>0, <2>1, SameCount
  <2> QED BY <1>0, <2>1, <2>2, <2>3, <2>4 DEF CursorInv, Parts, Tasked
<1>5. CASE EndLevel
  <2>1. /\ UNCHANGED <<collections, outcome, pos>> /\ pc = "collect" /\ call.name = "preduce"
        /\ child' = Release /\ pc' = "prepare" /\ pos > TaskCount
        /\ values' = results \o
             IF Len(values) % 2 = 1 THEN <<values[Len(values)]>> ELSE <<>>
    BY <1>5 DEF EndLevel, heap
  <2>2. TaskCount > 0 /\ TaskCount = Len(values) \div 2 /\ pos = TaskCount + 1 /\ Listed(results, TaskCount)
    <3>1. pos \in 0 .. TaskCount + 1 /\ TaskCount > 0
      BY <2>1 DEF CursorInv, Tasked
    <3>2. pos = TaskCount + 1 /\ pos - 1 = TaskCount
      BY <1>l, <2>1, <3>1
    <3> QED BY <1>l, <2>1, <3>1, <3>2 DEF CursorInv
  <2>3. PICK m \in {0, 1} : Listed(values', TaskCount + m) /\ TaskCount + m <= Len(values)
    <3>1. CASE Len(values) % 2 = 1
      <4>1. values' = results \o <<values[Len(values)]>>
        BY <2>1, <3>1
      <4>2. Listed(values', TaskCount + 1)
        BY <2>2, <4>1, ListedConcat, ListedOne
      <4>3. TaskCount + 1 <= Len(values)
        BY <1>l, <2>2, <3>1
      <4> QED BY <4>2, <4>3
    <3>2. CASE Len(values) % 2 # 1
      <4>1. values' = results \o <<>>
        BY <2>1, <3>2
      <4>2. Listed(values', TaskCount + 0)
        BY <2>2, <4>1, ListedConcat, ListedEmpty
      <4>3. TaskCount + 0 <= Len(values)
        BY <1>l, <2>2
      <4> QED BY <4>2, <4>3
    <3> QED BY <3>1, <3>2
  <2>4. Len(values') = TaskCount + m
    BY <2>3, ListedSeq
  <2>5. Listed(values', Len(values')) /\ Len(values') <= N /\ Len(values') > 0
    <3>1. Len(values) <= N
      BY DEF CursorInv
    <3> QED BY <1>l, <2>2, <2>3, <2>4, <3>1
  <2>6. DOMAIN child' = DOMAIN child /\ \A i \in DOMAIN child : child'[i] \in {child[i], "freed"}
    BY <1>c, <2>1
  <2> QED BY <1>0, <2>1, <2>5, <2>6 DEF CursorInv, Parts, Tasked
<1>6. CASE EndReduce
  <2>1. /\ UNCHANGED <<values, child, collections, pos>>
        /\ pc' = "done" /\ outcome'.kind = "value"
    BY <1>6, Kinds DEF EndReduce, Return, param, heap
  <2>2. TaskCount' = TaskCount
    BY <1>0, <2>1, SameCount
  <2> QED BY <1>0, <1>6, <2>1, <2>2 DEF EndReduce, CursorInv, Parts, Tasked
<1> QED BY <1>1, <1>2, <1>3, <1>4, <1>5, <1>6 DEF Collect

LEMMA SequentialKeepsCursor ==
  ASSUME CursorInv, SequentialStep
  PROVE  CursorInv'
<1>0. UNCHANGED <<call, values, child, task, next, worker, collections, results, N, TaskCount>>
  BY SameCount DEF SequentialStep, param, team, N
<1>1. /\ pc = "sequential"
      /\ pos <= N
      /\ \/ pc' = "done" /\ outcome'.kind = "error" /\ pos' = pos
         \/ pos' = pos + 1 /\ UNCHANGED <<pc, outcome>>
  BY Kinds DEF SequentialStep, Raise
<1>2. pos \in 0 .. N + 3 /\ pos \in 1 .. N + 1 /\ N \in Nat
  BY <1>1, Lengths DEF CursorInv
<1>3. CASE pc' = "done" /\ outcome'.kind = "error" /\ pos' = pos
  BY <1>0, <1>1, <1>3 DEF CursorInv, Parts, Tasked
<1>4. CASE pos' = pos + 1 /\ UNCHANGED <<pc, outcome>>
  <2>1. pos' \in 1 .. N + 1 /\ pos' \in 0 .. N + 3
    BY <1>1, <1>2, <1>4
  <2> QED BY <1>0, <1>1, <1>4, <2>1 DEF CursorInv
<1> QED BY <1>1, <1>3, <1>4

(* The end of the process moves nothing. *)
LEMMA DeathKeepsCursor ==
  ASSUME CursorInv, Dies
  PROVE  CursorInv'
<1>1. /\ pc' = "exit"
      /\ UNCHANGED <<call, values, child, task, next, collections, results, pos, outcome>>
  BY DeathIs DEF Exit, param, heap
<1>2. UNCHANGED <<N, TaskCount>>
  BY <1>1, SameCount
<1> QED BY <1>1, <1>2 DEF CursorInv, Parts, Tasked

LEMMA NextCursor == Typed /\ [Next]_vars => CursorInv'
<1> SUFFICES ASSUME Typed, [Next]_vars PROVE CursorInv'
  OBVIOUS
<1>0. CursorInv
  BY DEF Typed
<1>1. CASE UNCHANGED vars
  <2>1. UNCHANGED <<N, TaskCount>>
    BY <1>1, SameCount DEF vars, param
  <2> QED BY <1>0, <1>1, <2>1 DEF vars, param, team, heap, CursorInv
<1>2. ASSUME NEW w \in Workers, WorkerStep(w) PROVE CursorInv'
  BY <1>2, WorkerKeepsCursor
<1>3. CASE Enter \/ Prepare \/ Clone
  BY <1>0, <1>3, SetupKeepsCursor
<1>4. CASE JoinError \/ Join \/ JoinFails \/ FallBack \/ EndSequential
  BY <1>0, <1>4, RegionKeepsCursor
<1>5. CASE Collect
  BY <1>0, <1>5, CollectKeepsCursor
<1>6. CASE SequentialStep
  BY <1>0, <1>6, SequentialKeepsCursor
<1>7. CASE Dies
  BY <1>0, <1>7, DeathKeepsCursor
<1> QED BY <1>1, <1>2, <1>3, <1>4, <1>5, <1>6, <1>7 DEF Next, ParentStep

LEMMA TypedOK == Typed => TypeOK
<1> SUFFICES ASSUME Typed PROVE TypeOK
  OBVIOUS
<1>1. CursorInv /\ TeamInv
  BY DEF Typed
<1>2. worker \in [Workers -> 0 .. Len(task)]
  <2>1. next \in 1 .. Len(task) + 1 /\ Len(task) \in Nat
    BY <1>1, Lengths DEF CursorInv
  <2>2. \A w \in Workers : worker[w] \in Nat /\ (worker[w] # 0 => worker[w] < next)
    BY <1>1 DEF TeamInv
  <2>3. \A w \in Workers : worker[w] \in 0 .. Len(task)
    BY <2>1, <2>2
  <2> QED BY <1>1, <2>3 DEF TeamInv
<1>3. N = Len(call.list)
  BY DEF N
<1> QED BY <1>1, <1>2, <1>3 DEF CursorInv, Parts, TypeOK

(* The cursors of the parent and of the workers never leave the arrays of  *)
(* tasks and results (parallel.c indexes them without a check), whatever   *)
(* the lists, the team and the schedule.                                   *)
THEOREM CursorsInRange == Spec => []TypeOK
<1>1. Init => Typed
  BY InitCursor, InitTeam DEF Typed
<1>2. Typed /\ [Next]_vars => Typed'
  BY NextCursor, NextTeam DEF Typed
<1> QED BY <1>1, <1>2, TypedOK, PTL DEF Spec
-----------------------------------------------------------------------------
(* The recursive definitions of the promises. *)

(* A member more or less of what is folded. *)
FoldStep(order, q, s, k, r) == IF k = 1 THEN s[1] ELSE Joined(order, q, r[k - 1], s[k])

Folding(order, q, s, n, f) == f = [k \in 1 .. n |-> FoldStep(order, q, s, k, f)]

LEMMA FoldExists ==
  ASSUME NEW order, NEW q, NEW s, NEW n \in Nat
  PROVE  \E f : Folding(order, q, s, n, f)
<1> DEFINE UpTo(f, m) == \A k \in 1 .. m : f[k] = FoldStep(order, q, s, k, f)
           K == {m \in Nat : \E f : UpTo(f, m)}
<1>1. 0 \in K
  OBVIOUS
<1>2. ASSUME NEW m \in Nat, m \in K PROVE m + 1 \in K
  <2>1. PICK f : UpTo(f, m)
    BY <1>2
  <2> DEFINE g == [k \in 1 .. m + 1 |-> IF k <= m THEN f[k] ELSE FoldStep(order, q, s, k, f)]
  <2>2. ASSUME NEW k \in 1 .. m + 1 PROVE g[k] = FoldStep(order, q, s, k, g)
    <3>1. g[k] = FoldStep(order, q, s, k, f)
      BY <2>1
    <3>2. k # 1 => g[k - 1] = f[k - 1]
      OBVIOUS
    <3> QED BY <3>1, <3>2 DEF FoldStep
  <2> HIDE DEF g
  <2>3. UpTo(g, m + 1)
    BY <2>2
  <2> QED BY <2>3
<1>3. n \in K
  <2> HIDE DEF K
  <2> QED BY <1>1, <1>2, NatInd
<1>4. PICK f : UpTo(f, n)
  BY <1>3
<1> DEFINE g == [k \in 1 .. n |-> f[k]]
<1>5. \A k \in 1 .. n : FoldStep(order, q, s, k, f) = FoldStep(order, q, s, k, g)
  BY DEF FoldStep
<1>6. g = [k \in 1 .. n |-> FoldStep(order, q, s, k, g)]
  BY <1>4, <1>5
<1> QED BY <1>6 DEF Folding

FoldLaw(order, q, s) ==
  /\ Folded(order, q, s)[1] = s[1] \/ Len(s) = 0
  /\ \A k \in 2 .. Len(s) : Folded(order, q, s)[k] = Joined(order, q, Folded(order, q, s)[k - 1], s[k])

LEMMA FoldedIs ==
  ASSUME NEW order, NEW q, NEW s, Len(s) \in Nat
  PROVE  FoldLaw(order, q, s)
<1>1. \A f : Folding(order, q, s, Len(s), f) => Folding(order, q, s, Len(s), Folded(order, q, s))
  BY DEF Folding, Folded, FoldStep
<1>2. Folding(order, q, s, Len(s), Folded(order, q, s))
  BY <1>1, FoldExists
<1> QED BY <1>2 DEF Folding, FoldStep, FoldLaw

PassStep(k, f) ==
  IF k = 0 THEN <<>>
  ELSE IF Zero(Head(OnMember(call.list[k]))) THEN f[k - 1]
  ELSE Append(f[k - 1], call.list[k])

LEMMA PassExists ==
  ASSUME NEW n \in Nat
  PROVE  \E f : f = [k \in 0 .. n |-> PassStep(k, f)]
<1> DEFINE UpTo(f, m) == \A k \in 0 .. m : f[k] = PassStep(k, f)
           K == {m \in Nat : \E f : UpTo(f, m)}
<1>1. 0 \in K
  <2> DEFINE f == [k \in {0} |-> <<>>]
  <2>1. UpTo(f, 0)
    BY DEF PassStep
  <2> QED BY <2>1
<1>2. ASSUME NEW m \in Nat, m \in K PROVE m + 1 \in K
  <2>1. PICK f : UpTo(f, m)
    BY <1>2
  <2> DEFINE g == [k \in 0 .. m + 1 |-> IF k <= m THEN f[k] ELSE PassStep(k, f)]
  <2>2. ASSUME NEW k \in 0 .. m + 1 PROVE g[k] = PassStep(k, g)
    <3>1. g[k] = PassStep(k, f)
      BY <2>1
    <3>2. k # 0 => g[k - 1] = f[k - 1]
      OBVIOUS
    <3> QED BY <3>1, <3>2 DEF PassStep
  <2> HIDE DEF g
  <2>3. UpTo(g, m + 1)
    BY <2>2
  <2> QED BY <2>3
<1>3. n \in K
  <2> HIDE DEF K
  <2> QED BY <1>1, <1>2, NatInd
<1>4. PICK f : UpTo(f, n)
  BY <1>3
<1> DEFINE g == [k \in 0 .. n |-> f[k]]
<1>5. \A k \in 0 .. n : PassStep(k, f) = PassStep(k, g)
  BY DEF PassStep
<1>6. g = [k \in 0 .. n |-> PassStep(k, g)]
  BY <1>4, <1>5
<1> QED BY <1>6

Passing(f) == f = [k \in 0 .. N |-> PassStep(k, f)]

LEMMA PassedIs ==
  ASSUME N \in Nat
  PROVE  \A k \in 0 .. N : Passed[k] = PassStep(k, Passed)
<1>1. \A f : Passing(f) => Passing(Passed)
  BY DEF Passing, Passed, PassStep
<1>2. Passing(Passed)
  BY <1>1, PassExists DEF Passing
<1> QED BY <1>2 DEF Passing

LEMMA PassedType ==
  ASSUME N \in Nat, call.list \in Seq(Members)
  PROVE  \A k \in 0 .. N : Passed[k] \in Seq(Members)
<1> DEFINE K == {k \in Nat : k <= N => Passed[k] \in Seq(Members)}
<1>1. 0 \in K
  <2>1. Passed[0] = <<>>
    BY PassedIs DEF PassStep
  <2>2. <<>> \in Seq(Members)
    OBVIOUS
  <2> QED BY <2>1, <2>2
<1>2. ASSUME NEW k \in Nat, k \in K PROVE k + 1 \in K
  <2>1. k + 1 <= N => k + 1 \in 0 .. N /\ call.list[k + 1] \in Members
    BY DEF N
  <2>2. ASSUME k + 1 <= N PROVE Passed[k + 1] \in Seq(Members)
    <3>1. Passed[k + 1] = PassStep(k + 1, Passed)
      BY <2>1, <2>2, PassedIs
    <3>2. Passed[k + 1] \in {Passed[k], Append(Passed[k], call.list[k + 1])}
      BY <3>1 DEF PassStep
    <3>3. Passed[k] \in Seq(Members)
      BY <1>2, <2>2
    <3>4. \A a \in Seq(Members), x \in Members : Append(a, x) \in Seq(Members)
      OBVIOUS
    <3> QED BY <2>1, <2>2, <3>2, <3>3, <3>4
  <2> QED BY <2>2
<1>3. Nat \subseteq K
  <2> HIDE DEF K
  <2> QED BY <1>1, <1>2, NatInd
<1> QED BY <1>3

(* The members that pass, with one added in front and taken from the end.  *)
LEMMA PassedSplit ==
  ASSUME N \in Nat, call.list \in Seq(Members), NEW p \in 1 .. N, NEW b \in Seq(Members)
  PROVE  Passed[p - 1] \o (IF Zero(Head(OnMember(call.list[p]))) THEN b
                           ELSE <<call.list[p]>> \o b)
         = Passed[p] \o b
<1>1. p - 1 \in 0 .. N /\ p \in 0 .. N /\ call.list[p] \in Members
  BY DEF N
<1>2. Passed[p - 1] \in Seq(Members)
  BY <1>1, PassedType
<1>3. Passed[p] = IF Zero(Head(OnMember(call.list[p]))) THEN Passed[p - 1]
                  ELSE Append(Passed[p - 1], call.list[p])
  BY <1>1, PassedIs DEF PassStep
<1>4. ASSUME NEW a \in Seq(Members), NEW x \in Members
      PROVE  a \o (<<x>> \o b) = Append(a, x) \o b
  OBVIOUS
<1> QED BY <1>1, <1>2, <1>3, <1>4

(* One round of combining neighbours leaves what all together give.        *)
Associative(q, S) ==
  /\ Failed \notin S
  /\ \A x, y \in S : Combine(q, x, y) \in S \cup {Failed}
  /\ \A x, y, z \in S :
       Combine(q, Combine(q, x, y), z) = Combine(q, x, Combine(q, y, z))

JoinLaws(order, q, S) ==
  /\ \A x, y : Failed \in {x, y} => Joined(order, q, x, y) = Failed
  /\ \A x, y \in S : Joined(order, q, x, y) \in S \cup {Failed}
  /\ \A x, y, z \in S : Joined(order, q, Joined(order, q, x, y), z)
                        = Joined(order, q, x, Joined(order, q, y, z))

LEMMA JoinedFacts ==
  ASSUME NEW order, NEW q, NEW S, Associative(q, S)
  PROVE  JoinLaws(order, q, S)
<1>1. \A x, y : Failed \in {x, y} => Combine(q, x, y) = Failed
  BY DEF Combine
<1>2. CASE order = "swapped"
  BY <1>1, <1>2 DEF JoinLaws, Joined, Associative
<1>3. CASE order # "swapped"
  BY <1>1, <1>3 DEF JoinLaws, Joined, Associative
<1> QED BY <1>2, <1>3

LEMMA FoldedType ==
  ASSUME NEW order, NEW q, NEW S, Associative(q, S), NEW n \in Nat, NEW s, Len(s) = n,
         \A i \in 1 .. n : s[i] \in S
  PROVE  \A k \in 1 .. n : Folded(order, q, s)[k] \in S \cup {Failed}
<1> DEFINE F == Folded(order, q, s)
           K == {k \in Nat : k \in 1 .. n => F[k] \in S \cup {Failed}}
<1>j. JoinLaws(order, q, S)
  <2>a. Associative(q, S)
    OBVIOUS
  <2> QED BY ONLY <2>a, JoinedFacts
<1>0. /\ n > 0 => F[1] = s[1]
      /\ \A k \in 2 .. n : F[k] = Joined(order, q, F[k - 1], s[k])
  <2>1. Len(s) \in Nat
    OBVIOUS
  <2>2. FoldLaw(order, q, s)
    BY ONLY <2>1, FoldedIs
  <2> QED BY <2>2 DEF FoldLaw
<1>1. 0 \in K
  OBVIOUS
<1>2. ASSUME NEW k \in Nat, k \in K PROVE k + 1 \in K
  <2>1. CASE k = 0
    BY <1>0, <2>1
  <2>2. CASE k \in 1 .. n - 1
    <3>1. F[k + 1] = Joined(order, q, F[k], s[k + 1]) /\ F[k] \in S \cup {Failed} /\ s[k + 1] \in S
      BY <1>0, <1>2, <2>2
    <3>2. CASE F[k] = Failed
      BY <1>j, <3>1, <3>2 DEF JoinLaws
    <3>3. CASE F[k] \in S
      BY <1>j, <3>1, <3>3 DEF JoinLaws
    <3> QED BY <3>1, <3>2, <3>3
  <2> QED BY <2>1, <2>2
<1>3. Nat \subseteq K
  <2> HIDE DEF K
  <2> QED BY <1>1, <1>2, NatInd
<1> QED BY <1>3

(* What has failed stays so. *)
LEMMA FoldFails ==
  ASSUME NEW order, NEW q, NEW s, NEW n \in Nat, Len(s) = n, NEW p \in 1 .. n, Folded(order, q, s)[p] = Failed
  PROVE  Folded(order, q, s)[n] = Failed
<1> DEFINE F == Folded(order, q, s)
           K == {k \in Nat : k \in p .. n => F[k] = Failed}
<1>0. \A k \in 2 .. n : F[k] = Joined(order, q, F[k - 1], s[k])
  <2>1. Len(s) \in Nat
    OBVIOUS
  <2>2. FoldLaw(order, q, s)
    BY ONLY <2>1, FoldedIs
  <2> QED BY <2>2 DEF FoldLaw
<1>1. 0 \in K
  OBVIOUS
<1>2. ASSUME NEW k \in Nat, k \in K PROVE k + 1 \in K
  <2>1. CASE k + 1 = p
    BY <2>1
  <2>2. CASE k \in p .. n - 1
    <3>1. F[k + 1] = Joined(order, q, F[k], s[k + 1]) /\ F[k] = Failed
      BY <1>0, <1>2, <2>2
    <3> QED BY <3>1 DEF Joined, Combine
  <2> QED BY <2>1, <2>2
<1>3. Nat \subseteq K
  <2> HIDE DEF K
  <2> QED BY <1>1, <1>2, NatInd
<1> QED BY <1>3

Halved(order, q, S, s, n, t, m) ==
  /\ n \in Nat \ {0} /\ Len(s) = n /\ \A i \in 1 .. n : s[i] \in S
  /\ m \in Nat /\ Len(t) = m
  /\ n = 2 * m \/ n = 2 * m - 1
  /\ \A i \in 1 .. n \div 2 : t[i] = Joined(order, q, s[2 * i - 1], s[2 * i]) /\ t[i] # Failed
  /\ n = 2 * m - 1 => t[m] = s[n]

LEMMA HalfFolded ==
  ASSUME NEW order, NEW q, NEW S, Associative(q, S),
         NEW s, NEW n, NEW t, NEW m, Halved(order, q, S, s, n, t, m)
  PROVE  Folded(order, q, t)[m] = Folded(order, q, s)[n]
<1>i. /\ n \in Nat \ {0} /\ Len(s) = n /\ \A i \in 1 .. n : s[i] \in S
      /\ m \in Nat /\ Len(t) = m
      /\ n = 2 * m \/ n = 2 * m - 1
      /\ n = 2 * m - 1 => t[m] = s[n]
  BY DEF Halved
<1>r. \A i \in 1 .. n \div 2 : t[i] = Joined(order, q, s[2 * i - 1], s[2 * i]) /\ t[i] # Failed
  BY DEF Halved
<1> DEFINE F == Folded(order, q, s)
           G == Folded(order, q, t)
           h == n \div 2
           K == {k \in Nat : k \in 1 .. h => G[k] = F[2 * k]}
<1>0. /\ n > 0 => F[1] = s[1]
      /\ \A k \in 2 .. n : F[k] = Joined(order, q, F[k - 1], s[k])
  <2>1. Len(s) \in Nat
    BY <1>i
  <2>2. FoldLaw(order, q, s)
    BY ONLY <2>1, FoldedIs
  <2> QED BY <1>i, <2>2 DEF FoldLaw
<1>1. /\ m > 0 => G[1] = t[1]
      /\ \A k \in 2 .. m : G[k] = Joined(order, q, G[k - 1], t[k])
  <2>1. Len(t) \in Nat
    BY <1>i
  <2>2. FoldLaw(order, q, t)
    BY ONLY <2>1, FoldedIs
  <2> QED BY <1>i, <2>2 DEF FoldLaw
<1>h. /\ h \in Nat /\ 2 * h <= n /\ h <= m
      /\ n = 2 * m => h = m
      /\ n = 2 * m - 1 => h = m - 1
  BY <1>i
<1>2. 0 \in K
  OBVIOUS
<1>t. \A k \in 1 .. n : F[k] \in S \cup {Failed}
  BY <1>i, FoldedType
<1> HIDE DEF F, G, h
<1>3. ASSUME NEW k \in Nat, k \in K PROVE k + 1 \in K
  <2>1. CASE k = 0 /\ k + 1 <= h
    <3>1. G[1] = Joined(order, q, s[1], s[2])
      BY <1>1, <1>h, <1>i, <1>r, <2>1 DEF h
    <3>2. F[2] = Joined(order, q, s[1], s[2])
      BY <1>0, <1>h, <1>i, <2>1
    <3> QED BY <2>1, <3>1, <3>2
  <2>2. CASE k \in 1 .. h - 1
    <3> DEFINE x == F[2 * k]
               y == s[2 * k + 1]
               z == s[2 * k + 2]
    <3>1. G[k + 1] = Joined(order, q, x, Joined(order, q, y, z))
      <4>1. G[k + 1] = Joined(order, q, G[k], t[k + 1])
        BY <1>1, <1>h, <1>i, <2>2
      <4>2. t[k + 1] = Joined(order, q, s[2 * (k + 1) - 1], s[2 * (k + 1)])
        BY <1>h, <1>i, <1>r, <2>2 DEF h
      <4>3. 2 * (k + 1) - 1 = 2 * k + 1 /\ 2 * (k + 1) = 2 * k + 2
        OBVIOUS
      <4>4. G[k] = x
        <5>1. k \in 1 .. h
          BY <1>h, <2>2
        <5> QED BY <1>3, <5>1
      <4> QED BY <4>1, <4>2, <4>3, <4>4
    <3>2. F[2 * k + 2] = Joined(order, q, Joined(order, q, x, y), z)
      <4>1. F[2 * k + 1] = Joined(order, q, x, y)
        <5>1. 2 * k + 1 \in 2 .. n /\ 2 * k + 1 - 1 = 2 * k
          BY <1>h, <1>i, <2>2
        <5> QED BY <1>0, <5>1
      <4>2. F[2 * k + 2] = Joined(order, q, F[2 * k + 1], z)
        <5>1. 2 * k + 2 \in 2 .. n /\ 2 * k + 2 - 1 = 2 * k + 1
          BY <1>h, <1>i, <2>2
        <5> QED BY <1>0, <5>1
      <4> QED BY <4>1, <4>2
    <3>3. x \in S \cup {Failed} /\ y \in S /\ z \in S
      <4>1. 2 * k \in 1 .. n /\ 2 * k + 1 \in 1 .. n /\ 2 * k + 2 \in 1 .. n
        BY <1>h, <1>i, <2>2
      <4> QED BY <1>i, <1>t, <4>1
    <3> HIDE DEF x, y, z
    <3>4. Joined(order, q, Joined(order, q, x, y), z) = Joined(order, q, x, Joined(order, q, y, z))
      <4>1. Associative(q, S)
        OBVIOUS
      <4>2. JoinLaws(order, q, S)
        BY ONLY <4>1, JoinedFacts
      <4> QED BY <3>3, <4>2 DEF JoinLaws
    <3>5. F[2 * (k + 1)] = G[k + 1]
      <4>1. 2 * (k + 1) = 2 * k + 2
        OBVIOUS
      <4> QED BY <3>1, <3>2, <3>4, <4>1
    <3> QED BY <3>5
  <2> QED BY <1>h, <2>1, <2>2
<1>4. Nat \subseteq K
  <2> HIDE DEF K
  <2> QED BY <1>2, <1>3, NatInd
<1>5. CASE n = 2 * m
  <2>1. m \in 1 .. h /\ 2 * m = n
    BY <1>h, <1>i, <1>5
  <2> QED BY <1>4, <2>1 DEF F, G
<1>6. CASE n = 2 * m - 1 /\ m = 1
  BY <1>0, <1>1, <1>i, <1>6 DEF F, G
<1>7. CASE n = 2 * m - 1 /\ m > 1
  <2>1. m - 1 \in 1 .. h /\ 2 * (m - 1) = n - 1 /\ m \in 2 .. m /\ n \in 2 .. n
    BY <1>h, <1>i, <1>7
  <2>2. G[m - 1] = F[n - 1]
    BY <1>4, <2>1
  <2>3. G[m] = Joined(order, q, G[m - 1], t[m]) /\ F[n] = Joined(order, q, F[n - 1], s[n])
    BY <1>0, <1>1, <2>1
  <2> QED BY <1>7, <1>i, <2>2, <2>3 DEF F, G
<1> QED BY <1>i, <1>5, <1>6, <1>7

-----------------------------------------------------------------------------
(* pfilter, preduce and pfork when the parent does not collect during the  *)
(* call: what their tasks have in common.                                  *)

Steady ==
  /\ call.name # "pmap" /\ call.gcs = 0
  /\ \A i \in DOMAIN call.quots : Resolves(call.quots[i])
  /\ call.name \in {"pfilter", "preduce"} => \A i \in 1 .. N : ~Inline(call.list[i])

Current(v) == v = Ref(v.val, 0) /\ v.val # Garbage

(* What task i is given, the quotation it executes and what that makes. *)
Given(i) == [k \in DOMAIN Inputs(i) |-> Inputs(i)[k].val]
Asked(i) == call.quots[IF call.name = "pfork" THEN i ELSE 1]
Made(i)  == Exec(Asked(i), Given(i))

TaskSteady(i) ==
  /\ task[i].state \in {"ready", "copied", "finished"}
  /\ task[i].state # "finished" => ~task[i].failed
  /\ task[i].state = "copied" => task[i].stck = Given(i)
  /\ task[i].state = "finished" => (task[i].failed <=> Made(i) = Failed)
  /\ task[i].state = "finished" /\ ~task[i].failed => task[i].stck = Made(i)

SteadyInv ==
  /\ \A i \in 1 .. Len(values) : Current(values[i])
  /\ call.name = "preduce" => \A i \in 1 .. Len(values) : ~Inline(values[i].val)
  /\ quotation = [i \in 1 .. Len(call.quots) |-> Ref(call.quots[i], 0)]
  /\ pc \in Tasked => \A i \in 1 .. TaskCount : TaskSteady(i)
  /\ pc = "clone" => next = 1
  /\ pc = "run" =>
       \A i \in 1 .. TaskCount : i < next =>
         task[i].state = "finished" \/ \E w \in Workers : worker[w] = i
  /\ pc = "collect" => \A i \in 1 .. TaskCount : Finished(i) /\ child[i] = "live"

LEMMA SteadyFacts ==
  ASSUME CursorInv, Steady
  PROVE  /\ collections = 0 /\ call \in Requests
         /\ call.name \in {"pfilter", "preduce", "pfork"}
         /\ call.list \in Seq(Members) /\ N \in Nat
         /\ \A i \in 1 .. N : call.list[i] \in Members /\ call.list[i] # Garbage
         /\ Len(call.quots) = IF call.name = "pfork" THEN 2 ELSE 1
         /\ \A i \in DOMAIN call.quots : call.quots[i] # Garbage
         /\ DOMAIN call.quots = 1 .. Len(call.quots)
<1>1. /\ call \in Requests
      /\ call.list \in Seq(Members) /\ call.quots \in Seq(Quots)
      /\ Len(call.quots) = IF call.name = "pfork" THEN 2 ELSE 1
      /\ call.name \in {"pmap", "pfilter", "preduce", "pfork"}
  BY RequestsAssumption DEF Calls, CursorInv
<1>2. collections \in 0 .. 0
  BY DEF CursorInv, Steady
<1>3. \A i \in 1 .. N : call.list[i] \in Members
  BY <1>1 DEF N
<1>4. N \in Nat
  BY <1>1 DEF N
<1>5. DOMAIN call.quots = 1 .. Len(call.quots) /\ \A i \in DOMAIN call.quots : call.quots[i] \in Quots
  BY <1>1
<1> QED BY <1>1, <1>2, <1>3, <1>4, <1>5, RequestsAssumption DEF Steady

(* The inputs of a task are among those of the level.                      *)
LEMMA InputsAre ==
  ASSUME CursorInv, Steady, NEW i \in 1 .. TaskCount
  PROVE  \A k \in DOMAIN Inputs(i) : \E j \in 1 .. Len(values) : Inputs(i)[k] = values[j]
<1>l. /\ N \in Nat /\ Len(values) \in Nat /\ DOMAIN values = 1 .. Len(values)
      /\ TaskCount \in Nat
      /\ call.name = "preduce" => TaskCount = Len(values) \div 2
      /\ call.name = "pfilter" => TaskCount = N
      /\ call.name # "preduce" => Len(values) = N
  BY Lengths DEF CursorInv
<1>n. call.name \in {"pfilter", "preduce", "pfork"}
  BY SteadyFacts
<1>1. CASE call.name = "pfork"
  <2>1. Inputs(i) = values
    BY <1>1 DEF Inputs
  <2> QED BY <1>l, <2>1
<1>2. CASE call.name = "preduce"
  <2>1. Inputs(i) = <<values[2 * i - 1], values[2 * i]>>
    BY <1>2 DEF Inputs
  <2>2. 2 * i - 1 \in 1 .. Len(values) /\ 2 * i \in 1 .. Len(values)
    BY <1>l, <1>2
  <2> QED BY <2>1, <2>2
<1>3. CASE call.name = "pfilter"
  <2>1. Inputs(i) = <<values[i]>> /\ i \in 1 .. Len(values)
    BY <1>3, <1>l DEF Inputs
  <2> QED BY <2>1
<1> QED BY <1>n, <1>1, <1>2, <1>3

LEMMA SteadyReads ==
  ASSUME CursorInv, Steady, SteadyInv, NEW i \in 1 .. TaskCount
  PROVE  /\ [k \in DOMAIN Inputs(i) |-> CopyOf(Deref(Inputs(i)[k]))] = Given(i)
         /\ Deref(Quot(i)) = Asked(i)
         /\ Execute(Asked(i), Given(i)) = Made(i)
<1>f. /\ collections = 0 /\ Len(call.quots) = IF call.name = "pfork" THEN 2 ELSE 1
      /\ \A k \in DOMAIN call.quots : call.quots[k] # Garbage /\ Resolves(call.quots[k])
      /\ DOMAIN call.quots = 1 .. Len(call.quots)
  BY SteadyFacts DEF Steady
<1>1. ASSUME NEW k \in DOMAIN Inputs(i)
      PROVE  Inputs(i)[k] = Ref(Inputs(i)[k].val, 0) /\ Inputs(i)[k].val # Garbage
  <2>1. PICK j \in 1 .. Len(values) : Inputs(i)[k] = values[j]
    BY InputsAre
  <2> QED BY <2>1 DEF SteadyInv, Current
<1>2. \A k \in DOMAIN Inputs(i) : Deref(Inputs(i)[k]) = Inputs(i)[k].val
  BY <1>f, <1>1 DEF Deref, Read, Ref
<1>c. ASSUME NEW k \in DOMAIN Inputs(i) PROVE CopyOf(Deref(Inputs(i)[k])) = Inputs(i)[k].val
  <2>1. PICK j \in 1 .. Len(values) : Inputs(i)[k] = values[j]
    BY InputsAre
  <2>2. call.name = "preduce" => ~Inline(Inputs(i)[k].val)
    BY <2>1 DEF SteadyInv
  <2> QED BY <1>2, <2>2 DEF CopyOf, Renewed
<1>q. (IF call.name = "pfork" THEN i ELSE 1) \in 1 .. Len(call.quots)
  BY <1>f, Lengths DEF Steady
<1>3. Quot(i) = Ref(Asked(i), 0)
  BY <1>q DEF Quot, Asked, SteadyInv
<1>4. Deref(Quot(i)) = Asked(i)
  BY <1>f, <1>3 DEF Deref, Read, Ref
<1>5. Asked(i) # Garbage /\ Resolves(Asked(i))
  BY <1>f, <1>q DEF Asked
<1>6. ~ \E k \in DOMAIN Given(i) : Given(i)[k] = Garbage
  BY <1>1 DEF Given
<1> QED BY <1>c, <1>4, <1>5, <1>6 DEF Given, Execute, Made

(* What does not depend on where the call is. *)
LEMMA SteadySame ==
  UNCHANGED call => (Steady' <=> Steady) /\ UNCHANGED N
BY DEF Steady, Resolves, N

LEMMA MadeSame ==
  UNCHANGED <<call, values>> =>
    \A i : UNCHANGED <<Given(i), Asked(i), Made(i)>>
BY DEF Given, Asked, Made, Inputs

LEMMA WorkerKeepsSteady ==
  ASSUME Typed, Steady, SteadyInv, NEW w \in Workers, WorkerStep(w)
  PROVE  SteadyInv'
<1>0. UNCHANGED <<call, values, quotation, pc, child>>
  BY DEF WorkerStep, Take, CopyIn, Run, param
<1>m. UNCHANGED TaskCount /\ \A i : UNCHANGED <<Given(i), Asked(i), Made(i)>>
  BY <1>0, SameCount, MadeSame
<1>w. worker[w] # 0 => pc = "run" /\ worker[w] \in 1 .. TaskCount
  <2>1. SUFFICES ASSUME worker[w] # 0 PROVE pc = "run" /\ worker[w] \in 1 .. TaskCount
    OBVIOUS
  <2>2. pc = "run" /\ worker[w] \in Nat /\ worker[w] < next /\ next \in 1 .. Len(task) + 1
    BY <2>1 DEF Typed, TeamInv, CursorInv
  <2>3. Len(task) = TaskCount /\ TaskCount \in Nat
    BY <2>2, Lengths DEF Typed, CursorInv, Tasked
  <2> QED BY <2>1, <2>2, <2>3
<1>d. pc = "run" => DOMAIN task = 1 .. TaskCount
  BY Lengths DEF Typed, CursorInv, Tasked
<1>1. CASE Take(w)
  <2>1. pc = "run" /\ worker[w] = 0 /\ UNCHANGED task
        /\ worker' = [worker EXCEPT ![w] = next] /\ next' = next + 1
    BY <1>1 DEF Take
  <2>2. ASSUME NEW i \in 1 .. TaskCount, i < next' PROVE
          task[i].state = "finished" \/ \E v \in Workers : worker'[v] = i
    <3>1. CASE i = next
      BY <2>1, <3>1 DEF Typed, TeamInv
    <3>2. CASE i # next
      <4>1. i < next
        BY <2>1, <2>2, <3>2 DEF Typed, TeamInv
      <4>2. task[i].state = "finished" \/ \E v \in Workers \ {w} : worker[v] = i
        BY <2>1, <4>1 DEF SteadyInv
      <4> QED BY <2>1, <4>2 DEF Typed, TeamInv
    <3> QED BY <3>1, <3>2
  <2>3. \A i : TaskSteady(i)' <=> TaskSteady(i)
    BY <1>m, <2>1 DEF TaskSteady
  <2> QED BY <1>0, <1>m, <2>1, <2>2, <2>3 DEF SteadyInv
<1>2. CASE CopyIn(w)
  <2>i. worker[w] # 0
    BY <1>2 DEF CopyIn
  <2>w. PICK i \in 1 .. TaskCount : i = worker[w]
    BY <1>w, <2>i
  <2>1. pc = "run" /\ i \in 1 .. TaskCount /\ DOMAIN task = 1 .. TaskCount /\ task[i].state = "ready"
    BY <1>2, <1>w, <1>d, <2>w, <2>i DEF CopyIn
  <2>2. TaskSteady(i)
    BY <2>1 DEF SteadyInv, Tasked
  <2>3. UNCHANGED <<next, worker>>
    BY <1>2 DEF CopyIn
  <2>4. /\ \A j \in 1 .. TaskCount : j # i => task'[j] = task[j]
        /\ task'[i].state = "copied" /\ task'[i].failed = task[i].failed
        /\ task'[i].stck = [k \in DOMAIN Inputs(i) |-> CopyOf(Deref(Inputs(i)[k]))]
    BY <1>2, <2>1, <2>w DEF CopyIn
  <2>5. task'[i].stck = Given(i)
    BY <2>1, <2>4, SteadyReads DEF Typed
  <2>6. TaskSteady(i)'
    BY <1>m, <2>1, <2>2, <2>4, <2>5 DEF TaskSteady
  <2>7. \A j \in 1 .. TaskCount : TaskSteady(j)'
    <3> SUFFICES ASSUME NEW j \in 1 .. TaskCount, j # i PROVE TaskSteady(j)'
      BY <2>6
    <3>1. task'[j] = task[j] /\ TaskSteady(j)
      BY <2>1, <2>4 DEF SteadyInv, Tasked
    <3> QED BY <1>m, <3>1 DEF TaskSteady
  <2>8. \A j \in 1 .. TaskCount : task[j].state = "finished" => task'[j].state = "finished"
    BY <2>1, <2>4
  <2> QED BY <1>0, <1>m, <2>1, <2>3, <2>7, <2>8 DEF SteadyInv
<1>3. CASE Run(w)
  <2>i. worker[w] # 0
    BY <1>3 DEF Run
  <2>w. PICK i \in 1 .. TaskCount : i = worker[w]
    BY <1>w, <2>i
  <2>1. pc = "run" /\ i \in 1 .. TaskCount /\ DOMAIN task = 1 .. TaskCount /\ task[i].state = "copied"
    BY <1>3, <1>w, <1>d, <2>w, <2>i DEF Run
  <2>2. TaskSteady(i)
    BY <2>1 DEF SteadyInv, Tasked
  <2>3. next' = next /\ worker' = [worker EXCEPT ![w] = 0]
    BY <1>3 DEF Run
  <2>4. Execute(Deref(Quot(i)), task[i].stck) = Made(i)
    BY <2>1, <2>2, SteadyReads DEF Typed, TaskSteady
  <2>5. /\ \A j \in 1 .. TaskCount : j # i => task'[j] = task[j]
        /\ task'[i].state = "finished"
        /\ task'[i].failed = (Made(i) = Failed)
        /\ Made(i) # Failed => task'[i].stck = Made(i)
    BY <1>3, <2>1, <2>4, <2>w DEF Run
  <2>6. TaskSteady(i)'
    <3>1. Made(i)' = Made(i)
      BY <1>m
    <3> QED BY <2>5, <3>1 DEF TaskSteady
  <2>7. \A j \in 1 .. TaskCount : TaskSteady(j)'
    <3> SUFFICES ASSUME NEW j \in 1 .. TaskCount, j # i PROVE TaskSteady(j)'
      BY <2>6
    <3>1. task'[j] = task[j] /\ TaskSteady(j)
      BY <2>1, <2>5 DEF SteadyInv, Tasked
    <3> QED BY <1>m, <3>1 DEF TaskSteady
  <2>8. ASSUME NEW j \in 1 .. TaskCount, j < next PROVE
          task'[j].state = "finished" \/ \E v \in Workers : worker'[v] = j
    <3>1. CASE j = i
      BY <2>5, <3>1
    <3>2. CASE j # i
      <4>1. task[j].state = "finished" \/ \E v \in Workers \ {w} : worker[v] = j
        BY <2>1, <2>8, <2>w, <3>2 DEF SteadyInv
      <4> QED BY <2>3, <2>5, <3>2, <4>1 DEF Typed, TeamInv
    <3> QED BY <3>1, <3>2
  <2> QED BY <1>0, <1>m, <2>1, <2>3, <2>7, <2>8 DEF SteadyInv
<1> QED BY <1>1, <1>2, <1>3 DEF WorkerStep

(* At the end of the region every task has what its quotation makes.       *)
LEMMA RegionSteady ==
  ASSUME Typed, Steady, SteadyInv, pc = "run", RegionEnds
  PROVE  /\ \A i \in 1 .. TaskCount : TaskSteady(i) /\ task[i].state = "finished"
         /\ FailedTasks = {i \in 1 .. TaskCount : Made(i) = Failed}
<1>1. TaskCount \in Nat /\ next \in Nat /\ next > TaskCount /\ DOMAIN task = 1 .. TaskCount
  BY Lengths DEF Typed, TeamInv, CursorInv, Tasked, RegionEnds
<1>2. ASSUME NEW i \in 1 .. TaskCount PROVE TaskSteady(i) /\ task[i].state = "finished"
  <2>1. TaskSteady(i)
    BY DEF SteadyInv, Tasked
  <2>2. i < next /\ i # 0
    BY <1>1
  <2>3. ~ \E w \in Workers : worker[w] = i
    BY <2>2 DEF RegionEnds
  <2> QED BY <2>1, <2>2, <2>3 DEF SteadyInv
<1>3. \A i \in 1 .. TaskCount : task[i].failed <=> Made(i) = Failed
  BY <1>2 DEF TaskSteady
<1> QED BY <1>1, <1>2, <1>3 DEF FailedTasks

(* The steps of the parent, but for the end of a level of preduce.         *)
LEMMA ParentKeepsSteady ==
  ASSUME Typed, CloneInv, Steady, SteadyInv, ParentStep, ~EndLevel
  PROVE  SteadyInv'
<1>0. UNCHANGED <<call, values, quotation>>
  BY DEF ParentStep, Enter, Prepare, Clone, JoinError, Join, JoinFails, FallBack,
     SequentialStep, EndSequential, Collect, CollectMap, CollectFilter, CollectLocal,
     PushFork, EndMap, EndFork, EndReduce, param
<1>m. UNCHANGED TaskCount /\ \A i : UNCHANGED <<Given(i), Asked(i), Made(i)>>
  BY <1>0, SameCount, MadeSame
<1>c. TaskCount \in Nat
  BY Lengths DEF Typed
<1>1. CASE pc' \notin Tasked
  BY <1>0, <1>m, <1>1 DEF SteadyInv, Tasked
<1>2. CASE Prepare /\ pc' = "clone"
  <2>1. task' = [i \in 1 .. TaskCount |-> NoTask] /\ next' = 1
    BY <1>2 DEF Prepare
  <2>2. \A i \in 1 .. TaskCount : TaskSteady(i)'
    BY <2>1 DEF TaskSteady, NoTask
  <2> QED BY <1>0, <1>m, <1>2, <2>1, <2>2 DEF SteadyInv
<1>3. CASE Clone
  <2>1. UNCHANGED <<task, next>> /\ pc = "clone" /\ pc' \in {"clone", "run"} /\ next = 1
    BY <1>3 DEF Clone, team, SteadyInv, Tasked
  <2>2. \A i \in 1 .. TaskCount : TaskSteady(i)'
    BY <1>m, <2>1 DEF TaskSteady, SteadyInv, Tasked
  <2>3. \A i \in 1 .. TaskCount : ~(i < next')
    BY <1>c, <2>1
  <2> QED BY <1>0, <1>m, <2>1, <2>2, <2>3 DEF SteadyInv
<1>4. CASE Join
  <2>1. UNCHANGED <<task, child>> /\ pc' = "collect" /\ pc = "run" /\ RegionEnds /\ FailedTasks = {}
    BY <1>4 DEF Join, team
  <2>2. \A i \in 1 .. TaskCount : TaskSteady(i) /\ task[i].state = "finished"
    BY <2>1, RegionSteady
  <2>3. DOMAIN task = 1 .. TaskCount /\ DOMAIN child = 1 .. TaskCount
    BY <2>1, Lengths DEF Typed, CursorInv, Tasked
  <2>4. \A i \in 1 .. TaskCount : Finished(i) /\ child[i] = "live"
    BY <2>1, <2>2, <2>3 DEF Finished, FailedTasks, CloneInv
  <2>5. \A i \in 1 .. TaskCount : TaskSteady(i)' /\ Finished(i)' /\ child'[i] = "live"
    BY <1>m, <2>1, <2>2, <2>4 DEF TaskSteady, Finished
  <2> QED BY <1>0, <1>m, <2>1, <2>5 DEF SteadyInv
<1>5. CASE Collect /\ pc' = "collect"
  <2>1. UNCHANGED <<task, child, pc>>
    BY <1>5 DEF Collect, CollectMap, CollectFilter, CollectLocal, PushFork, Return,
       EndMap, EndFork, EndReduce, team
  <2>2. \A i \in 1 .. TaskCount : TaskSteady(i)' /\ Finished(i)' /\ child'[i] = "live"
    BY <1>m, <1>5, <2>1 DEF TaskSteady, Finished, SteadyInv, Tasked
  <2> QED BY <1>0, <1>m, <1>5, <2>2 DEF SteadyInv
<1>6. ParentStep /\ pc' \in Tasked =>
        (Prepare /\ pc' = "clone") \/ Clone \/ Join \/ (Collect /\ pc' = "collect")
  BY DEF ParentStep, Enter, Prepare, Clone, JoinError, Join, JoinFails, FallBack, Return, Raise,
     SequentialStep, EndSequential, Collect, CollectMap, CollectFilter, CollectLocal,
     PushFork, EndMap, EndFork, EndReduce, EndLevel, Tasked
<1> QED BY <1>1, <1>2, <1>3, <1>4, <1>5, <1>6

-----------------------------------------------------------------------------
(* pfilter: what is built is an end of the list of those that pass.        *)

FilterInv ==
  /\ values = [i \in 1 .. N |-> Ref(call.list[i], 0)]
  /\ pc # "push"
  /\ pc = "collect" =>
       /\ BadMembers = {} /\ pos \in 0 .. N
       /\ built \in Seq(Members)
       /\ Passed[pos] \o built = Passed[N]
  /\ pc = "sequential" =>
       /\ pos \in 1 .. N + 1
       /\ built = Passed[pos - 1]
       /\ \A k \in 1 .. N : k < pos => k \notin BadMembers
  /\ pc = "done" => outcome = FilterOutcome

Filters == Steady /\ call.name = "pfilter" /\ LooksAtMembers(call) /\ Tests(call)

LEMMA FilterFacts ==
  ASSUME CursorInv, Filters, NEW i \in 1 .. N
  PROVE  /\ i \in BadMembers <=> Member(i) = Failed
         /\ Member(i) # <<>>
         /\ OnMember(call.list[i]) = Failed <=> i \in BadMembers
         /\ OnMember(call.list[i]) # <<>>
         /\ i \notin BadMembers =>
              /\ Head(OnMember(call.list[i])) = Head(Member(i))
              /\ Truths(Head(Member(i))) = {~Zero(Head(OnMember(call.list[i])))}
BY DEF Filters, LooksAtMembers, Tests, BadMembers, Member, OnMember, N

LEMMA FilterTasks ==
  ASSUME CursorInv, Filters, FilterInv
  PROVE  TaskCount = N /\ Len(values) = N /\ \A i \in 1 .. N : Made(i) = Member(i)
<1>1. TaskCount = N /\ N \in Nat
  BY Lengths DEF Filters
<1>2. ASSUME NEW i \in 1 .. N PROVE Made(i) = Member(i)
  <2>1. Inputs(i) = <<values[i]>> /\ values[i].val = call.list[i]
    BY <1>2 DEF Inputs, Filters, FilterInv, Ref
  <2>2. Given(i) = <<call.list[i]>>
    BY <2>1 DEF Given
  <2> QED BY <2>2 DEF Made, Asked, Member, Filters
<1>3. Len(values) = N
  BY DEF CursorInv, Filters
<1> QED BY <1>1, <1>2, <1>3

LEMMA PassedAll ==
  ASSUME Filters, BadMembers = {}
  PROVE  FilterOutcome = Value(Passed[N])
BY DEF FilterOutcome

LEMMA FilterSame == UNCHANGED call => UNCHANGED <<Passed, BadMembers, FilterOutcome, N>>
BY DEF Passed, BadMembers, FilterOutcome, N, OnMember

LEMMA FilterStep ==
  ASSUME Typed, CloneInv, Filters, SteadyInv, FilterInv, Next
  PROVE  FilterInv'
<1>f. /\ collections = 0 /\ N \in Nat /\ call \in Requests /\ call.list \in Seq(Members)
      /\ TaskCount = N /\ \A i \in 1 .. N : Made(i) = Member(i)
      /\ call.name = "pfilter"
  BY SteadyFacts, FilterTasks DEF Typed, Filters
<1>0. UNCHANGED <<call, values>>
  BY <1>f, DeathKeeps DEF Next, ParentStep, Enter, Prepare, Clone, JoinError, Join, JoinFails, FallBack,
     SequentialStep, EndSequential, Collect, CollectMap, CollectFilter, CollectLocal,
     PushFork, EndMap, EndFork, EndLevel, EndReduce, param, WorkerStep, Take, CopyIn, Run
<1>s. UNCHANGED <<Passed, BadMembers, FilterOutcome, N>>
  BY <1>0, FilterSame
<1>1. CASE pc' \in {"enter", "prepare", "clone", "run", "fall back", "exit"}
  BY <1>0, <1>s, <1>1 DEF FilterInv
<1>2. ASSUME NEW w \in Workers, WorkerStep(w) PROVE FilterInv'
  BY <1>0, <1>s, <1>2 DEF WorkerStep, Take, CopyIn, Run, heap, FilterInv
<1>3. CASE Enter /\ pc' = "done"
  <2>1. N = 0 /\ outcome' = Value(<<>>)
    BY <1>3, <1>f DEF Enter, Return, Value
  <2>2. BadMembers = {}
    BY <2>1 DEF BadMembers
  <2>3. Passed[N] = <<>>
    BY <2>1, PassedIs DEF PassStep
  <2> QED BY <1>0, <1>s, <1>3, <2>1, <2>2, <2>3, PassedAll DEF FilterInv
<1>4. CASE JoinError
  <2>1. outcome' = Error(First(FailedTasks)) /\ pc' = "done" /\ FailedTasks # {}
        /\ pc = "run" /\ RegionEnds
    BY <1>4 DEF JoinError, Raise, Error
  <2>2. FailedTasks = {i \in 1 .. N : Made(i) = Failed}
    BY <1>f, <2>1, RegionSteady DEF Filters
  <2>3. BadMembers \subseteq 1 .. N
    BY DEF BadMembers
  <2>4. FailedTasks = BadMembers
    BY <1>f, <2>2, <2>3, FilterFacts DEF Typed
  <2> QED BY <1>0, <1>s, <2>1, <2>4 DEF FilterInv, FilterOutcome
<1>5. CASE Join
  <2>1. pc' = "collect" /\ pos' = N /\ built' = <<>> /\ FailedTasks = {}
        /\ pc = "run" /\ RegionEnds
    BY <1>5, <1>f DEF Join
  <2>2. FailedTasks = {i \in 1 .. N : Made(i) = Failed}
    BY <1>f, <2>1, RegionSteady DEF Filters
  <2>3. BadMembers = {}
    <3>1. BadMembers \subseteq 1 .. N
      BY DEF BadMembers
    <3> QED BY <1>f, <2>1, <2>2, <3>1, FilterFacts DEF Typed
  <2>4. Passed[N] \in Seq(Members)
    BY <1>f, PassedType
  <2>5. Passed[N] \o <<>> = Passed[N]
    BY <2>4
  <2>6. N \in 0 .. N /\ <<>> \in Seq(Members)
    BY <1>f
  <2> QED BY <1>0, <1>s, <2>1, <2>3, <2>5, <2>6 DEF FilterInv
<1>6. ASSUME NEW gc \in {0, 1}, CollectFilter(gc) PROVE FilterInv'
  <2>1. /\ pc = "collect" /\ UNCHANGED pc /\ pos >= 1 /\ pos' = pos - 1
        /\ collections' \in 0 .. call.gcs
    BY <1>6, <1>f, CountedOne DEF CollectFilter, AllocateIf, Typed, Filters, Steady
  <2>k. PICK keep \in Keeps(pos) :
          built' = IF keep THEN <<Renewed(Read(values[pos], collections'))>> \o built ELSE built
    BY <1>6 DEF CollectFilter
  <2>2. pos \in 1 .. N /\ built \in Seq(Members) /\ Passed[pos] \o built = Passed[N]
        /\ BadMembers = {}
    BY <2>1, <1>f DEF FilterInv
  <2>3. Stck(pos) = Member(pos)
    <3>1. TaskSteady(pos) /\ Finished(pos) /\ child[pos] = "live"
      BY <1>f, <2>1, <2>2 DEF SteadyInv, Tasked
    <3> QED BY <1>f, <2>2, <3>1 DEF Stck, TaskSteady, Finished
  <2>4. keep <=> ~Zero(Head(OnMember(call.list[pos])))
    <3>1. Keeps(pos) = {~Zero(Head(OnMember(call.list[pos])))}
      BY <2>2, <2>3, FilterFacts DEF Keeps, Typed
    <3> QED BY <2>k, <3>1
  <2>5. Renewed(Read(values[pos], collections')) = call.list[pos]
    <3>1. Read(values[pos], collections') = call.list[pos]
      BY <2>1, <2>2 DEF FilterInv, Read, Ref, Filters, Steady
    <3>2. ~Inline(call.list[pos])
      BY <2>2 DEF Filters, Steady
    <3> QED BY <3>1, <3>2 DEF Renewed
  <2>6. built' = IF Zero(Head(OnMember(call.list[pos]))) THEN built ELSE <<call.list[pos]>> \o built
    BY <2>k, <2>4, <2>5
  <2>7. Passed[pos - 1] \o built' = Passed[N]
    BY <1>f, <2>2, <2>6, PassedSplit
  <2>8. call.list[pos] \in Members
    BY <1>f, <2>2 DEF N
  <2>9. built' \in Seq(Members)
    BY <2>2, <2>6, <2>8
  <2>10. Passed[pos'] \o built' = Passed[N]
    BY <2>1, <2>7
  <2>11. pos' \in 0 .. N
    BY <1>f, <2>1, <2>2
  <2> QED BY <1>0, <1>s, <2>1, <2>2, <2>9, <2>10, <2>11 DEF FilterInv
<1>7. CASE EndMap
  <2>1. pc = "collect" /\ pos = 0 /\ outcome' = Value(built) /\ pc' = "done"
    BY <1>7 DEF EndMap, Return, Value
  <2>2. Passed[0] \o built = Passed[N] /\ built \in Seq(Members) /\ BadMembers = {}
    BY <2>1 DEF FilterInv
  <2>3. Passed[0] = <<>>
    BY <1>f, PassedIs DEF PassStep
  <2>4. built = Passed[N]
    BY <2>2, <2>3
  <2> QED BY <1>0, <1>s, <2>1, <2>2, <2>4, PassedAll DEF FilterInv
<1>8. CASE FallBack
  <2>1. pc' = "sequential" /\ built' = <<>> /\ pos' = 1
    BY <1>8, <1>f DEF FallBack
  <2>2. Passed[0] = <<>>
    BY <1>f, PassedIs DEF PassStep
  <2>3. \A k \in 1 .. N : ~(k < 1)
    BY <1>f
  <2>4. 1 \in 1 .. N + 1 /\ 1 - 1 = 0
    BY <1>f
  <2> QED BY <1>0, <1>s, <2>1, <2>2, <2>3, <2>4 DEF FilterInv
<1>9. CASE SequentialStep
  <2>1. pc = "sequential" /\ pos \in 1 .. N /\ built = Passed[pos - 1]
        /\ \A k \in 1 .. N : k < pos => k \notin BadMembers
    BY <1>9, <1>f DEF SequentialStep, FilterInv
  <2> DEFINE s == OnMember(call.list[pos])
  <2>2. s = Exec(call.quots[1], SequentialStack)
    BY <1>f DEF SequentialStack, OnMember
  <2>f. /\ pos \in BadMembers <=> s = Failed
        /\ s # <<>>
    BY <2>1, FilterFacts DEF Typed
  <2> HIDE DEF s
  <2>3. CASE pos \in BadMembers
    <3>1. pc' = "done" /\ outcome' = Error(pos)
      BY <1>9, <2>2, <2>3, <2>f DEF SequentialStep, Raise, Error
    <3>2. First(BadMembers) = pos
      <4>1. BadMembers \subseteq 1 .. N
        BY DEF BadMembers
      <4>2. BadMembers \in SUBSET Nat /\ \A j \in BadMembers : pos <= j
        BY <1>f, <2>1, <4>1
      <4> QED BY <2>3, <4>2, FirstUnique
    <3> QED BY <1>0, <1>s, <2>3, <3>1, <3>2 DEF FilterInv, FilterOutcome
  <2>4. CASE pos \notin BadMembers
    <3>1. /\ built' = IF Zero(Head(s)) THEN built ELSE Append(built, call.list[pos])
          /\ pos' = pos + 1 /\ pc' = pc
      BY <1>9, <1>f, <2>2, <2>4, <2>f DEF SequentialStep
    <3>2. Passed[pos] = IF Zero(Head(s)) THEN Passed[pos - 1]
                        ELSE Append(Passed[pos - 1], call.list[pos])
      <4>1. pos \in 0 .. N /\ pos # 0
        BY <2>1, <1>f
      <4> QED BY <1>f, <4>1, PassedIs DEF PassStep, s
    <3>3. built' = Passed[pos' - 1]
      <4>1. pos' - 1 = pos
        BY <2>1, <3>1, <1>f
      <4> QED BY <2>1, <3>1, <3>2, <4>1
    <3>4. pos' \in 1 .. N + 1 /\ \A k \in 1 .. N : k < pos' => k \notin BadMembers
      BY <1>f, <2>1, <2>4, <3>1
    <3> QED BY <1>0, <1>s, <2>1, <3>1, <3>3, <3>4 DEF FilterInv
  <2> QED BY <2>3, <2>4
<1>10. CASE EndSequential
  <2>1. pc = "sequential" /\ pos = N + 1 /\ pc' = "done" /\ outcome' = Value(built)
    BY <1>10, <1>f DEF EndSequential, Return, Value, FilterInv
  <2>2. BadMembers = {}
    <3>1. BadMembers \subseteq 1 .. N
      BY DEF BadMembers
    <3> QED BY <1>f, <2>1, <3>1 DEF FilterInv
  <2>3. built = Passed[N]
    <3>1. pos - 1 = N
      BY <1>f, <2>1
    <3>2. built = Passed[pos - 1]
      BY <2>1 DEF FilterInv
    <3> QED BY <3>1, <3>2
  <2> QED BY <1>0, <1>s, <2>1, <2>2, <2>3, PassedAll DEF FilterInv
<1>12. Dies => pc' = "exit"
  BY DeathKeeps
<1>11. ParentStep => \/ pc' \in {"enter", "prepare", "clone", "run", "fall back"}
                     \/ Enter /\ pc' = "done"
                     \/ JoinError \/ Join \/ (\E gc \in {0, 1} : CollectFilter(gc)) \/ EndMap
                     \/ FallBack \/ SequentialStep \/ EndSequential
  BY <1>f DEF ParentStep, Enter, Prepare, Clone, JoinError, Join, JoinFails, Return, Raise,
     Collect, CollectMap, CollectLocal, PushFork, EndFork, EndLevel, EndReduce, FilterInv
<1> QED BY <1>1, <1>2, <1>3, <1>4, <1>5, <1>6, <1>7, <1>8, <1>9, <1>10, <1>11, <1>12 DEF Next

-----------------------------------------------------------------------------
(* pfork: both results are copied before the first is pushed.              *)

Forked(k) == Exec(call.quots[k], call.list)

Copied(k) == Ref(Top(Forked(k)), 0)

ForkInv ==
  /\ values = [i \in 1 .. N |-> Ref(call.list[i], 0)]
  /\ pc = "collect" =>
       /\ built = <<>> /\ pos \in 1 .. 3
       /\ \A k \in 1 .. 2 : Forked(k) # Failed
       /\ \A k \in 1 .. pos - 1 : results[k] = Copied(k)
  /\ pc = "push" =>
       /\ built = IF pos = 1 THEN <<>> ELSE <<Top(Forked(1))>>
       /\ pos \in 1 .. 2
       /\ \A k \in 1 .. 2 : Forked(k) # Failed
       /\ \A k \in 1 .. 2 : results[k] = Copied(k)
  /\ pc \notin {"fall back", "sequential"}
  /\ pc = "done" => outcome = ForkOutcome

Forks == Steady /\ call.name = "pfork"

LEMMA ForkTasks ==
  ASSUME CursorInv, Forks, ForkInv
  PROVE  TaskCount = 2 /\ \A i \in 1 .. 2 : Made(i) = Forked(i)
<1>1. TaskCount = 2
  BY Lengths DEF Forks
<1>2. call.list \in Seq(Members) /\ N \in Nat
  BY SteadyFacts DEF Forks
<1>3. call.list = [k \in 1 .. N |-> call.list[k]]
  BY <1>2 DEF N
<1>4. ASSUME NEW i \in 1 .. 2 PROVE Made(i) = Forked(i)
  <2>1. Inputs(i) = values
    BY DEF Inputs, Forks
  <2>2. Given(i) = [k \in 1 .. N |-> values[k].val]
    BY <2>1 DEF Given, ForkInv
  <2>3. \A k \in 1 .. N : values[k].val = call.list[k]
    BY DEF ForkInv, Ref
  <2>4. Given(i) = call.list
    BY <1>3, <2>2, <2>3
  <2> QED BY <2>4 DEF Made, Asked, Forked, Forks
<1> QED BY <1>1, <1>4

LEMMA ForkBad ==
  ASSUME NEW k \in 1 .. 2, Forked(k) = Failed, \A i \in 1 .. 2 : i < k => Forked(i) # Failed
  PROVE  ForkOutcome = Error(k)
<1> DEFINE bad == {i \in {1, 2} : Forked(i) = Failed}
<1>1. k \in bad /\ bad \in SUBSET Nat /\ \A i \in bad : k <= i
  OBVIOUS
<1>2. bad = {i \in {1, 2} : Exec(call.quots[i], call.list) = Failed}
  BY DEF Forked
<1> HIDE DEF bad
<1>3. First(bad) = k
  BY <1>1, FirstUnique
<1>4. ForkOutcome = IF bad # {} THEN Error(First(bad))
                    ELSE Value(<<Top(Forked(2)), Top(Forked(1))>>)
  BY <1>2 DEF ForkOutcome, Forked
<1> QED BY <1>1, <1>3, <1>4

LEMMA ForkGood ==
  ASSUME \A i \in 1 .. 2 : Forked(i) # Failed
  PROVE  ForkOutcome = Value(<<Top(Forked(2)), Top(Forked(1))>>)
<1> DEFINE bad == {i \in {1, 2} : Exec(call.quots[i], call.list) = Failed}
<1>1. bad = {}
  BY DEF Forked
<1> QED BY <1>1 DEF ForkOutcome, Forked

LEMMA TwoOnStack ==
  ASSUME NEW a, NEW b
  PROVE  <<a>> \o <<b>> = <<a, b>> /\ <<a>> \o <<>> = <<a>>
<1>1. <<a>> \in Seq({a, b}) /\ <<b>> \in Seq({a, b}) /\ <<>> \in Seq({a, b})
  OBVIOUS
<1>2. <<a>> \o <<>> = <<a>>
  BY <1>1
<1>3. Len(<<a>>) = 1 /\ Len(<<b>>) = 1 /\ <<a>>[1] = a /\ <<b>>[1] = b
  OBVIOUS
<1> DEFINE s == <<a>> \o <<b>>
<1>4. s \in Seq({a, b}) /\ Len(s) = 2 /\ s[1] = a /\ s[2] = b
  BY <1>1, <1>3, ConcatProperties
<1> HIDE DEF s
<1>5. s = [i \in 1 .. 2 |-> s[i]]
  BY <1>4
<1>6. s = <<s[1], s[2]>>
  BY <1>5
<1> QED BY <1>2, <1>4, <1>6 DEF s

LEMMA ForkSame ==
  UNCHANGED call => UNCHANGED <<ForkOutcome, N>> /\ \A k : UNCHANGED <<Forked(k), Copied(k)>>
BY DEF ForkOutcome, Forked, Copied, N

LEMMA ForkStep ==
  ASSUME Typed, CloneInv, Forks, SteadyInv, ForkInv, Next
  PROVE  ForkInv'
<1>f. /\ collections = 0 /\ N \in Nat /\ call \in Requests /\ call.gcs = 0
      /\ TaskCount = 2 /\ \A i \in 1 .. 2 : Made(i) = Forked(i)
      /\ call.name = "pfork"
  BY SteadyFacts, ForkTasks DEF Typed, Forks, Steady
<1>0. UNCHANGED <<call, values>>
  BY <1>f, DeathKeeps DEF Next, ParentStep, Enter, Prepare, Clone, JoinError, Join, JoinFails, FallBack,
     SequentialStep, EndSequential, Collect, CollectMap, CollectFilter, CollectLocal,
     PushFork, EndMap, EndFork, EndLevel, EndReduce, param, WorkerStep, Take, CopyIn, Run
<1>s. UNCHANGED <<ForkOutcome, N>> /\ \A k : UNCHANGED <<Forked(k), Copied(k)>>
  BY <1>0, ForkSame
<1>1. CASE pc' \in {"enter", "prepare", "clone", "run", "exit"}
  BY <1>0, <1>s, <1>1 DEF ForkInv
<1>2. ASSUME NEW w \in Workers, WorkerStep(w) PROVE ForkInv'
  BY <1>0, <1>s, <1>2 DEF WorkerStep, Take, CopyIn, Run, heap, ForkInv
<1>b. pc = "run" /\ RegionEnds => FailedTasks = {i \in 1 .. 2 : Forked(i) = Failed}
  <2> SUFFICES ASSUME pc = "run", RegionEnds
               PROVE  FailedTasks = {i \in 1 .. 2 : Forked(i) = Failed}
    OBVIOUS
  <2>1. FailedTasks = {i \in 1 .. 2 : Made(i) = Failed}
    BY <1>f, RegionSteady DEF Forks
  <2> QED BY <1>f, <2>1
<1>3. CASE JoinError
  <2>1. outcome' = Error(First(FailedTasks)) /\ pc' = "done" /\ FailedTasks # {}
        /\ FailedTasks = {i \in 1 .. 2 : Forked(i) = Failed}
    BY <1>3, <1>b DEF JoinError, Raise, Error
  <2>2. CASE Forked(1) = Failed
    <3>1. 1 \in FailedTasks /\ FailedTasks \in SUBSET Nat /\ \A j \in FailedTasks : 1 <= j
      BY <2>1, <2>2
    <3>2. First(FailedTasks) = 1
      BY <3>1, FirstUnique
    <3>3. ForkOutcome = Error(1)
      BY <2>2, ForkBad
    <3> QED BY <1>0, <1>s, <2>1, <3>2, <3>3 DEF ForkInv
  <2>3. CASE Forked(1) # Failed
    <3>1. 2 \in FailedTasks /\ FailedTasks \in SUBSET Nat /\ \A j \in FailedTasks : 2 <= j
      BY <2>1, <2>3
    <3>2. First(FailedTasks) = 2
      BY <3>1, FirstUnique
    <3>3. ForkOutcome = Error(2)
      <4>1. Forked(2) = Failed /\ \A i \in 1 .. 2 : i < 2 => Forked(i) # Failed
        BY <2>1, <2>3, <3>1
      <4> QED BY <4>1, ForkBad
    <3> QED BY <1>0, <1>s, <2>1, <3>2, <3>3 DEF ForkInv
  <2> QED BY <2>2, <2>3
<1>4. CASE Join
  <2>1. pc' = "collect" /\ pos' = 1 /\ built' = <<>> /\ FailedTasks = {}
        /\ FailedTasks = {i \in 1 .. 2 : Forked(i) = Failed}
    BY <1>4, <1>f, <1>b DEF Join
  <2>2. \A k \in 1 .. 2 : Forked(k) # Failed
    BY <2>1
  <2>3. 1 .. pos' - 1 = {}
    BY <2>1
  <2>4. pos' \in 1 .. 3 /\ pc' \notin {"push", "fall back", "sequential", "done"}
    BY <2>1
  <2>5. values' = [i \in 1 .. N' |-> Ref(call'.list[i], 0)]
    BY <1>0, <1>s DEF ForkInv
  <2> QED BY <1>s, <2>1, <2>2, <2>3, <2>4, <2>5 DEF ForkInv
<1>c. \A gc \in {0, 1} : Allocate(gc) => collections' = 0
  BY <1>f DEF Allocate
<1>5. ASSUME NEW gc \in {0, 1}, CollectLocal(gc) PROVE ForkInv'
  <2>1. /\ pc = "collect" /\ UNCHANGED <<pc, built>> /\ pos <= 2 /\ pos' = pos + 1
        /\ results' = Append(results, Ref(Top(Stck(pos)), 0))
    BY <1>5, <1>f, <1>c DEF CollectLocal
  <2>2. /\ pos \in 1 .. 2 /\ Listed(results, pos - 1) /\ pos - 1 + 1 = pos
        /\ built = <<>> /\ \A k \in 1 .. 2 : Forked(k) # Failed
        /\ \A k \in 1 .. pos - 1 : results[k] = Copied(k)
    BY <1>f, <2>1 DEF ForkInv, Typed, CursorInv
  <2>3. Stck(pos) = Forked(pos)
    <3>1. TaskSteady(pos) /\ Finished(pos) /\ child[pos] = "live"
      BY <1>f, <2>1, <2>2 DEF SteadyInv, Tasked
    <3> QED BY <1>f, <2>2, <3>1 DEF Stck, TaskSteady, Finished
  <2>4. /\ \A k \in 1 .. pos - 1 : results'[k] = results[k]
        /\ results'[pos] = Copied(pos)
    <3>1. /\ \A k \in 1 .. pos - 1 : results'[k] = results[k]
          /\ results'[pos - 1 + 1] = Ref(Top(Stck(pos)), 0)
      <4> DEFINE n == pos - 1
                 e == Ref(Top(Stck(pos)), 0)
      <4>1. n \in Nat /\ Listed(results, n)
        BY <2>2 DEF Listed
      <4> HIDE DEF n, e
      <4>2. /\ \A k \in 1 .. n : Append(results, e)[k] = results[k]
            /\ Append(results, e)[n + 1] = e
        BY <4>1, ListedAppend DEF Listed
      <4> QED BY <2>1, <4>2 DEF n, e
    <3> QED BY <2>2, <2>3, <3>1 DEF Copied
  <2>5. \A k \in 1 .. pos' - 1 : results'[k] = Copied(k)
    <3>1. \A k \in 1 .. pos' - 1 : k \in 1 .. pos - 1 \/ k = pos
      BY <2>1, <2>2
    <3> QED BY <2>2, <2>4, <3>1
  <2>6. pos' \in 1 .. 3
    BY <2>1, <2>2
  <2> QED BY <1>0, <1>s, <2>1, <2>2, <2>5, <2>6 DEF ForkInv
<1>6. CASE EndFork
  <2>1. pc = "collect" /\ pos > 2 /\ pc' = "push" /\ pos' = 1 /\ UNCHANGED <<results, built>>
    BY <1>6, <1>f DEF EndFork, heap
  <2>2. pos - 1 = 2 /\ built = <<>> /\ \A k \in 1 .. 2 : Forked(k) # Failed
    BY <2>1 DEF ForkInv
  <2>3. \A k \in 1 .. 2 : results[k] = Copied(k)
    BY <2>1, <2>2 DEF ForkInv
  <2> QED BY <1>0, <1>s, <2>1, <2>2, <2>3 DEF ForkInv
<1>7. ASSUME NEW gc \in {0, 1}, PushFork(gc) PROVE ForkInv'
  <2> DEFINE s == <<Deref(results[pos])>> \o built
  <2>1. /\ pc = "push" /\ built' = s /\ pos' = pos + 1 /\ results' = results
        /\ IF pos = 2 THEN pc' = "done" /\ outcome' = Value(s) ELSE UNCHANGED <<pc, outcome>>
    BY <1>7 DEF PushFork, Return, Value
  <2>2. /\ built = IF pos = 1 THEN <<>> ELSE <<Top(Forked(1))>>
        /\ pos \in 1 .. 2
        /\ \A k \in 1 .. 2 : Forked(k) # Failed
        /\ \A k \in 1 .. 2 : results[k] = Copied(k)
    BY <2>1 DEF ForkInv
  <2>3. Deref(results[pos]) = Top(Forked(pos))
    BY <1>f, <2>2 DEF Deref, Read, Ref, Copied
  <2>4. CASE pos = 1
    <3>1. s = <<Top(Forked(1))>>
      BY <2>2, <2>3, <2>4, TwoOnStack
    <3> HIDE DEF s
    <3>2. pos' = 2 /\ pc' = "push"
      BY <2>1, <2>4
    <3> QED BY <1>0, <1>s, <2>1, <2>2, <3>1, <3>2 DEF ForkInv
  <2>5. CASE pos = 2
    <3>1. s = <<Top(Forked(2)), Top(Forked(1))>>
      <4>1. s = <<Top(Forked(2))>> \o <<Top(Forked(1))>>
        BY <2>2, <2>3, <2>5
      <4> QED BY <4>1, TwoOnStack
    <3> HIDE DEF s
    <3>2. outcome' = ForkOutcome /\ pc' = "done"
      BY <2>1, <2>2, <2>5, <3>1, ForkGood
    <3> QED BY <1>0, <1>s, <3>2 DEF ForkInv
  <2> QED BY <2>2, <2>4, <2>5
<1>8. Dies => pc' = "exit"
  BY DeathKeeps
<1>9. ParentStep => \/ pc' \in {"enter", "prepare", "clone", "run"}
                    \/ JoinError \/ Join \/ (\E gc \in {0, 1} : CollectLocal(gc) \/ PushFork(gc))
                    \/ EndFork
  BY <1>f DEF ParentStep, Enter, Prepare, Clone, JoinError, Join, JoinFails, FallBack,
     SequentialStep, EndSequential, Return, Raise,
     Collect, CollectMap, CollectFilter, EndMap, EndLevel, EndReduce, ForkInv
<1> QED BY <1>1, <1>2, <1>3, <1>4, <1>5, <1>6, <1>7, <1>8, <1>9 DEF Next

-----------------------------------------------------------------------------
(* preduce: a level combines to what the list combines to.                 *)

Vals  == [k \in 1 .. Len(values) |-> values[k].val]
Level == Folded("swapped", call.quots[1], Vals)
Tree  == Folded("swapped", call.quots[1], call.list)
Whole == Folded("given", call.quots[1], call.list)
Pair(k) == Joined("swapped", call.quots[1], Vals[2 * k - 1], Vals[2 * k])

Accepted(o) ==
  \E order \in Orders :
    o = Reduced(order) \/ (o.kind = "error" /\ Reduced(order).kind = "error")

ReduceInv(S) ==
  /\ \A i \in 1 .. Len(values) : values[i].val \in S
  /\ N = 0 => pc \in {"enter", "done"}
  /\ pc \in {"prepare"} \cup Tasked => N >= 4
  /\ pc # "push"
  /\ pc \in {"enter", "prepare"} \cup Tasked /\ N > 0 =>
       Len(values) > 0 /\ Level[Len(values)] = Tree[N]
  /\ pc = "collect" =>
       /\ \A k \in 1 .. TaskCount : Made(k) # Failed
       /\ \A k \in 1 .. pos - 1 : results[k] = Ref(Pair(k), 0)
  /\ pc = "sequential" =>
       /\ pos \in 2 .. N + 1
       /\ Whole[pos - 1] \in S
       /\ built = <<Whole[pos - 1]>> \o call.below
  /\ pc = "done" => Accepted(outcome)

Reduces(S) ==
  /\ Steady /\ call.name = "preduce"
  /\ Garbage \notin S /\ Failed \notin S
  /\ \A x \in S : ~Inline(x)
  /\ \A i \in 1 .. N : call.list[i] \in S
  /\ Operator(call.quots[1], call.below, S)

(* What an operator makes of two operands.                                 *)
LEMMA OperatorFacts ==
  ASSUME NEW S, Reduces(S)
  PROVE  /\ Associative(call.quots[1], S)
         /\ \A x, y \in S :
              LET c == Combine(call.quots[1], x, y)
                  s == Exec(call.quots[1], <<y, x>>)
                  t == Exec(call.quots[1], <<y, x>> \o call.below) IN
              /\ c \in S \cup {Failed}
              /\ c = Failed <=> s = Failed
              /\ c = Failed <=> t = Failed
              /\ c # Failed => s = <<c>> /\ t = <<c>> \o call.below
<1> DEFINE q == call.quots[1]
<1>0. Operator(q, call.below, S) /\ Failed \notin S
  BY DEF Reduces
<1>1. ASSUME NEW x \in S, NEW y \in S
      PROVE  LET c == Combine(q, x, y)
                 s == Exec(q, <<y, x>>)
                 t == Exec(q, <<y, x>> \o call.below) IN
             /\ c \in S \cup {Failed}
             /\ c = Failed <=> s = Failed
             /\ c = Failed <=> t = Failed
             /\ c # Failed => s = <<c>> /\ t = <<c>> \o call.below
  <2> DEFINE s == Exec(q, <<y, x>>)
             t == Exec(q, <<y, x>> \o call.below)
             c == Combine(q, x, y)
  <2>1. (s = Failed \/ \E z \in S : s = <<z>>)
        /\ (s = Failed <=> t = Failed) /\ (s # Failed => t = s \o call.below)
    BY <1>0 DEF Operator
  <2>2. c = IF s \in {Failed, <<>>} THEN Failed ELSE Head(s)
    BY <1>0 DEF Combine
  <2> HIDE DEF s, t, c
  <2>3. CASE s = Failed
    BY <2>1, <2>2, <2>3 DEF s, t, c
  <2>4. CASE s # Failed
    <3>1. PICK z \in S : s = <<z>>
      BY <2>1, <2>4
    <3>2. s # <<>> /\ Head(s) = z
      BY <3>1
    <3>3. c = z /\ z # Failed
      BY <1>0, <2>2, <2>4, <3>2
    <3>4. s = <<c>> /\ t = <<c>> \o call.below
      BY <2>1, <2>4, <3>1, <3>3
    <3> QED BY <2>1, <2>4, <3>3, <3>4 DEF s, t, c
  <2> QED BY <2>3, <2>4
<1>2. \A x, y \in S : Combine(q, x, y) \in S \cup {Failed}
  BY <1>1
<1>3. \A x, y, z \in S : Combine(q, Combine(q, x, y), z) = Combine(q, x, Combine(q, y, z))
  BY <1>0 DEF Operator
<1> QED BY <1>0, <1>1, <1>2, <1>3 DEF Associative

(* Two neighbours that cannot be combined spoil the whole.                 *)
LEMMA PairFails ==
  ASSUME NEW order, NEW q, NEW S, Associative(q, S), NEW n \in Nat, NEW s, Len(s) = n,
         \A i \in 1 .. n : s[i] \in S,
         NEW i \in 1 .. n \div 2, Joined(order, q, s[2 * i - 1], s[2 * i]) = Failed
  PROVE  Folded(order, q, s)[n] = Failed
<1> DEFINE F == Folded(order, q, s)
<1>j. JoinLaws(order, q, S)
  <2>a. Associative(q, S)
    OBVIOUS
  <2> QED BY ONLY <2>a, JoinedFacts
<1>0. /\ n > 0 => F[1] = s[1]
      /\ \A k \in 2 .. n : F[k] = Joined(order, q, F[k - 1], s[k])
  <2>1. Len(s) \in Nat
    OBVIOUS
  <2>2. FoldLaw(order, q, s)
    BY ONLY <2>1, FoldedIs
  <2> QED BY <2>2 DEF FoldLaw
<1>1. 2 * i \in 2 .. n /\ 2 * i - 1 \in 1 .. n /\ i \in Nat
  OBVIOUS
<1>2. F[2 * i] = Failed
  <2>1. F[2 * i] = Joined(order, q, F[2 * i - 1], s[2 * i])
    BY <1>0, <1>1
  <2>2. CASE i = 1
    <3>1. F[1] = s[1] /\ 2 * i - 1 = 1
      BY <1>0, <1>1, <2>2
    <3> QED BY <2>1, <3>1
  <2>3. CASE i > 1
    <3>1. 2 * i - 1 \in 2 .. n /\ 2 * i - 1 - 1 = 2 * i - 2 /\ 2 * i - 2 \in 1 .. n
      BY <1>1, <2>3
    <3>2. F[2 * i - 1] = Joined(order, q, F[2 * i - 2], s[2 * i - 1])
      BY <1>0, <3>1
    <3>3. F[2 * i - 2] \in S \cup {Failed}
      BY <3>1, FoldedType
    <3>4. s[2 * i - 1] \in S /\ s[2 * i] \in S
      BY <1>1
    <3> DEFINE x == F[2 * i - 2]
               y == s[2 * i - 1]
               z == s[2 * i]
    <3> HIDE DEF F, x, y, z
    <3>5. Joined(order, q, y, z) = Failed /\ x \in S \cup {Failed} /\ y \in S /\ z \in S
          /\ F[2 * i] = Joined(order, q, Joined(order, q, x, y), z)
      BY <2>1, <3>2, <3>3, <3>4 DEF x, y, z, F
    <3>6. CASE x = Failed
      BY <1>j, <3>5, <3>6 DEF JoinLaws
    <3>7. CASE x \in S
      <4>1. F[2 * i] = Joined(order, q, x, Failed)
        BY <1>j, <3>5, <3>7 DEF JoinLaws
      <4> QED BY <1>j, <4>1 DEF JoinLaws
    <3> QED BY <3>5, <3>6, <3>7
  <2> QED BY <1>1, <2>2, <2>3
<1>3. 2 * i \in 1 .. n
  BY <1>1
<1> QED BY <1>2, <1>3, FoldFails

(* One value on the stack below.                                           *)
LEMMA OnStack ==
  ASSUME NEW a, NEW b, NEW T, NEW s \in Seq(T)
  PROVE  /\ Head(<<a>> \o s) = a /\ <<a>> \o s # <<>>
         /\ <<a>> \o (<<b>> \o s) = <<a, b>> \o s
<1> DEFINE U == T \cup {a, b}
<1>1. s \in Seq(U) /\ <<a>> \in Seq(U) /\ <<b>> \in Seq(U) /\ <<a, b>> \in Seq(U)
  <2>1. T \subseteq U /\ a \in U /\ b \in U
    OBVIOUS
  <2> HIDE DEF U
  <2>2. s \in Seq(U)
    BY <2>1, SeqMonotonic
  <2> QED BY <2>1, <2>2
<1> HIDE DEF U
<1>2. /\ Len(<<a>> \o s) = 1 + Len(s) /\ (<<a>> \o s)[1] = a
      /\ <<a>> \o s \in Seq(U) /\ Len(s) \in Nat
  BY <1>1, ConcatProperties, LenProperties
<1>3. <<a>> \o (<<b>> \o s) = (<<a>> \o <<b>>) \o s
  BY <1>1
<1>4. \A u \in Seq(U) : Len(u) > 0 => u # <<>> /\ Head(u) = u[1]
  OBVIOUS
<1>5. Head(<<a>> \o s) = a /\ <<a>> \o s # <<>>
  BY <1>2, <1>4
<1>6. <<a>> \o <<b>> = <<a, b>>
  BY TwoOnStack
<1> QED BY <1>3, <1>5, <1>6

LEMMA ReduceSame ==
  /\ UNCHANGED call => UNCHANGED <<Whole, Tree, Orders, N>> /\ \A order : UNCHANGED Reduced(order)
  /\ UNCHANGED <<call, values>> => UNCHANGED <<Vals, Level>> /\ \A k : UNCHANGED Pair(k)
BY DEF Whole, Tree, Orders, Reduced, N, Vals, Level, Pair

(* The lists, their lengths and the tasks of a level.                      *)
LEMMA ReduceFacts ==
  ASSUME NEW S, CursorInv, Reduces(S), ReduceInv(S)
  PROVE  /\ N \in Nat /\ Len(values) \in Nat /\ Len(Vals) = Len(values) /\ Len(call.list) = N
         /\ TaskCount = Len(values) \div 2
         /\ \A k \in 1 .. Len(values) : Vals[k] = values[k].val /\ Vals[k] \in S
         /\ Len(values) > 0 => Level[1] = Vals[1]
         /\ N > 0 => Whole[1] = call.list[1] /\ Tree[1] = call.list[1]
         /\ \A k \in 2 .. N : Whole[k] = Combine(call.quots[1], Whole[k - 1], call.list[k])
         /\ \A k \in 1 .. N : Whole[k] \in S \cup {Failed}
         /\ call.below \in Seq(Members)
<1>1. /\ N \in Nat /\ Len(values) \in Nat /\ Len(call.list) = N
      /\ TaskCount = Len(values) \div 2 /\ call.below \in Seq(Members)
  BY Lengths, RequestsAssumption DEF Reduces, N, CursorInv, Calls
<1>2. \A k \in 1 .. Len(values) : Vals[k] = values[k].val /\ Vals[k] \in S
  BY DEF Vals, ReduceInv
<1>3. Len(Vals) = Len(values)
  <2>1. Listed(Vals, Len(values))
    BY <1>1 DEF Vals, Listed
  <2> QED BY <2>1, ListedSeq
<1>4. Associative(call.quots[1], S)
  BY OperatorFacts
<1>5. Len(values) > 0 => Level[1] = Vals[1]
  <2>1. Len(Vals) \in Nat
    BY <1>1, <1>3
  <2>2. FoldLaw("swapped", call.quots[1], Vals)
    BY ONLY <2>1, FoldedIs
  <2> QED BY <1>3, <2>2 DEF FoldLaw, Level
<1>6. /\ N > 0 => Whole[1] = call.list[1]
      /\ \A k \in 2 .. N : Whole[k] = Combine(call.quots[1], Whole[k - 1], call.list[k])
  <2>1. Len(call.list) \in Nat
    BY <1>1
  <2>2. FoldLaw("given", call.quots[1], call.list)
    BY ONLY <2>1, FoldedIs
  <2> QED BY <1>1, <2>2 DEF FoldLaw, Whole, Joined
<1>9. N > 0 => Tree[1] = call.list[1]
  <2>1. Len(call.list) \in Nat
    BY <1>1
  <2>2. FoldLaw("swapped", call.quots[1], call.list)
    BY ONLY <2>1, FoldedIs
  <2> QED BY <1>1, <2>2 DEF FoldLaw, Tree
<1>7. \A i \in 1 .. N : call.list[i] \in S
  BY DEF Reduces
<1>8. \A k \in 1 .. N : Whole[k] \in S \cup {Failed}
  BY <1>1, <1>4, <1>7, FoldedType DEF Whole
<1> QED BY <1>1, <1>2, <1>3, <1>5, <1>6, <1>8, <1>9

LEMMA ReduceTasks ==
  ASSUME NEW S, CursorInv, Reduces(S), ReduceInv(S), NEW i \in 1 .. TaskCount
  PROVE  /\ Made(i) = Failed <=> Pair(i) = Failed
         /\ Made(i) # Failed => Made(i) = <<Pair(i)>> /\ Pair(i) \in S
         /\ 2 * i - 1 \in 1 .. Len(values) /\ 2 * i \in 1 .. Len(values)
<1>f. Len(values) \in Nat /\ TaskCount = Len(values) \div 2
      /\ \A k \in 1 .. Len(values) : Vals[k] = values[k].val /\ Vals[k] \in S
  BY ReduceFacts
<1>1. 2 * i - 1 \in 1 .. Len(values) /\ 2 * i \in 1 .. Len(values)
  BY <1>f
<1>2. Given(i) = <<Vals[2 * i - 1], Vals[2 * i]>>
  <2>1. Inputs(i) = <<values[2 * i - 1], values[2 * i]>>
    BY DEF Inputs, Reduces
  <2>2. Given(i) = <<values[2 * i - 1].val, values[2 * i].val>>
    BY <2>1 DEF Given
  <2> QED BY <1>f, <1>1, <2>2
<1>3. Made(i) = Exec(call.quots[1], <<Vals[2 * i - 1], Vals[2 * i]>>)
  BY <1>2 DEF Made, Asked, Reduces
<1>4. Vals[2 * i - 1] \in S /\ Vals[2 * i] \in S
  BY <1>f, <1>1
<1>5. Pair(i) = Combine(call.quots[1], Vals[2 * i], Vals[2 * i - 1])
  BY DEF Pair, Joined
<1> QED BY <1>1, <1>3, <1>4, <1>5, OperatorFacts

(* The two orders of the operands. *)
LEMMA ReduceBad ==
  ASSUME N \in Nat \ {0}
  PROVE  /\ Whole[N] = Failed => Reduced("given").kind = "error"
         /\ Tree[N] = Failed => Reduced("swapped").kind = "error"
BY DEF Reduced, Whole, Tree, Error

LEMMA ReduceGood ==
  ASSUME N \in Nat \ {0}
  PROVE  /\ Whole[N] # Failed => Reduced("given") = Value(<<Whole[N]>>)
         /\ Tree[N] # Failed => Reduced("swapped") = Value(<<Tree[N]>>)
BY DEF Reduced, Whole, Tree

LEMMA OrdersAre == N \in Nat => "given" \in Orders /\ (N >= 4 => "swapped" \in Orders)
BY DEF Orders

-----------------------------------------------------------------------------
(* The end of a level: the next has half the members, of the same whole.   *)
LEMMA LevelEnds ==
  ASSUME NEW S, Typed, Reduces(S), SteadyInv, ReduceInv(S), EndLevel
  PROVE  /\ N >= 4 /\ pc' = "prepare" /\ UNCHANGED <<call, quotation, collections>>
         /\ Len(values') > 0
         /\ \A i \in 1 .. Len(values') : Current(values'[i]) /\ values'[i].val \in S
         /\ Level'[Len(values')] = Tree[N]
<1> DEFINE n == Len(values)
           h == n \div 2
           m == Len(values')
           last == <<values[n]>>
           q == call.quots[1]
<1>f. /\ N \in Nat /\ n \in Nat /\ Len(Vals) = n /\ TaskCount = h
      /\ \A k \in 1 .. n : Vals[k] = values[k].val /\ Vals[k] \in S
      /\ collections = 0
  BY ReduceFacts, SteadyFacts DEF Typed, Reduces
<1>1. /\ pc = "collect" /\ pos > TaskCount /\ pc' = "prepare"
      /\ UNCHANGED <<call, quotation, collections>>
      /\ values' = results \o IF n % 2 = 1 THEN last ELSE <<>>
  BY DEF EndLevel, heap
<1>2. /\ pos - 1 = h /\ Listed(results, pos - 1) /\ N >= 4
      /\ n > 0 /\ Level[n] = Tree[N] /\ h > 0
      /\ \A k \in 1 .. TaskCount : Made(k) # Failed
      /\ \A k \in 1 .. pos - 1 : results[k] = Ref(Pair(k), 0)
  <2>1. N >= 4 /\ N > 0
    BY <1>1, <1>f DEF ReduceInv, Tasked
  <2>2. pos \in 0 .. TaskCount + 1 /\ pos >= 1 /\ Listed(results, pos - 1) /\ TaskCount > 0
    BY <1>1 DEF Typed, CursorInv, Tasked, Reduces
  <2>3. n > 0 /\ Level[n] = Tree[N]
    BY <1>1, <2>1 DEF ReduceInv, Tasked
  <2> QED BY <1>1, <1>f, <2>1, <2>2, <2>3 DEF ReduceInv
<1>3. Listed(results, h)
  BY <1>2
<1>4. \A k \in 1 .. h : /\ results[k] = Ref(Pair(k), 0) /\ Pair(k) \in S /\ Pair(k) # Failed
                        /\ Pair(k) = Joined("swapped", q, Vals[2 * k - 1], Vals[2 * k])
  <2> SUFFICES ASSUME NEW k \in 1 .. h
               PROVE  /\ results[k] = Ref(Pair(k), 0) /\ Pair(k) \in S /\ Pair(k) # Failed
                      /\ Pair(k) = Joined("swapped", q, Vals[2 * k - 1], Vals[2 * k])
    OBVIOUS
  <2>1. k \in 1 .. TaskCount /\ k \in 1 .. pos - 1
    BY <1>f, <1>2
  <2>2. Made(k) # Failed
    BY <1>2, <2>1
  <2>3. Pair(k) # Failed /\ Pair(k) \in S
    BY <2>1, <2>2, ReduceTasks DEF Typed
  <2>4. results[k] = Ref(Pair(k), 0)
    BY <1>2, <2>1
  <2> QED BY <2>3, <2>4 DEF Pair
<1>5. /\ m \in Nat /\ Listed(values', m)
      /\ n = 2 * m \/ n = 2 * m - 1
      /\ \A k \in 1 .. h : values'[k] = results[k]
      /\ n = 2 * m - 1 => values'[m] = values[n]
      /\ n = 2 * m => m = h
      /\ n = 2 * m - 1 => m = h + 1
  <2>1. CASE n % 2 = 1
    <3>1. values' = results \o last /\ Listed(last, 1) /\ last[1] = values[n]
      BY <1>1, <2>1, ListedOne
    <3>2. /\ Listed(values', h + 1)
          /\ \A i \in 1 .. h + 1 : values'[i] = IF i <= h THEN results[i] ELSE last[i - h]
      BY <1>3, <3>1, ListedConcat DEF Listed
    <3>3. m = h + 1
      BY <3>2, ListedSeq
    <3>4. h \in Nat /\ n = 2 * h + 1
      BY <1>f, <2>1
    <3>5. values'[h + 1] = values[n]
      <4>1. h + 1 \in 1 .. h + 1 /\ ~(h + 1 <= h) /\ h + 1 - h = 1
        BY <3>4
      <4> HIDE DEF last, h, n
      <4>2. values'[h + 1] = last[h + 1 - h]
        BY <3>2, <3>4, <4>1
      <4> QED BY <3>1, <4>1, <4>2
    <3>6. \A k \in 1 .. h : values'[k] = results[k]
      BY <3>2, <3>4
    <3> HIDE DEF h, m, n
    <3> QED BY <3>2, <3>3, <3>4, <3>5, <3>6
  <2>2. CASE n % 2 # 1
    <3>1. values' = results \o <<>> /\ Listed(<<>>, 0)
      BY <1>1, <2>2, ListedEmpty
    <3>2. /\ Listed(values', h + 0)
          /\ \A i \in 1 .. h + 0 : values'[i] = IF i <= h THEN results[i] ELSE <<>>[i - h]
      BY <1>3, <3>1, ListedConcat DEF Listed
    <3>3. h \in Nat /\ n = 2 * h /\ h + 0 = h
      BY <1>f, <2>2
    <3>4. Listed(values', h)
      BY <3>2, <3>3
    <3>5. m = h
      BY <3>4, ListedSeq
    <3>6. \A k \in 1 .. h : values'[k] = results[k]
      BY <3>2, <3>3
    <3> HIDE DEF h, m, n
    <3> QED BY <3>3, <3>4, <3>5, <3>6
  <2> QED BY <2>1, <2>2
<1> DEFINE t == [k \in 1 .. m |-> values'[k].val]
<1>h. h \in Nat
  BY <1>f
<1>6. \A k \in 1 .. h : values'[k] = Ref(Pair(k), 0) /\ t[k] = Pair(k)
  <2> SUFFICES ASSUME NEW k \in 1 .. h
               PROVE  values'[k] = Ref(Pair(k), 0) /\ t[k] = Pair(k)
    OBVIOUS
  <2>1. k \in 1 .. m
    BY <1>h, <1>5
  <2>2. values'[k] = results[k]
    BY <1>5
  <2>3. results[k] = Ref(Pair(k), 0)
    BY <1>4
  <2>4. t[k] = values'[k].val
    BY <2>1
  <2>5. Ref(Pair(k), 0).val = Pair(k)
    BY DEF Ref
  <2> QED BY <2>2, <2>3, <2>4, <2>5
<1>7. n = 2 * m - 1 => values'[m] = values[n] /\ t[m] = Vals[n] /\ Vals[n] \in S
                       /\ Current(values[n]) /\ values[n].val \in S
  <2>1. n \in 1 .. n
    BY <1>f, <1>2
  <2>2. n = 2 * m - 1 => m \in 1 .. m
    BY <1>f, <1>5
  <2>3. Current(values[n]) /\ Vals[n] = values[n].val /\ Vals[n] \in S
    BY <1>f, <2>1 DEF SteadyInv
  <2> QED BY <1>5, <2>2, <2>3
<1>8. ASSUME NEW i \in 1 .. m PROVE Current(values'[i]) /\ values'[i].val \in S
  <2>1. CASE i \in 1 .. h
    <3>1. values'[i] = Ref(Pair(i), 0) /\ Pair(i) \in S /\ Garbage \notin S
      BY <1>4, <1>6, <2>1 DEF Reduces
    <3> QED BY <3>1 DEF Current, Ref
  <2>2. CASE i \notin 1 .. h
    <3>1. i = m /\ n = 2 * m - 1
      BY <1>f, <1>h, <1>5, <2>2
    <3>2. Current(values[n]) /\ values[n].val \in S /\ values'[m] = values[n]
      BY <1>7, <3>1
    <3> QED BY <3>1, <3>2
  <2> QED BY <2>1, <2>2
<1>9. m > 0
  BY <1>2, <1>f, <1>5
<1>10. Folded("swapped", q, t)[m] = Folded("swapped", q, Vals)[n]
  <2>1. Associative(q, S)
    BY OperatorFacts
  <2>2. Listed(t, m)
    BY <1>5 DEF Listed
  <2>3. Len(t) = m
    BY <2>2, ListedSeq
  <2>4. \A k \in 1 .. n : Vals[k] \in S
    BY <1>f
  <2>5. \A k \in 1 .. h : t[k] = Joined("swapped", q, Vals[2 * k - 1], Vals[2 * k]) /\ t[k] # Failed
    BY <1>4, <1>6
  <2>6. n = 2 * m - 1 => t[m] = Vals[n]
    BY <1>7
  <2>7. n \in Nat /\ m \in Nat /\ Len(Vals) = n /\ (n = 2 * m \/ n = 2 * m - 1) /\ n > 0
    BY <1>f, <1>2, <1>5
  <2> HIDE DEF t, q, m, n
  <2>8. \A k \in 1 .. n \div 2 : t[k] = Joined("swapped", q, Vals[2 * k - 1], Vals[2 * k])
    BY <2>5
  <2>9. \A k \in 1 .. n \div 2 : t[k] # Failed
    BY <2>5
  <2> HIDE DEF h
  <2>10. Halved("swapped", q, S, Vals, n, t, m)
    BY <2>3, <2>4, <2>6, <2>7, <2>8, <2>9 DEF Halved
  <2> QED BY <2>1, <2>10, HalfFolded
<1>11. Level' = Folded("swapped", q, t) /\ Level = Folded("swapped", q, Vals)
  BY <1>1 DEF Level, Vals
<1> QED BY <1>1, <1>2, <1>8, <1>9, <1>10, <1>11

LEMMA LevelKeepsSteady ==
  ASSUME NEW S, Typed, Reduces(S), SteadyInv, ReduceInv(S), EndLevel
  PROVE  SteadyInv'
<1>1. \A x \in S : ~Inline(x)
  BY DEF Reduces
<1> QED BY <1>1, LevelEnds DEF SteadyInv, Tasked

LEMMA ReduceStep ==
  ASSUME NEW S, Typed, CloneInv, Reduces(S), SteadyInv, ReduceInv(S), Next
  PROVE  ReduceInv(S)'
<1> DEFINE q == call.quots[1]
<1>f. /\ N \in Nat /\ Len(values) \in Nat /\ Len(Vals) = Len(values) /\ Len(call.list) = N
      /\ TaskCount = Len(values) \div 2
      /\ \A k \in 1 .. Len(values) : Vals[k] = values[k].val /\ Vals[k] \in S
      /\ Len(values) > 0 => Level[1] = Vals[1]
      /\ N > 0 => Whole[1] = call.list[1] /\ Tree[1] = call.list[1]
      /\ \A k \in 2 .. N : Whole[k] = Combine(q, Whole[k - 1], call.list[k])
      /\ \A k \in 1 .. N : Whole[k] \in S \cup {Failed}
      /\ call.below \in Seq(Members)
  BY ReduceFacts DEF Typed
<1>g. /\ collections = 0 /\ call.gcs = 0 /\ call.name = "preduce" /\ Failed \notin S
      /\ \A i \in 1 .. N : call.list[i] \in S
  BY SteadyFacts DEF Typed, Reduces, Steady
<1>0. UNCHANGED call /\ UNCHANGED <<Whole, Tree, Orders, N>> /\ \A order : UNCHANGED Reduced(order)
  <2>1. UNCHANGED call
    BY DeathKeeps DEF Next, ParentStep, Enter, Prepare, Clone, JoinError, Join, JoinFails, FallBack,
       SequentialStep, EndSequential, Collect, CollectMap, CollectFilter, CollectLocal,
       PushFork, EndMap, EndFork, EndLevel, EndReduce, param, WorkerStep, Take, CopyIn, Run
  <2> QED BY <2>1, ReduceSame
<1>v. ~EndLevel => UNCHANGED values
  BY DeathKeeps DEF Next, ParentStep, Enter, Prepare, Clone, JoinError, Join, JoinFails, FallBack,
     SequentialStep, EndSequential, Collect, CollectMap, CollectFilter, CollectLocal,
     PushFork, EndMap, EndFork, EndReduce, param, WorkerStep, Take, CopyIn, Run
<1>s. UNCHANGED values => UNCHANGED <<Level, TaskCount>> /\ \A k : UNCHANGED <<Pair(k), Made(k)>>
  BY <1>0, ReduceSame, SameCount, MadeSame
<1>b. N > 0 => /\ Whole[N] = Failed => Reduced("given").kind = "error"
               /\ Whole[N] # Failed => Reduced("given") = Value(<<Whole[N]>>)
               /\ Tree[N] = Failed => Reduced("swapped").kind = "error"
               /\ Tree[N] # Failed => Reduced("swapped") = Value(<<Tree[N]>>)
  BY <1>f, ReduceBad, ReduceGood
<1> HIDE DEF q
<1>n. N \in Nat
  BY <1>f
<1>r. "given" \in Orders /\ (N >= 4 => "swapped" \in Orders)
  BY <1>n, OrdersAre
<1>d. ASSUME UNCHANGED values, pc' = "done", NEW order \in Orders,
             outcome' = Reduced(order) \/ (outcome'.kind = "error" /\ Reduced(order).kind = "error")
      PROVE  ReduceInv(S)'
  <2>1. Accepted(outcome)'
    BY <1>0, <1>d DEF Accepted
  <2> QED BY <1>0, <1>d, <2>1 DEF ReduceInv, Tasked
<1>e. /\ pc \notin {"enter", "done"} => N > 0
      /\ pc \in {"prepare"} \cup Tasked => N >= 4
  BY <1>n DEF ReduceInv
(* A value alone is the whole. *)
<1>o. ASSUME N > 0, Len(values) = 1, pc \in {"enter", "prepare"}
      PROVE  Reduced("swapped") = Value(<<Deref(values[1])>>) /\ Tree[N] # Failed
  <2>1. Level[1] = Tree[N]
    BY <1>o DEF ReduceInv
  <2>2. Level[1] = values[1].val /\ values[1].val \in S /\ Current(values[1])
    BY <1>f, <1>o DEF SteadyInv
  <2>3. Deref(values[1]) = values[1].val
    BY <1>g, <2>2 DEF Current, Deref, Read, Ref
  <2>4. Tree[N] # Failed
    BY <1>g, <2>1, <2>2
  <2> QED BY <1>b, <1>o, <2>1, <2>2, <2>3, <2>4
<1>1. CASE UNCHANGED values /\ pc' \in {"clone", "run"}
  <2>1. pc \in {"prepare", "clone", "run"}
    BY <1>1, DeathKeeps DEF Next, ParentStep, Enter, Prepare, Clone, JoinError, Join, JoinFails, FallBack,
       SequentialStep, EndSequential, Collect, CollectMap, CollectFilter, CollectLocal, Return,
       Raise, PushFork, EndMap, EndFork, EndLevel, EndReduce, WorkerStep, Take, CopyIn, Run
  <2> QED BY <1>0, <1>1, <1>e, <1>s, <2>1 DEF ReduceInv, Tasked
<1>2. CASE Enter
  <2>0. UNCHANGED values /\ pc = "enter"
    BY <1>2 DEF Enter, param
  <2>l. Len(values) = N
    BY <2>0 DEF Typed, CursorInv
  <2>1. CASE N = 0
    <3>1. outcome' = Error(0) /\ pc' = "done"
      BY <1>2, <1>g, <2>1 DEF Enter, Raise, Error
    <3>2. Reduced("given") = Error(0)
      BY <2>1 DEF Reduced
    <3> QED BY <1>d, <1>r, <2>0, <3>1, <3>2
  <2>2. CASE N = 1
    <3>1. outcome' = Value(<<Deref(values[1])>>) /\ pc' = "done"
      BY <1>2, <1>g, <2>2 DEF Enter, Return, Value
    <3>2. Reduced("swapped") = outcome' /\ Tree[1] # Failed
      BY <1>o, <2>0, <2>2, <2>l, <3>1
    <3>3. Reduced("given") = outcome'
      BY <1>b, <1>f, <2>2, <3>2
    <3> QED BY <1>d, <1>r, <2>0, <3>1, <3>3
  <2>3. CASE N > 1
    <3>1. N # 0 /\ N # 1 /\ N > 0
      BY <1>n, <2>3
    <3>2. pc' \in {"fall back", "prepare"}
      BY <1>2, <1>g, <3>1 DEF Enter
    <3>3. Len(values) > 0 /\ Level[Len(values)] = Tree[N]
      BY <2>0, <3>1 DEF ReduceInv
    <3>4. pc' = "prepare" => N >= 4
      BY <1>2, <1>g, <3>1 DEF Enter
    <3> QED BY <1>0, <1>s, <2>0, <3>1, <3>2, <3>3, <3>4 DEF ReduceInv, Tasked
  <2> QED BY <1>f, <2>1, <2>2, <2>3
<1>3. CASE pc' = "fall back" /\ ~Enter
  <2>1. N # 0 /\ UNCHANGED values
    BY <1>3, <1>v, DeathKeeps DEF Next, ParentStep, Enter, Prepare, Clone, JoinError, Join, JoinFails, FallBack,
       SequentialStep, EndSequential, Collect, CollectMap, CollectFilter, CollectLocal, Return,
       Raise, PushFork, EndMap, EndFork, EndLevel, EndReduce, WorkerStep, Take, CopyIn, Run, ReduceInv
  <2> QED BY <1>0, <1>3, <1>s, <2>1 DEF ReduceInv, Tasked
<1>4. CASE JoinError
  <2>1. outcome' = Error(First(FailedTasks)) /\ pc' = "done" /\ FailedTasks # {}
        /\ pc = "run" /\ RegionEnds /\ UNCHANGED values
    BY <1>4 DEF JoinError, Raise, Error, param
  <2>2. FailedTasks = {i \in 1 .. TaskCount : Made(i) = Failed}
    BY <2>1, RegionSteady DEF Reduces
  <2>3. PICK i \in 1 .. TaskCount : Made(i) = Failed
    BY <2>1, <2>2
  <2>4. Pair(i) = Failed
    BY <2>3, ReduceTasks DEF Typed
  <2>5. Level[Len(values)] = Failed
    <3>1. Associative(call.quots[1], S)
      BY OperatorFacts
    <3>2. Joined("swapped", call.quots[1], Vals[2 * i - 1], Vals[2 * i]) = Failed
      BY <2>4 DEF Pair
    <3> DEFINE n == Len(values)
    <3>3. n \in Nat /\ Len(Vals) = n /\ (\A k \in 1 .. n : Vals[k] \in S) /\ i \in 1 .. n \div 2
      BY <1>f
    <3> HIDE DEF n
    <3>4. Folded("swapped", call.quots[1], Vals)[n] = Failed
      BY <3>1, <3>2, <3>3, PairFails
    <3> QED BY <3>4 DEF Level, n
  <2>6. N > 0 /\ N >= 4 /\ Level[Len(values)] = Tree[N]
    BY <1>e, <2>1 DEF ReduceInv, Tasked
  <2>7. Reduced("swapped").kind = "error" /\ "swapped" \in Orders
    BY <1>b, <1>r, <2>5, <2>6
  <2>8. outcome'.kind = "error"
    BY <2>1 DEF Error
  <2> QED BY <1>d, <2>1, <2>7, <2>8
<1>5. CASE Join
  <2>1. pc' = "collect" /\ pos' = 1 /\ FailedTasks = {}
        /\ pc = "run" /\ RegionEnds /\ UNCHANGED values
    BY <1>5, <1>g DEF Join, param
  <2>2. \A i \in 1 .. TaskCount : Made(i) # Failed
    BY <2>1, RegionSteady DEF Reduces
  <2>3. 1 .. pos' - 1 = {}
    BY <2>1
  <2> QED BY <1>0, <1>e, <1>s, <2>1, <2>2, <2>3 DEF ReduceInv, Tasked
<1>6. ASSUME NEW gc \in {0, 1}, CollectLocal(gc) PROVE ReduceInv(S)'
  <2>1. /\ pc = "collect" /\ UNCHANGED <<pc, values>> /\ pos <= TaskCount /\ pos' = pos + 1
        /\ Allocate(gc)
        /\ results' = Append(results, Ref(Top(Stck(pos)), collections'))
    BY <1>6, <1>g DEF CollectLocal, param
  <2>2. collections' = 0
    BY <1>g, <2>1 DEF Allocate
  <2>3. /\ pos \in 1 .. TaskCount /\ Listed(results, pos - 1)
        /\ \A k \in 1 .. TaskCount : Made(k) # Failed
        /\ \A k \in 1 .. pos - 1 : results[k] = Ref(Pair(k), 0)
    <3>1. pos >= 1 /\ pos \in 0 .. TaskCount + 1 /\ Listed(results, pos - 1)
      BY <1>g, <2>1 DEF Typed, CursorInv
    <3>2. TaskCount \in Nat
      BY <1>f
    <3>3. pos \in 1 .. TaskCount
      BY <2>1, <3>1, <3>2
    <3>4. /\ \A k \in 1 .. TaskCount : Made(k) # Failed
          /\ \A k \in 1 .. pos - 1 : results[k] = Ref(Pair(k), 0)
      BY <2>1 DEF ReduceInv
    <3> QED BY <3>1, <3>3, <3>4
  <2>4. Top(Stck(pos)) = Pair(pos)
    <3>1. TaskSteady(pos) /\ Finished(pos) /\ child[pos] = "live"
      BY <2>1, <2>3 DEF SteadyInv, Tasked
    <3>2. Stck(pos) = Made(pos)
      BY <3>1 DEF Stck, TaskSteady, Finished
    <3>3. Made(pos) = <<Pair(pos)>>
      BY <2>3, ReduceTasks DEF Typed
    <3>4. \A a : Top(<<a>>) = a
      BY DEF Top
    <3> QED BY <3>2, <3>3, <3>4
  <2> DEFINE n == pos - 1
             e == Ref(Pair(pos), 0)
  <2>5. n \in Nat /\ Listed(results, n) /\ n + 1 = pos
    BY <2>3 DEF Listed
  <2>6. results' = Append(results, e)
    BY <2>1, <2>2, <2>4
  <2> HIDE DEF n, e
  <2>7. /\ \A k \in 1 .. n : results'[k] = results[k]
        /\ results'[n + 1] = e
    BY <2>5, <2>6, ListedAppend DEF Listed
  <2>8. \A k \in 1 .. pos' - 1 : results'[k] = Ref(Pair(k), 0)
    <3>1. \A k \in 1 .. pos' - 1 : k \in 1 .. pos - 1 \/ k = pos
      BY <2>1, <2>3
    <3> QED BY <2>3, <2>5, <2>7, <3>1 DEF n, e
  <2> QED BY <1>0, <1>e, <1>s, <2>1, <2>3, <2>8 DEF ReduceInv, Tasked
<1>7. CASE EndLevel
  <2>1. /\ N >= 4 /\ N # 0 /\ pc' = "prepare" /\ Len(values') > 0
        /\ \A i \in 1 .. Len(values') : values'[i].val \in S
        /\ Level'[Len(values')] = Tree[N]
    BY <1>7, LevelEnds
  <2> QED BY <1>0, <2>1 DEF ReduceInv, Tasked
<1>8. CASE EndReduce
  <2>1. outcome' = Value(<<Deref(values[1])>>) /\ pc' = "done" /\ pc = "prepare"
        /\ Len(values) = 1 /\ UNCHANGED values
    BY <1>8 DEF EndReduce, Return, Value, param
  <2>2. N > 0 /\ "swapped" \in Orders
    BY <1>e, <1>r, <2>1
  <2>3. Reduced("swapped") = outcome'
    BY <1>o, <2>1, <2>2
  <2> QED BY <1>d, <2>1, <2>2, <2>3
<1>9. CASE FallBack
  <2>1. pc = "fall back" /\ pc' = "sequential" /\ pos' = 2 /\ UNCHANGED values
        /\ built' = <<call.list[1]>> \o call.below
    BY <1>9, <1>g DEF FallBack, param
  <2>2. N > 0
    BY <1>e, <2>1
  <2>3. Whole[1] = call.list[1] /\ Whole[1] \in S
    BY <1>f, <1>g, <2>2
  <2>p. pos' = 2
    BY <2>1
  <2>4. pos' - 1 = 1 /\ pos' \in 2 .. N + 1
    BY <1>n, <2>p, <2>2
  <2> QED BY <1>0, <1>s, <2>1, <2>2, <2>3, <2>4 DEF ReduceInv, Tasked
<1>10. CASE SequentialStep
  <2>1. /\ pc = "sequential" /\ pos \in 2 .. N /\ Whole[pos - 1] \in S
        /\ built = <<Whole[pos - 1]>> \o call.below /\ UNCHANGED values
    BY <1>10, <1>f, <1>g DEF SequentialStep, ReduceInv, param
  <2> DEFINE x == Whole[pos - 1]
             y == call.list[pos]
             s == Exec(call.quots[1], SequentialStack)
  <2>2. x \in S /\ y \in S /\ Whole[pos] = Combine(call.quots[1], x, y) /\ Whole[pos] \in S \cup {Failed}
    <3>1. pos \in 1 .. N
      BY <1>f, <2>1
    <3> QED BY <1>f, <1>g, <2>1, <3>1 DEF q
  <2>3. SequentialStack = <<y, x>> \o call.below
    <3>1. SequentialStack = <<y>> \o (<<x>> \o call.below)
      BY <1>g, <2>1 DEF SequentialStack
    <3> QED BY <1>f, <3>1, OnStack
  <2>4. s = Exec(call.quots[1], <<y, x>> \o call.below)
    BY <1>g, <2>3
  <2>5. /\ s = Failed <=> Whole[pos] = Failed
        /\ s # Failed => s = <<Whole[pos]>> \o call.below
    <3> HIDE DEF x, y, s
    <3> QED BY <2>2, <2>4, OperatorFacts
  <2>6. <<Whole[pos]>> \o call.below # <<>>
    BY <1>f, OnStack
  <2>7. IF s = Failed \/ s = <<>>
        THEN outcome' = Error(pos) /\ pc' = "done"
        ELSE built' = s /\ pos' = pos + 1 /\ pc' = pc
    BY <1>10, <1>g DEF SequentialStep, Raise, Error
  <2> HIDE DEF x, y, s
  <2>8. CASE Whole[pos] = Failed
    <3>1. outcome' = Error(pos) /\ pc' = "done"
      BY <2>5, <2>7, <2>8
    <3>2. Whole[N] = Failed
      <4>1. pos \in 1 .. N
        BY <1>f, <2>1
      <4> QED BY <1>f, <2>8, <4>1, FoldFails DEF Whole
    <3>3. N > 0 /\ outcome'.kind = "error"
      BY <1>n, <2>1, <3>1 DEF Error
    <3>4. Reduced("given").kind = "error"
      BY <1>b, <3>2, <3>3
    <3> QED BY <1>d, <1>r, <2>1, <3>1, <3>3, <3>4
  <2>9. CASE Whole[pos] # Failed
    <3>1. built' = <<Whole[pos]>> \o call.below /\ pos' = pos + 1 /\ pc' = "sequential"
      BY <2>1, <2>5, <2>6, <2>7, <2>9
    <3>2. pos' - 1 = pos /\ pos' \in 2 .. N + 1 /\ N # 0
      BY <1>f, <2>1, <3>1
    <3>3. Whole[pos] \in S
      BY <2>2, <2>9
    <3> QED BY <1>0, <1>s, <2>1, <3>1, <3>2, <3>3 DEF ReduceInv, Tasked
  <2> QED BY <2>8, <2>9
<1>11. CASE EndSequential
  <2>1. pc = "sequential" /\ pos > N /\ pc' = "done" /\ outcome' = Value(<<Head(built)>>)
        /\ UNCHANGED values
    BY <1>11, <1>g DEF EndSequential, Return, Value, param
  <2>2. pos - 1 = N /\ N > 0
    BY <1>f, <2>1 DEF ReduceInv
  <2>3. Whole[N] \in S /\ built = <<Whole[N]>> \o call.below
    BY <2>1, <2>2 DEF ReduceInv
  <2>4. Head(built) = Whole[N] /\ Whole[N] # Failed
    BY <1>f, <1>g, <2>3, OnStack
  <2>5. outcome' = Reduced("given")
    BY <1>b, <2>1, <2>2, <2>4
  <2> QED BY <1>d, <1>r, <2>1, <2>5
<1>12. ASSUME NEW w \in Workers, WorkerStep(w) PROVE UNCHANGED values /\ pc' = "run"
  <2>1. UNCHANGED values /\ pc' = pc
    BY <1>12 DEF WorkerStep, Take, CopyIn, Run, param
  <2>2. worker[w] # 0 => pc = "run"
    BY DEF Typed, TeamInv
  <2>3. pc = "run"
    BY <1>12, <2>2 DEF WorkerStep, Take, CopyIn, Run
  <2> QED BY <2>1, <2>3
<1>13. Prepare \/ Clone \/ JoinFails =>
         UNCHANGED values /\ (pc' \in {"clone", "run"} \/ (pc' = "fall back" /\ ~Enter))
  BY DEF Prepare, Clone, JoinFails, Enter, param
<1>14. Collect => (\E gc \in {0, 1} : CollectLocal(gc)) \/ EndLevel \/ EndReduce
  BY <1>g DEF Collect, CollectMap, CollectFilter, PushFork, EndMap, EndFork, ReduceInv
<1>15. Next => \/ Enter \/ JoinError \/ Join \/ FallBack \/ SequentialStep \/ EndSequential
               \/ Prepare \/ Clone \/ JoinFails \/ Collect \/ \E w \in Workers : WorkerStep(w)
               \/ Dies
  BY DEF Next, ParentStep
<1>16. CASE Dies
  <2>1. pc' = "exit" /\ UNCHANGED values /\ pc \notin {"enter", "done"}
    <3>1. \A w \in Workers : worker[w] # 0 => pc = "run"
      BY DEF Typed, TeamInv
    <3> QED BY <1>16, <3>1, DeathKeeps DEF Dies, CloneFails, CollectFilterDies, CopyInDies
  <2>2. N # 0
    BY <1>e, <1>n, <2>1
  <2> QED BY <1>0, <2>1, <2>2 DEF ReduceInv, Tasked
<1> QED BY <1>16, <1>13, <1>14, <1>15, <1>1, <1>2, <1>3, <1>4, <1>5, <1>6, <1>7, <1>8, <1>9, <1>10, <1>11, <1>12

-----------------------------------------------------------------------------
(* All four together. *)
PromiseInv ==
  /\ CallInv
  /\ Filters => SteadyInv /\ FilterInv
  /\ Forks => SteadyInv /\ ForkInv
  /\ \A S : Reduces(S) => SteadyInv /\ ReduceInv(S)

LEMMA InitSteady == Init /\ CursorInv /\ Steady => SteadyInv
<1> SUFFICES ASSUME Init, CursorInv, Steady PROVE SteadyInv
  OBVIOUS
<1>1. /\ N \in Nat /\ \A i \in 1 .. N : call.list[i] # Garbage
      /\ Len(values) = N /\ values = [i \in 1 .. N |-> Ref(call.list[i], 0)]
      /\ quotation = [i \in 1 .. Len(call.quots) |-> Ref(call.quots[i], 0)]
      /\ pc = "enter"
  BY SteadyFacts DEF Init, CursorInv
<1>2. \A i \in 1 .. Len(values) : Current(values[i])
  BY <1>1 DEF Current, Ref
<1>3. call.name = "preduce" => \A i \in 1 .. Len(values) : ~Inline(values[i].val)
  BY <1>1 DEF Ref, Steady
<1> QED BY <1>1, <1>2, <1>3 DEF SteadyInv, Tasked

LEMMA InitReduce ==
  ASSUME NEW S, Init, CursorInv, Reduces(S)
  PROVE  ReduceInv(S)
<1>1. /\ N \in Nat /\ call.list \in Seq(Members) /\ Len(values) = N
      /\ values = [i \in 1 .. N |-> Ref(call.list[i], 0)] /\ pc = "enter"
      /\ \A i \in 1 .. N : call.list[i] \in S
  BY SteadyFacts DEF Init, CursorInv, Reduces
<1>2. \A i \in 1 .. N : values[i].val = call.list[i]
  BY <1>1 DEF Ref
<1>3. Vals = [k \in 1 .. N |-> call.list[k]]
  BY <1>1, <1>2 DEF Vals
<1>4. call.list = [k \in 1 .. N |-> call.list[k]]
  BY <1>1 DEF N
<1>5. Level = Tree
  BY <1>3, <1>4 DEF Level, Tree
<1> QED BY <1>1, <1>2, <1>5 DEF ReduceInv, Tasked

LEMMA InitPromise == Init => PromiseInv
<1> SUFFICES ASSUME Init PROVE PromiseInv
  OBVIOUS
<1>1. CallInv /\ CursorInv
  BY InitMap, InitCursor
<1>2. ASSUME Filters PROVE SteadyInv /\ FilterInv
  BY <1>1, <1>2, InitSteady DEF Filters, FilterInv, Init
<1>3. ASSUME Forks PROVE SteadyInv /\ ForkInv
  BY <1>1, <1>3, InitSteady DEF Forks, ForkInv, Init
<1>4. ASSUME NEW S, Reduces(S) PROVE SteadyInv /\ ReduceInv(S)
  BY <1>1, <1>4, InitSteady, InitReduce DEF Reduces
<1> QED BY <1>1, <1>2, <1>3, <1>4 DEF PromiseInv

(* Which case a call is does not change.                                   *)
LEMMA CasesSame ==
  [Next]_vars => /\ UNCHANGED call
                 /\ Filters' <=> Filters
                 /\ Forks' <=> Forks
                 /\ \A S : Reduces(S)' <=> Reduces(S)
<1> SUFFICES ASSUME [Next]_vars
             PROVE  /\ UNCHANGED call
                    /\ Filters' <=> Filters
                    /\ Forks' <=> Forks
                    /\ \A S : Reduces(S)' <=> Reduces(S)
  OBVIOUS
<1>1. UNCHANGED <<call, N>>
  BY OrdinaryStable
<1>2. Steady' <=> Steady
  BY <1>1, SteadySame
<1> QED BY <1>1, <1>2 DEF Filters, Forks, Reduces

LEMMA Stutters ==
  ASSUME UNCHANGED vars
  PROVE  /\ SteadyInv => SteadyInv'
         /\ FilterInv => FilterInv'
         /\ ForkInv => ForkInv'
         /\ \A S : ReduceInv(S) => ReduceInv(S)'
<1>0. UNCHANGED <<call, values, quotation, pc, child, task, next, worker, collections,
                  results, built, pos, outcome>>
  BY DEF vars, param, team, heap
<1>1. /\ UNCHANGED <<N, TaskCount>> /\ \A i : UNCHANGED <<Given(i), Asked(i), Made(i)>>
  BY <1>0, SameCount, MadeSame
<1>2. /\ UNCHANGED <<Passed, BadMembers, FilterOutcome, ForkOutcome, Whole, Tree, Orders, Level>>
      /\ \A k : UNCHANGED <<Forked(k), Copied(k), Pair(k), Reduced(k)>>
  BY <1>0, FilterSame, ForkSame, ReduceSame
<1>3. \A i : (TaskSteady(i)' <=> TaskSteady(i)) /\ (Finished(i)' <=> Finished(i))
  BY <1>0, <1>1 DEF TaskSteady, Finished
<1>4. SteadyInv => SteadyInv'
  BY <1>0, <1>1, <1>3 DEF SteadyInv
<1>5. FilterInv => FilterInv'
  BY <1>0, <1>1, <1>2 DEF FilterInv
<1>6. ForkInv => ForkInv'
  BY <1>0, <1>1, <1>2 DEF ForkInv
<1>7. \A S : ReduceInv(S) => ReduceInv(S)'
  BY <1>0, <1>1, <1>2 DEF ReduceInv, Accepted
<1> QED BY <1>4, <1>5, <1>6, <1>7

LEMMA NextPromise ==
  PromiseInv /\ Typed /\ CloneInv /\ [Next]_vars => PromiseInv'
<1> SUFFICES ASSUME PromiseInv, Typed, CloneInv, [Next]_vars PROVE PromiseInv'
  OBVIOUS
<1>0. CallInv'
  BY NextMap DEF PromiseInv, Typed
<1>1. /\ Filters' => Filters
      /\ Forks' => Forks
      /\ \A S : Reduces(S)' => Reduces(S)
  BY CasesSame
<1>2. CASE UNCHANGED vars
  BY <1>0, <1>1, <1>2, Stutters DEF PromiseInv
<1>3. CASE Next
  <2>1. ASSUME Steady, SteadyInv, ~EndLevel PROVE SteadyInv'
    <3>1. ASSUME NEW w \in Workers, WorkerStep(w) PROVE SteadyInv'
      BY <2>1, <3>1, WorkerKeepsSteady
    <3>2. CASE ParentStep
      BY <2>1, <3>2, ParentKeepsSteady
    <3>3. CASE Dies
      <4>1. pc' = "exit" /\ UNCHANGED <<call, values, quotation>>
        BY <3>3, DeathKeeps
      <4> QED BY <2>1, <4>1 DEF SteadyInv, Tasked
    <3> QED BY <1>3, <3>1, <3>2, <3>3 DEF Next
  <2>2. ASSUME Filters PROVE SteadyInv' /\ FilterInv'
    <3>1. Steady /\ SteadyInv /\ FilterInv /\ ~EndLevel
      BY <2>2 DEF Filters, PromiseInv, EndLevel
    <3>2. FilterInv'
      BY <1>3, <2>2, <3>1, FilterStep
    <3> QED BY <2>1, <3>1, <3>2
  <2>3. ASSUME Forks PROVE SteadyInv' /\ ForkInv'
    <3>1. Steady /\ SteadyInv /\ ForkInv /\ ~EndLevel
      BY <2>3 DEF Forks, PromiseInv, EndLevel
    <3>2. ForkInv'
      BY <1>3, <2>3, <3>1, ForkStep
    <3> QED BY <2>1, <3>1, <3>2
  <2>4. ASSUME NEW S, Reduces(S) PROVE SteadyInv' /\ ReduceInv(S)'
    <3>1. Steady /\ SteadyInv /\ ReduceInv(S)
      BY <2>4 DEF Reduces, PromiseInv
    <3>2. ReduceInv(S)'
      BY <1>3, <2>4, <3>1, ReduceStep
    <3>3. SteadyInv'
      BY <2>1, <2>4, <3>1, LevelKeepsSteady
    <3> QED BY <3>2, <3>3
  <2> QED BY <1>0, <1>1, <2>2, <2>3, <2>4 DEF PromiseInv
<1> QED BY <1>2, <1>3

LEMMA PromiseKept ==
  ASSUME PromiseInv, CursorInv
  PROVE  OutcomeAsPromised
<1> DEFINE S == Operands(call.quots[1])
<1> SUFFICES ASSUME pc = "done", Proper(call)
             PROVE  IF call.name = "preduce" THEN Accepted(outcome) ELSE outcome = Promised
  BY DEF OutcomeAsPromised, ProperRequests, Accepted
<1>1. call.name \in {"pmap", "pfilter", "preduce", "pfork"}
      /\ DOMAIN call.quots = 1 .. IF call.name = "pfork" THEN 2 ELSE 1
  BY RequestsAssumption DEF CursorInv, Calls
<1>2. \A i \in DOMAIN call.quots : Resolves(call.quots[i])
  BY DEF Proper, Resolves
<1>3. CASE call.name = "pmap"
  <2>1. Ordinary
    BY <1>1, <1>2, <1>3 DEF Ordinary, Proper
  <2>2. outcome = MapOutcome
    BY <2>1 DEF PromiseInv, CallInv, MapInv
  <2> QED BY <1>3, <2>2 DEF Promised
<1>4. CASE call.name = "pfilter"
  <2>1. Filters
    BY <1>2, <1>4 DEF Filters, Steady, Proper, N
  <2>2. outcome = FilterOutcome
    BY <2>1 DEF PromiseInv, FilterInv
  <2> QED BY <1>4, <2>2 DEF Promised
<1>5. CASE call.name = "pfork"
  <2>1. Forks
    BY <1>2, <1>5 DEF Forks, Steady, Proper
  <2>2. outcome = ForkOutcome
    BY <2>1 DEF PromiseInv, ForkInv
  <2> QED BY <1>5, <2>2 DEF Promised
<1>6. CASE call.name = "preduce"
  <2>1. Reduces(S)
    BY <1>2, <1>6 DEF Reduces, Steady, Proper, N
  <2>2. Accepted(outcome)
    BY <2>1 DEF PromiseInv, ReduceInv
  <2> QED BY <1>6, <2>2
<1> QED BY <1>1, <1>3, <1>4, <1>5, <1>6

(* Each of the four combinators leaves what its definition over the list   *)
(* says ("Order of results matches order of inputs", parallel.c:190),      *)
(* whatever the team, the list, the schedule and the allocations that fail, *)
(* if the call is Proper: pfilter and preduce are not given strings or big *)
(* numbers, the others than pmap do not collect while they copy, and no    *)
(* task of another call executes symbols.                                  *)
THEOREM OutcomeCorrect == Spec => []OutcomeAsPromised
<1>1. Init => PromiseInv /\ Typed /\ CloneInv
  BY InitPromise, InitCursor, InitTeam, InitClones DEF Typed
<1>2. PromiseInv /\ Typed /\ CloneInv /\ [Next]_vars => (PromiseInv /\ Typed /\ CloneInv)'
  BY NextPromise, NextCursor, NextTeam, NextClones DEF Typed
<1>3. PromiseInv /\ Typed /\ CloneInv => OutcomeAsPromised
  BY PromiseKept DEF Typed
<1> QED BY <1>1, <1>2, <1>3, PTL DEF Spec
=============================================================================
