---------------------------- MODULE PackagerProofs ----------------------------
(***************************************************************************)
(* Theorems about Packager, for any number of packagers, clients, batches  *)
(* and crashes, and for every size of a block.                             *)
(***************************************************************************)
EXTENDS Packager, TransactionPoolProofs, FiniteSetTheorems, WellFoundedInduction

-----------------------------------------------------------------------------
(* Selecting batches.                                                      *)

\* No two entries have the same rank, so every position has an entry of that
\* rank: the stable sort by size is a permutation.
LEMMA RankOnto ==
    ASSUME NEW p \in Seq(Digest)
    PROVE  \A k \in DOMAIN p : \E i \in DOMAIN p : Rank(p, i) = k
<1> DEFINE D == DOMAIN p
           Ahead(i) == {j \in D : Before(p, j, i)}
           rank == [i \in D |-> Rank(p, i)]
<1>1. /\ D = 1..Len(p) /\ Len(p) \in Nat
      /\ \A i \in D : p[i] \in Digest /\ Size[p[i]] \in Nat
  BY PackagerAssumption
<1>2. IsFiniteSet(D)
  BY <1>1, FS_Interval
<1>3. ASSUME NEW i \in D
      PROVE  /\ IsFiniteSet(Ahead(i))
             /\ Cardinality(Ahead(i)) \in Nat
             /\ Rank(p, i) \in D
  <2>1. Ahead(i) \subseteq D \ {i}
    BY <1>1 DEF Before
  <2>2. IsFiniteSet(D \ {i}) /\ Cardinality(D \ {i}) = Cardinality(D) - 1
    BY <1>2, FS_RemoveElement
  <2>3. Cardinality(D) = Len(p)
    <3>1. 1..Len(p) = D /\ Len(p) \in Nat /\ 1 \in Int /\ Len(p) \in Int
      BY <1>1
    <3>2. Cardinality(1..Len(p)) = IF 1 > Len(p) THEN 0 ELSE Len(p) - 1 + 1
      BY <3>1, FS_Interval
    <3> QED  BY <3>1, <3>2
  <2> HIDE DEF Ahead, D
  <2>4. /\ IsFiniteSet(Ahead(i))
        /\ Cardinality(Ahead(i)) <= Cardinality(D \ {i})
    BY <2>1, <2>2, FS_Subset
  <2>5. Cardinality(Ahead(i)) \in Nat
    BY <2>4, FS_CardinalityType
  <2>6. Rank(p, i) = Cardinality(Ahead(i)) + 1
    BY DEF Rank, Ahead, D
  <2> QED  BY <1>1, <2>2, <2>3, <2>4, <2>5, <2>6
<1>4. ASSUME NEW i \in D, NEW j \in D, Before(p, i, j)
      PROVE  Rank(p, i) # Rank(p, j)
  <2>1. Ahead(i) \subseteq Ahead(j) /\ i \in Ahead(j) /\ i \notin Ahead(i)
    BY <1>1, <1>4 DEF Before
  <2>2. Cardinality(Ahead(i)) # Cardinality(Ahead(j))
    BY <1>3, <2>1, FS_Subset
  <2>3. /\ Rank(p, i) = Cardinality(Ahead(i)) + 1
        /\ Rank(p, j) = Cardinality(Ahead(j)) + 1
    BY DEF Rank
  <2>4. Cardinality(Ahead(i)) \in Nat /\ Cardinality(Ahead(j)) \in Nat
    BY <1>3
  <2> HIDE DEF Ahead
  <2> QED  BY <2>2, <2>3, <2>4
<1>5. ASSUME NEW i \in D, NEW j \in D, i # j
      PROVE  rank[i] # rank[j]
  <2>1. Before(p, i, j) \/ Before(p, j, i)
    BY <1>1, <1>5 DEF Before
  <2> QED  BY <1>4, <2>1
<1>6. rank \in Injection(D, D)
  BY <1>3, <1>5 DEF Injection, IsInjective
<1>7. rank \in Surjection(D, D)
  BY <1>2, <1>6, FS_Injection
<1> QED  BY <1>7 DEF Surjection

\* What is selected is a sequence of batches of the pool, no longer than a
\* block may be.
LEMMA SelectTyped ==
    ASSUME NEW p \in Seq(Digest), NEW strategy \in {"fifo", "fee"}
    PROVE  /\ Select(p, strategy) \in Seq(Digest)
           /\ Len(Select(p, strategy)) <= MaxPerBlock
<1>1. BySize(p) \in Seq(Digest) /\ Len(BySize(p)) = Len(p)
  <2> DEFINE Entry(k) == p[CHOOSE i \in DOMAIN p : Rank(p, i) = k]
  <2>1. \A k \in DOMAIN p : Entry(k) \in Digest
    BY RankOnto
  <2>2. BySize(p) = [k \in DOMAIN p |-> Entry(k)]
    BY DEF BySize
  <2>3. Len(p) \in Nat /\ DOMAIN p = 1..Len(p)
    OBVIOUS
  <2> HIDE DEF Entry
  <2>4. BySize(p) \in [1..Len(p) -> Digest]
    BY <2>1, <2>2, <2>3
  <2> QED  BY <2>3, <2>4
<1>2. PICK s \in Seq(Digest) : /\ Len(s) = Len(p)
                               /\ Orders(p)[strategy] = s
  BY <1>1 DEF Orders
<1>3. PICK n \in 0..Len(s) : n <= MaxPerBlock /\ Select(p, strategy) = SubSeq(s, 1, n)
  <2> DEFINE n == IF Len(p) < MaxPerBlock THEN Len(p) ELSE MaxPerBlock
  <2>1. Select(p, strategy) = SubSeq(s, 1, n)
    BY <1>2 DEF Select
  <2>2. n \in 0..Len(s) /\ n <= MaxPerBlock
    BY <1>2, PackagerAssumption
  <2> QED  BY <2>1, <2>2
<1>4. SubSeq(s, 1, n) \in Seq(Digest) /\ Len(SubSeq(s, 1, n)) = n
  BY <1>3
<1> QED  BY <1>3, <1>4

-----------------------------------------------------------------------------
(* The inductive invariant.                                                *)

\* The batches to be removed are selected ones; a batch is removed only for a
\* task that may remove; a stepwise caller removes only what is in a block.
TaskInv ==
    /\ \A t \in Packager :
          /\ \A i \in DOMAIN task[t].left : Contains(task[t].batches, task[t].left[i])
          /\ task[t].stage = "handed" =>
                /\ ~task[t].whole
                /\ \A d \in Digest : Contains(task[t].batches, d) => InChain(d)
    /\ \A t \in Client :
          job[t].op = "removing" =>
             /\ t \in Packager
             /\ Removing(t)
             /\ Contains(task[t].batches, job[t].digest)

PackType ==
    /\ task \in [Packager -> Task]
    /\ chain \in Seq(Block)
    /\ crashes \in 0..MaxCrashes
    /\ admitted \in Seq(Digest)
    /\ interrupted \subseteq Task

PackInv == PackType /\ TaskInv /\ ProcessedInBlock

\* Every step of the composition is a step of the pool, or leaves it alone.
LEMMA StepOfPool ==
    ASSUME PackType, [PackNext]_allVars
    PROVE  [Next]_vars
<1>1. CASE UNCHANGED allVars
  BY <1>1 DEF allVars
<1>2. ASSUME NEW t \in Packager,
             Package(t) \/ HandOver(t) \/ RemoveMissing(t) \/ Finish(t)
      PROVE  [Next]_vars
  BY <1>2 DEF Package, HandOver, RemoveMissing, Finish
<1>3. ASSUME NEW t \in Packager, RemoveNext(t)
      PROVE  [Next]_vars
  <2>1. RemoveStart(t, Head(task[t].left)) /\ task[t].left # <<>>
    BY <1>3 DEF RemoveNext
  <2>2. Head(task[t].left) \in Digest
    BY <2>1 DEF PackType, Task
  <2>3. t \in Client
    BY PackagerAssumption
  <2> QED  BY <2>1, <2>2, <2>3 DEF Next, RemoveMulti
<1>4. ASSUME NEW t \in Client \ Packager, Submit(t)
      PROVE  [Next]_vars
  BY <1>4 DEF Submit, Next, AddMulti
<1>5. CASE Crash
  BY <1>5 DEF Crash, Next
<1>6. CASE PoolStep
  BY <1>6, PackagerAssumption DEF PoolStep, Next, RemoveMulti
<1> QED  BY <1>1, <1>2, <1>3, <1>4, <1>5, <1>6 DEF PackNext

-----------------------------------------------------------------------------
(* Each step preserves it.                                                 *)

\* Steps that start no removal and mark no row.
LEMMA QuietStep ==
    ASSUME TaskInv, ProcessedInBlock,
           UNCHANGED <<task, chain, interrupted>>,
           \A t \in Client : job'[t].op = "removing" => job'[t] = job[t],
           \A r \in rows' : r.processed => r \in rows
    PROVE  TaskInv' /\ ProcessedInBlock'
<1>1. TaskInv'
  BY DEF TaskInv, Removing, InChain
<1>2. ProcessedInBlock'
  BY DEF ProcessedInBlock, InChain
<1> QED  BY <1>1, <1>2

\* A copy of the pool is taken: the new task has removed nothing.
LEMMA PackageStep ==
    ASSUME TypeOK, PackInv, NEW t \in Packager, Package(t)
    PROVE  PackInv'
<1>1. PICK whole \in BOOLEAN, strategy \in {"fifo", "fee"} :
          task' = [task EXCEPT ![t] = TaskFor(pool, whole, strategy)]
  BY DEF Package
<1>2. /\ task[t] = NoTask /\ job[t] = Idle
      /\ UNCHANGED <<job, rows, chain, crashes, admitted, interrupted>>
  BY DEF Package, vars, work, storage, history
<1>3. Select(pool, strategy) \in Seq(Digest)
  BY SelectTyped DEF TypeOK
<1> DEFINE new == TaskFor(pool, whole, strategy)
<1>5. new \in Task /\ new.stage = "packed" /\ new.left = new.batches
  BY <1>3 DEF TaskFor, Task
<1>6. \A i \in DOMAIN new.left : Contains(new.batches, new.left[i])
  BY <1>5 DEF Task, Contains
<1>7. /\ task' \in [Packager -> Task]
      /\ task'[t] = new
      /\ \A u \in Packager : u # t => task'[u] = task[u]
  BY <1>1, <1>5 DEF PackInv, PackType
<1> HIDE DEF new
<1>8. TaskInv'
  BY <1>2, <1>5, <1>6, <1>7 DEF PackInv, TaskInv, Removing, InChain, Idle
<1>9. ProcessedInBlock'
  BY <1>2, <1>7 DEF PackInv, ProcessedInBlock, InChain, NoTask
<1> QED  BY <1>2, <1>7, <1>8, <1>9 DEF PackInv, PackType

\* The block is handed over: what the task may have removed is in it.
LEMMA HandOverStep ==
    ASSUME PackInv, NEW t \in Packager, HandOver(t)
    PROVE  PackInv'
<1> DEFINE block == [whole |-> task[t].whole, batches |-> task[t].batches]
<1>1. /\ task[t] \in Task /\ task[t].stage = "packed" /\ job[t] = Idle
      /\ chain' = Append(chain, block)
      /\ UNCHANGED <<job, rows, crashes, admitted, interrupted>>
  BY DEF HandOver, vars, work, storage, history, PackInv, PackType
<1>2. block \in Block /\ chain' \in Seq(Block)
  BY <1>1 DEF Task, Block, PackInv, PackType
<1>3. \A d : InChain(d)' <=> InChain(d) \/ Contains(task[t].batches, d)
  <2>1. /\ DOMAIN chain' = DOMAIN chain \cup {Len(chain) + 1}
        /\ \A i \in DOMAIN chain : chain'[i] = chain[i]
        /\ chain'[Len(chain) + 1] = block
    BY <1>1, <1>2 DEF PackInv, PackType
  <2> QED  BY <2>1 DEF InChain
<1>4. CASE task[t].whole
  <2>1. /\ task' \in [Packager -> Task] /\ task'[t] = NoTask
        /\ \A u \in Packager : u # t => task'[u] = task[u]
    BY <1>4 DEF HandOver, PackInv, PackType, Task, NoTask
  <2>2. TaskInv'
    BY <1>1, <1>3, <2>1 DEF PackInv, TaskInv, Removing, Idle, NoTask
  <2>3. ProcessedInBlock'
    BY <1>1, <1>3, <2>1 DEF PackInv, ProcessedInBlock
  <2> QED  BY <1>1, <1>2, <2>1, <2>2, <2>3 DEF PackInv, PackType
<1>5. CASE ~task[t].whole
  <2>1. /\ task' \in [Packager -> Task]
        /\ task'[t].stage = "handed" /\ ~task'[t].whole
        /\ task'[t].batches = task[t].batches /\ task'[t].left = task[t].left
        /\ \A u \in Packager : u # t => task'[u] = task[u]
    BY <1>1, <1>5 DEF HandOver, PackInv, PackType, Task
  <2>2. TaskInv'
    BY <1>1, <1>3, <2>1 DEF PackInv, TaskInv, Removing, Idle
  <2>3. ProcessedInBlock'
    BY <1>1, <1>3, <2>1, <1>5 DEF PackInv, ProcessedInBlock
  <2> QED  BY <1>1, <1>2, <2>1, <2>2, <2>3 DEF PackInv, PackType
<1> QED  BY <1>4, <1>5

\* The first of the batches left is removed, or has left the pool meanwhile.
LEMMA ShiftStep ==
    ASSUME PackInv, NEW t \in Packager, RemoveNext(t) \/ RemoveMissing(t)
    PROVE  PackInv'
<1> DEFINE d == Head(task[t].left)
<1>1. /\ task[t] \in Task /\ task[t].left # <<>> /\ Removing(t)
      /\ UNCHANGED <<rows, chain, crashes, admitted, interrupted>>
      /\ task' = [task EXCEPT ![t].left = Tail(task[t].left)]
  BY DEF RemoveNext, RemoveMissing, RemoveStart, vars, storage, history,
         PackInv, PackType
<1>2. d \in Digest /\ Contains(task[t].batches, d)
  BY <1>1 DEF Task, PackInv, TaskInv
<1>3. job' = job \/ job' = [job EXCEPT ![t] = [op |-> "removing", digest |-> d]]
  BY DEF RemoveNext, RemoveMissing, RemoveStart, vars, work
<1>4. /\ Tail(task[t].left) \in Seq(Digest)
      /\ \A i \in DOMAIN Tail(task[t].left) : Contains(task[t].batches, Tail(task[t].left)[i])
  BY <1>1 DEF Task, PackInv, TaskInv
<1>5. /\ task' \in [Packager -> Task]
      /\ task'[t].left = Tail(task[t].left)
      /\ task'[t].stage = task[t].stage /\ task'[t].whole = task[t].whole
      /\ task'[t].batches = task[t].batches
      /\ \A u \in Packager : u # t => task'[u] = task[u]
  BY <1>1, <1>4 DEF Task, PackInv, PackType
<1>6. TaskInv'
  <2>1. CASE job' = job
    BY <1>1, <1>4, <1>5, <2>1 DEF PackInv, TaskInv, Removing, InChain
  <2>2. CASE job' = [job EXCEPT ![t] = [op |-> "removing", digest |-> d]]
    BY <1>1, <1>2, <1>4, <1>5, <2>2 DEF PackInv, TaskInv, Removing, InChain
  <2> QED  BY <1>3, <2>1, <2>2
<1>7. ProcessedInBlock'
  BY <1>1, <1>5 DEF PackInv, ProcessedInBlock, InChain
<1> QED  BY <1>1, <1>5, <1>6, <1>7 DEF PackInv, PackType

\* A stepwise caller is done: what it removed is in its block.
LEMMA FinishStep ==
    ASSUME PackInv, NEW t \in Packager, Finish(t)
    PROVE  PackInv'
<1>1. /\ task[t].stage = "handed" /\ job[t] = Idle
      /\ UNCHANGED <<job, rows, chain, crashes, admitted, interrupted>>
  BY DEF Finish, vars, work, storage, history
<1>2. /\ task' \in [Packager -> Task] /\ task'[t] = NoTask
      /\ \A u \in Packager : u # t => task'[u] = task[u]
  BY DEF Finish, PackInv, PackType, Task, NoTask
<1>3. TaskInv'
  BY <1>1, <1>2 DEF PackInv, TaskInv, Removing, InChain, Idle, NoTask
<1>4. ProcessedInBlock'
  BY <1>1, <1>2 DEF PackInv, TaskInv, ProcessedInBlock, InChain
<1> QED  BY <1>1, <1>2, <1>3, <1>4 DEF PackInv, PackType

\* Clients add: the rows they add are unprocessed.
LEMMA SubmitStep ==
    ASSUME TypeOK, LockDiscipline, PackInv, NEW t \in Client \ Packager, Submit(t)
    PROVE  PackInv'
<1>1. CASE (\E d \in Digest : Validate(t, d)) /\ UNCHANGED <<task, chain, history>>
  <2>1. PICK d \in Digest : Validate(t, d)
    BY <1>1
  <2>2. \A u \in Client : job'[u].op = "removing" => job'[u] = job[u]
    BY <2>1 DEF Validate, TypeOK
  <2>3. UNCHANGED <<rows, task, chain, crashes, admitted, interrupted>>
    BY <1>1, <2>1 DEF Validate, storage, history
  <2> QED  BY <2>2, <2>3, QuietStep DEF PackInv, PackType
<1>2. CASE /\ Enter(t)
           /\ admitted' = Append(admitted, job[t].digest)
           /\ UNCHANGED <<task, chain, crashes, interrupted>>
  <2>1. \A u \in Client : job'[u].op = "removing" => job'[u] = job[u]
    BY <1>2 DEF Enter, TypeOK, Idle
  <2>2. \A r \in rows' : r.processed => r \in rows
    BY <1>2 DEF Enter, InsertOrReplace
  <2>3. job[t].digest \in Digest
    BY <1>2 DEF Enter, LockDiscipline, Thread
  <2> QED  BY <1>2, <2>1, <2>2, <2>3, QuietStep DEF PackInv, PackType
<1> QED  BY <1>1, <1>2 DEF Submit

\* A crash cuts the tasks off; what a stepwise caller has removed is in its
\* block, what the one call has removed is recorded with it.
LEMMA CrashStep ==
    ASSUME PackInv, Crash
    PROVE  PackInv'
<1>1. /\ task' = [t \in Packager |-> NoTask]
      /\ interrupted' = interrupted \cup ({task[t] : t \in Packager} \ {NoTask})
      /\ crashes' \in 0..MaxCrashes
      /\ UNCHANGED <<rows, chain, admitted>>
  BY PackagerAssumption DEF Crash, Restart, storage, PackInv, PackType
<1>2. \A t \in Client : job'[t].op # "removing"
  BY DEF Crash, Restart, Idle, Thread
<1>3. NoTask \in Task
  BY DEF NoTask, Task
<1>4. TaskInv'
  BY <1>1, <1>2 DEF TaskInv, NoTask
<1>5. ProcessedInBlock'
  <2>1. ASSUME NEW t \in Packager, task[t].whole
        PROVE  task[t] \in interrupted'
    BY <1>1, <2>1 DEF NoTask
  <2>2. \A d : InChain(d)' <=> InChain(d)
    BY <1>1 DEF InChain
  <2> QED  BY <1>1, <2>1, <2>2 DEF PackInv, ProcessedInBlock
<1>6. PackType'
  BY <1>1, <1>3 DEF PackInv, PackType
<1> QED  BY <1>4, <1>5, <1>6 DEF PackInv

\* A row is marked processed for a task that removes: for the one call, which
\* runs, or for a stepwise caller, whose block is handed over.
LEMMA RemoveFinishTask ==
    ASSUME TypeOK, PackInv, NEW t \in Packager, RemoveFinish(t),
           UNCHANGED <<task, chain, history>>
    PROVE  PackInv'
<1> DEFINE d == job[t].digest
<1>1. /\ job[t].op = "removing"
      /\ job' = [job EXCEPT ![t] = Idle]
      /\ rows' = rows \/ rows' = MarkProcessed(d)
  BY DEF RemoveFinish
<1>2. TaskInv'
  BY <1>1 DEF TypeOK, PackInv, TaskInv, Removing, InChain, Idle
<1>3. \A r \in rows' : r.processed => r \in rows \/ r.digest = d
  BY <1>1 DEF MarkProcessed, TypeOK, Row
<1>4. Removing(t) /\ Contains(task[t].batches, d)
  BY <1>1, PackagerAssumption DEF PackInv, TaskInv
<1>5. task[t].whole \/ InChain(d)
  <2>1. CASE d \in Digest
    BY <1>4, <2>1 DEF Removing, PackInv, TaskInv
  <2>2. CASE d \notin Digest
    BY <1>4, <2>2 DEF PackInv, PackType, Task, Contains
  <2> QED  BY <2>1, <2>2
<1>6. ProcessedInBlock'
  BY <1>3, <1>4, <1>5 DEF PackInv, ProcessedInBlock, InChain, history
<1> QED  BY <1>2, <1>6 DEF PackInv, PackType, history

\* The rest of the pool's steps.
LEMMA PoolStepStep ==
    ASSUME TypeOK, PackInv, PoolStep
    PROVE  PackInv'
<1>1. UNCHANGED <<task, chain, crashes, admitted, interrupted>>
  BY DEF PoolStep, history
<1>2. SUFFICES ASSUME \/ \E d \in Digest : Create(d)
                      \/ \E t \in Client \ Packager : Clear(t)
                      \/ \E t \in Thread : RebuildStep(t)
                      \/ Expire \/ Load \/ Tick
               PROVE  PackInv'
  BY RemoveFinishTask DEF PoolStep
<1>3. /\ \A t \in Client : job'[t].op = "removing" => job'[t] = job[t]
      /\ rows' \subseteq rows
  <2>1. CASE (\E d \in Digest : Create(d)) \/ Tick \/ \E t \in Thread : RebuildStep(t)
    BY <2>1 DEF Create, Tick, RebuildStep, work, storage
  <2>2. CASE \E t \in Client \ Packager : Clear(t)
    BY <2>2 DEF Clear, work
  <2>3. CASE Expire
    BY <2>3, ThreadAssumption DEF Expire, ExpireStart, ExpireFail, ExpireDrop, ExpireFinish,
       storage, work, Thread, TypeOK
  <2>4. CASE Load
    BY <2>4, ThreadAssumption DEF Load, LoadRow, LoadDone, storage, Thread, TypeOK
  <2> QED  BY <1>2, <2>1, <2>2, <2>3, <2>4
<1>4. TaskInv' /\ ProcessedInBlock'
  BY <1>1, <1>3, QuietStep DEF PackInv
<1> QED  BY <1>1, <1>4 DEF PackInv, PackType

-----------------------------------------------------------------------------
(* The theorems.                                                           *)

\* Before anything was packaged.
LEMMA PackInvInit ==
    ASSUME PackInit
    PROVE  PackInv
<1>1. PackType
  BY PackagerAssumption DEF PackInit, PackType, NoTask, Task
<1>2. TaskInv
  BY DEF PackInit, Init, TaskInv, NoTask, Idle, Thread
<1>3. ProcessedInBlock
  BY DEF PackInit, Init, ProcessedInBlock
<1> QED  BY <1>1, <1>2, <1>3 DEF PackInv

\* Every step of the composition, given the pool's invariant.
LEMMA PackInvStep ==
    ASSUME IndexInv, PackInv, [PackNext]_allVars
    PROVE  PackInv'
<1>1. TypeOK /\ LockDiscipline
  BY DEF IndexInv
<1>2. CASE UNCHANGED allVars
  BY <1>2, QuietStep DEF allVars, vars, history, work, storage, PackInv, PackType
<1>3. CASE PackNext
  BY <1>1, <1>3, PackageStep, HandOverStep, ShiftStep, FinishStep, SubmitStep,
     CrashStep, PoolStepStep DEF PackNext
<1> QED  BY <1>2, <1>3

\* The two invariants hold together: the pool's carries the packagers' through
\* a step, the packagers' makes the step one of the pool.
THEOREM PackInvariant == PackSpec => [](IndexInv /\ PackInv)
<1>1. PackInit => IndexInv /\ PackInv
  BY IndexInvInit, PackInvInit DEF PackInit
<1>2. IndexInv /\ PackInv /\ [PackNext]_allVars => (IndexInv /\ PackInv)'
  BY StepOfPool, IndexInvStep, PackInvStep DEF PackInv
<1> QED  BY <1>1, <1>2, PTL DEF PackSpec

\* The packagers use the pool as its specification allows: every theorem about
\* TransactionPool holds of the pool they share with clients and cleaner.
THEOREM PoolUnderPackagers == PackSpec => Spec
<1>1. PackInit => Init
  BY DEF PackInit
<1>2. PackInv /\ [PackNext]_allVars => [Next]_vars
  BY StepOfPool DEF PackInv
<1> QED  BY <1>1, <1>2, PackInvariant, PTL DEF PackSpec, Spec

\* Every variable keeps its type, the selected batches included.
THEOREM PackTypeCorrect == PackSpec => []PackTypeOK
<1>1. IndexInv /\ PackInv => PackTypeOK
  BY DEF IndexInv, PackInv, PackType, PackTypeOK
<1> QED  BY <1>1, PackInvariant, PTL

\* A batch marked processed is in a block or in the package of the one call,
\* for any number of packagers, whatever crashes and database faults come
\* between the steps: stepwise callers never lose a batch.
THEOREM NoBatchLost == PackSpec => []ProcessedInBlock
<1>1. PackInv => ProcessedInBlock
  BY DEF PackInv
<1> QED  BY <1>1, PackInvariant, PTL

-----------------------------------------------------------------------------
(* Counting the occurrences of a batch.                                    *)

\* There are finitely many, and none of what is not there.
LEMMA CountIs ==
    ASSUME NEW S, NEW s \in Seq(S), NEW d
    PROVE  /\ IsFiniteSet({i \in DOMAIN s : s[i] = d})
           /\ Occurrences(s, d) \in Nat
           /\ Occurrences(s, d) = 0 <=> ~Contains(s, d)
<1> DEFINE at == {i \in DOMAIN s : s[i] = d}
<1>1. Len(s) \in Nat /\ DOMAIN s = 1..Len(s)
  BY LenProperties
<1>2. IsFiniteSet(DOMAIN s)
  BY <1>1, FS_Interval
<1>3. IsFiniteSet(at)
  <2>1. at \in SUBSET DOMAIN s
    OBVIOUS
  <2> HIDE DEF at
  <2> QED  BY <1>2, <2>1, FS_Subset
<1>4. Occurrences(s, d) = Cardinality(at)
  BY DEF Occurrences
<1>5. at = {} <=> ~Contains(s, d)
  BY <1>1 DEF Contains
<1> HIDE DEF at
<1>6. Cardinality(at) \in Nat /\ (Cardinality(at) = 0 <=> at = {})
  BY <1>3, FS_CardinalityType, FS_EmptySet
<1>7. IsFiniteSet({i \in DOMAIN s : s[i] = d})
  BY <1>3 DEF at
<1> QED  BY <1>4, <1>5, <1>6, <1>7

\* A concatenation has the occurrences of both parts.
LEMMA CountConcat ==
    ASSUME NEW S, NEW s \in Seq(S), NEW q \in Seq(S), NEW d
    PROVE  Occurrences(s \o q, d) = Occurrences(s, d) + Occurrences(q, d)
<1> DEFINE w == s \o q
           A == {i \in DOMAIN s : s[i] = d}
           B == {i \in DOMAIN q : q[i] = d}
           C == {i \in DOMAIN w : w[i] = d}
           n == Len(s)
           shift == [i \in B |-> i + n]
           D == {i + n : i \in B}
<1>1. /\ n \in Nat /\ DOMAIN s = 1..n
      /\ Len(q) \in Nat /\ DOMAIN q = 1..Len(q)
  BY LenProperties
<1>2. /\ w \in Seq(S) /\ Len(w) = n + Len(q)
      /\ \A i \in 1..n + Len(q) : w[i] = IF i <= n THEN s[i] ELSE q[i - n]
  BY ConcatProperties
<1>3. DOMAIN w = 1..n + Len(q)
  BY <1>1, <1>2, LenProperties
<1> HIDE DEF w, n
<1>4. C = A \cup D
  <2>1. ASSUME NEW i \in C PROVE i \in A \cup D
    <3>1. i \in 1..n + Len(q) /\ w[i] = d
      BY <1>3
    <3>2. CASE i <= n
      BY <1>1, <1>2, <3>1, <3>2
    <3>3. CASE ~(i <= n)
      <4>1. i - n \in DOMAIN q /\ q[i - n] = d /\ i = (i - n) + n
        BY <1>1, <1>2, <3>1, <3>3
      <4> QED  BY <4>1
    <3> QED  BY <3>2, <3>3
  <2>2. ASSUME NEW i \in A PROVE i \in C
    <3>1. i \in 1..n + Len(q) /\ i <= n /\ s[i] = d
      BY <1>1
    <3> QED  BY <1>2, <1>3, <3>1
  <2>3. ASSUME NEW i \in D PROVE i \in C
    <3>1. PICK k \in DOMAIN q : q[k] = d /\ i = k + n
      BY <2>3
    <3>2. k \in 1..Len(q)
      BY <1>1, <3>1
    <3>3. i \in 1..n + Len(q) /\ ~(i <= n) /\ i - n = k
      BY <1>1, <3>1, <3>2
    <3> QED  BY <1>2, <1>3, <3>1, <3>3
  <2> QED  BY <2>1, <2>2, <2>3
<1>5. A \cap D = {}
  BY <1>1
<1>6. IsFiniteSet(A) /\ IsFiniteSet(B)
  BY CountIs
<1>7. IsFiniteSet(D) /\ Cardinality(D) = Cardinality(B)
  <2>1. shift \in Bijection(B, D)
    BY <1>1 DEF Bijection, Injection, Surjection, IsInjective
  <2>2. ExistsBijection(B, D)
    BY <2>1 DEF ExistsBijection
  <2> HIDE DEF B, D
  <2> QED  BY <1>6, <2>2, FS_Bijection
<1>8. Cardinality(A) = Occurrences(s, d) /\ Cardinality(B) = Occurrences(q, d)
  BY DEF Occurrences
<1>9. Occurrences(s \o q, d) = Cardinality(C)
  BY DEF Occurrences, w
<1>10. Cardinality(A) \in Nat /\ Cardinality(D) \in Nat
  BY <1>6, <1>7, <1>8, CountIs
<1> HIDE DEF A, B, C, D
<1>11. Cardinality(A \cup D) = Cardinality(A) + Cardinality(D) - Cardinality({})
  BY <1>5, <1>6, <1>7, FS_Union
<1> QED  BY <1>4, <1>7, <1>8, <1>9, <1>10, <1>11, FS_EmptySet

\* One entry.
LEMMA CountOne ==
    ASSUME NEW S, NEW e \in S, NEW d
    PROVE  /\ <<e>> \in Seq(S)
           /\ Occurrences(<<e>>, d) = IF e = d THEN 1 ELSE 0
<1> DEFINE w == <<e>>
<1>1. w \in Seq(S) /\ DOMAIN w = {1} /\ w[1] = e
  OBVIOUS
<1> HIDE DEF w
<1>2. {i \in DOMAIN w : w[i] = d} = IF e = d THEN {1} ELSE {}
  BY <1>1
<1>3. Occurrences(w, d) = IF e = d THEN 1 ELSE 0
  BY <1>2, FS_Singleton, FS_EmptySet DEF Occurrences
<1> QED  BY <1>1, <1>3 DEF w

\* Appending, taking the first and taking any entry out.
LEMMA CountAppend ==
    ASSUME NEW S, NEW s \in Seq(S), NEW e \in S, NEW d
    PROVE  /\ Append(s, e) \in Seq(S)
           /\ Occurrences(Append(s, e), d) = Occurrences(s, d) + (IF e = d THEN 1 ELSE 0)
<1> DEFINE w == <<e>>
<1>1. Append(s, e) = s \o w /\ Append(s, e) \in Seq(S)
  BY AppendIsConcat, AppendProperties
<1>2. w \in Seq(S) /\ Occurrences(w, d) = IF e = d THEN 1 ELSE 0
  BY CountOne
<1> HIDE DEF w
<1>3. Occurrences(s \o w, d) = Occurrences(s, d) + Occurrences(w, d)
  BY <1>2, CountConcat
<1> QED  BY <1>1, <1>2, <1>3

\* A batch occurs in a sequence as often as in its tail, and once more if it
\* comes first.
LEMMA CountTail ==
    ASSUME NEW S, NEW s \in Seq(S), s # <<>>, NEW d
    PROVE  /\ Head(s) \in S /\ Tail(s) \in Seq(S)
           /\ Occurrences(s, d) = Occurrences(Tail(s), d) + (IF Head(s) = d THEN 1 ELSE 0)
<1>1. Head(s) \in S /\ Tail(s) \in Seq(S) /\ Len(s) \in Nat \ {0}
  BY HeadTailProperties, EmptySeq
<1>2. s = <<Head(s)>> \o Tail(s)
  <2>1. 1 \in 1..Len(s) /\ Len(s) \in 1..Len(s)
    BY <1>1
  <2>2. SubSeq(s, 1, Len(s)) = <<s[1]>> \o SubSeq(s, 1 + 1, Len(s))
    BY <2>1, SubSeqRecursiveFirst
  <2>3. SubSeq(s, 1, Len(s)) = s /\ Tail(s) = SubSeq(s, 2, Len(s))
    BY SubSeqFull, TailIsSubSeq
  <2>4. Head(s) = s[1]
    OBVIOUS
  <2> QED  BY <2>2, <2>3, <2>4
<1>3. Occurrences(s, d) = Occurrences(<<Head(s)>>, d) + Occurrences(Tail(s), d)
  <2> DEFINE h == <<Head(s)>>
             r == Tail(s)
  <2>1. h \in Seq(S) /\ r \in Seq(S) /\ s = h \o r
    BY <1>1, <1>2, CountOne
  <2> HIDE DEF h, r
  <2>2. Occurrences(s, d) = Occurrences(h, d) + Occurrences(r, d)
    BY <2>1, CountConcat
  <2> QED  BY <2>2 DEF h, r
<1>4. Occurrences(<<Head(s)>>, d) = IF Head(s) = d THEN 1 ELSE 0
  BY <1>1, CountOne
<1>5. Occurrences(Tail(s), d) \in Nat
  BY <1>1, CountIs
<1> QED  BY <1>1, <1>3, <1>4, <1>5

\* Taking an entry out of a sequence takes one occurrence from its batch.
LEMMA CountRemoveAt ==
    ASSUME NEW S, NEW s \in Seq(S), NEW i \in 1..Len(s), NEW d
    PROVE  Occurrences(s, d) = Occurrences(RemoveAt(s, i), d) + (IF s[i] = d THEN 1 ELSE 0)
<1> DEFINE a == SubSeq(s, 1, i - 1)
           b == SubSeq(s, i, Len(s))
           c == SubSeq(s, i + 1, Len(s))
           w == <<s[i]>>
<1>1. /\ Len(s) \in Nat /\ s[i] \in S /\ i - 1 \in 1 - 1..Len(s)
      /\ 1 \in 1..Len(s) + 1 /\ Len(s) \in i - 1..Len(s) /\ (i - 1) + 1 = i
      /\ Len(s) \in i..Len(s)
  BY LenProperties, ElementOfSeq
<1>2. SubSeq(s, 1, i - 1) \o SubSeq(s, (i - 1) + 1, Len(s)) = SubSeq(s, 1, Len(s))
  BY <1>1, ConcatAdjacentSubSeq
<1>3. a \o b = s
  BY <1>1, <1>2, SubSeqFull
<1>4. b = w \o c
  BY <1>1, SubSeqRecursiveFirst
<1>5. a \in Seq(S) /\ b \in Seq(S) /\ c \in Seq(S) /\ w \in Seq(S)
  BY <1>1, CountOne
<1>6. RemoveAt(s, i) = a \o c
  BY DEF RemoveAt
<1>7. Occurrences(w, d) = IF s[i] = d THEN 1 ELSE 0
  BY <1>1, CountOne
<1> HIDE DEF a, b, c, w
<1>8. /\ Occurrences(s, d) = Occurrences(a, d) + Occurrences(b, d)
      /\ Occurrences(b, d) = Occurrences(w, d) + Occurrences(c, d)
      /\ Occurrences(a \o c, d) = Occurrences(a, d) + Occurrences(c, d)
  <2>1. \A u, v \in Seq(S) : Occurrences(u \o v, d) = Occurrences(u, d) + Occurrences(v, d)
    BY CountConcat
  <2> QED  BY <1>3, <1>4, <1>5, <2>1
<1>9. Occurrences(a, d) \in Nat /\ Occurrences(c, d) \in Nat
  BY <1>5, CountIs
<1> QED  BY <1>6, <1>7, <1>8, <1>9

\* A batch is selected at most as often as it is in the pool.
LEMMA CountSelect ==
    ASSUME NEW p \in Seq(Digest), NEW strategy \in {"fifo", "fee"}, NEW d
    PROVE  Occurrences(Select(p, strategy), d) <= Occurrences(p, d)
<1>1. ASSUME NEW s \in Seq(Digest), NEW n \in 0..Len(s)
      PROVE  Occurrences(SubSeq(s, 1, n), d) <= Occurrences(s, d)
  <2> DEFINE a == SubSeq(s, 1, n)
             b == SubSeq(s, n + 1, Len(s))
  <2>1. /\ Len(s) \in Nat /\ 1 \in 1..Len(s) + 1
        /\ n \in 1 - 1..Len(s) /\ Len(s) \in n..Len(s)
    BY LenProperties
  <2>2. a \o b = SubSeq(s, 1, Len(s))
    BY <2>1, ConcatAdjacentSubSeq
  <2>3. a \o b = s
    BY <2>2, SubSeqFull
  <2>4. a \in Seq(Digest) /\ b \in Seq(Digest)
    BY <2>1
  <2> HIDE DEF a, b
  <2>5. /\ Occurrences(a \o b, d) = Occurrences(a, d) + Occurrences(b, d)
        /\ Occurrences(a, d) \in Nat /\ Occurrences(b, d) \in Nat
    <3>1. Occurrences(a \o b, d) = Occurrences(a, d) + Occurrences(b, d)
      BY <2>4, CountConcat
    <3>2. Occurrences(a, d) \in Nat /\ Occurrences(b, d) \in Nat
      BY <2>4, CountIs
    <3> QED  BY <3>1, <3>2
  <2>6. Occurrences(a, d) <= Occurrences(s, d)
    BY <2>3, <2>5
  <2> QED  BY <2>6 DEF a
<1>2. /\ BySize(p) \in Seq(Digest) /\ Len(BySize(p)) = Len(p)
      /\ Occurrences(BySize(p), d) <= Occurrences(p, d)
  <2> DEFINE of(k) == CHOOSE i \in DOMAIN p : Rank(p, i) = k
             q == BySize(p)
             A == {k \in DOMAIN p : p[of(k)] = d}
             B == {i \in DOMAIN p : p[i] = d}
             f == [k \in A |-> of(k)]
  <2>1. \A k \in DOMAIN p : of(k) \in DOMAIN p /\ Rank(p, of(k)) = k
    BY RankOnto
  <2>2. q = [k \in DOMAIN p |-> p[of(k)]]
    BY DEF BySize
  <2> HIDE DEF of, q
  <2>3. Len(p) \in Nat /\ DOMAIN p = 1..Len(p) /\ \A i \in DOMAIN p : p[i] \in Digest
    BY LenProperties, ElementOfSeq
  <2>4. q \in [1..Len(p) -> Digest]
    BY <2>1, <2>2, <2>3
  <2>5. q \in Seq(Digest) /\ Len(q) = Len(p)
    BY <2>3, <2>4
  <2>6. f \in Injection(A, B)
    <3>1. \A k \in A : of(k) \in B
      BY <2>1
    <3>2. \A j, k \in A : of(j) = of(k) => j = k
      BY <2>1
    <3> HIDE DEF A, B
    <3> QED  BY <3>1, <3>2 DEF Injection, IsInjective
  <2>7. IsFiniteSet(B)
    BY CountIs
  <2>8. Occurrences(q, d) = Cardinality(A) /\ Occurrences(p, d) = Cardinality(B)
    <3>1. {k \in DOMAIN q : q[k] = d} = A
      BY <2>2
    <3> QED  BY <3>1, Zenon DEF Occurrences
  <2> HIDE DEF A, B, f
  <2>9. Cardinality(A) <= Cardinality(B)
    BY <2>6, <2>7, FS_Injection
  <2> QED  BY <2>5, <2>8, <2>9 DEF q
<1>3. PICK s \in Seq(Digest) :
        /\ Len(s) = Len(p) /\ Orders(p)[strategy] = s
        /\ Occurrences(s, d) <= Occurrences(p, d)
  <2>1. Occurrences(p, d) \in Nat
    BY CountIs
  <2>2. CASE strategy = "fifo"
    BY <2>1, <2>2 DEF Orders
  <2>3. CASE strategy = "fee"
    BY <1>2, <2>3 DEF Orders
  <2> QED  BY <2>2, <2>3
<1>4. PICK n \in 0..Len(s) : Select(p, strategy) = SubSeq(s, 1, n)
  <2> DEFINE n == IF Len(p) < MaxPerBlock THEN Len(p) ELSE MaxPerBlock
  <2>1. Select(p, strategy) = SubSeq(s, 1, n)
    BY <1>3 DEF Select
  <2>2. n \in 0..Len(s)
    BY <1>3, PackagerAssumption
  <2> QED  BY <2>1, <2>2
<1>5. Occurrences(SubSeq(s, 1, n), d) <= Occurrences(s, d)
  BY <1>1
<1>6. SubSeq(s, 1, n) \in Seq(Digest)
  BY <1>4, SelectTyped
<1>7. /\ Occurrences(SubSeq(s, 1, n), d) \in Nat /\ Occurrences(s, d) \in Nat
      /\ Occurrences(p, d) \in Nat
  BY <1>6, CountIs
<1> QED  BY <1>3, <1>4, <1>5, <1>7

-----------------------------------------------------------------------------
(* The batches of all blocks, one after the other.                         *)

\* A set of numbers that is not empty has a least one.
LEMMA LeastNumber ==
    ASSUME NEW T, T \subseteq Nat, T # {}
    PROVE  \E x \in T : \A y \in T : x <= y
<1> DEFINE less == {ss \in Nat \X Nat : ss[1] < ss[2]}
<1>1. IsWellFoundedOn(less, Nat)
  BY NatLessThanWellFounded, Zenon DEF OpToRel
<1>2. PICK x \in T : \A y \in T : ~(<<y, x>> \in less)
  <2> HIDE DEF less
  <2> QED  BY <1>1, WFMin
<1>3. \A y \in T : x <= y
  <2> TAKE y \in T
  <2>1. x \in Nat /\ y \in Nat /\ ~(<<y, x>> \in less)
    BY <1>2
  <2> QED  BY <2>1
<1> QED  BY <1>3

\* f[i] is the concatenation of the first i sequences of ss.
Flattens(f, ss, n) ==
    \A i \in 1..n : f[i] = IF i = 1 THEN ss[i] ELSE f[i - 1] \o ss[i]

\* Such a function exists for any sequence of sequences.
LEMMA FlattenExists ==
    ASSUME NEW S, NEW ss \in Seq(Seq(S)), NEW n \in 1..Len(ss)
    PROVE  \E f \in [1..n -> Seq(S)] : Flattens(f, ss, n)
<1> DEFINE has(k) == \E f \in [1..k -> Seq(S)] : Flattens(f, ss, k)
           bad == {k \in 1..Len(ss) : ~has(k)}
<1>1. Len(ss) \in Nat /\ \A i \in 1..Len(ss) : ss[i] \in Seq(S)
  BY LenProperties, ElementOfSeq
<1> SUFFICES ASSUME bad # {} PROVE FALSE
  OBVIOUS
<1>2. PICK k \in bad : \A j \in bad : k <= j
  <2>1. bad \subseteq Nat
    BY <1>1
  <2> HIDE DEF bad
  <2> QED  BY <2>1, LeastNumber
<1>3. k \in 1..Len(ss) /\ ~has(k)
  BY <1>2
<1>4. CASE k = 1
  <2> DEFINE f == [i \in 1..1 |-> ss[1]]
  <2>1. f \in [1..k -> Seq(S)] /\ Flattens(f, ss, k)
    BY <1>1, <1>3, <1>4 DEF Flattens
  <2> QED  BY <1>3, <2>1
<1>5. CASE k # 1
  <2>1. k - 1 \in 1..Len(ss) /\ k \in Nat /\ ~(k <= k - 1)
    BY <1>1, <1>3, <1>5
  <2>2. has(k - 1)
    BY <1>2, <2>1
  <2>3. PICK f \in [1..k - 1 -> Seq(S)] : Flattens(f, ss, k - 1)
    BY <2>2
  <2> DEFINE g == [i \in 1..k |-> IF i < k THEN f[i] ELSE f[k - 1] \o ss[k]]
  <2>4. f[k - 1] \o ss[k] \in Seq(S)
    <3>1. f[k - 1] \in Seq(S) /\ ss[k] \in Seq(S)
      BY <1>1, <1>3, <2>1, <2>3
    <3> QED  BY <3>1, ConcatProperties
  <2>5. g \in [1..k -> Seq(S)]
    <3>1. \A i \in 1..k : i < k => i \in 1..k - 1
      BY <1>1, <1>3
    <3> DEFINE x == f[k - 1] \o ss[k]
    <3>2. x \in Seq(S)
      BY <2>4
    <3>3. \A i \in 1..k : i < k => f[i] \in Seq(S)
      BY <2>3, <3>1
    <3>4. g = [i \in 1..k |-> IF i < k THEN f[i] ELSE x]
      OBVIOUS
    <3> HIDE DEF x, g
    <3>5. PICK T : T = Seq(S)
      OBVIOUS
    <3>6. x \in T /\ \A i \in 1..k : i < k => f[i] \in T
      BY <3>2, <3>3, <3>5
    <3>7. g \in [1..k -> T]
      BY <3>4, <3>6
    <3> QED  BY <3>5, <3>7
  <2>6. ASSUME NEW i \in 1..k
        PROVE  g[i] = IF i = 1 THEN ss[i] ELSE g[i - 1] \o ss[i]
    <3>1. CASE i = k
      <4>1. PICK x : x = f[k - 1] \o ss[k]
        OBVIOUS
      <4>2. g = [j \in 1..k |-> IF j < k THEN f[j] ELSE x]
        BY <4>1
      <4> HIDE DEF g
      <4>3. k \in 1..k /\ k - 1 \in 1..k /\ k - 1 < k /\ ~(k < k)
        BY <1>3, <2>1
      <4>4. g[k] = x /\ g[k - 1] = f[k - 1]
        BY <4>2, <4>3
      <4> QED  BY <1>5, <3>1, <4>1, <4>4
    <3>2. CASE i # k
      <4>1. i \in 1..k - 1 /\ g[i] = f[i] /\ (i # 1 => g[i - 1] = f[i - 1])
        BY <1>3, <2>1, <3>2
      <4> HIDE DEF g
      <4> QED  BY <2>3, <4>1 DEF Flattens
    <3> QED  BY <3>1, <3>2
  <2>7. Flattens(g, ss, k)
    <3> HIDE DEF g
    <3> QED  BY <2>6 DEF Flattens
  <2> HIDE DEF g
  <2> QED  BY <1>3, <2>5, <2>7
<1> QED  BY <1>4, <1>5

\* FlattenSeq is its last value.
LEMMA FlattenIs ==
    ASSUME NEW S, NEW ss \in Seq(Seq(S)), NEW n \in Nat \ {0}, n = Len(ss),
           NEW f \in [1..n -> Seq(S)], Flattens(f, ss, n)
    PROVE  FlattenSeq(ss) = f[n]
<1> DEFINE Step(h) == [i \in 1..n |-> IF i = 1 THEN ss[i] ELSE h[i - 1] \o ss[i]]
           flat == CHOOSE h : h = Step(h)
<1>1. FlattenSeq(ss) = flat[n]
  BY DEF FlattenSeq
<1>2. f = Step(f)
  BY DEF Flattens
<1>3. flat = Step(flat)
  <2> HIDE DEF Step
  <2> QED  BY <1>2
<1> HIDE DEF flat
<1>4. \A i \in 1..n : flat[i] = IF i = 1 THEN ss[i] ELSE flat[i - 1] \o ss[i]
  <2> TAKE i \in 1..n
  <2>1. flat[i] = Step(flat)[i]
    BY <1>3
  <2> QED  BY <2>1
<1> DEFINE wrong == {i \in 1..n : flat[i] # f[i]}
<1>5. wrong = {}
  <2> SUFFICES ASSUME wrong # {} PROVE FALSE
    OBVIOUS
  <2>1. PICK k \in wrong : \A j \in wrong : k <= j
    <3>1. wrong \subseteq Nat
      OBVIOUS
    <3> HIDE DEF wrong
    <3> QED  BY <3>1, LeastNumber
  <2>2. k \in 1..n /\ flat[k] # f[k]
    BY <2>1
  <2>3. k # 1
    BY <1>4, <2>2 DEF Flattens
  <2>4. k - 1 \in 1..n /\ ~(k <= k - 1)
    BY <2>2, <2>3
  <2>5. flat[k - 1] = f[k - 1]
    BY <2>1, <2>4
  <2> QED  BY <1>4, <2>2, <2>3, <2>5 DEF Flattens
<1> QED  BY <1>1, <1>5

\* A sequence of sequences of batches that grows at its end.
LEMMA FlattenGrows ==
    ASSUME NEW S, NEW ss \in Seq(Seq(S)), NEW x \in Seq(S)
    PROVE  /\ FlattenSeq(ss) \in Seq(S)
           /\ FlattenSeq(Append(ss, x)) = FlattenSeq(ss) \o x
<1> DEFINE n == Len(ss)
           tt == Append(ss, x)
<1>1. /\ n \in Nat /\ tt \in Seq(Seq(S)) /\ Len(tt) = n + 1
      /\ \A i \in 1..n : tt[i] = ss[i]
      /\ tt[n + 1] = x
  BY LenProperties, AppendProperties
<1> HIDE DEF tt
<1>2. n + 1 \in 1..Len(tt) /\ n + 1 \in Nat \ {0}
  BY <1>1
<1>3. PICK f \in [1..n + 1 -> Seq(S)] : Flattens(f, tt, n + 1)
  BY <1>1, <1>2, FlattenExists
<1>4. FlattenSeq(tt) = f[n + 1]
  BY <1>1, <1>2, <1>3, FlattenIs
<1>5. n + 1 \in 1..n + 1 /\ f[n + 1] = IF n + 1 = 1 THEN x ELSE f[(n + 1) - 1] \o x
  <2> HIDE DEF n
  <2>1. n + 1 \in 1..n + 1
    BY <1>1
  <2>2. f[n + 1] = IF n + 1 = 1 THEN tt[n + 1] ELSE f[(n + 1) - 1] \o tt[n + 1]
    BY <1>3, <2>1 DEF Flattens
  <2> QED  BY <1>1, <2>1, <2>2
<1>6. CASE n = 0
  <2>1. FlattenSeq(ss) = <<>>
    <3>1. ss = <<>>
      BY <1>6, EmptySeq
    <3> QED  BY <1>6, <3>1 DEF FlattenSeq
  <2> QED  BY <1>4, <1>5, <1>6, <2>1, EmptySeq, ConcatEmptySeq DEF tt
<1>7. CASE n # 0
  <2> DEFINE g == [i \in 1..n |-> f[i]]
  <2>1. g \in [1..n -> Seq(S)] /\ Flattens(g, ss, n)
    <3>1. ASSUME NEW i \in 1..n
          PROVE  /\ f[i] \in Seq(S)
                 /\ g[i] = IF i = 1 THEN ss[i] ELSE g[i - 1] \o ss[i]
      <4>1. i \in 1..n + 1 /\ (i # 1 => i - 1 \in 1..n)
        BY <1>1
      <4>2. f[i] = IF i = 1 THEN ss[i] ELSE f[i - 1] \o ss[i]
        BY <1>1, <1>3, <4>1 DEF Flattens
      <4> QED  BY <1>3, <4>1, <4>2
    <3> QED  BY <3>1 DEF Flattens
  <2> HIDE DEF g
  <2>2. n \in Nat \ {0} /\ n = Len(ss)
    BY <1>1, <1>7
  <2> HIDE DEF n
  <2>3. FlattenSeq(ss) = g[n]
    BY <2>1, <2>2, FlattenIs
  <2>4. g[n] = f[n] /\ (n + 1) - 1 = n /\ n + 1 # 1 /\ g[n] \in Seq(S)
    BY <2>1, <2>2 DEF g
  <2> QED  BY <1>4, <1>5, <2>3, <2>4 DEF tt
<1> QED  BY <1>6, <1>7

\* A new block adds its batches at the end.
LEMMA IncludedGrows ==
    ASSUME chain \in Seq(Block), NEW b \in Block, chain' = Append(chain, b)
    PROVE  /\ Included \in Seq(Digest)
           /\ Included' = Included \o b.batches
<1> DEFINE ss == [i \in DOMAIN chain |-> chain[i].batches]
           tt == [i \in DOMAIN chain' |-> chain'[i].batches]
           x == b.batches
<1>1. /\ Len(chain) \in Nat /\ DOMAIN chain = 1..Len(chain)
      /\ \A i \in 1..Len(chain) : chain[i] \in Block
  BY LenProperties, ElementOfSeq
<1>2. /\ chain' \in Seq(Block) /\ Len(chain') = Len(chain) + 1
      /\ \A i \in 1..Len(chain) : chain'[i] = chain[i]
      /\ chain'[Len(chain) + 1] = b
  BY AppendProperties
<1>3. DOMAIN chain' = 1..Len(chain) + 1
  BY <1>2, LenProperties
<1>4. ss \in Seq(Seq(Digest)) /\ Len(ss) = Len(chain)
  <2>1. ss \in [1..Len(chain) -> Seq(Digest)]
    BY <1>1 DEF Block
  <2> HIDE DEF ss
  <2> QED  BY <1>1, <2>1
<1>5. x \in Seq(Digest)
  BY DEF Block
<1>6. tt = Append(ss, x)
  <2>1. /\ Append(ss, x) \in Seq(Seq(Digest)) /\ Len(Append(ss, x)) = Len(chain) + 1
        /\ \A i \in 1..Len(chain) : Append(ss, x)[i] = ss[i]
        /\ Append(ss, x)[Len(chain) + 1] = x
    <3> HIDE DEF ss, x
    <3> QED  BY <1>4, <1>5, AppendProperties
  <2>2. tt \in Seq(Seq(Digest)) /\ Len(tt) = Len(chain) + 1
    <3>1. \A i \in 1..Len(chain) + 1 : chain'[i] \in Block
      BY <1>2, ElementOfSeq
    <3>2. tt \in [1..Len(chain) + 1 -> Seq(Digest)]
      BY <1>3, <3>1 DEF Block
    <3>3. Len(chain) + 1 \in Nat
      BY <1>1
    <3> HIDE DEF tt
    <3> QED  BY <3>2, <3>3
  <2>3. ASSUME NEW i \in 1..Len(tt) PROVE tt[i] = Append(ss, x)[i]
    <3>1. i \in 1..Len(chain) + 1 /\ tt[i] = chain'[i].batches
      BY <1>3, <2>2
    <3>2. CASE i = Len(chain) + 1
      BY <1>2, <2>1, <3>1, <3>2
    <3>3. CASE i # Len(chain) + 1
      <4>1. i \in 1..Len(chain) /\ ss[i] = chain[i].batches
        BY <1>1, <3>1, <3>3
      <4> HIDE DEF tt, ss
      <4> QED  BY <1>2, <2>1, <3>1, <4>1
    <3> QED  BY <3>2, <3>3
  <2> HIDE DEF tt, ss, x
  <2> QED  BY <2>1, <2>2, <2>3, SeqEqual
<1>7. /\ FlattenSeq(ss) \in Seq(Digest)
      /\ FlattenSeq(Append(ss, x)) = FlattenSeq(ss) \o x
  <2> HIDE DEF ss, x
  <2> QED  BY <1>4, <1>5, FlattenGrows
<1>8. Included = FlattenSeq(ss) /\ Included' = FlattenSeq(tt)
  BY DEF Included
<1> QED  BY <1>6, <1>7, <1>8

\* The blocks hold sequences of batches.
LEMMA IncludedTyped ==
    ASSUME chain \in Seq(Block)
    PROVE  Included \in Seq(Digest)
<1> DEFINE ss == [i \in DOMAIN chain |-> chain[i].batches]
<1>1. /\ Len(chain) \in Nat /\ DOMAIN chain = 1..Len(chain)
      /\ \A i \in 1..Len(chain) : chain[i] \in Block
  BY LenProperties, ElementOfSeq
<1>2. ss \in [1..Len(chain) -> Seq(Digest)]
  BY <1>1 DEF Block
<1>3. ss \in Seq(Seq(Digest)) /\ <<>> \in Seq(Digest)
  <2> HIDE DEF ss
  <2> QED  BY <1>1, <1>2
<1>4. Included = FlattenSeq(ss)
  BY DEF Included
<1> HIDE DEF ss
<1>5. FlattenSeq(ss) \in Seq(Digest)
  BY <1>3, FlattenGrows
<1> QED  BY <1>4, <1>5

-----------------------------------------------------------------------------
(* A single packager's account with each batch: how often it is in blocks, *)
(* packed for the next one, offered by the memory or by the table, against *)
(* how often it entered the pool.                                          *)

LiveRow(d) == IF \E r \in rows : ~r.processed /\ r.digest = d THEN 1 ELSE 0
ToLoad(d) == IF holder = Main /\ \E r \in todo : r.digest = d THEN 1 ELSE 0
Packed(t, d) ==
    IF task[t].stage = "packed" THEN Occurrences(task[t].batches, d) ELSE 0

\* The batch is still to be removed, or is being removed.
Leaving(t, d) ==
    \/ Contains(task[t].left, d)
    \/ job[t].op = "removing" /\ job[t].digest = d

\* A stepwise caller crashed with it.
Excused(d) == \E k \in interrupted : k.stage = "handed" /\ Contains(k.batches, d)

\* What memory offers, beside what is still to be removed, was not paid yet;
\* what a reload would offer was not paid yet either, unless its removal is due.
Balanced(t, d) ==
    /\ Occurrences(Included, d) + Packed(t, d) <= Occurrences(admitted, d)
    /\ Occurrences(Included, d) + Packed(t, d) + Occurrences(pool, d) + ToLoad(d)
          <= Occurrences(admitted, d) + Occurrences(task[t].left, d)
    /\ task[t].stage # "handed" \/ ~Leaving(t, d) =>
          Occurrences(Included, d) + LiveRow(d) <= Occurrences(admitted, d)
    /\ task[t].whole /\ ~Leaving(t, d) =>
          Occurrences(Included, d) + Packed(t, d) + LiveRow(d) <= Occurrences(admitted, d)

\* A stepwise caller removes nothing before it has its block.
Shape(t) ==
    /\ task[t].stage = "packed" /\ ~task[t].whole => task[t].left = task[t].batches
    /\ task[t].stage = "none" => task[t] = NoTask

BalanceInv(t) ==
    Shape(t) /\ (~faulted => \A d \in Digest : Excused(d) \/ Balanced(t, d))

-----------------------------------------------------------------------------
\* The entries of the account are numbers.
LEMMA AccountTyped ==
    ASSUME TypeOK, PackType, NEW t \in Packager, NEW d
    PROVE  /\ Occurrences(Included, d) \in Nat
           /\ Occurrences(admitted, d) \in Nat
           /\ Occurrences(pool, d) \in Nat
           /\ Occurrences(task[t].left, d) \in Nat
           /\ Occurrences(task[t].batches, d) \in Nat
           /\ Packed(t, d) \in Nat
           /\ LiveRow(d) \in {0, 1} /\ ToLoad(d) \in {0, 1}
<1>1. Included \in Seq(Digest) /\ admitted \in Seq(Digest) /\ pool \in Seq(Digest)
  BY IncludedTyped DEF PackType, TypeOK
<1>2. task[t].left \in Seq(Digest) /\ task[t].batches \in Seq(Digest)
  BY DEF PackType, Task
<1>3. /\ Occurrences(Included, d) \in Nat
      /\ Occurrences(admitted, d) \in Nat
      /\ Occurrences(pool, d) \in Nat
  BY <1>1, CountIs
<1>4. /\ Occurrences(task[t].left, d) \in Nat
      /\ Occurrences(task[t].batches, d) \in Nat
  BY <1>2, CountIs
<1> QED  BY <1>3, <1>4 DEF Packed, LiveRow, ToLoad

\* Steps that leave tasks, blocks and admissions alone, offer no more, and
\* finish no removal but that of a batch whose row is no longer live.
LEMMA AccountKept ==
    ASSUME TypeOK, PackType, NEW t \in Packager, NEW d, Balanced(t, d),
           UNCHANGED <<task, chain, admitted>>,
           Occurrences(pool', d) + ToLoad(d)' <= Occurrences(pool, d) + ToLoad(d),
           Occurrences(pool', d) \in Nat,
           LiveRow(d)' <= LiveRow(d),
           (Leaving(t, d)' <=> Leaving(t, d)) \/ LiveRow(d)' = 0
    PROVE  Balanced(t, d)'
<1>1. /\ Occurrences(Included, d)' = Occurrences(Included, d)
      /\ Occurrences(admitted, d)' = Occurrences(admitted, d)
      /\ Packed(t, d)' = Packed(t, d)
      /\ Occurrences(task[t].left, d)' = Occurrences(task[t].left, d)
      /\ task'[t] = task[t]
  BY DEF Included, Packed
<1>2. /\ Occurrences(Included, d) \in Nat
      /\ Occurrences(admitted, d) \in Nat
      /\ Occurrences(pool, d) \in Nat
      /\ Occurrences(task[t].left, d) \in Nat
      /\ Packed(t, d) \in Nat
      /\ LiveRow(d) \in {0, 1} /\ ToLoad(d) \in {0, 1}
  BY AccountTyped
<1>3. LiveRow(d)' \in {0, 1} /\ ToLoad(d)' \in {0, 1}
  BY DEF LiveRow, ToLoad
<1> DEFINE paid == Occurrences(Included, d)
           bought == Occurrences(admitted, d)
           packed == Packed(t, d)
           left == Occurrences(task[t].left, d)
<1>4. paid \in Nat /\ bought \in Nat /\ packed \in Nat /\ left \in Nat
  BY <1>2
<1>5. /\ paid + packed <= bought
      /\ paid + packed + Occurrences(pool, d) + ToLoad(d) <= bought + left
      /\ task[t].stage # "handed" \/ ~Leaving(t, d) => paid + LiveRow(d) <= bought
      /\ task[t].whole /\ ~Leaving(t, d) => paid + packed + LiveRow(d) <= bought
  BY DEF Balanced
<1>6. Balanced(t, d)' <=>
      /\ paid + packed <= bought
      /\ paid + packed + Occurrences(pool', d) + ToLoad(d)' <= bought + left
      /\ task[t].stage # "handed" \/ ~Leaving(t, d)' => paid + LiveRow(d)' <= bought
      /\ task[t].whole /\ ~Leaving(t, d)' => paid + packed + LiveRow(d)' <= bought
  BY <1>1 DEF Balanced
<1> HIDE DEF paid, bought, packed, left
<1>7. paid + packed + Occurrences(pool', d) + ToLoad(d)' <= bought + left
  BY <1>2, <1>3, <1>4, <1>5
<1>8. /\ task[t].stage # "handed" \/ ~Leaving(t, d)' => paid + LiveRow(d)' <= bought
      /\ task[t].whole /\ ~Leaving(t, d)' => paid + packed + LiveRow(d)' <= bought
  <2>1. CASE LiveRow(d)' = 0
    BY <1>4, <1>5, <2>1
  <2>2. CASE Leaving(t, d)' <=> Leaving(t, d)
    BY <1>2, <1>3, <1>4, <1>5, <2>2
  <2> QED  BY <2>1, <2>2
<1> QED  BY <1>5, <1>6, <1>7, <1>8

\* Rows do not become live, or entries appear, in such steps.
LEMMA LiveRowShrinks ==
    ASSUME NEW d, \A r \in rows' : ~r.processed => r \in rows
    PROVE  LiveRow(d)' <= LiveRow(d)
BY DEF LiveRow

\* Only a reload has rows to load.
LEMMA NothingToLoad ==
    ASSUME NEW d, holder # Main
    PROVE  ToLoad(d) = 0
BY DEF ToLoad

\* The same of the next state.
LEMMA NothingToLoadNext ==
    ASSUME NEW d, holder' # Main
    PROVE  ToLoad(d)' = 0
BY DEF ToLoad

\* del self.pool[index] takes out one entry of the batch.
LEMMA DropCount ==
    ASSUME TypeOK, DigestIndexExact, NEW e \in Digest, digest_index[e] # 0,
           DropEntry(e), NEW d
    PROVE  /\ Occurrences(pool', d) \in Nat
           /\ Occurrences(pool, d) = Occurrences(pool', d) + (IF e = d THEN 1 ELSE 0)
<1> DEFINE i == digest_index[e]
<1>1. pool \in Seq(Digest) /\ i \in 1..Len(pool) /\ pool[i] = e
  BY DEF TypeOK, DigestIndexExact
<1>2. pool' = RemoveAt(pool, i)
  BY DEF DropEntry
<1>3. pool' \in Seq(Digest)
  BY <1>1, <1>2, RemoveAtFacts
<1> HIDE DEF i
<1>4. Occurrences(pool, d) = Occurrences(RemoveAt(pool, i), d) + (IF pool[i] = d THEN 1 ELSE 0)
  BY <1>1, CountRemoveAt
<1>5. Occurrences(pool', d) \in Nat
  BY <1>3, CountIs
<1> QED  BY <1>1, <1>2, <1>4, <1>5

\* A batch that the index lacks at rest is neither in the pool nor live.
LEMMA AbsentGone ==
    ASSUME IndexInv, TableInv, holder = NoThread, NEW d \in Digest,
           digest_index[d] = 0, ~faulted
    PROVE  Occurrences(pool, d) = 0 /\ LiveRow(d) = 0
<1>1. /\ pool \in Seq(Digest) /\ indexed = Len(pool) /\ DigestIndexExact
      /\ doomed = {} /\ NoThread \notin Client /\ NoThread # Main
  BY ThreadAssumption DEF IndexInv, TypeOK, LockDiscipline, Thread
<1>2. ~Contains(pool, d)
  BY <1>1 DEF DigestIndexExact, Contains
<1>3. Occurrences(pool, d) = 0
  BY <1>1, <1>2, CountIs
<1>4. \A r \in rows : ~r.processed => r.digest # d
  BY <1>1, <1>2 DEF TableInv, Accounted, InPool
<1> QED  BY <1>3, <1>4 DEF LiveRow

\* What every step may rely on.
Base(p) == /\ IndexInv /\ TableInv /\ PackInv
           /\ Packager = {p}
           /\ BalanceInv(p)

\* What the lemmas about single steps use of the invariants.
LEMMA BaseFacts ==
    ASSUME NEW p, Base(p)
    PROVE  /\ TypeOK /\ LockDiscipline /\ DigestIndexExact
           /\ PackType /\ TaskInv /\ TableInv
           /\ p \in Packager /\ p \in Client /\ p \in Thread
           /\ task[p] \in Task
           /\ task[p].left \in Seq(Digest) /\ task[p].batches \in Seq(Digest)
           /\ pool \in Seq(Digest)
           /\ Main # NoThread /\ Main # p /\ Cleaner # p /\ NoThread # p
           /\ Shape(p)
BY PackagerAssumption, ThreadAssumption
DEF Base, IndexInv, PackInv, Thread, BalanceInv, TypeOK, PackType, Task

-----------------------------------------------------------------------------
(* The packager's steps.                                                   *)

\* What is selected is in the pool, so it was not paid yet.
LEMMA PackageBalance ==
    ASSUME NEW p, Base(p), Package(p)
    PROVE  Shape(p)' /\ \A d \in Digest : Balanced(p, d) => Balanced(p, d)'
<1>1. PICK whole \in BOOLEAN, strategy \in {"fifo", "fee"} :
          task' = [task EXCEPT ![p] = TaskFor(pool, whole, strategy)]
  BY DEF Package
<1>2. /\ task[p] = NoTask /\ job[p] = Idle /\ holder # Main
      /\ UNCHANGED <<vars, chain, admitted, interrupted>>
  BY ThreadAssumption DEF Package, history, Thread
<1>3. UNCHANGED <<pool, holder, job, rows, todo>>
  BY <1>2 DEF vars, memory, work, storage
<1> DEFINE b == Select(pool, strategy)
<1>4. /\ task'[p].stage = "packed" /\ task'[p].whole = whole
      /\ task'[p].batches = b /\ task'[p].left = b
      /\ b \in Seq(Digest)
  BY <1>1, BaseFacts, SelectTyped DEF PackType, TaskFor, Task
<1>5. Shape(p)'
  BY <1>4 DEF Shape
<1>6. ASSUME NEW d \in Digest, Balanced(p, d)
      PROVE  Balanced(p, d)'
  <2>1. /\ Occurrences(Included, d) \in Nat /\ Occurrences(admitted, d) \in Nat
        /\ Occurrences(pool, d) \in Nat /\ LiveRow(d) \in {0, 1}
    BY BaseFacts, AccountTyped
  <2>2. Occurrences(b, d) \in Nat /\ Occurrences(b, d) <= Occurrences(pool, d)
    BY <1>4, BaseFacts, CountIs, CountSelect
  <2>3. Packed(p, d) = 0 /\ Occurrences(task[p].left, d) = 0 /\ ToLoad(d) = 0
        /\ ~Leaving(p, d) /\ task[p].stage = "none"
    <3>1. task[p].left = <<>> /\ task[p].stage = "none" /\ job[p].op = "idle"
      BY <1>2 DEF NoTask, Idle
    <3>2. ~Contains(task[p].left, d) /\ task[p].left \in Seq(Digest)
      BY <3>1, BaseFacts DEF Contains
    <3> QED  BY <1>2, <3>1, <3>2, CountIs DEF Packed, ToLoad, Leaving
  <2>4. /\ Occurrences(Included, d) + Occurrences(pool, d) <= Occurrences(admitted, d)
        /\ Occurrences(Included, d) + LiveRow(d) <= Occurrences(admitted, d)
    BY <2>1, <2>3, <1>6 DEF Balanced
  <2>5. /\ Occurrences(Included, d)' = Occurrences(Included, d)
        /\ Occurrences(admitted, d)' = Occurrences(admitted, d)
        /\ Occurrences(pool, d)' = Occurrences(pool, d)
        /\ LiveRow(d)' = LiveRow(d) /\ ToLoad(d)' = 0
        /\ Packed(p, d)' = Occurrences(b, d)
        /\ Occurrences(task[p].left, d)' = Occurrences(b, d)
    BY <1>2, <1>3, <1>4 DEF Included, LiveRow, ToLoad, Packed
  <2>6. ~Leaving(p, d)' => Occurrences(b, d) = 0
    BY <1>4, CountIs DEF Leaving
  <2> HIDE DEF b
  <2>7. /\ Occurrences(Included, d) + Occurrences(b, d) <= Occurrences(admitted, d)
        /\ Occurrences(Included, d) + Occurrences(b, d) + Occurrences(pool, d) + 0
              <= Occurrences(admitted, d) + Occurrences(b, d)
        /\ ~Leaving(p, d)' =>
              Occurrences(Included, d) + Occurrences(b, d) + LiveRow(d) <= Occurrences(admitted, d)
    BY <2>1, <2>2, <2>4, <2>6
  <2> QED  BY <2>4, <2>5, <2>7 DEF Balanced
<1> QED  BY <1>5, <1>6

\* What was packed is in the block.
LEMMA HandOverBalance ==
    ASSUME NEW p, Base(p), HandOver(p)
    PROVE  Shape(p)' /\ \A d \in Digest : Balanced(p, d) => Balanced(p, d)'
<1> DEFINE b == task[p].batches
           block == [whole |-> task[p].whole, batches |-> b]
<1>1. /\ task[p].stage = "packed" /\ job[p] = Idle
      /\ task[p].whole => task[p].left = <<>>
      /\ chain' = Append(chain, block)
      /\ task' = [task EXCEPT ![p] = IF task[p].whole THEN NoTask
                                     ELSE [task[p] EXCEPT !.stage = "handed"]]
      /\ UNCHANGED <<vars, admitted, interrupted>>
  BY DEF HandOver, history
<1>2. UNCHANGED <<pool, holder, job, rows, todo>>
  BY <1>1 DEF vars, memory, work, storage
<1>3. Included \in Seq(Digest) /\ Included' = Included \o b /\ b \in Seq(Digest)
  <2>1. block \in Block /\ chain \in Seq(Block) /\ block.batches = b
    BY BaseFacts DEF Block, Task, PackType
  <2> HIDE DEF block
  <2> QED  BY <1>1, <2>1, IncludedGrows, BaseFacts
<1>4. CASE task[p].whole
  <2>1. task'[p] = NoTask
    BY <1>1, <1>4, BaseFacts DEF PackType
  <2>2. Shape(p)'
    BY <2>1 DEF Shape, NoTask
  <2>3. ASSUME NEW d \in Digest, Balanced(p, d)
        PROVE  Balanced(p, d)'
    <3>1. /\ Occurrences(Included, d) \in Nat /\ Occurrences(admitted, d) \in Nat
          /\ Occurrences(pool, d) \in Nat /\ Occurrences(b, d) \in Nat
          /\ LiveRow(d) \in {0, 1} /\ ToLoad(d) \in {0, 1}
      BY BaseFacts, AccountTyped
    <3>2. Occurrences(task[p].left, d) = 0 /\ ~Leaving(p, d) /\ Packed(p, d) = Occurrences(b, d)
      <4>1. task[p].left = <<>> /\ job[p].op = "idle"
        BY <1>1, <1>4 DEF Idle
      <4>2. ~Contains(task[p].left, d) /\ task[p].left \in Seq(Digest)
        BY <4>1, BaseFacts DEF Contains
      <4> QED  BY <1>1, <4>1, <4>2, CountIs DEF Leaving, Packed
    <3>3. /\ Occurrences(Included, d)' = Occurrences(Included, d) + Occurrences(b, d)
          /\ Occurrences(admitted, d)' = Occurrences(admitted, d)
          /\ Occurrences(pool, d)' = Occurrences(pool, d)
          /\ LiveRow(d)' = LiveRow(d) /\ ToLoad(d)' = ToLoad(d)
          /\ Packed(p, d)' = 0
      <4>1. Occurrences(Included', d) = Occurrences(Included, d) + Occurrences(b, d)
        BY <1>3, CountConcat
      <4> QED  BY <1>1, <1>2, <2>1, <4>1 DEF LiveRow, ToLoad, Packed, NoTask
    <3>4. Occurrences(task[p].left, d)' = 0 /\ task'[p].stage = "none" /\ ~task'[p].whole
      <4>1. task'[p].left = <<>> /\ task'[p].stage = "none" /\ ~task'[p].whole
        BY <2>1 DEF NoTask
      <4>2. Occurrences(<<>>, d) = 0
        <5>1. task[p].left = <<>>
          BY <1>1, <1>4
        <5> QED  BY <3>2, <5>1
      <4> QED  BY <4>1, <4>2
    <3> HIDE DEF b
    <3>5. /\ Occurrences(Included, d) + Occurrences(b, d) + 0 <= Occurrences(admitted, d)
          /\ Occurrences(Included, d) + Occurrences(b, d) + 0 + Occurrences(pool, d) + ToLoad(d)
                <= Occurrences(admitted, d) + 0
          /\ Occurrences(Included, d) + Occurrences(b, d) + LiveRow(d) <= Occurrences(admitted, d)
      BY <1>4, <3>1, <3>2, <2>3 DEF Balanced
    <3> QED  BY <3>3, <3>4, <3>5 DEF Balanced
  <2> QED  BY <2>2, <2>3
<1>5. CASE ~task[p].whole
  <2>1. /\ task'[p].stage = "handed" /\ ~task'[p].whole
        /\ task'[p].batches = b /\ task'[p].left = task[p].left
        /\ task[p].left = b
    BY <1>1, <1>5, BaseFacts DEF PackType, Task, Shape
  <2>2. Shape(p)'
    BY <2>1 DEF Shape
  <2>3. ASSUME NEW d \in Digest, Balanced(p, d)
        PROVE  Balanced(p, d)'
    <3>1. /\ Occurrences(Included, d) \in Nat /\ Occurrences(admitted, d) \in Nat
          /\ Occurrences(pool, d) \in Nat /\ Occurrences(b, d) \in Nat
          /\ LiveRow(d) \in {0, 1} /\ ToLoad(d) \in {0, 1}
      BY BaseFacts, AccountTyped
    <3>2. Packed(p, d) = Occurrences(b, d)
      BY <1>1 DEF Packed
    <3>3. /\ Occurrences(Included, d)' = Occurrences(Included, d) + Occurrences(b, d)
          /\ Occurrences(admitted, d)' = Occurrences(admitted, d)
          /\ Occurrences(pool, d)' = Occurrences(pool, d)
          /\ LiveRow(d)' = LiveRow(d) /\ ToLoad(d)' = ToLoad(d)
          /\ Packed(p, d)' = 0
          /\ Occurrences(task[p].left, d)' = Occurrences(b, d)
      <4>1. Occurrences(Included', d) = Occurrences(Included, d) + Occurrences(b, d)
        BY <1>3, CountConcat
      <4> QED  BY <1>1, <1>2, <2>1, <4>1 DEF LiveRow, ToLoad, Packed
    <3>4. ~Leaving(p, d)' => Occurrences(b, d) = 0
      BY <1>3, <2>1, CountIs DEF Leaving
    <3>5. task[p].stage # "handed" /\ (~Leaving(p, d)' => ~Leaving(p, d))
      BY <1>1, <1>2, <2>1 DEF Leaving
    <3> HIDE DEF b
    <3>6. /\ Occurrences(Included, d) + Occurrences(b, d) + 0 <= Occurrences(admitted, d)
          /\ Occurrences(Included, d) + Occurrences(b, d) + 0 + Occurrences(pool, d) + ToLoad(d)
                <= Occurrences(admitted, d) + Occurrences(b, d)
          /\ ~Leaving(p, d)' =>
                Occurrences(Included, d) + Occurrences(b, d) + LiveRow(d) <= Occurrences(admitted, d)
      BY <2>1, <3>1, <3>2, <3>4, <3>5, <2>3 DEF Balanced
    <3> QED  BY <2>1, <3>3, <3>6 DEF Balanced
  <2> QED  BY <2>2, <2>3
<1> QED  BY <1>4, <1>5

\* The batch leaves the pool and what is left to remove.
LEMMA RemoveNextBalance ==
    ASSUME NEW p, Base(p), RemoveNext(p)
    PROVE  Shape(p)' /\ \A d \in Digest : Balanced(p, d) => Balanced(p, d)'
<1> DEFINE e == Head(task[p].left)
<1>1. /\ Removing(p) /\ task[p].left # <<>> /\ job[p] = Idle /\ holder = NoThread
      /\ digest_index[e] # 0 /\ DropEntry(e) /\ holder' = p
      /\ job' = [job EXCEPT ![p] = [op |-> "removing", digest |-> e]]
      /\ task' = [task EXCEPT ![p].left = Tail(task[p].left)]
      /\ UNCHANGED <<chain, admitted, interrupted, rows>>
  BY DEF RemoveNext, RemoveStart, history, storage
<1>2. /\ e \in Digest /\ Tail(task[p].left) \in Seq(Digest)
      /\ \A d : Occurrences(task[p].left, d)
                  = Occurrences(Tail(task[p].left), d) + (IF e = d THEN 1 ELSE 0)
  BY <1>1, BaseFacts, CountTail
<1>3. /\ task'[p].stage = task[p].stage /\ task'[p].whole = task[p].whole
      /\ task'[p].batches = task[p].batches
      /\ task'[p].left = Tail(task[p].left)
  BY <1>1, BaseFacts DEF PackType, Task
<1>4. job'[p] = [op |-> "removing", digest |-> e]
  BY <1>1, BaseFacts DEF TypeOK
<1> HIDE DEF e
<1>5. Shape(p)'
  <2>1. task[p].stage # "none" /\ ~(task[p].stage = "packed" /\ ~task[p].whole)
    BY <1>1 DEF Removing
  <2> QED  BY <1>3, <2>1 DEF Shape
<1>6. ASSUME NEW d \in Digest, Balanced(p, d)
      PROVE  Balanced(p, d)'
  <2>1. /\ Occurrences(Included, d) \in Nat /\ Occurrences(admitted, d) \in Nat
        /\ Occurrences(pool, d) \in Nat /\ Packed(p, d) \in Nat
        /\ Occurrences(task[p].left, d) \in Nat /\ LiveRow(d) \in {0, 1}
    BY BaseFacts, AccountTyped
  <2>2. /\ Occurrences(Tail(task[p].left), d) \in Nat
        /\ Occurrences(task[p].left, d)
             = Occurrences(Tail(task[p].left), d) + (IF e = d THEN 1 ELSE 0)
    BY <1>2, CountIs
  <2>3. /\ Occurrences(pool', d) \in Nat
        /\ Occurrences(pool, d) = Occurrences(pool', d) + (IF e = d THEN 1 ELSE 0)
    BY <1>1, <1>2, BaseFacts, DropCount
  <2>4. ToLoad(d) = 0 /\ ToLoad(d)' = 0
    BY <1>1, BaseFacts, NothingToLoad, NothingToLoadNext
  <2>5. /\ Occurrences(Included, d)' = Occurrences(Included, d)
        /\ Occurrences(admitted, d)' = Occurrences(admitted, d)
        /\ LiveRow(d)' = LiveRow(d)
        /\ Packed(p, d)' = Packed(p, d)
        /\ Occurrences(task[p].left, d)' = Occurrences(Tail(task[p].left), d)
    BY <1>1, <1>3 DEF Included, LiveRow, Packed
  <2>6. ~Leaving(p, d)' => ~Leaving(p, d)
    <3>1. Contains(task[p].left, d) => Occurrences(task[p].left, d) # 0
      BY BaseFacts, CountIs
    <3>2. ~Contains(Tail(task[p].left), d) => Occurrences(Tail(task[p].left), d) = 0
      BY <1>2, CountIs
    <3>3. Leaving(p, d)' <=> Contains(Tail(task[p].left), d) \/ e = d
      BY <1>3, <1>4 DEF Leaving
    <3>4. Leaving(p, d) <=> Contains(task[p].left, d)
      BY <1>1 DEF Leaving, Idle
    <3> QED  BY <2>2, <3>1, <3>2, <3>3, <3>4
  <2>7. /\ Occurrences(Included, d) + Packed(p, d) <= Occurrences(admitted, d)
        /\ Occurrences(Included, d) + Packed(p, d) + Occurrences(pool', d) + 0
              <= Occurrences(admitted, d) + Occurrences(Tail(task[p].left), d)
    BY <2>1, <2>2, <2>3, <2>4, <1>6 DEF Balanced
  <2>8. /\ task[p].stage # "handed" \/ ~Leaving(p, d)' =>
              Occurrences(Included, d) + LiveRow(d) <= Occurrences(admitted, d)
        /\ task[p].whole /\ ~Leaving(p, d)' =>
              Occurrences(Included, d) + Packed(p, d) + LiveRow(d) <= Occurrences(admitted, d)
    BY <2>6, <1>6 DEF Balanced
  <2> QED  BY <1>3, <2>4, <2>5, <2>7, <2>8 DEF Balanced
<1> QED  BY <1>5, <1>6

\* A batch that has left the pool is neither in it nor in the table.
LEMMA RemoveMissingBalance ==
    ASSUME NEW p, Base(p), RemoveMissing(p)
    PROVE  Shape(p)' /\ (~faulted => \A d \in Digest : Balanced(p, d) => Balanced(p, d)')
<1> DEFINE e == Head(task[p].left)
<1>1. /\ Removing(p) /\ task[p].left # <<>> /\ job[p] = Idle /\ holder = NoThread
      /\ digest_index[e] = 0
      /\ task' = [task EXCEPT ![p].left = Tail(task[p].left)]
      /\ UNCHANGED <<vars, chain, admitted, interrupted>>
  BY DEF RemoveMissing, history
<1>2. /\ e \in Digest /\ Tail(task[p].left) \in Seq(Digest)
      /\ \A d : Occurrences(task[p].left, d)
                  = Occurrences(Tail(task[p].left), d) + (IF e = d THEN 1 ELSE 0)
  BY <1>1, BaseFacts, CountTail
<1>3. /\ task'[p].stage = task[p].stage /\ task'[p].whole = task[p].whole
      /\ task'[p].batches = task[p].batches
      /\ task'[p].left = Tail(task[p].left)
  BY <1>1, BaseFacts DEF PackType, Task
<1>4. UNCHANGED <<pool, holder, job, rows, todo>>
  BY <1>1 DEF vars, memory, work, storage
<1> HIDE DEF e
<1>5. Shape(p)'
  <2>1. task[p].stage # "none" /\ ~(task[p].stage = "packed" /\ ~task[p].whole)
    BY <1>1 DEF Removing
  <2> QED  BY <1>3, <2>1 DEF Shape
<1>6. ASSUME ~faulted, NEW d \in Digest, Balanced(p, d)
      PROVE  Balanced(p, d)'
  <2>1. /\ Occurrences(Included, d) \in Nat /\ Occurrences(admitted, d) \in Nat
        /\ Occurrences(pool, d) \in Nat /\ Packed(p, d) \in Nat
        /\ Occurrences(task[p].left, d) \in Nat /\ LiveRow(d) \in {0, 1}
    BY BaseFacts, AccountTyped
  <2>2. /\ Occurrences(Tail(task[p].left), d) \in Nat
        /\ Occurrences(task[p].left, d)
             = Occurrences(Tail(task[p].left), d) + (IF e = d THEN 1 ELSE 0)
    BY <1>2, CountIs
  <2>3. ToLoad(d) = 0 /\ ToLoad(d)' = 0
    BY <1>1, <1>4, BaseFacts, NothingToLoad, NothingToLoadNext
  <2>4. /\ Occurrences(Included, d)' = Occurrences(Included, d)
        /\ Occurrences(admitted, d)' = Occurrences(admitted, d)
        /\ Occurrences(pool, d)' = Occurrences(pool, d)
        /\ LiveRow(d)' = LiveRow(d)
        /\ Packed(p, d)' = Packed(p, d)
        /\ Occurrences(task[p].left, d)' = Occurrences(Tail(task[p].left), d)
    BY <1>1, <1>3, <1>4 DEF Included, LiveRow, Packed
  <2>5. e = d => Occurrences(pool, d) = 0 /\ LiveRow(d) = 0
    BY <1>1, <1>2, <1>6, AbsentGone DEF Base
  <2>6. e # d => (~Leaving(p, d)' => ~Leaving(p, d))
    <3>1. Contains(task[p].left, d) => Occurrences(task[p].left, d) # 0
      BY BaseFacts, CountIs
    <3>2. ~Contains(Tail(task[p].left), d) => Occurrences(Tail(task[p].left), d) = 0
      BY <1>2, CountIs
    <3>3. Leaving(p, d)' <=> Contains(Tail(task[p].left), d)
      BY <1>1, <1>3, <1>4 DEF Leaving, Idle
    <3>4. Leaving(p, d) <=> Contains(task[p].left, d)
      BY <1>1 DEF Leaving, Idle
    <3> QED  BY <2>2, <3>1, <3>2, <3>3, <3>4
  <2>7. /\ Occurrences(Included, d) + Packed(p, d) <= Occurrences(admitted, d)
        /\ Occurrences(Included, d) + Packed(p, d) + Occurrences(pool, d) + 0
              <= Occurrences(admitted, d) + Occurrences(Tail(task[p].left), d)
    BY <2>1, <2>2, <2>3, <2>5, <1>6 DEF Balanced
  <2>8. /\ task[p].stage # "handed" \/ ~Leaving(p, d)' =>
              Occurrences(Included, d) + LiveRow(d) <= Occurrences(admitted, d)
        /\ task[p].whole /\ ~Leaving(p, d)' =>
              Occurrences(Included, d) + Packed(p, d) + LiveRow(d) <= Occurrences(admitted, d)
    BY <2>1, <2>5, <2>6, <2>7, <1>6 DEF Balanced
  <2> QED  BY <1>3, <2>3, <2>4, <2>7, <2>8 DEF Balanced
<1> QED  BY <1>5, <1>6

\* A stepwise caller that has removed all is back where it began.
LEMMA FinishBalance ==
    ASSUME NEW p, Base(p), Finish(p)
    PROVE  Shape(p)' /\ \A d \in Digest : Balanced(p, d) => Balanced(p, d)'
<1>1. /\ task[p].stage = "handed" /\ job[p] = Idle /\ task[p].left = <<>>
      /\ task'[p] = NoTask
      /\ UNCHANGED <<vars, chain, admitted, interrupted>>
  BY BaseFacts DEF Finish, history, PackType
<1>2. UNCHANGED <<pool, holder, job, rows, todo>>
  BY <1>1 DEF vars, memory, work, storage
<1>3. Shape(p)'
  BY <1>1 DEF Shape, NoTask
<1>4. ASSUME NEW d \in Digest, Balanced(p, d)
      PROVE  Balanced(p, d)'
  <2>1. /\ task'[p].left = task[p].left /\ task'[p].stage = "none" /\ ~task'[p].whole
        /\ ~Leaving(p, d)
    BY <1>1 DEF NoTask, Leaving, Idle, Contains
  <2>2. /\ Occurrences(Included, d)' = Occurrences(Included, d)
        /\ Occurrences(admitted, d)' = Occurrences(admitted, d)
        /\ Occurrences(pool, d)' = Occurrences(pool, d)
        /\ Occurrences(task[p].left, d)' = Occurrences(task[p].left, d)
        /\ LiveRow(d)' = LiveRow(d) /\ ToLoad(d)' = ToLoad(d)
        /\ Packed(p, d)' = Packed(p, d)
    BY <1>1, <1>2, <2>1 DEF Included, LiveRow, ToLoad, Packed
  <2> QED  BY <1>4, <2>1, <2>2 DEF Balanced
<1> QED  BY <1>3, <1>4

-----------------------------------------------------------------------------
(* The account over the other steps.                                       *)

\* A batch that enters the pool may be paid once more.
LEMMA EnterBalance ==
    ASSUME NEW p, Base(p), NEW t \in Client \ Packager, Enter(t),
           admitted' = Append(admitted, job[t].digest),
           UNCHANGED <<task, chain, interrupted>>, NEW d \in Digest,
           Balanced(p, d), ~faulted'
    PROVE  Balanced(p, d)'
<1> DEFINE e == job[t].digest
           one == IF e = d THEN 1 ELSE 0
<1>1. /\ e \in Digest /\ pool' = Append(pool, e) /\ admitted' = Append(admitted, e)
      /\ holder' = holder /\ holder # Main
      /\ rows' = InsertOrReplace(e)
      /\ job'[p] = job[p]
  BY BaseFacts DEF Enter, AppendEntry, LockDiscipline, Thread, TypeOK, Base
<1>2. admitted \in Seq(Digest) /\ pool \in Seq(Digest)
  BY BaseFacts DEF PackType
<1> HIDE DEF e
<1>3. /\ Occurrences(pool', d) = Occurrences(pool, d) + one
      /\ Occurrences(admitted', d) = Occurrences(admitted, d) + one
  BY <1>1, <1>2, CountAppend
<1>4. LiveRow(d)' <= LiveRow(d) + one
  <2>1. CASE e = d
    BY <2>1 DEF LiveRow
  <2>2. CASE e # d
    <3>1. \A r \in rows' : r.digest = d => r \in rows
      BY <1>1, <2>2 DEF InsertOrReplace
    <3> QED  BY <2>2, <3>1 DEF LiveRow
  <2> QED  BY <2>1, <2>2
<1>5. /\ Occurrences(Included, d) \in Nat /\ Occurrences(admitted, d) \in Nat
      /\ Occurrences(pool, d) \in Nat /\ Packed(p, d) \in Nat
      /\ Occurrences(task[p].left, d) \in Nat /\ LiveRow(d) \in {0, 1}
  BY BaseFacts, AccountTyped
<1>6. LiveRow(d)' \in {0, 1} /\ one \in {0, 1} /\ ToLoad(d) = 0 /\ ToLoad(d)' = 0
  BY <1>1, NothingToLoad, NothingToLoadNext DEF LiveRow
<1>7. /\ Occurrences(Included, d)' = Occurrences(Included, d)
      /\ task'[p] = task[p]
      /\ Packed(p, d)' = Packed(p, d)
      /\ Leaving(p, d)' <=> Leaving(p, d)
  BY <1>1 DEF Included, Packed, Leaving
<1> HIDE DEF one
<1>8. /\ Occurrences(Included, d) + Packed(p, d) <= Occurrences(admitted, d) + one
      /\ Occurrences(Included, d) + Packed(p, d) + (Occurrences(pool, d) + one) + 0
            <= (Occurrences(admitted, d) + one) + Occurrences(task[p].left, d)
  BY <1>5, <1>6 DEF Balanced
<1>9. /\ task[p].stage # "handed" \/ ~Leaving(p, d) =>
            Occurrences(Included, d) + LiveRow(d)' <= Occurrences(admitted, d) + one
      /\ task[p].whole /\ ~Leaving(p, d) =>
            Occurrences(Included, d) + Packed(p, d) + LiveRow(d)'
               <= Occurrences(admitted, d) + one
  BY <1>4, <1>5, <1>6 DEF Balanced
<1> QED  BY <1>3, <1>6, <1>7, <1>8, <1>9 DEF Balanced

\* A crash leaves what the table offers; the stepwise caller's task that it
\* cut off is on record.
LEMMA CrashBalance ==
    ASSUME NEW p, Base(p), Crash, NEW d \in Digest,
           Excused(d) \/ Balanced(p, d), ~faulted'
    PROVE  Excused(d)' \/ Balanced(p, d)'
<1>1. /\ task'[p] = NoTask
      /\ interrupted' = interrupted \cup ({task[t] : t \in Packager} \ {NoTask})
      /\ pool' = <<>> /\ holder' = Main /\ job'[p] = Idle
      /\ todo' = {r \in rows : ~r.processed}
      /\ UNCHANGED <<rows, chain, admitted>>
  BY BaseFacts DEF Crash, Restart, Reloadable, storage
<1>2. SUFFICES ASSUME ~Excused(d)' PROVE Balanced(p, d)'
  OBVIOUS
<1>3. Balanced(p, d)
  BY <1>1, <1>2 DEF Excused
<1>4. ~(task[p].stage = "handed" /\ Contains(task[p].batches, d))
  <2>1. task[p] \in interrupted' \/ task[p] = NoTask
    BY <1>1, BaseFacts
  <2> QED  BY <1>2, <2>1 DEF Excused, NoTask
<1>5. task[p].stage # "handed" \/ ~Leaving(p, d)
  <2>1. Contains(task[p].left, d) => Contains(task[p].batches, d)
    <3> SUFFICES ASSUME Contains(task[p].left, d) PROVE Contains(task[p].batches, d)
      OBVIOUS
    <3>1. PICK i \in 1..Len(task[p].left) : task[p].left[i] = d
      BY DEF Contains
    <3>2. i \in DOMAIN task[p].left
      BY BaseFacts, LenProperties
    <3> QED  BY <3>1, <3>2, BaseFacts DEF TaskInv
  <2>2. job[p].op = "removing" /\ job[p].digest = d => Contains(task[p].batches, d)
    BY BaseFacts DEF TaskInv
  <2> QED  BY <1>4, <2>1, <2>2 DEF Leaving
<1>6. /\ Occurrences(Included, d) \in Nat /\ Occurrences(admitted, d) \in Nat
      /\ Packed(p, d) \in Nat /\ LiveRow(d) \in {0, 1}
  BY BaseFacts, AccountTyped
<1>7. /\ Occurrences(Included, d)' = Occurrences(Included, d)
      /\ Occurrences(admitted, d)' = Occurrences(admitted, d)
      /\ LiveRow(d)' = LiveRow(d)
      /\ ToLoad(d)' = LiveRow(d)
      /\ Packed(p, d)' = 0
      /\ task'[p].stage = "none" /\ ~task'[p].whole
  BY <1>1 DEF Included, LiveRow, ToLoad, Packed, NoTask
<1>8. Occurrences(pool', d) = 0 /\ Occurrences(task[p].left, d)' = 0
  <2>1. <<>> \in Seq(Digest) /\ ~Contains(<<>>, d)
    BY DEF Contains
  <2>2. Occurrences(<<>>, d) = 0
    BY <2>1, CountIs
  <2> QED  BY <1>1, <2>2 DEF NoTask
<1>9. Occurrences(Included, d) + LiveRow(d) <= Occurrences(admitted, d)
  BY <1>3, <1>5 DEF Balanced
<1>10. /\ Occurrences(Included, d) + 0 <= Occurrences(admitted, d)
       /\ Occurrences(Included, d) + 0 + 0 + LiveRow(d) <= Occurrences(admitted, d) + 0
  BY <1>6, <1>9
<1> QED  BY <1>7, <1>8, <1>9, <1>10 DEF Balanced

\* The removed batch's row is no longer live.
LEMMA RemoveFinishBalance ==
    ASSUME NEW p, Base(p), RemoveFinish(p),
           UNCHANGED <<task, chain, admitted>>, NEW d \in Digest,
           Balanced(p, d), ~faulted'
    PROVE  Balanced(p, d)'
<1>1. /\ holder = p /\ job[p].op = "removing" /\ holder' = NoThread
      /\ rows' = MarkProcessed(job[p].digest)
      /\ job'[p] = Idle /\ pool' = pool
  BY BaseFacts DEF RemoveFinish, memory, TypeOK
<1>2. \A r \in rows' : ~r.processed => r \in rows /\ r.digest # job[p].digest
  BY <1>1, BaseFacts DEF MarkProcessed, TypeOK, Row
<1>3. LiveRow(d)' <= LiveRow(d)
  BY <1>2, LiveRowShrinks
<1>4. (Leaving(p, d)' <=> Leaving(p, d)) \/ LiveRow(d)' = 0
  <2>1. CASE job[p].digest = d
    BY <1>2, <2>1 DEF LiveRow
  <2>2. CASE job[p].digest # d
    BY <1>1, <2>2 DEF Leaving, Idle
  <2> QED  BY <2>1, <2>2
<1>5. ToLoad(d) = 0 /\ ToLoad(d)' = 0
  BY <1>1, BaseFacts, NothingToLoad, NothingToLoadNext
<1>6. Occurrences(pool, d) \in Nat
  BY BaseFacts, CountIs
<1> QED  BY <1>1, <1>3, <1>4, <1>5, <1>6, BaseFacts, AccountKept

\* Steps of the pool that are nobody's task: they offer no more than before.
LEMMA QuietBalance ==
    ASSUME NEW p, Base(p), UNCHANGED <<task, chain, admitted>>,
           UNCHANGED <<pool, holder, todo>>, job'[p] = job[p],
           \A r \in rows' : ~r.processed => r \in rows,
           NEW d \in Digest, Balanced(p, d)
    PROVE  Balanced(p, d)'
<1>1. LiveRow(d)' <= LiveRow(d)
  BY LiveRowShrinks
<1>2. ToLoad(d)' = ToLoad(d) /\ (Leaving(p, d)' <=> Leaving(p, d))
  BY DEF ToLoad, Leaving
<1>3. Occurrences(pool, d) \in Nat /\ ToLoad(d) \in {0, 1}
  BY BaseFacts, AccountTyped
<1> QED  BY <1>1, <1>2, <1>3, BaseFacts, AccountKept

\* clear_pool empties memory and leaves the rows, which stay to be paid.
LEMMA ClearBalance ==
    ASSUME NEW p, Base(p), NEW t \in Client, Clear(t),
           UNCHANGED <<task, chain, admitted>>,
           NEW d \in Digest, Balanced(p, d)
    PROVE  Balanced(p, d)'
<1>1. /\ pool' = <<>> /\ holder' = holder /\ holder = NoThread
      /\ job' = job /\ rows' \subseteq rows
  BY DEF Clear, work
<1>2. LiveRow(d)' <= LiveRow(d)
  BY <1>1, LiveRowShrinks
<1>3. ToLoad(d) = 0 /\ ToLoad(d)' = 0
  BY <1>1, BaseFacts, NothingToLoad, NothingToLoadNext
<1>4. Leaving(p, d)' <=> Leaving(p, d)
  BY <1>1 DEF Leaving
<1>5. Occurrences(pool', d) = 0
  <2>1. <<>> \in Seq(Digest) /\ ~Contains(<<>>, d)
    BY DEF Contains
  <2> QED  BY <1>1, <2>1, CountIs
<1>6. Occurrences(pool, d) \in Nat
  BY BaseFacts, CountIs
<1>7. /\ Occurrences(pool', d) \in Nat
      /\ Occurrences(pool', d) + ToLoad(d)' <= Occurrences(pool, d) + ToLoad(d)
  BY <1>3, <1>5, <1>6
<1> QED  BY <1>2, <1>4, <1>7, BaseFacts, AccountKept

\* The cleaner takes entries and rows away and pays nothing.
LEMMA ExpireBalance ==
    ASSUME NEW p, Base(p), Expire,
           UNCHANGED <<task, chain, admitted>>,
           NEW d \in Digest, Balanced(p, d)
    PROVE  Balanced(p, d)'
<1>1. /\ holder' # Main /\ holder # Main /\ job'[p] = job[p] /\ rows' \subseteq rows
  BY BaseFacts, ThreadAssumption
  DEF Expire, ExpireStart, ExpireFail, ExpireDrop, ExpireFinish, storage, work, Thread, TypeOK
<1>2. LiveRow(d)' <= LiveRow(d)
  BY <1>1, LiveRowShrinks
<1>3. ToLoad(d) = 0 /\ ToLoad(d)' = 0
  BY <1>1, NothingToLoad, NothingToLoadNext
<1>4. Leaving(p, d)' <=> Leaving(p, d)
  BY <1>1 DEF Leaving
<1>5. Occurrences(pool, d) \in Nat
  BY BaseFacts, CountIs
<1>6. Occurrences(pool', d) \in Nat /\ Occurrences(pool', d) <= Occurrences(pool, d)
  <2>1. CASE UNCHANGED memory
    BY <1>5, <2>1 DEF memory
  <2>2. CASE ~ UNCHANGED memory
    <3>1. PICK r \in todo : digest_index[r.digest] # 0 /\ DropEntry(r.digest)
      BY <2>2 DEF Expire, ExpireStart, ExpireFail, ExpireDrop, ExpireFinish
    <3>2. r.digest \in Digest
      BY <3>1, BaseFacts DEF TypeOK, Row
    <3>3. /\ Occurrences(pool', d) \in Nat
          /\ Occurrences(pool, d) = Occurrences(pool', d) + (IF r.digest = d THEN 1 ELSE 0)
      BY <3>1, <3>2, BaseFacts, DropCount
    <3> QED  BY <3>3
  <2> QED  BY <2>1, <2>2
<1> QED  BY <1>2, <1>3, <1>4, <1>5, <1>6, BaseFacts, AccountKept

\* A row is offered by the table until it is loaded, by memory afterwards.
LEMMA LoadBalance ==
    ASSUME NEW p, Base(p), Load,
           UNCHANGED <<task, chain, admitted>>,
           NEW d \in Digest, Balanced(p, d), ~faulted'
    PROVE  Balanced(p, d)'
<1>1. /\ holder = Main /\ rows' = rows /\ job'[p] = job[p]
  BY BaseFacts DEF Load, LoadRow, LoadDone, storage, TypeOK
<1>2. LiveRow(d)' <= LiveRow(d)
  BY <1>1, LiveRowShrinks
<1>3. Leaving(p, d)' <=> Leaving(p, d)
  BY <1>1 DEF Leaving
<1>4. Occurrences(pool, d) \in Nat /\ ToLoad(d) \in {0, 1}
  BY BaseFacts, AccountTyped
<1>5. CASE LoadDone
  <2>1. pool' = pool /\ ToLoad(d)' = 0
    BY <1>5, BaseFacts, NothingToLoadNext DEF LoadDone, memory
  <2> QED  BY <1>2, <1>3, <1>4, <2>1, BaseFacts, AccountKept
<1>6. CASE LoadRow
  <2>1. PICK q \in todo : AppendEntry(q.digest) /\ todo' = todo \ {q} /\ holder' = Main
    BY <1>6 DEF LoadRow
  <2>2. q.digest \in Digest /\ q \in rows /\ todo \subseteq rows
    BY BaseFacts DEF TypeOK, Row
  <2>3. pool' = Append(pool, q.digest)
    BY <2>1 DEF AppendEntry
  <2>4. /\ Occurrences(pool', d) = Occurrences(pool, d) + (IF q.digest = d THEN 1 ELSE 0)
        /\ pool' \in Seq(Digest)
    BY <2>2, <2>3, BaseFacts, CountAppend
  <2>5. CASE q.digest = d
    <3>1. ToLoad(d) = 1
      BY <1>1, <2>5 DEF ToLoad
    <3>2. ToLoad(d)' = 0
      BY <2>1, <2>2, <2>5, BaseFacts DEF ToLoad, TableInv, OneRow
    <3> QED  BY <1>2, <1>3, <1>4, <2>4, <2>5, <3>1, <3>2, BaseFacts, AccountKept
  <2>6. CASE q.digest # d
    <3>1. ToLoad(d)' = ToLoad(d)
      BY <1>1, <2>1, <2>6 DEF ToLoad
    <3> QED  BY <1>2, <1>3, <1>4, <2>4, <2>6, <3>1, BaseFacts, AccountKept
  <2> QED  BY <2>5, <2>6
<1> QED  BY <1>5, <1>6 DEF Load

\* A step of the pool, in the name of nobody's task.
LEMMA PoolStepBalance ==
    ASSUME NEW p, Base(p), PoolStep, NEW d \in Digest, Balanced(p, d), ~faulted'
    PROVE  Balanced(p, d)'
<1>1. UNCHANGED <<task, chain, admitted>>
  BY DEF PoolStep, history
<1>2. CASE (\E e \in Digest : Create(e)) \/ Tick
  BY <1>1, <1>2, QuietBalance DEF Create, Tick, memory, work, storage
<1>3. CASE \E t \in Client \ Packager : Clear(t)
  BY <1>1, <1>3, ClearBalance
<1>4. CASE \E t \in Packager : RemoveFinish(t)
  BY <1>1, <1>4, RemoveFinishBalance DEF Base
<1>5. CASE \E t \in Thread : RebuildStep(t)
  BY <1>1, <1>5, QuietBalance DEF RebuildStep, work, storage
<1>6. CASE Expire
  BY <1>1, <1>6, ExpireBalance
<1>7. CASE Load
  BY <1>1, <1>7, LoadBalance
<1> QED  BY <1>2, <1>3, <1>4, <1>5, <1>6, <1>7 DEF PoolStep

\* A client validates a batch, or enters it.
LEMMA SubmitBalance ==
    ASSUME NEW p, Base(p), NEW t \in Client \ Packager, Submit(t),
           NEW d \in Digest, Balanced(p, d), ~faulted'
    PROVE  Balanced(p, d)'
<1>1. CASE (\E e \in Digest : Validate(t, e)) /\ UNCHANGED <<task, chain, history>>
  <2>1. /\ UNCHANGED <<pool, holder, todo, rows>> /\ job'[p] = job[p]
    BY <1>1, BaseFacts DEF Validate, memory, storage, TypeOK
  <2> QED  BY <1>1, <2>1, QuietBalance DEF history
<1>2. CASE /\ Enter(t)
           /\ admitted' = Append(admitted, job[t].digest)
           /\ UNCHANGED <<task, chain, crashes, interrupted>>
  BY <1>2, EnterBalance
<1> QED  BY <1>1, <1>2 DEF Submit

\* A fault, and an interrupted stepwise task, stay on record.
LEMMA RecordsStay ==
    ASSUME NEW p, Base(p), [PackNext]_allVars
    PROVE  /\ faulted => faulted'
           /\ \A d : Excused(d) => Excused(d)'
<1>1. [Next]_vars
  BY StepOfPool, BaseFacts
<1>2. faulted => faulted'
  BY <1>1 DEF Next, vars, Create, AddMulti, Validate, Enter, RemoveMulti,
     RemoveStart, RemoveFinish, Clear, RebuildStep, Expire, ExpireStart,
     ExpireFail, ExpireDrop, ExpireFinish, Restart, Load, LoadRow, LoadDone, Tick
<1>3. interrupted \subseteq interrupted'
  BY DEF PackNext, allVars, history, Package, HandOver, RemoveNext, RemoveMissing,
     Finish, Submit, Crash, PoolStep
<1> QED  BY <1>2, <1>3 DEF Excused

\* Every step keeps the account.
LEMMA BalanceStep ==
    ASSUME NEW p, Base(p), [PackNext]_allVars
    PROVE  BalanceInv(p)'
<1>1. CASE Package(p)
  BY <1>1, PackageBalance, RecordsStay DEF Base, BalanceInv
<1>2. CASE HandOver(p)
  BY <1>2, HandOverBalance, RecordsStay DEF Base, BalanceInv
<1>3. CASE RemoveNext(p)
  BY <1>3, RemoveNextBalance, RecordsStay DEF Base, BalanceInv
<1>4. CASE RemoveMissing(p)
  BY <1>4, RemoveMissingBalance, RecordsStay DEF Base, BalanceInv
<1>5. CASE Finish(p)
  BY <1>5, FinishBalance, RecordsStay DEF Base, BalanceInv
<1>6. ASSUME NEW t \in Client \ Packager, Submit(t)
      PROVE  BalanceInv(p)'
  <2>1. Shape(p)'
    BY <1>6, BaseFacts DEF Submit, history, Shape
  <2> QED  BY <1>6, <2>1, SubmitBalance, RecordsStay DEF Base, BalanceInv
<1>7. CASE Crash
  <2>1. Shape(p)'
    BY <1>7, BaseFacts DEF Crash, Shape, NoTask
  <2> QED  BY <1>7, <2>1, CrashBalance, RecordsStay DEF Base, BalanceInv
<1>8. CASE PoolStep
  <2>1. Shape(p)'
    BY <1>8, BaseFacts DEF PoolStep, Shape
  <2> QED  BY <1>8, <2>1, PoolStepBalance, RecordsStay DEF Base, BalanceInv
<1>9. CASE UNCHANGED allVars
  <2>1. /\ UNCHANGED <<task, chain, admitted, interrupted>>
        /\ UNCHANGED <<pool, holder, todo, rows, job, faulted>>
    BY <1>9 DEF allVars, vars, history, memory, work, storage
  <2>2. \A d \in Digest : Balanced(p, d) => Balanced(p, d)'
    BY <2>1, QuietBalance
  <2> QED  BY <2>1, <2>2, BaseFacts DEF Base, BalanceInv, Shape, Excused
<1>10. PackNext \/ UNCHANGED allVars
  OBVIOUS
<1>11. \A t \in Packager : t = p
  BY DEF Base
<1> QED
  BY <1>1, <1>2, <1>3, <1>4, <1>5, <1>6, <1>7, <1>8, <1>9, <1>10, <1>11, Zenon DEF PackNext

\* Nothing was bought and nothing was paid.
LEMMA BalanceInit ==
    ASSUME NEW p, Packager = {p}, PackInit
    PROVE  BalanceInv(p)
<1>1. /\ task[p] = NoTask /\ chain = <<>> /\ admitted = <<>> /\ pool = <<>>
      /\ rows = {} /\ todo = {}
  BY DEF PackInit, Init
<1>2. Included = <<>>
  <2>1. [i \in DOMAIN chain |-> chain[i].batches] = <<>>
    BY <1>1
  <2>2. FlattenSeq(<<>>) = <<>>
    BY DEF FlattenSeq
  <2> QED  BY <2>1, <2>2 DEF Included
<1>3. \A d : Occurrences(<<>>, d) = 0
  <2>1. <<>> \in Seq(Digest) /\ \A d : ~Contains(<<>>, d)
    BY DEF Contains
  <2> QED  BY <2>1, CountIs
<1>4. \A d : /\ Occurrences(Included, d) = 0 /\ Occurrences(admitted, d) = 0
             /\ Occurrences(pool, d) = 0 /\ Occurrences(task[p].left, d) = 0
             /\ Packed(p, d) = 0 /\ LiveRow(d) = 0 /\ ToLoad(d) = 0
  BY <1>1, <1>2, <1>3 DEF Packed, LiveRow, ToLoad, NoTask
<1>5. \A d \in Digest : Balanced(p, d)
  BY <1>4 DEF Balanced
<1> QED  BY <1>1, <1>5 DEF BalanceInv, Shape, NoTask

\* A single packager on a sound database pays each admission of a batch at most
\* once, whatever is added, expired, cleared or reloaded while it packages and
\* however many clients submit, unless it is a stepwise caller that crashed.
THEOREM NothingPaidTwice ==
    ASSUME NEW p, Packager = {p}
    PROVE  PackSpec => []PaidByAdmission
<1> DEFINE Inv == IndexInv /\ TableInv /\ PackInv /\ BalanceInv(p)
<1>1. PackInit => Inv
  BY IndexInvInit, TableInvInit, PackInvInit, BalanceInit DEF PackInit
<1>2. Inv /\ [PackNext]_allVars => Inv'
  <2> SUFFICES ASSUME Inv, [PackNext]_allVars PROVE Inv'
    OBVIOUS
  <2>1. [Next]_vars
    BY StepOfPool DEF PackInv
  <2>2. Base(p)
    BY DEF Base
  <2> QED  BY <2>1, <2>2, IndexInvStep, TableInvStep, PackInvStep, BalanceStep
<1>3. Inv => PaidByAdmission
  <2> SUFFICES ASSUME Inv, ~faulted, NEW d \in Digest
               PROVE  \/ Occurrences(Included, d) <= Occurrences(admitted, d)
                      \/ \E k \in interrupted : k.stage = "handed" /\ Contains(k.batches, d)
    BY DEF PaidByAdmission
  <2>1. Excused(d) \/ Balanced(p, d)
    BY DEF BalanceInv
  <2>2. CASE Excused(d)
    BY <2>2 DEF Excused
  <2>3. CASE Balanced(p, d)
    <3>1. Base(p)
      BY DEF Base
    <3>2. /\ Occurrences(Included, d) \in Nat /\ Occurrences(admitted, d) \in Nat
          /\ Packed(p, d) \in Nat
      BY <3>1, BaseFacts, AccountTyped
    <3>3. Occurrences(Included, d) + Packed(p, d) <= Occurrences(admitted, d)
      BY <2>3 DEF Balanced
    <3> QED  BY <3>2, <3>3
  <2> QED  BY <2>1, <2>2, <2>3
<1> QED  BY <1>1, <1>2, <1>3, PTL DEF PackSpec

-----------------------------------------------------------------------------
(* The order of the blocks of a single packager.                           *)

\* A row's id says when its batch was entered; what is loaded is live.
RowsInv ==
    /\ nextId = Len(admitted) + 1
    /\ \A r \in rows : r.id \in DOMAIN admitted /\ admitted[r.id] = r.digest
    /\ holder = Main => \A r \in todo : ~r.processed

Entered(d) == \E i \in DOMAIN admitted : admitted[i] = d
Earlier(d, e) ==
    \A m, n \in DOMAIN admitted : admitted[m] = d /\ admitted[n] = e => m < n

\* The sequence has entered batches, in the order in which they entered.
Increasing(s) ==
    /\ \A i \in DOMAIN s : Entered(s[i])
    /\ \A i, j \in DOMAIN s : i < j => Earlier(s[i], s[j])

\* The batch entered after all of the sequence.
Passed(s, d) == \A i \in DOMAIN s : Earlier(s[i], d)

\* The case the property is about.
Sorted ==
    /\ ~faulted /\ IsInjective(admitted)
    /\ \A i \in DOMAIN chain : chain[i].whole

\* What the one call has packed comes after the blocks, and before all that is
\* in the pool or in the table and is not among what it still has to remove.
TaskInOrder(t) ==
    task[t].whole =>
        /\ Increasing(task[t].batches)
        /\ \A i \in DOMAIN task[t].batches : Passed(Included, task[t].batches[i])
        /\ \A j \in DOMAIN pool :
              Contains(task[t].left, pool[j]) \/ Passed(task[t].batches, pool[j])
        /\ \A r \in rows : ~r.processed =>
              Leaving(t, r.digest) \/ Passed(task[t].batches, r.digest)

PoolInOrder ==
    /\ Increasing(Included) /\ Increasing(pool)
    /\ \A j \in DOMAIN pool : Passed(Included, pool[j])
    /\ holder = Main => \A r \in todo : Passed(pool, r.digest)
    /\ \A r \in rows : ~r.processed => Passed(Included, r.digest)

OrderInv(t) ==
    Sorted => task[t].stage # "handed" /\ PoolInOrder /\ TaskInOrder(t)

-----------------------------------------------------------------------------
(* Rows and admissions.                                                    *)

\* Steps that enter nothing.
LEMMA RowsKept ==
    ASSUME RowsInv, nextId' = nextId, admitted' = admitted,
           \A r \in rows' : \E q \in rows : r.id = q.id /\ r.digest = q.digest,
           holder' = Main => \A r \in todo' : ~r.processed
    PROVE  RowsInv'
BY DEF RowsInv

\* Every step keeps the ids of the rows at the places of their admissions.
LEMMA RowsInvStep ==
    ASSUME IndexInv, PackInv, RowsInv, [PackNext]_allVars
    PROVE  RowsInv'
<1>0. /\ TypeOK /\ LockDiscipline /\ PackType /\ Packager \subseteq Client
      /\ Main # NoThread /\ Main \notin Client /\ Main # Cleaner /\ Cleaner \notin Client
      /\ admitted \in Seq(Digest)
  BY ThreadAssumption, PackagerAssumption DEF IndexInv, PackInv, PackType, Thread
<1>1. ASSUME NEW t \in Packager,
             Package(t) \/ HandOver(t) \/ RemoveMissing(t) \/ Finish(t)
      PROVE  RowsInv'
  <2>1. UNCHANGED <<vars, admitted>>
    BY <1>1 DEF Package, HandOver, RemoveMissing, Finish, history
  <2> QED  BY <2>1 DEF RowsInv, vars, storage, work
<1>2. ASSUME NEW t \in Packager, RemoveNext(t) PROVE RowsInv'
  <2>1. UNCHANGED <<rows, nextId, admitted>> /\ holder' = t
    BY <1>2 DEF RemoveNext, RemoveStart, history, storage
  <2> QED  BY <1>0, <2>1, RowsKept
<1>3. ASSUME NEW t \in Client \ Packager, Submit(t) PROVE RowsInv'
  <2>1. CASE (\E d \in Digest : Validate(t, d)) /\ UNCHANGED <<task, chain, history>>
    <3>1. UNCHANGED <<rows, nextId, admitted, holder, todo>>
      BY <2>1 DEF Validate, history, storage
    <3> QED  BY <3>1 DEF RowsInv
  <2>2. CASE Enter(t) /\ admitted' = Append(admitted, job[t].digest)
    <3> DEFINE d == job[t].digest
    <3>1. d \in Digest
      BY <1>0, <2>2 DEF Enter, LockDiscipline, Thread
    <3>2. /\ nextId' = nextId + 1 /\ holder' = NoThread
          /\ rows' = InsertOrReplace(d) \/ rows' = rows
          /\ admitted' = Append(admitted, d)
      BY <2>2 DEF Enter
    <3> HIDE DEF d
    <3>3. /\ Len(admitted) \in Nat /\ Len(admitted') = Len(admitted) + 1
          /\ \A i \in 1..Len(admitted) : admitted'[i] = admitted[i]
          /\ admitted'[Len(admitted) + 1] = d
          /\ DOMAIN admitted = 1..Len(admitted)
          /\ DOMAIN admitted' = 1..Len(admitted) + 1
      BY <1>0, <3>1, <3>2, AppendProperties, LenProperties
    <3>4. ASSUME NEW r \in rows'
          PROVE  r.id \in DOMAIN admitted' /\ admitted'[r.id] = r.digest
      <4>1. CASE r \in rows
        <5>1. r.id \in 1..Len(admitted) /\ admitted[r.id] = r.digest
          BY <3>3, <4>1 DEF RowsInv
        <5> QED  BY <3>3, <5>1
      <4>2. CASE r \notin rows
        <5>1. r.id = Len(admitted) + 1 /\ r.digest = d
          BY <3>2, <4>2 DEF InsertOrReplace, RowsInv
        <5>2. Len(admitted) + 1 \in 1..Len(admitted) + 1
          BY <3>3
        <5> QED  BY <3>3, <5>1, <5>2
      <4> QED  BY <4>1, <4>2
    <3> QED  BY <1>0, <3>2, <3>3, <3>4 DEF RowsInv
  <2> QED  BY <1>3, <2>1, <2>2 DEF Submit
<1>4. CASE Crash
  <2>1. UNCHANGED <<rows, nextId, admitted>> /\ \A r \in todo' : ~r.processed
    BY <1>4 DEF Crash, Restart, Reloadable, storage
  <2> QED  BY <2>1, RowsKept
<1>5. CASE PoolStep
  <2>1. UNCHANGED <<nextId, admitted>>
    BY <1>5 DEF PoolStep, history, Create, Clear, RemoveFinish, RebuildStep, Expire,
       ExpireStart, ExpireFail, ExpireDrop, ExpireFinish, Load, LoadRow, LoadDone, Tick, storage
  <2>2. CASE \/ \E d \in Digest : Create(d)
             \/ \E t \in Thread : RebuildStep(t)
             \/ Tick
    BY <2>1, <2>2 DEF Create, RebuildStep, Tick, storage, work, RowsInv
  <2>3. CASE \E t \in Client \ Packager : Clear(t)
    <3>1. rows' \subseteq rows /\ holder' = NoThread
      BY <2>3 DEF Clear
    <3> QED  BY <1>0, <2>1, <3>1, RowsKept
  <2>4. CASE \E t \in Packager : RemoveFinish(t)
    <3>1. PICK t \in Packager : RemoveFinish(t)
      BY <2>4
    <3>2. (rows' = rows \/ rows' = MarkProcessed(job[t].digest)) /\ holder' = NoThread
      BY <3>1 DEF RemoveFinish
    <3>3. \A r \in rows' : \E q \in rows : r.id = q.id /\ r.digest = q.digest
      BY <1>0, <3>2 DEF MarkProcessed, TypeOK, Row
    <3> QED  BY <1>0, <2>1, <3>2, <3>3, RowsKept
  <2>5. CASE Expire
    <3>1. rows' \subseteq rows /\ holder' # Main
      BY <1>0, <2>5 DEF Expire, ExpireStart, ExpireFail, ExpireDrop, ExpireFinish, storage
    <3> QED  BY <2>1, <3>1, RowsKept
  <2>6. CASE Load
    <3>1. rows' = rows /\ holder = Main /\ todo' \subseteq todo
      BY <2>6 DEF Load, LoadRow, LoadDone, storage
    <3> QED  BY <2>1, <3>1, RowsKept DEF RowsInv
  <2> QED  BY <1>5, <2>2, <2>3, <2>4, <2>5, <2>6 DEF PoolStep
<1>6. CASE UNCHANGED allVars
  BY <1>6 DEF allVars, vars, history, storage, work, RowsInv
<1> QED  BY <1>1, <1>2, <1>3, <1>4, <1>5, <1>6 DEF PackNext

-----------------------------------------------------------------------------
(* Orders.                                                                 *)

\* A batch is not earlier than itself.
LEMMA NotEarlierItself ==
    ASSUME admitted \in Seq(Digest), NEW d, Entered(d)
    PROVE  ~Earlier(d, d)
<1>1. PICK i \in DOMAIN admitted : admitted[i] = d
  BY DEF Entered
<1>2. i \in 1..Len(admitted)
  BY LenProperties
<1>3. ~(i < i)
  BY <1>2
<1> QED  BY <1>1, <1>3 DEF Earlier

\* When nothing is entered the order stays.
LEMMA OrderStays ==
    ASSUME admitted' = admitted
    PROVE  /\ \A d : Entered(d)' <=> Entered(d)
           /\ \A d, e : Earlier(d, e)' <=> Earlier(d, e)
BY DEF Entered, Earlier

\* A newly entered batch comes after all the others, whose order stays.
LEMMA OrderGrows ==
    ASSUME admitted \in Seq(Digest), NEW x \in Digest,
           admitted' = Append(admitted, x), IsInjective(admitted)'
    PROVE  /\ \A d : Entered(d) => Entered(d)'
           /\ Entered(x)'
           /\ \A d, e : Entered(d) /\ Entered(e) /\ Earlier(d, e) => Earlier(d, e)'
           /\ \A d : Entered(d) => Earlier(d, x)'
<1>1. /\ Len(admitted) \in Nat /\ admitted' \in Seq(Digest)
      /\ \A i \in 1..Len(admitted) : admitted'[i] = admitted[i]
      /\ admitted'[Len(admitted) + 1] = x
      /\ DOMAIN admitted = 1..Len(admitted)
      /\ DOMAIN admitted' = 1..Len(admitted) + 1
  BY AppendProperties, LenProperties
<1>2. /\ \A i \in 1..Len(admitted) : i \in 1..Len(admitted) + 1
      /\ Len(admitted) + 1 \in 1..Len(admitted) + 1
  BY <1>1
<1>3. \A i, j \in 1..Len(admitted) + 1 : admitted'[i] = admitted'[j] => i = j
  BY <1>1 DEF IsInjective
<1>4. \A d : Entered(d) => Entered(d)'
  BY <1>1, <1>2 DEF Entered
<1>5. Entered(x)'
  BY <1>1, <1>2 DEF Entered
<1>6. ASSUME NEW d, Entered(d), NEW m \in DOMAIN admitted', admitted'[m] = d
      PROVE  m \in DOMAIN admitted /\ admitted[m] = d
  <2>1. PICK i \in 1..Len(admitted) : admitted[i] = d
    BY <1>1, <1>6 DEF Entered
  <2>2. m = i
    BY <1>1, <1>2, <1>3, <1>6, <2>1
  <2> QED  BY <1>1, <2>1, <2>2
<1>7. ASSUME NEW d, NEW e, Entered(d), Entered(e), Earlier(d, e)
      PROVE  Earlier(d, e)'
  BY <1>6, <1>7 DEF Earlier
<1>8. ASSUME NEW d, Entered(d)
      PROVE  Earlier(d, x)'
  <2>1. ASSUME NEW m \in DOMAIN admitted', NEW n \in DOMAIN admitted',
               admitted'[m] = d, admitted'[n] = x
        PROVE  m < n
    <3>1. m \in 1..Len(admitted)
      BY <1>1, <1>6, <1>8, <2>1
    <3>2. n = Len(admitted) + 1
      BY <1>1, <1>2, <1>3, <2>1
    <3> QED  BY <1>1, <3>1, <3>2
  <2> QED  BY <2>1 DEF Earlier
<1> QED  BY <1>4, <1>5, <1>7, <1>8

\* The pool after a removal: the entries that are left are in order.
LEMMA DropOrder ==
    ASSUME TypeOK, DigestIndexExact, NEW e \in Digest, digest_index[e] # 0,
           DropEntry(e), Increasing(pool), admitted \in Seq(Digest)
    PROVE  /\ pool' \in Seq(Digest)
           /\ Increasing(pool')
           /\ \A k \in DOMAIN pool' :
                 /\ \E j \in DOMAIN pool : pool'[k] = pool[j]
                 /\ pool'[k] # e
<1> DEFINE i == digest_index[e]
           at(k) == IF k < i THEN k ELSE k + 1
<1>1. /\ pool \in Seq(Digest) /\ Len(pool) \in Nat /\ i \in 1..Len(pool) /\ pool[i] = e
      /\ DOMAIN pool = 1..Len(pool)
  BY LenProperties DEF TypeOK, DigestIndexExact
<1>2. pool' = RemoveAt(pool, i)
  BY DEF DropEntry
<1> HIDE DEF i
<1>3. /\ pool' \in Seq(Digest) /\ Len(pool') = Len(pool) - 1
      /\ \A k \in 1..(Len(pool) - 1) : pool'[k] = IF k < i THEN pool[k] ELSE pool[k + 1]
  BY <1>1, <1>2, RemoveAtFacts
<1>4. DOMAIN pool' = 1..(Len(pool) - 1)
  BY <1>3, LenProperties
<1>5. \A k \in DOMAIN pool' : at(k) \in DOMAIN pool /\ at(k) # i /\ pool'[k] = pool[at(k)]
  BY <1>1, <1>3, <1>4
<1>6. \A k, m \in DOMAIN pool' : k < m => at(k) < at(m)
  BY <1>1, <1>4
<1>7. \A j, k \in DOMAIN pool : j # k => pool[j] # pool[k]
  <2> SUFFICES ASSUME NEW j \in DOMAIN pool, NEW k \in DOMAIN pool, j < k
               PROVE  pool[j] # pool[k]
    BY <1>1
  <2> QED  BY NotEarlierItself DEF Increasing
<1>8. i \in DOMAIN pool
  BY <1>1
<1> HIDE DEF at
<1>9. \A k \in DOMAIN pool' : pool'[k] # e
  BY <1>1, <1>5, <1>7, <1>8
<1>10. Increasing(pool')
  BY <1>5, <1>6 DEF Increasing
<1> QED  BY <1>3, <1>5, <1>9, <1>10

\* A sequence of batches that grows at its end.
LEMMA AppendOrder ==
    ASSUME NEW s \in Seq(Digest), NEW x \in Digest, Increasing(s), Entered(x), Passed(s, x)
    PROVE  Increasing(Append(s, x))
<1> DEFINE w == Append(s, x)
<1>1. /\ Len(s) \in Nat /\ w \in Seq(Digest)
      /\ \A i \in 1..Len(s) : w[i] = s[i]
      /\ w[Len(s) + 1] = x
      /\ DOMAIN s = 1..Len(s) /\ DOMAIN w = 1..Len(s) + 1
  BY AppendProperties, LenProperties
<1> HIDE DEF w
<1>2. \A i \in DOMAIN w : i \in DOMAIN s \/ (i = Len(s) + 1 /\ i \notin DOMAIN s)
  BY <1>1
<1>3. \A i \in DOMAIN w : Entered(w[i])
  BY <1>1, <1>2 DEF Increasing
<1>4. ASSUME NEW i \in DOMAIN w, NEW j \in DOMAIN w, i < j
      PROVE  Earlier(w[i], w[j])
  <2>1. i \in DOMAIN s
    BY <1>1, <1>4
  <2>2. CASE j \in DOMAIN s
    BY <1>1, <1>4, <2>1, <2>2 DEF Increasing
  <2>3. CASE j \notin DOMAIN s
    BY <1>1, <1>2, <2>1, <2>3 DEF Passed
  <2> QED  BY <2>2, <2>3
<1>5. Increasing(w)
  BY <1>3, <1>4 DEF Increasing
<1> QED  BY <1>5 DEF w

\* Two sequences, one after the other.
LEMMA ConcatOrder ==
    ASSUME NEW s \in Seq(Digest), NEW q \in Seq(Digest), Increasing(s), Increasing(q),
           \A i \in DOMAIN q : Passed(s, q[i])
    PROVE  /\ Increasing(s \o q)
           /\ \A d : Passed(s, d) /\ Passed(q, d) => Passed(s \o q, d)
<1> DEFINE w == s \o q
<1>1. /\ Len(s) \in Nat /\ Len(q) \in Nat /\ w \in Seq(Digest)
      /\ Len(w) = Len(s) + Len(q)
      /\ \A i \in 1..Len(s) + Len(q) : w[i] = IF i <= Len(s) THEN s[i] ELSE q[i - Len(s)]
      /\ DOMAIN s = 1..Len(s) /\ DOMAIN q = 1..Len(q)
  BY ConcatProperties, LenProperties
<1>2. DOMAIN w = 1..Len(s) + Len(q)
  BY <1>1, LenProperties
<1> HIDE DEF w
<1>3. \A i \in DOMAIN w :
         \/ i \in DOMAIN s /\ w[i] = s[i]
         \/ i - Len(s) \in DOMAIN q /\ w[i] = q[i - Len(s)] /\ ~(i <= Len(s))
  BY <1>1, <1>2
<1>4. \A i \in DOMAIN w : Entered(w[i])
  BY <1>3 DEF Increasing
<1>5. ASSUME NEW i \in DOMAIN w, NEW j \in DOMAIN w, i < j
      PROVE  Earlier(w[i], w[j])
  <2>1. CASE i \in DOMAIN s /\ w[i] = s[i]
    <3>1. CASE j \in DOMAIN s /\ w[j] = s[j]
      BY <1>5, <2>1, <3>1 DEF Increasing
    <3>2. CASE j - Len(s) \in DOMAIN q /\ w[j] = q[j - Len(s)]
      BY <2>1, <3>2 DEF Passed
    <3> QED  BY <1>3, <3>1, <3>2
  <2>2. CASE i - Len(s) \in DOMAIN q /\ w[i] = q[i - Len(s)] /\ ~(i <= Len(s))
    <3>1. ~(j <= Len(s)) /\ i - Len(s) < j - Len(s)
      BY <1>1, <1>2, <1>5, <2>2
    <3>2. j - Len(s) \in DOMAIN q /\ w[j] = q[j - Len(s)]
      BY <1>1, <1>3, <3>1
    <3> QED  BY <2>2, <3>1, <3>2 DEF Increasing
  <2> QED  BY <1>3, <2>1, <2>2
<1>6. Increasing(w)
  BY <1>4, <1>5 DEF Increasing
<1>7. \A d : Passed(s, d) /\ Passed(q, d) => Passed(w, d)
  BY <1>3 DEF Passed
<1> QED  BY <1>6, <1>7 DEF w

\* The first entries of the pool come before the others.
LEMMA SelectOrder ==
    ASSUME pool \in Seq(Digest), Increasing(pool), NEW b, b = Select(pool, "fifo")
    PROVE  /\ b \in Seq(Digest)
           /\ Increasing(b)
           /\ \A i \in DOMAIN b : \E j \in DOMAIN pool : b[i] = pool[j]
           /\ \A j \in DOMAIN pool : Contains(b, pool[j]) \/ Passed(b, pool[j])
<1> DEFINE n == IF Len(pool) < MaxPerBlock THEN Len(pool) ELSE MaxPerBlock
<1>1. b = SubSeq(pool, 1, n)
  BY DEF Select, Orders
<1>2. n \in 0..Len(pool) /\ Len(pool) \in Nat /\ DOMAIN pool = 1..Len(pool)
  BY PackagerAssumption, LenProperties
<1> HIDE DEF n
<1>3. /\ b \in Seq(Digest) /\ Len(b) = n
      /\ \A i \in 1..n : b[i] = pool[i]
  <2>1. \A i \in 1..n : pool[i] \in Digest
    BY <1>2, ElementOfSeq
  <2>2. /\ SubSeq(pool, 1, n) \in Seq(Digest)
        /\ Len(SubSeq(pool, 1, n)) = IF 1 <= n THEN n - 1 + 1 ELSE 0
        /\ \A i \in 1..n - 1 + 1 : SubSeq(pool, 1, n)[i] = pool[1 + i - 1]
    BY <1>2, <2>1, SubSeqProperties
  <2>3. \A i \in 1..n : i \in 1..n - 1 + 1 /\ 1 + i - 1 = i
    BY <1>2
  <2>4. \A i \in 1..n : SubSeq(pool, 1, n)[i] = pool[i]
    BY <2>2, <2>3
  <2>5. Len(SubSeq(pool, 1, n)) = n
    BY <1>2, <2>2
  <2> QED  BY <1>1, <2>2, <2>4, <2>5
<1>4. DOMAIN b = 1..n /\ \A i \in 1..n : i \in DOMAIN pool
  BY <1>2, <1>3, LenProperties
<1>5. Increasing(b)
  BY <1>3, <1>4 DEF Increasing
<1>6. ASSUME NEW j \in DOMAIN pool
      PROVE  Contains(b, pool[j]) \/ Passed(b, pool[j])
  <2>1. CASE j \in 1..n
    BY <1>3, <2>1 DEF Contains
  <2>2. CASE j \notin 1..n
    <3>1. \A i \in 1..n : i < j
      BY <1>2, <2>2
    <3> QED  BY <1>3, <1>4, <3>1 DEF Increasing, Passed
  <2> QED  BY <2>1, <2>2
<1> QED  BY <1>3, <1>4, <1>5, <1>6

\* What every step may rely on.
Ground(p) == /\ IndexInv /\ TableInv /\ PackInv /\ RowsInv
             /\ Packager = {p}
             /\ OrderInv(p)

\* What the lemmas about single steps use of the invariants.
LEMMA GroundFacts ==
    ASSUME NEW p, Ground(p)
    PROVE  /\ TypeOK /\ LockDiscipline /\ DigestIndexExact
           /\ PackType /\ TaskInv /\ TableInv /\ RowsInv
           /\ p \in Packager /\ p \in Client /\ p \in Thread
           /\ task[p] \in Task
           /\ task[p].left \in Seq(Digest) /\ task[p].batches \in Seq(Digest)
           /\ pool \in Seq(Digest) /\ admitted \in Seq(Digest)
           /\ Included \in Seq(Digest)
           /\ \A r \in rows : r.digest \in Digest /\ Entered(r.digest)
           /\ Main # NoThread /\ Main # p /\ Cleaner # p /\ NoThread # p
<1>1. /\ TypeOK /\ LockDiscipline /\ DigestIndexExact
      /\ PackType /\ TaskInv /\ TableInv /\ RowsInv /\ p \in Packager
  BY DEF Ground, IndexInv, PackInv
<1>2. Included \in Seq(Digest)
  BY <1>1, IncludedTyped DEF PackType
<1>3. \A r \in rows : r.digest \in Digest /\ Entered(r.digest)
  BY <1>1 DEF RowsInv, Entered, TypeOK, Row
<1> QED
  BY <1>1, <1>2, <1>3, PackagerAssumption, ThreadAssumption
  DEF Thread, TypeOK, PackType, Task

\* A sorted run was sorted before its last step.
LEMMA SortedBefore ==
    ASSUME NEW p, Ground(p), [PackNext]_allVars, Sorted'
    PROVE  Sorted
<1>1. [Next]_vars
  BY StepOfPool, GroundFacts
<1>2. ~faulted
  <2>1. faulted => faulted'
    BY <1>1 DEF Next, vars, Create, AddMulti, Validate, Enter, RemoveMulti,
       RemoveStart, RemoveFinish, Clear, RebuildStep, Expire, ExpireStart,
       ExpireFail, ExpireDrop, ExpireFinish, Restart, Load, LoadRow, LoadDone, Tick
  <2> QED  BY <2>1 DEF Sorted
<1>3. IsInjective(admitted)
  <2>1. CASE admitted' = admitted
    BY <2>1 DEF Sorted, IsInjective
  <2>2. CASE \E x \in Digest : admitted' = Append(admitted, x)
    <3>1. PICK x \in Digest : admitted' = Append(admitted, x)
      BY <2>2
    <3>2. /\ \A i \in 1..Len(admitted) : admitted'[i] = admitted[i]
          /\ DOMAIN admitted = 1..Len(admitted) /\ Len(admitted) \in Nat
          /\ DOMAIN admitted' = 1..Len(admitted) + 1
      <4>1. admitted' \in Seq(Digest) /\ Len(admitted') = Len(admitted) + 1
        BY <3>1, GroundFacts, AppendProperties
      <4> QED  BY <3>1, <4>1, GroundFacts, AppendProperties, LenProperties
    <3>3. \A i \in 1..Len(admitted) : i \in 1..Len(admitted) + 1
      BY <3>2
    <3> QED  BY <3>2, <3>3 DEF Sorted, IsInjective
  <2>3. admitted' = admitted \/ \E x \in Digest : admitted' = Append(admitted, x)
    <3>1. ASSUME NEW t \in Client \ Packager, Submit(t)
          PROVE  admitted' = admitted \/ \E x \in Digest : admitted' = Append(admitted, x)
      <4>1. CASE Enter(t) /\ admitted' = Append(admitted, job[t].digest)
        <5>1. job[t].digest \in Digest
          BY <4>1, GroundFacts DEF Enter, LockDiscipline, Thread
        <5> QED  BY <4>1, <5>1
      <4> QED  BY <3>1, <4>1 DEF Submit, history
    <3> QED
      BY <3>1 DEF PackNext, allVars, history, Package, HandOver, RemoveNext,
         RemoveMissing, Finish, Crash, PoolStep
  <2> QED  BY <2>1, <2>2, <2>3
<1>4. \A i \in DOMAIN chain : chain[i].whole
  <2>1. CASE chain' = chain
    BY <2>1 DEF Sorted
  <2>2. CASE \E b \in Block : chain' = Append(chain, b)
    <3>1. PICK b \in Block : chain' = Append(chain, b)
      BY <2>2
    <3>2. /\ \A i \in 1..Len(chain) : chain'[i] = chain[i]
          /\ DOMAIN chain = 1..Len(chain) /\ Len(chain) \in Nat
          /\ DOMAIN chain' = 1..Len(chain) + 1
      <4>1. chain \in Seq(Block)
        BY GroundFacts DEF PackType
      <4>2. chain' \in Seq(Block) /\ Len(chain') = Len(chain) + 1
        BY <3>1, <4>1, AppendProperties
      <4> QED  BY <3>1, <4>1, <4>2, AppendProperties, LenProperties
    <3>3. \A i \in 1..Len(chain) : i \in 1..Len(chain) + 1
      BY <3>2
    <3> QED  BY <3>2, <3>3 DEF Sorted
  <2>3. chain' = chain \/ \E b \in Block : chain' = Append(chain, b)
    <3>1. ASSUME NEW t \in Packager, HandOver(t)
          PROVE  \E b \in Block : chain' = Append(chain, b)
      <4>1. [whole |-> task[t].whole, batches |-> task[t].batches] \in Block
        BY GroundFacts DEF PackType, Task, Block
      <4> QED  BY <3>1, <4>1 DEF HandOver
    <3> QED
      BY <3>1 DEF PackNext, allVars, history, Package, RemoveNext,
         RemoveMissing, Finish, Submit, Crash, PoolStep
  <2> QED  BY <2>1, <2>2, <2>3
<1> QED  BY <1>2, <1>3, <1>4 DEF Sorted

-----------------------------------------------------------------------------
(* The packager's steps.                                                   *)

\* The one call packs the first batches of the pool.
LEMMA PackageOrder ==
    ASSUME NEW p, Ground(p), Package(p), Sorted
    PROVE  task'[p].stage # "handed" /\ PoolInOrder' /\ TaskInOrder(p)'
<1>1. PICK whole \in BOOLEAN, strategy \in {"fifo", "fee"} :
          /\ whole => strategy = "fifo"
          /\ task' = [task EXCEPT ![p] = TaskFor(pool, whole, strategy)]
  BY DEF Package
<1>2. /\ holder = NoThread
      /\ UNCHANGED <<vars, chain, admitted, interrupted>>
  BY DEF Package, history
<1>3. UNCHANGED <<pool, holder, job, rows, todo>>
  BY <1>2 DEF vars, memory, work, storage
<1>4. /\ task'[p].stage = "packed" /\ task'[p].whole = whole
      /\ task'[p].batches = Select(pool, strategy)
      /\ task'[p].left = Select(pool, strategy)
  BY <1>1, GroundFacts DEF PackType, TaskFor
<1>5. PoolInOrder /\ PoolInOrder'
  BY <1>2, <1>3, OrderStays DEF Ground, OrderInv, PoolInOrder, Increasing, Passed, Included
<1>6. ASSUME whole PROVE TaskInOrder(p)'
  <2>1. PICK b : b = Select(pool, "fifo")
    OBVIOUS
  <2>2. task'[p].batches = b /\ task'[p].left = b
    BY <1>1, <1>4, <1>6, <2>1
  <2>3. /\ Increasing(b)
        /\ \A i \in DOMAIN b : \E j \in DOMAIN pool : b[i] = pool[j]
        /\ \A j \in DOMAIN pool : Contains(b, pool[j]) \/ Passed(b, pool[j])
    BY <1>5, <2>1, GroundFacts, SelectOrder DEF PoolInOrder
  <2>4. \A i \in DOMAIN b : Passed(Included, b[i])
    BY <1>5, <2>3 DEF PoolInOrder
  <2>5. \A r \in rows : ~r.processed => Contains(b, r.digest) \/ Passed(b, r.digest)
    <3> SUFFICES ASSUME NEW r \in rows, ~r.processed
                 PROVE  Contains(b, r.digest) \/ Passed(b, r.digest)
      OBVIOUS
    <3>1. doomed = {} /\ holder # Main /\ holder \notin Client
      BY <1>2, GroundFacts, ThreadAssumption DEF LockDiscipline, Thread
    <3>2. InPool(r.digest)
      BY <3>1, GroundFacts DEF Sorted, TableInv, Accounted
    <3>3. PICK j \in 1..Len(pool) : pool[j] = r.digest
      BY <3>2 DEF InPool, Contains
    <3>4. j \in DOMAIN pool
      BY GroundFacts, LenProperties
    <3> QED  BY <2>3, <3>3, <3>4
  <2>6. /\ Increasing(b)'
        /\ \A d : Passed(Included, d) => Passed(Included, d)'
        /\ \A d : Passed(b, d) => Passed(b, d)'
    BY <1>2, <2>3, OrderStays DEF Increasing, Passed, Included
  <2>7. \A d : Contains(b, d) => Leaving(p, d)'
    BY <2>2 DEF Leaving
  <2> QED  BY <1>3, <2>2, <2>3, <2>4, <2>5, <2>6, <2>7 DEF TaskInOrder
<1>7. TaskInOrder(p)'
  <2>1. CASE whole
    BY <1>6, <2>1
  <2>2. CASE ~whole
    BY <1>4, <2>2 DEF TaskInOrder
  <2> QED  BY <2>1, <2>2
<1> QED  BY <1>4, <1>5, <1>7

\* The one call's block comes after the others, and before what is left.
LEMMA HandOverOrder ==
    ASSUME NEW p, Ground(p), HandOver(p), Sorted, Sorted'
    PROVE  task'[p].stage # "handed" /\ PoolInOrder' /\ TaskInOrder(p)'
<1> DEFINE b == task[p].batches
           block == [whole |-> task[p].whole, batches |-> b]
<1>1. /\ job[p] = Idle
      /\ task[p].whole => task[p].left = <<>>
      /\ chain' = Append(chain, block)
      /\ UNCHANGED <<vars, admitted, interrupted>>
  BY DEF HandOver, history
<1>2. UNCHANGED <<pool, holder, job, rows, todo>>
  BY <1>1 DEF vars, memory, work, storage
<1>3. block \in Block /\ chain \in Seq(Block) /\ block.batches = b /\ b \in Seq(Digest)
      /\ block.whole = task[p].whole
  BY GroundFacts DEF Block, Task, PackType
<1>4. task[p].whole
  <2> HIDE DEF block
  <2>1. /\ Len(chain) \in Nat /\ chain' \in Seq(Block)
        /\ Len(chain') = Len(chain) + 1 /\ chain'[Len(chain) + 1] = block
    BY <1>1, <1>3, AppendProperties, LenProperties
  <2>2. Len(chain) + 1 \in DOMAIN chain'
    BY <2>1, LenProperties
  <2> QED  BY <1>3, <2>1, <2>2 DEF Sorted
<1>5. task'[p] = NoTask
  BY <1>4, GroundFacts DEF HandOver, PackType
<1>6. Included' = Included \o b
  <2> HIDE DEF block
  <2> QED  BY <1>1, <1>3, IncludedGrows
<1>7. PoolInOrder /\ TaskInOrder(p)
  BY DEF Ground, OrderInv
<1>8. \A d : ~Leaving(p, d)
  BY <1>1, <1>4 DEF Leaving, Idle, Contains
<1> HIDE DEF b, block
<1>9. /\ Increasing(b) /\ \A i \in DOMAIN b : Passed(Included, b[i])
      /\ \A j \in DOMAIN pool : Passed(b, pool[j])
      /\ \A r \in rows : ~r.processed => Passed(b, r.digest)
  BY <1>4, <1>7, <1>8 DEF TaskInOrder, Leaving, b
<1>10. /\ Increasing(Included \o b)
       /\ \A d : Passed(Included, d) /\ Passed(b, d) => Passed(Included \o b, d)
  BY <1>3, <1>7, <1>9, GroundFacts, ConcatOrder DEF PoolInOrder
<1>11. /\ Increasing(Included') /\ Increasing(pool)
       /\ \A j \in DOMAIN pool : Passed(Included', pool[j])
       /\ holder = Main => \A r \in todo : Passed(pool, r.digest)
       /\ \A r \in rows : ~r.processed => Passed(Included', r.digest)
  BY <1>6, <1>7, <1>9, <1>10 DEF PoolInOrder
<1>12. PoolInOrder'
  BY <1>1, <1>2, <1>11, OrderStays DEF PoolInOrder, Increasing, Passed
<1>13. ~task'[p].whole /\ task'[p].stage = "none"
  BY <1>5 DEF NoTask
<1> QED  BY <1>12, <1>13 DEF TaskInOrder

\* The removed batch leaves the pool and what is left to remove.
LEMMA RemoveNextOrder ==
    ASSUME NEW p, Ground(p), RemoveNext(p), Sorted
    PROVE  task'[p].stage # "handed" /\ PoolInOrder' /\ TaskInOrder(p)'
<1> DEFINE e == Head(task[p].left)
<1>1. /\ Removing(p) /\ task[p].left # <<>> /\ job[p] = Idle
      /\ digest_index[e] # 0 /\ DropEntry(e) /\ holder' = p
      /\ job' = [job EXCEPT ![p] = [op |-> "removing", digest |-> e]]
      /\ task' = [task EXCEPT ![p].left = Tail(task[p].left)]
      /\ UNCHANGED <<chain, admitted, interrupted, rows>>
  BY DEF RemoveNext, RemoveStart, history, storage
<1>2. /\ e \in Digest /\ Tail(task[p].left) \in Seq(Digest)
      /\ \A d : Occurrences(task[p].left, d)
                  = Occurrences(Tail(task[p].left), d) + (IF e = d THEN 1 ELSE 0)
  BY <1>1, GroundFacts, CountTail
<1>3. /\ task'[p].stage = task[p].stage /\ task'[p].whole = task[p].whole
      /\ task'[p].batches = task[p].batches
      /\ task'[p].left = Tail(task[p].left)
  BY <1>1, GroundFacts DEF PackType, Task
<1>4. job'[p] = [op |-> "removing", digest |-> e]
  BY <1>1, GroundFacts DEF TypeOK
<1> HIDE DEF e
<1>5. task[p].stage # "handed" /\ PoolInOrder /\ TaskInOrder(p) /\ task[p].whole
  BY <1>1 DEF Ground, OrderInv, Removing
<1>6. /\ pool' \in Seq(Digest)
      /\ Increasing(pool')
      /\ \A k \in DOMAIN pool' :
            /\ \E j \in DOMAIN pool : pool'[k] = pool[j]
            /\ pool'[k] # e
  BY <1>1, <1>2, <1>5, GroundFacts, DropOrder DEF PoolInOrder
<1>7. PoolInOrder'
  <2>1. \A k \in DOMAIN pool' : Passed(Included, pool'[k])
    BY <1>5, <1>6 DEF PoolInOrder
  <2>2. Increasing(Included) /\ \A r \in rows : ~r.processed => Passed(Included, r.digest)
    BY <1>5 DEF PoolInOrder
  <2>3. Increasing(Included)' /\ Increasing(pool)'
    BY <1>1, <1>6, <2>2, OrderStays DEF Increasing, Included
  <2>4. \A k \in DOMAIN pool' : Passed(Included, pool[k])'
    BY <1>1, <2>1, OrderStays DEF Passed, Included
  <2>5. \A r \in rows' : ~r.processed => Passed(Included, r.digest)'
    BY <1>1, <2>2, OrderStays DEF Passed, Included
  <2>6. holder' # Main
    BY <1>1, GroundFacts
  <2> QED  BY <2>3, <2>4, <2>5, <2>6 DEF PoolInOrder
<1>8. \A d : Contains(task[p].left, d) => Contains(Tail(task[p].left), d) \/ d = e
  <2> TAKE d
  <2>1. Contains(task[p].left, d) => Occurrences(task[p].left, d) # 0
    BY GroundFacts, CountIs
  <2>2. ~Contains(Tail(task[p].left), d) => Occurrences(Tail(task[p].left), d) = 0
    BY <1>2, CountIs
  <2> QED  BY <1>2, <2>1, <2>2
<1>9. /\ \A d : Leaving(p, d) => Leaving(p, d)'
      /\ \A d : d # e /\ Contains(task[p].left, d) => Contains(task'[p].left, d)
  BY <1>1, <1>3, <1>4, <1>8 DEF Leaving, Idle
<1>10. /\ \A k \in DOMAIN pool' :
            Contains(task'[p].left, pool'[k]) \/ Passed(task[p].batches, pool'[k])
       /\ \A r \in rows : ~r.processed =>
            Leaving(p, r.digest)' \/ Passed(task[p].batches, r.digest)
  BY <1>5, <1>6, <1>9 DEF TaskInOrder
<1>11. TaskInOrder(p)'
  BY <1>1, <1>3, <1>5, <1>10, OrderStays DEF TaskInOrder, Increasing, Passed, Included
<1> QED  BY <1>3, <1>5, <1>7, <1>11

\* A batch that has left the pool is neither in it nor in the table.
LEMMA RemoveMissingOrder ==
    ASSUME NEW p, Ground(p), RemoveMissing(p), Sorted
    PROVE  task'[p].stage # "handed" /\ PoolInOrder' /\ TaskInOrder(p)'
<1> DEFINE e == Head(task[p].left)
<1>1. /\ Removing(p) /\ task[p].left # <<>> /\ job[p] = Idle /\ holder = NoThread
      /\ digest_index[e] = 0
      /\ task' = [task EXCEPT ![p].left = Tail(task[p].left)]
      /\ UNCHANGED <<vars, chain, admitted, interrupted>>
  BY DEF RemoveMissing, history
<1>2. /\ e \in Digest /\ Tail(task[p].left) \in Seq(Digest)
      /\ \A d : Occurrences(task[p].left, d)
                  = Occurrences(Tail(task[p].left), d) + (IF e = d THEN 1 ELSE 0)
  BY <1>1, GroundFacts, CountTail
<1>3. /\ task'[p].stage = task[p].stage /\ task'[p].whole = task[p].whole
      /\ task'[p].batches = task[p].batches
      /\ task'[p].left = Tail(task[p].left)
  BY <1>1, GroundFacts DEF PackType, Task
<1>4. UNCHANGED <<pool, holder, job, rows, todo>>
  BY <1>1 DEF vars, memory, work, storage
<1> HIDE DEF e
<1>5. task[p].stage # "handed" /\ PoolInOrder /\ TaskInOrder(p)
  BY DEF Ground, OrderInv
<1>6. PoolInOrder'
  BY <1>1, <1>4, <1>5, OrderStays DEF PoolInOrder, Increasing, Passed, Included
<1>7. Occurrences(pool, e) = 0 /\ LiveRow(e) = 0
  BY <1>1, <1>2, AbsentGone DEF Ground, Sorted
<1>8. /\ \A j \in DOMAIN pool : pool[j] # e
      /\ \A r \in rows : ~r.processed => r.digest # e
  <2>1. ~Contains(pool, e) /\ DOMAIN pool = 1..Len(pool)
    BY <1>7, GroundFacts, CountIs, LenProperties
  <2> QED  BY <1>7, <2>1 DEF Contains, LiveRow
<1>9. \A d : Contains(task[p].left, d) => Contains(task'[p].left, d) \/ d = e
  <2> TAKE d
  <2>1. Contains(task[p].left, d) => Occurrences(task[p].left, d) # 0
    BY GroundFacts, CountIs
  <2>2. ~Contains(Tail(task[p].left), d) => Occurrences(Tail(task[p].left), d) = 0
    BY <1>2, CountIs
  <2> QED  BY <1>2, <1>3, <2>1, <2>2
<1>10. \A d : Leaving(p, d) => Leaving(p, d)' \/ d = e
  BY <1>1, <1>4, <1>9 DEF Leaving, Idle
<1>11. task[p].whole =>
         /\ \A j \in DOMAIN pool :
              Contains(task'[p].left, pool[j]) \/ Passed(task[p].batches, pool[j])
         /\ \A r \in rows : ~r.processed =>
              Leaving(p, r.digest)' \/ Passed(task[p].batches, r.digest)
  BY <1>5, <1>8, <1>9, <1>10 DEF TaskInOrder
<1>12. TaskInOrder(p)'
  BY <1>1, <1>3, <1>4, <1>5, <1>11, OrderStays DEF TaskInOrder, Increasing, Passed, Included
<1> QED  BY <1>3, <1>5, <1>6, <1>12

-----------------------------------------------------------------------------
(* The order over the other steps.                                         *)

\* Steps that only take entries and live rows away.
LEMMA ShrinkOrder ==
    ASSUME NEW p, Ground(p), Sorted, UNCHANGED <<task, chain, admitted>>,
           Increasing(pool'),
           \A k \in DOMAIN pool' : \E j \in DOMAIN pool : pool'[k] = pool[j],
           holder' = Main => \A r \in todo' : Passed(pool', r.digest),
           \A r \in rows' : ~r.processed =>
              r \in rows /\ (Leaving(p, r.digest) => Leaving(p, r.digest)')
    PROVE  task'[p].stage # "handed" /\ PoolInOrder' /\ TaskInOrder(p)'
<1>1. task[p].stage # "handed" /\ PoolInOrder /\ TaskInOrder(p)
  BY DEF Ground, OrderInv
<1>2. /\ \A k \in DOMAIN pool' : Passed(Included, pool'[k])
      /\ \A r \in rows' : ~r.processed => Passed(Included, r.digest)
  BY <1>1 DEF PoolInOrder
<1>3. PoolInOrder'
  BY <1>1, <1>2, OrderStays DEF PoolInOrder, Increasing, Passed, Included
<1>4. task[p].whole =>
        /\ \A k \in DOMAIN pool' :
              Contains(task[p].left, pool'[k]) \/ Passed(task[p].batches, pool'[k])
        /\ \A r \in rows' : ~r.processed =>
              Leaving(p, r.digest)' \/ Passed(task[p].batches, r.digest)
  BY <1>1 DEF TaskInOrder
<1>5. TaskInOrder(p)'
  BY <1>1, <1>4, OrderStays DEF TaskInOrder, Increasing, Passed, Included
<1> QED  BY <1>1, <1>3, <1>5

\* An empty pool is in order.
LEMMA EmptyOrder ==
    /\ Increasing(<<>>)
    /\ \A d : Passed(<<>>, d)
BY DEF Increasing, Passed

\* What enters comes last.
LEMMA EnterOrder ==
    ASSUME NEW p, Ground(p), NEW t \in Client \ Packager, Enter(t),
           admitted' = Append(admitted, job[t].digest),
           UNCHANGED <<task, chain, interrupted>>, Sorted, Sorted'
    PROVE  task'[p].stage # "handed" /\ PoolInOrder' /\ TaskInOrder(p)'
<1>0. PICK x : x = job[t].digest
  OBVIOUS
<1>00. PICK adm : adm = admitted'
  OBVIOUS
<1> DEFINE En(d) == \E i \in DOMAIN adm : adm[i] = d
<1> DEFINE Ea(d, e) == \A m, n \in DOMAIN adm : adm[m] = d /\ adm[n] = e => m < n
<1>1. /\ x \in Digest /\ pool' = Append(pool, x) /\ admitted' = Append(admitted, x)
      /\ holder' # Main
      /\ rows' = InsertOrReplace(x)
      /\ job'[p] = job[p]
  BY <1>0, GroundFacts DEF Enter, AppendEntry, LockDiscipline, Thread, TypeOK, Ground, Sorted
<1>2. /\ \A d : Entered(d) => En(d)
      /\ En(x)
      /\ \A d, e : Entered(d) /\ Entered(e) /\ Earlier(d, e) => Ea(d, e)
      /\ \A d : Entered(d) => Ea(d, x)
  <2>1. x \in Digest /\ admitted \in Seq(Digest) /\ admitted' = Append(admitted, x)
        /\ IsInjective(admitted)'
    BY <1>1, GroundFacts DEF Sorted
  <2> QED  BY <1>00, <2>1, OrderGrows, SMTT(30) DEF Entered, Earlier
<1> HIDE DEF En, Ea
<1>3. task[p].stage # "handed" /\ PoolInOrder /\ TaskInOrder(p)
  BY DEF Ground, OrderInv
<1>4. ASSUME NEW s, Increasing(s)
      PROVE  /\ \A i \in DOMAIN s : En(s[i])
             /\ \A i, j \in DOMAIN s : i < j => Ea(s[i], s[j])
             /\ \A d : Entered(d) /\ Passed(s, d)
                  => \A i \in DOMAIN s : Ea(s[i], d)
             /\ \A i \in DOMAIN s : Ea(s[i], x)
  BY <1>2, <1>4 DEF Increasing, Passed
<1>5. PICK q : q = pool'
  OBVIOUS
<1>6. PICK inc : inc = Included
  OBVIOUS
<1>7. PICK new : new = rows'
  OBVIOUS
<1>8. /\ DOMAIN q = 1..Len(pool) + 1 /\ DOMAIN pool = 1..Len(pool) /\ Len(pool) \in Nat
      /\ \A i \in 1..Len(pool) : q[i] = pool[i]
      /\ q[Len(pool) + 1] = x
  <2>1. pool' \in Seq(Digest) /\ Len(pool') = Len(pool) + 1
    BY <1>1, GroundFacts, AppendProperties
  <2> QED  BY <1>1, <1>5, <2>1, GroundFacts, AppendProperties, LenProperties
<1>9. \A k \in DOMAIN q : (k \in DOMAIN pool /\ q[k] = pool[k]) \/ q[k] = x
  BY <1>8
<1>10. \A k \in DOMAIN pool : Entered(pool[k]) /\ Passed(inc, pool[k])
  BY <1>3, <1>6 DEF PoolInOrder, Increasing
<1>11. \A r \in new : ~r.processed =>
         (r \in rows /\ Entered(r.digest) /\ Passed(inc, r.digest)) \/ r.digest = x
  BY <1>1, <1>3, <1>6, <1>7, GroundFacts DEF InsertOrReplace, PoolInOrder
<1>12. Increasing(pool) /\ Increasing(inc)
  BY <1>3, <1>6 DEF PoolInOrder
<1>13. /\ \A k \in DOMAIN q : En(q[k])
       /\ \A i, j \in DOMAIN q : i < j => Ea(q[i], q[j])
  <2>1. \A k \in DOMAIN q : En(q[k])
    BY <1>2, <1>9, <1>10
  <2>2. ASSUME NEW i \in DOMAIN q, NEW j \in DOMAIN q, i < j
        PROVE  Ea(q[i], q[j])
    <3>1. i \in DOMAIN pool /\ q[i] = pool[i]
      BY <1>8, <2>2
    <3>2. CASE j \in DOMAIN pool /\ q[j] = pool[j]
      <4>1. Earlier(pool[i], pool[j])
        BY <1>12, <2>2, <3>1, <3>2 DEF Increasing
      <4>2. Entered(pool[i]) /\ Entered(pool[j])
        BY <1>10, <3>1, <3>2
      <4> QED  BY <1>2, <3>1, <3>2, <4>1, <4>2
    <3>3. CASE q[j] = x
      BY <1>2, <1>10, <3>1, <3>3
    <3> QED  BY <1>9, <3>2, <3>3
  <2> QED  BY <2>1, <2>2
<1>14. /\ \A k \in DOMAIN q : \A i \in DOMAIN inc : Ea(inc[i], q[k])
       /\ \A r \in new : ~r.processed =>
             \A i \in DOMAIN inc : Ea(inc[i], r.digest)
  BY <1>4, <1>9, <1>10, <1>11, <1>12
<1>15. /\ \A i \in DOMAIN inc : En(inc[i])
       /\ \A i, j \in DOMAIN inc : i < j => Ea(inc[i], inc[j])
  BY <1>4, <1>12
<1>16. inc = Included'
  BY <1>6 DEF Included
<1>17. PoolInOrder'
  <2>1. Increasing(Included)'
    BY <1>00, <1>15, <1>16 DEF Increasing, Entered, Earlier, En, Ea
  <2>2. Increasing(pool)'
    BY <1>00, <1>5, <1>13 DEF Increasing, Entered, Earlier, En, Ea
  <2>3. \A k \in DOMAIN pool' : Passed(Included, pool[k])'
    BY <1>00, <1>5, <1>14, <1>16 DEF Passed, Earlier, Ea
  <2>4. \A r \in rows' : ~r.processed => Passed(Included, r.digest)'
    BY <1>00, <1>7, <1>14, <1>16 DEF Passed, Earlier, Ea
  <2> QED  BY <1>1, <2>1, <2>2, <2>3, <2>4 DEF PoolInOrder
<1>18. TaskInOrder(p)'
  <2> SUFFICES ASSUME task[p].whole PROVE TaskInOrder(p)'
    BY DEF TaskInOrder
  <2>1. PICK b : b = task[p].batches
    OBVIOUS
  <2>2. /\ Increasing(b)
        /\ \A i \in DOMAIN b : Entered(b[i]) /\ Passed(inc, b[i])
        /\ \A j \in DOMAIN pool : Contains(task[p].left, pool[j]) \/ Passed(b, pool[j])
        /\ \A r \in rows : ~r.processed => Leaving(p, r.digest) \/ Passed(b, r.digest)
    BY <1>3, <1>6, <2>1 DEF TaskInOrder, Increasing
  <2>3. \A d : Leaving(p, d) => Leaving(p, d)'
    BY <1>1 DEF Leaving
  <2>4. /\ \A i \in DOMAIN b : En(b[i])
        /\ \A i, j \in DOMAIN b : i < j => Ea(b[i], b[j])
    BY <1>4, <2>2
  <2>5. \A i \in DOMAIN b : \A k \in DOMAIN inc : Ea(inc[k], b[i])
    BY <1>4, <1>12, <2>2
  <2>6. \A k \in DOMAIN q :
           Contains(task[p].left, q[k]) \/ \A i \in DOMAIN b : Ea(b[i], q[k])
    BY <1>4, <1>9, <1>10, <2>2
  <2>7. \A r \in new : ~r.processed =>
           Leaving(p, r.digest)' \/ \A i \in DOMAIN b : Ea(b[i], r.digest)
    BY <1>4, <1>11, <2>2, <2>3
  <2>8. b = task'[p].batches
    BY <2>1
  <2>9. Increasing(task[p].batches)'
    BY <1>00, <2>4, <2>8 DEF Increasing, Entered, Earlier, En, Ea
  <2>10. \A i \in DOMAIN task'[p].batches : Passed(Included, task[p].batches[i])'
    BY <1>00, <1>16, <2>5, <2>8 DEF Passed, Earlier, Ea
  <2>11. \A k \in DOMAIN pool' :
            Contains(task'[p].left, pool'[k]) \/ Passed(task[p].batches, pool[k])'
    BY <1>00, <1>5, <2>6, <2>8 DEF Passed, Earlier, Ea
  <2>12. \A r \in rows' : ~r.processed =>
            Leaving(p, r.digest)' \/ Passed(task[p].batches, r.digest)'
    BY <1>00, <1>7, <2>7, <2>8 DEF Passed, Earlier, Ea
  <2> QED  BY <2>9, <2>10, <2>11, <2>12 DEF TaskInOrder
<1> QED  BY <1>3, <1>17, <1>18

\* A reload begins with an empty pool, and no task.
LEMMA CrashOrder ==
    ASSUME NEW p, Ground(p), Crash, Sorted
    PROVE  task'[p].stage # "handed" /\ PoolInOrder' /\ TaskInOrder(p)'
<1>1. /\ task'[p] = NoTask /\ pool' = <<>>
      /\ UNCHANGED <<rows, chain, admitted>>
  BY GroundFacts DEF Crash, Restart, storage
<1>2. PoolInOrder
  BY DEF Ground, OrderInv
<1>3. DOMAIN pool' = {}
  BY <1>1
<1>4. PoolInOrder'
  BY <1>1, <1>2, <1>3, OrderStays DEF PoolInOrder, Increasing, Passed, Included
<1> QED  BY <1>1, <1>4 DEF TaskInOrder, NoTask

\* Rows are loaded in the order of their ids.
LEMMA LoadOrder ==
    ASSUME NEW p, Ground(p), Load, UNCHANGED <<task, chain, admitted>>, Sorted, Sorted'
    PROVE  task'[p].stage # "handed" /\ PoolInOrder' /\ TaskInOrder(p)'
<1>1. task[p].stage # "handed" /\ PoolInOrder /\ TaskInOrder(p)
  BY DEF Ground, OrderInv
<1>2. /\ holder = Main /\ rows' = rows /\ job'[p] = job[p] /\ todo \subseteq rows
      /\ \A r \in todo : ~r.processed
  BY GroundFacts DEF Load, LoadRow, LoadDone, storage, TypeOK, RowsInv
<1>3. \A d : Leaving(p, d)' <=> Leaving(p, d)
  BY <1>2 DEF Leaving
<1>4. CASE LoadDone
  <2>1. pool' = pool /\ holder' # Main
    BY <1>4, GroundFacts DEF LoadDone, memory
  <2>2. Increasing(pool')
    BY <1>1, <2>1 DEF PoolInOrder
  <2> QED  BY <1>2, <1>3, <2>1, <2>2, ShrinkOrder
<1>5. CASE LoadRow
  <2>1. PICK q \in todo : /\ IsNext(q) /\ AppendEntry(q.digest)
                          /\ todo' = todo \ {q} /\ holder' = Main
    BY <1>5 DEF LoadRow, Sorted
  <2> DEFINE x == q.digest
  <2>2. /\ x \in Digest /\ Entered(x) /\ q \in rows /\ ~q.processed
        /\ pool' = Append(pool, x)
    BY <1>2, <2>1, GroundFacts DEF AppendEntry
  <2>3. Passed(pool, x) /\ Passed(Included, x)
    BY <1>1, <1>2, <2>1, <2>2 DEF PoolInOrder
  <2> HIDE DEF x
  <2>4. Increasing(pool')
    BY <1>1, <2>2, <2>3, GroundFacts, AppendOrder DEF PoolInOrder
  <2>5. /\ DOMAIN pool = 1..Len(pool) /\ DOMAIN pool' = 1..Len(pool) + 1
        /\ Len(pool) \in Nat
        /\ \A i \in 1..Len(pool) : pool'[i] = pool[i]
        /\ pool'[Len(pool) + 1] = x
    <3>1. pool' \in Seq(Digest) /\ Len(pool') = Len(pool) + 1
      BY <2>2, GroundFacts, AppendProperties
    <3> QED  BY <2>2, <3>1, GroundFacts, AppendProperties, LenProperties
  <2>6. \A k \in DOMAIN pool' : (k \in DOMAIN pool /\ pool'[k] = pool[k]) \/ pool'[k] = x
    BY <2>5
  <2>7. ASSUME NEW r \in todo' PROVE Passed(pool', r.digest)
    <3>1. r \in todo /\ r \in rows /\ r # q
      BY <1>2, <2>1, <2>7
    <3>2. /\ q.id \in DOMAIN admitted /\ admitted[q.id] = x
          /\ r.id \in DOMAIN admitted /\ admitted[r.id] = r.digest
          /\ q.id <= r.id
      BY <2>1, <2>2, <3>1, GroundFacts DEF RowsInv, IsNext, x
    <3>3. r.digest # x
      BY <2>2, <3>1, GroundFacts DEF TableInv, OneRow, x
    <3>4. q.id < r.id
      <4>1. q.id \in Nat /\ r.id \in Nat /\ q.id # r.id
        BY <2>2, <3>1, <3>2, <3>3, GroundFacts DEF TypeOK, Row
      <4> QED  BY <3>2, <4>1
    <3>5. Earlier(x, r.digest)
      BY <3>2, <3>4 DEF Earlier, Sorted, IsInjective
    <3>6. Passed(pool, r.digest)
      BY <1>1, <1>2, <3>1 DEF PoolInOrder
    <3> QED  BY <2>6, <3>5, <3>6 DEF Passed
  <2>8. \A k \in DOMAIN pool' : Passed(Included, pool'[k])
    BY <1>1, <2>3, <2>6 DEF PoolInOrder
  <2>9. PoolInOrder'
    BY <1>1, <1>2, <2>4, <2>7, <2>8, OrderStays DEF PoolInOrder, Increasing, Passed, Included
  <2>10. task[p].whole =>
           \A k \in DOMAIN pool' :
              Contains(task[p].left, pool'[k]) \/ Passed(task[p].batches, pool'[k])
    <3>1. job[p].op # "removing"
      BY <1>2, GroundFacts DEF LockDiscipline
    <3>2. task[p].whole => Contains(task[p].left, x) \/ Passed(task[p].batches, x)
      BY <1>1, <2>2, <3>1 DEF TaskInOrder, Leaving, x
    <3> QED  BY <1>1, <2>6, <3>2 DEF TaskInOrder
  <2>11. TaskInOrder(p)'
    BY <1>1, <1>2, <1>3, <2>10, OrderStays DEF TaskInOrder, Increasing, Passed, Included
  <2> QED  BY <1>1, <2>9, <2>11
<1> QED  BY <1>4, <1>5 DEF Load

\* The steps of the pool.
LEMMA PoolStepOrder ==
    ASSUME NEW p, Ground(p), PoolStep, Sorted, Sorted'
    PROVE  task'[p].stage # "handed" /\ PoolInOrder' /\ TaskInOrder(p)'
<1>1. UNCHANGED <<task, chain, admitted>>
  BY DEF PoolStep, history
<1>2. PoolInOrder
  BY DEF Ground, OrderInv
<1>3. CASE \/ \E e \in Digest : Create(e)
           \/ \E t \in Thread : RebuildStep(t)
           \/ Tick
  <2>1. UNCHANGED <<pool, holder, todo, rows, job>>
    BY <1>3 DEF Create, RebuildStep, Tick, memory, work, storage
  <2>2. \A d : Leaving(p, d)' <=> Leaving(p, d)
    BY <1>1, <2>1 DEF Leaving
  <2> QED  BY <1>1, <1>2, <2>1, <2>2, ShrinkOrder DEF PoolInOrder
<1>4. CASE \E t \in Client \ Packager : Clear(t)
  <2>1. /\ pool' = <<>> /\ holder' # Main /\ job' = job /\ rows' \subseteq rows
    BY <1>4, GroundFacts DEF Clear, work
  <2>2. \A d : Leaving(p, d)' <=> Leaving(p, d)
    BY <1>1, <2>1 DEF Leaving
  <2>3. Increasing(pool') /\ DOMAIN pool' = {}
    BY <2>1, EmptyOrder
  <2> QED  BY <1>1, <2>1, <2>2, <2>3, ShrinkOrder
<1>5. CASE \E t \in Packager : RemoveFinish(t)
  <2>1. /\ holder' # Main /\ job[p].op = "removing" /\ job'[p] = Idle
        /\ pool' = pool /\ rows' = MarkProcessed(job[p].digest)
    BY <1>5, GroundFacts DEF RemoveFinish, memory, TypeOK, Sorted, Ground
  <2>2. \A r \in rows' : ~r.processed => r \in rows /\ r.digest # job[p].digest
    BY <2>1, GroundFacts DEF MarkProcessed, TypeOK, Row
  <2>3. \A d : d # job[p].digest /\ Leaving(p, d) => Leaving(p, d)'
    BY <1>1 DEF Leaving
  <2>4. Increasing(pool')
    BY <1>2, <2>1 DEF PoolInOrder
  <2> QED  BY <1>1, <2>1, <2>2, <2>3, <2>4, ShrinkOrder
<1>6. CASE Expire
  <2>1. /\ holder' # Main /\ job'[p] = job[p] /\ rows' \subseteq rows
    BY <1>6, GroundFacts, ThreadAssumption
    DEF Expire, ExpireStart, ExpireFail, ExpireDrop, ExpireFinish, storage, work, Thread, TypeOK
  <2>2. \A d : Leaving(p, d)' <=> Leaving(p, d)
    BY <1>1, <2>1 DEF Leaving
  <2>3. /\ Increasing(pool')
        /\ \A k \in DOMAIN pool' : \E j \in DOMAIN pool : pool'[k] = pool[j]
    <3>1. CASE UNCHANGED memory
      BY <1>2, <3>1 DEF memory, PoolInOrder
    <3>2. CASE ~ UNCHANGED memory
      <4>1. PICK r \in todo : digest_index[r.digest] # 0 /\ DropEntry(r.digest)
        BY <1>6, <3>2 DEF Expire, ExpireStart, ExpireFail, ExpireDrop, ExpireFinish
      <4>2. r.digest \in Digest
        BY <4>1, GroundFacts DEF TypeOK, Row
      <4> QED  BY <1>2, <4>1, <4>2, GroundFacts, DropOrder DEF PoolInOrder
    <3> QED  BY <3>1, <3>2
  <2> QED  BY <1>1, <2>1, <2>2, <2>3, ShrinkOrder
<1>7. CASE Load
  BY <1>1, <1>7, LoadOrder
<1> QED  BY <1>3, <1>4, <1>5, <1>6, <1>7 DEF PoolStep

\* A client validates a batch, or enters it.
LEMMA SubmitOrder ==
    ASSUME NEW p, Ground(p), NEW t \in Client \ Packager, Submit(t), Sorted, Sorted'
    PROVE  task'[p].stage # "handed" /\ PoolInOrder' /\ TaskInOrder(p)'
<1>1. CASE (\E e \in Digest : Validate(t, e)) /\ UNCHANGED <<task, chain, history>>
  <2>1. /\ UNCHANGED <<pool, holder, todo, rows>> /\ job'[p] = job[p]
        /\ UNCHANGED <<task, chain, admitted>>
    BY <1>1, GroundFacts DEF Validate, memory, storage, TypeOK, Ground, history
  <2>2. \A d : Leaving(p, d)' <=> Leaving(p, d)
    BY <2>1 DEF Leaving
  <2>3. PoolInOrder
    BY DEF Ground, OrderInv
  <2> QED  BY <2>1, <2>2, <2>3, ShrinkOrder DEF PoolInOrder
<1>2. CASE /\ Enter(t)
           /\ admitted' = Append(admitted, job[t].digest)
           /\ UNCHANGED <<task, chain, crashes, interrupted>>
  BY <1>2, EnterOrder
<1> QED  BY <1>1, <1>2 DEF Submit

\* Every step keeps the order.
LEMMA OrderStep ==
    ASSUME NEW p, Ground(p), [PackNext]_allVars
    PROVE  OrderInv(p)'
<1> SUFFICES ASSUME Sorted'
             PROVE  task'[p].stage # "handed" /\ PoolInOrder' /\ TaskInOrder(p)'
  BY DEF OrderInv
<1>0. Sorted
  BY SortedBefore
<1>1. CASE Package(p)
  BY <1>0, <1>1, PackageOrder
<1>2. CASE HandOver(p)
  BY <1>0, <1>2, HandOverOrder
<1>3. CASE RemoveNext(p)
  BY <1>0, <1>3, RemoveNextOrder
<1>4. CASE RemoveMissing(p)
  BY <1>0, <1>4, RemoveMissingOrder
<1>5. CASE Finish(p)
  BY <1>0, <1>5 DEF Finish, Ground, OrderInv
<1>6. ASSUME NEW t \in Client \ Packager, Submit(t)
      PROVE  task'[p].stage # "handed" /\ PoolInOrder' /\ TaskInOrder(p)'
  BY <1>0, <1>6, SubmitOrder
<1>7. CASE Crash
  BY <1>0, <1>7, CrashOrder
<1>8. CASE PoolStep
  BY <1>0, <1>8, PoolStepOrder
<1>9. CASE UNCHANGED allVars
  <2>1. UNCHANGED <<task, chain, admitted, pool, holder, todo, rows, job>>
    BY <1>9 DEF allVars, vars, history, memory, work, storage
  <2>2. \A d : Leaving(p, d)' <=> Leaving(p, d)
    BY <2>1 DEF Leaving
  <2>3. PoolInOrder
    BY <1>0 DEF Ground, OrderInv
  <2> QED  BY <1>0, <2>1, <2>2, <2>3, ShrinkOrder DEF PoolInOrder
<1>10. PackNext \/ UNCHANGED allVars
  OBVIOUS
<1>11. \A t \in Packager : t = p
  BY DEF Ground
<1> QED
  BY <1>1, <1>2, <1>3, <1>4, <1>5, <1>6, <1>7, <1>8, <1>9, <1>10, <1>11, Zenon DEF PackNext

\* Nothing was entered.
LEMMA OrderInit ==
    ASSUME NEW p, Packager = {p}, PackInit
    PROVE  RowsInv /\ OrderInv(p)
<1>1. /\ task[p] = NoTask /\ chain = <<>> /\ admitted = <<>> /\ pool = <<>>
      /\ rows = {} /\ todo = {} /\ nextId = 1
  BY DEF PackInit, Init
<1>2. Included = <<>>
  <2>1. [i \in DOMAIN chain |-> chain[i].batches] = <<>>
    BY <1>1
  <2>2. FlattenSeq(<<>>) = <<>>
    BY DEF FlattenSeq
  <2> QED  BY <2>1, <2>2 DEF Included
<1>3. RowsInv
  BY <1>1 DEF RowsInv
<1>4. PoolInOrder
  BY <1>1, <1>2, EmptyOrder DEF PoolInOrder
<1> QED  BY <1>1, <1>3, <1>4 DEF OrderInv, TaskInOrder, NoTask

\* The blocks of a single packager that only uses the one call hold batches in
\* the order in which they entered the pool, over any number of crashes, reloads
\* and blocks, as long as no batch enters twice and the database is sound.
THEOREM BlocksInOrder ==
    ASSUME NEW p, Packager = {p}
    PROVE  PackSpec => []ChainInOrder
<1> DEFINE Inv == IndexInv /\ TableInv /\ PackInv /\ RowsInv /\ OrderInv(p)
<1>1. PackInit => Inv
  BY IndexInvInit, TableInvInit, PackInvInit, OrderInit DEF PackInit
<1>2. Inv /\ [PackNext]_allVars => Inv'
  <2> SUFFICES ASSUME Inv, [PackNext]_allVars PROVE Inv'
    OBVIOUS
  <2>1. [Next]_vars
    BY StepOfPool DEF PackInv
  <2>2. Ground(p)
    BY DEF Ground
  <2> QED  BY <2>1, <2>2, IndexInvStep, TableInvStep, PackInvStep, RowsInvStep, OrderStep
<1>3. Inv => ChainInOrder
  BY DEF OrderInv, Sorted, PoolInOrder, Increasing, Earlier, ChainInOrder
<1> QED  BY <1>1, <1>2, <1>3, PTL DEF PackSpec
===============================================================================
