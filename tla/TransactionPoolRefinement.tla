---------------------- MODULE TransactionPoolRefinement ----------------------
(***************************************************************************)
(* Under the callers' discipline the pool implements PoolSpec.  While no   *)
(* database operation has failed, what is waiting is what the table has    *)
(* unprocessed, at every moment; the memory agrees with it except for the  *)
(* batches that the holder of the lock is just removing or expiring.       *)
(* Two further theorems: the cleaner expires what is old only, and a crash *)
(* between two operations is invisible.                                    *)
(***************************************************************************)
EXTENDS TransactionPoolProofs, FiniteSetTheorems

LiveDigests == {r.digest : r \in Live}

\* Only built batches are in the table or on their way to the pool.
BornInv ==
    /\ \A r \in rows : born[r.digest] # Unborn
    /\ \A t \in Client :
           job[t].op = "validated" => born[job[t].digest] # Unborn

\* What the holder of the lock is removing, or has expired, has left the
\* memory; what is left to load is unprocessed.
Leaving ==
    /\ holder \in Client => ~InPool(job[holder].digest)
    /\ holder = Cleaner => \A r \in doomed : r \in todo \/ ~InPool(r.digest)
    /\ holder = Main => todo \subseteq Live

\* What is in memory is in the table.
Backed == ~faulted => \A d \in Digest : InPool(d) => d \in LiveDigests

\* The rows to be deleted are those that were too old at one moment.
OldAt(t) == {r \in rows : ~r.processed /\ t - born[r.digest] > MaxAge}
DoomedOld == holder = Cleaner => \E t \in 0..now : doomed = OldAt(t)

-----------------------------------------------------------------------------
\* No batch is under way at the start.
LEMMA BornInvInit == Init => BornInv
BY DEF Init, BornInv, Idle, Thread

\* Where the rows of the next state come from, unless a batch is entered.
LEMMA RowsFromRows ==
    ASSUME TypeOK, Next, \A t \in Client : ~Enter(t)
    PROVE  \A r \in rows' : \E q \in rows : r.digest = q.digest
<1>1. CASE rows' \subseteq rows
  BY <1>1
<1>2. ASSUME NEW t \in Client, rows' = MarkProcessed(job[t].digest)
      PROVE  \A r \in rows' : \E q \in rows : r.digest = q.digest
  BY <1>2 DEF MarkProcessed, TypeOK, Row
<1>3. CASE rows' = {} \/ rows' = rows \ doomed
  BY <1>3
<1> QED
  BY <1>1, <1>2, <1>3
  DEF Next, Create, AddMulti, Validate, RemoveMulti, RemoveStart,
      RemoveFinish, Clear, RebuildStep, Expire, ExpireStart, ExpireFail, ExpireDrop,
      ExpireFinish, Restart, Load, LoadRow, LoadDone, Tick, storage

\* Which client is under way to the pool after a step.
LEMMA ValidatedFrom ==
    ASSUME TypeOK, Next, NEW t \in Client, job'[t].op = "validated"
    PROVE  \/ job'[t] = job[t]
           \/ /\ job'[t].digest \in Digest
              /\ born[job'[t].digest] # Unborn
              /\ born' = born
<1>0. /\ job \in [Thread -> Job] /\ t \in Thread /\ t # Main /\ t # Cleaner
      /\ Idle.op = "idle" /\ Client \subseteq Thread
      /\ Main \in Thread /\ Cleaner \in Thread
  BY ThreadAssumption DEF TypeOK, Thread, Idle
<1>1. ASSUME NEW u \in Client, NEW d \in Digest, Validate(u, d)
      PROVE  \/ job'[t] = job[t]
             \/ /\ job'[t].digest \in Digest
                /\ born[job'[t].digest] # Unborn
                /\ born' = born
  BY <1>0, <1>1 DEF Validate, clock
<1>2. ASSUME NEW u \in Client, NEW d \in Digest,
             job' = [job EXCEPT ![u] = [op |-> "removing", digest |-> d]]
      PROVE  job'[t] = job[t]
  BY <1>0, <1>2
<1>3. ASSUME NEW u \in Thread, job' = [job EXCEPT ![u] = Idle]
      PROVE  job'[t] = job[t]
  BY <1>0, <1>3
<1>4. CASE ExpireStart
  BY <1>0, <1>4 DEF ExpireStart
<1>5. CASE Restart
  BY <1>0, <1>5 DEF Restart
<1>6. CASE job' = job
  BY <1>6
<1>7. ASSUME NEW u \in Client, AddMulti(u) \/ RemoveMulti(u) \/ Clear(u)
      PROVE  \/ job'[t] = job[t]
             \/ /\ job'[t].digest \in Digest
                /\ born[job'[t].digest] # Unborn
                /\ born' = born
  BY <1>0, <1>1, <1>2, <1>3, <1>6, <1>7
  DEF AddMulti, Enter, RemoveMulti, RemoveStart, RemoveFinish, Clear, work
<1>8. CASE Expire \/ Load
  BY <1>0, <1>3, <1>4, <1>6, <1>8
  DEF Expire, ExpireFail, ExpireDrop, ExpireFinish, Load, LoadRow, LoadDone, work
<1> QED
  BY <1>5, <1>6, <1>7, <1>8 DEF Next, Create, RebuildStep, Tick, work

\* Only Create changes a birth, of a batch that was not born.
LEMMA BornKept ==
    ASSUME TypeOK, Next
    PROVE  \A d \in Digest : born[d] # Unborn => born'[d] = born[d]
<1>1. CASE born' = born
  BY <1>1
<1>2. ASSUME NEW d \in Digest, Create(d)
      PROVE  \A e \in Digest : born[e] # Unborn => born'[e] = born[e]
  BY <1>2 DEF Create, TypeOK
<1> QED
  BY <1>1, <1>2
  DEF Next, AddMulti, Validate, Enter, RemoveMulti, RemoveStart,
      RemoveFinish, Clear, RebuildStep, Expire, ExpireStart, ExpireFail, ExpireDrop,
      ExpireFinish, Restart, Load, LoadRow, LoadDone, Tick, clock

\* A batch is built before it is validated, validated before it is inserted.
LEMMA BornInvStep == IndexInv /\ BornInv /\ [Next]_vars => BornInv'
<1> SUFFICES ASSUME IndexInv, BornInv, [Next]_vars PROVE BornInv'
  OBVIOUS
<1>0. TypeOK /\ LockDiscipline /\ rows \subseteq Row /\ Client \subseteq Thread
  BY DEF IndexInv, TypeOK, Thread
<1>1. CASE UNCHANGED vars
  BY <1>1 DEF vars, storage, work, clock, BornInv
<1>2. CASE Next
  <2>1. ASSUME NEW r \in rows' PROVE born'[r.digest] # Unborn
    <3>1. ASSUME NEW q \in rows, r.digest = q.digest
          PROVE  born'[r.digest] # Unborn
      BY <1>0, <1>2, <3>1, BornKept DEF BornInv, Row
    <3>2. ASSUME NEW t \in Client, Enter(t), \A q \in rows : r.digest # q.digest
          PROVE  born'[r.digest] # Unborn
      <4>1. r.digest = job[t].digest /\ job[t].op = "validated" /\ born' = born
        BY <3>2, <2>1 DEF Enter, InsertOrReplace, clock
      <4> QED  BY <4>1 DEF BornInv
    <3> QED  BY <1>0, <1>2, <2>1, <3>1, <3>2, RowsFromRows
  <2>2. ASSUME NEW t \in Client, job'[t].op = "validated"
        PROVE  born'[job'[t].digest] # Unborn
    <3>1. CASE job'[t] = job[t]
      <4>1. PICK d : d = job[t].digest /\ d = job'[t].digest
        BY <3>1
      <4>2. job[t].op = "validated"
        BY <3>1, <2>2
      <4>3. d \in Digest
        BY <1>0, <4>1, <4>2 DEF LockDiscipline
      <4> QED  BY <1>0, <1>2, <4>1, <4>2, <4>3, BornKept DEF BornInv
    <3>2. CASE job'[t] # job[t]
      BY <1>0, <1>2, <2>2, <3>2, ValidatedFrom
    <3> QED  BY <3>1, <3>2
  <2> QED  BY <2>1, <2>2 DEF BornInv
<1> QED  BY <1>1, <1>2

-----------------------------------------------------------------------------
(* What is being removed, expired or loaded.                               *)

\* The lock is free at the start.
LEMMA LeavingInit == Init => Leaving
BY ThreadAssumption DEF Init, Leaving, Thread

\* del self.pool[index] of a pool without duplicates takes the batch out.
LEMMA DropGone ==
    ASSUME TypeOK, DigestIndexExact, NoDuplicateDigest, NEW d \in Digest,
           digest_index[d] # 0, DropEntry(d)
    PROVE  ~InPool(d)'
<1> DEFINE i == digest_index[d]
           at(k) == IF k < i THEN k ELSE k + 1
<1>1. pool \in Seq(Digest) /\ i \in 1..Len(pool) /\ pool[i] = d
  BY DEF TypeOK, DigestIndexExact
<1>2. /\ pool' = RemoveAt(pool, i) /\ pool' \in Seq(Digest)
      /\ Len(pool') = Len(pool) - 1
      /\ \A k \in 1..(Len(pool) - 1) :
            pool'[k] = IF k < i THEN pool[k] ELSE pool[k + 1]
  BY <1>1, RemoveAtFacts DEF DropEntry
<1>3. DOMAIN pool = 1..Len(pool) /\ DOMAIN pool' = 1..(Len(pool) - 1)
  BY <1>1, <1>2
<1> HIDE DEF i
<1>4. ASSUME NEW k \in DOMAIN pool'
      PROVE  pool'[k] # d
  <2>1. /\ at(k) \in DOMAIN pool /\ i \in DOMAIN pool /\ at(k) # i
        /\ pool'[k] = pool[at(k)]
    BY <1>1, <1>2, <1>3, <1>4
  <2> HIDE DEF at
  <2>2. pool[at(k)] # pool[i]
    BY <2>1 DEF NoDuplicateDigest
  <2> QED  BY <1>1, <2>1, <2>2
<1> QED  BY <1>2, <1>3, <1>4 DEF InPool, Contains

\* Steps outside the critical sections of removal, expiry and loading.
LEMMA LeavingQuiet ==
    ASSUME IndexInv, Leaving, UNCHANGED <<holder, todo, doomed, rows>>,
           \A e \in Digest : InPool(e)' => InPool(e),
           holder \in Client => job'[holder] = job[holder]
    PROVE  Leaving'
<1>1. /\ holder \in Client => job[holder].digest \in Digest
      /\ \A r \in doomed : r.digest \in Digest
  BY DEF IndexInv, LockDiscipline, TypeOK, Row, Thread
<1>2. ASSUME holder \in Client
      PROVE  (~InPool(job[holder].digest))'
  <2>1. PICK d \in Digest : d = job[holder].digest /\ d = job'[holder].digest
    BY <1>1, <1>2
  <2>2. ~InPool(d)
    BY <1>2, <2>1 DEF Leaving
  <2>3. ~InPool(d)'
    BY <2>2
  <2> QED  BY <2>1, <2>3 DEF InPool
<1>3. ASSUME holder = Cleaner, NEW r \in doomed, r \notin todo
      PROVE  ~InPool(r.digest)'
  BY <1>1, <1>3 DEF Leaving
<1>4. holder = Main => todo \subseteq Live'
  BY DEF Leaving, Live
<1> QED  BY <1>2, <1>3, <1>4 DEF Leaving, InPool

\* RemoveStart and ExpireDrop take a digest out of a pool that has it once;
\* nothing enters the pool while the lock is held.
LEMMA LeavingStep ==
    IndexInv /\ TableInv /\ FreshInv /\ Leaving /\ [Next]_vars => Leaving'
<1> SUFFICES ASSUME IndexInv, TableInv, FreshInv, Leaving, [Next]_vars
             PROVE  Leaving'
  OBVIOUS
<1>0. /\ TypeOK /\ LockDiscipline /\ DigestIndexExact /\ NoDuplicateDigest
      /\ NoThread \notin Client /\ NoThread # Cleaner /\ NoThread # Main
      /\ Cleaner \notin Client /\ Main \notin Client /\ Main # Cleaner
      /\ Client \subseteq Thread
  BY ThreadAssumption DEF IndexInv, FreshInv, Thread
<1>1. ASSUME holder' = NoThread PROVE Leaving'
  BY <1>0, <1>1 DEF Leaving
<1>2. ASSUME UNCHANGED <<holder, todo, doomed, rows, pool, job>> PROVE Leaving'
  BY <1>2, LeavingQuiet DEF InPool
<1>3. ASSUME NEW t \in Client, NEW d \in Digest, RemoveStart(t, d)
      PROVE  Leaving'
  <2>1. /\ holder' = t /\ digest_index[d] # 0 /\ DropEntry(d)
        /\ job' = [job EXCEPT ![t] = [op |-> "removing", digest |-> d]]
    BY <1>3 DEF RemoveStart
  <2>2. job'[t].digest = d /\ t # Cleaner /\ t # Main
    BY <1>0, <2>1 DEF TypeOK
  <2>3. ~InPool(d)'
    BY <1>0, <2>1, DropGone
  <2> QED  BY <1>0, <2>1, <2>2, <2>3 DEF Leaving, InPool
<1>4. ASSUME ExpireStart PROVE Leaving'
  BY <1>0, <1>4 DEF ExpireStart, Leaving
<1>5. ASSUME ExpireDrop PROVE Leaving'
  <2>1. PICK q \in todo :
          /\ \/ digest_index[q.digest] # 0 /\ DropEntry(q.digest)
             \/ digest_index[q.digest] = 0 /\ UNCHANGED memory
          /\ todo' = todo \ {q}
    BY <1>5 DEF ExpireDrop
  <2>2. /\ q.digest \in Digest /\ holder = Cleaner /\ ~Rebuilding
        /\ holder' = Cleaner /\ doomed' = doomed
    BY <1>0, <1>5, <2>1 DEF ExpireDrop, TypeOK, Row
  <2>3. ~InPool(q.digest)' /\ \A e : InPool(e)' => InPool(e)
    <3>1. CASE digest_index[q.digest] # 0 /\ DropEntry(q.digest)
      BY <1>0, <2>2, <3>1, DropGone, DropFresh
    <3>2. CASE digest_index[q.digest] = 0 /\ UNCHANGED memory
      <4>1. pool \in Seq(Digest) /\ DOMAIN pool = 1..Len(pool) /\ indexed = Len(pool)
        BY <1>0, <2>2 DEF TypeOK, Rebuilding
      <4>2. ~InPool(q.digest)
        BY <1>0, <2>2, <3>2, <4>1 DEF DigestIndexExact, InPool, Contains
      <4> QED  BY <3>2, <4>2 DEF memory, InPool
    <3> QED  BY <2>1, <3>1, <3>2
  <2>4. ASSUME NEW r \in doomed, r \notin todo'
        PROVE  ~InPool(r.digest)'
    <3>1. CASE r = q
      BY <2>3, <3>1
    <3>2. CASE r # q
      BY <2>1, <2>2, <2>3, <2>4, <3>2 DEF Leaving
    <3> QED  BY <3>1, <3>2
  <2> QED  BY <1>0, <2>2, <2>4 DEF Leaving, InPool
<1>6. ASSUME Restart PROVE Leaving'
  BY <1>0, <1>6 DEF Restart, Leaving, Live, Reloadable, storage
<1>7. ASSUME LoadRow PROVE Leaving'
  BY <1>0, <1>7 DEF LoadRow, Leaving, Live, storage
<1>8. ASSUME NEW t \in Thread, RebuildStep(t) PROVE Leaving'
  BY <1>2, <1>8 DEF RebuildStep, work, storage
<1>9. ASSUME NEW t \in Client, NEW d \in Digest, Validate(t, d) PROVE Leaving'
  <2>1. UNCHANGED <<pool, holder, todo, doomed, rows>>
    BY <1>9 DEF Validate, memory, storage
  <2>2. holder # t
    BY <1>0, <1>9 DEF Validate, LockDiscipline, Idle
  <2>3. \A u \in Thread \ {t} : job'[u] = job[u]
    BY <1>0, <1>9 DEF Validate, TypeOK
  <2> QED  BY <1>0, <2>1, <2>2, <2>3, LeavingQuiet DEF InPool
<1>10. ASSUME Next, UNCHANGED <<holder, todo, doomed, rows, pool, job>>
       PROVE  Leaving'
  BY <1>2, <1>10
<1>11. ASSUME NEW t \in Client, AddMulti(t) \/ RemoveMulti(t) \/ Clear(t)
       PROVE  Leaving'
  BY <1>1, <1>3, <1>9, <1>11
  DEF AddMulti, Enter, RemoveMulti, RemoveFinish, Clear
<1>12. ASSUME Expire \/ Load PROVE Leaving'
  <2>1. CASE ExpireFail
    BY <1>1, <2>1 DEF ExpireFail
  <2> QED
    BY <1>1, <1>4, <1>5, <1>7, <1>12, <2>1 DEF Expire, ExpireFinish, Load, LoadDone
<1>13. ASSUME \/ \E d \in Digest : Create(d)
              \/ Tick
              \/ UNCHANGED vars
       PROVE  Leaving'
  BY <1>2, <1>13 DEF Create, Tick, vars, memory, work, storage
<1> QED  BY <1>6, <1>8, <1>11, <1>12, <1>13 DEF Next

-----------------------------------------------------------------------------
(* What is in memory is in the table.                                      *)

\* The pool is empty at the start.
LEMMA BackedInit == Init => Backed
BY DEF Init, Backed, InPool, Contains

\* Steps that take nothing out of the table and bring nothing into the pool.
LEMMA BackedShrink ==
    ASSUME Backed, faulted' \/ faulted' = faulted,
           \A e \in Digest : InPool(e)' => InPool(e),
           \A e \in Digest :
              e \in LiveDigests /\ InPool(e)' => e \in LiveDigests'
    PROVE  Backed'
BY DEF Backed

\* An admitted batch has a row, or its INSERT failed.
LEMMA EnterBacked ==
    ASSUME IndexInv, FreshInv, Backed, NEW t \in Client, Enter(t)
    PROVE  Backed'
<1>1. PICK d \in Digest :
        /\ d = job[t].digest /\ AppendEntry(d) /\ ~InPool(d)
        /\ \/ rows' = InsertOrReplace(d) /\ faulted' = faulted
           \/ faulted' = TRUE
  <2>1. PICK d : d = job[t].digest
    OBVIOUS
  <2>2. d \in Digest /\ ~InPool(d)
    BY <2>1 DEF IndexInv, LockDiscipline, FreshInv, PendingFresh, Enter, Thread
  <2> QED  BY <2>1, <2>2 DEF Enter, AppendEntry, IndexEntry, InsertOrReplace
<1>2. \A e \in Digest \ {d} : InPool(e)' => InPool(e)
  BY <1>1, AppendFresh DEF IndexInv, FreshInv
<1>3. ASSUME ~faulted', NEW e \in Digest, InPool(e)'
      PROVE  e \in LiveDigests'
  <2>1. ~faulted /\ rows' = InsertOrReplace(d)
    BY <1>1, <1>3
  <2>2. CASE e = d
    <3> DEFINE new == [id |-> nextId, digest |-> d, processed |-> FALSE]
    <3>1. new \in rows' /\ new.digest = d /\ ~new.processed
      BY <2>1 DEF InsertOrReplace
    <3> HIDE DEF new
    <3> QED  BY <2>2, <3>1 DEF LiveDigests, Live
  <2>3. CASE e # d
    <3>1. PICK r \in rows : r.digest = e /\ ~r.processed
      BY <1>2, <1>3, <2>1, <2>3 DEF Backed, LiveDigests, Live
    <3>2. r \in rows'
      BY <2>1, <2>3, <3>1 DEF InsertOrReplace
    <3> QED  BY <3>1, <3>2 DEF LiveDigests, Live
  <2> QED  BY <2>2, <2>3
<1> QED  BY <1>3 DEF Backed

\* Removal marks processed what has left the memory already.
LEMMA RemoveBacked ==
    ASSUME IndexInv, FreshInv, Leaving, Backed, NEW t \in Client,
           RemoveMulti(t) \/ Clear(t)
    PROVE  Backed'
<1>0. TypeOK /\ DigestIndexExact /\ NoDuplicateDigest
  BY DEF IndexInv, FreshInv
<1>1. CASE Clear(t)
  BY <1>1, EmptyFresh DEF Clear, Backed
<1>2. ASSUME NEW d \in Digest, RemoveStart(t, d) PROVE Backed'
  <2>1. \A e \in Digest : InPool(e)' => InPool(e)
    BY <1>0, <1>2, DropFresh DEF RemoveStart
  <2>2. rows' = rows /\ faulted' = faulted
    BY <1>2 DEF RemoveStart, storage
  <2> QED  BY <2>1, <2>2, BackedShrink DEF LiveDigests, Live
<1>3. CASE RemoveFinish(t)
  <2>1. PICK d : d = job[t].digest
    OBVIOUS
  <2>2. /\ pool' = pool /\ ~InPool(d)
        /\ \/ rows' = MarkProcessed(d) /\ faulted' = faulted
           \/ rows' = rows /\ faulted' = TRUE
    BY <1>3, <2>1 DEF RemoveFinish, memory, Leaving
  <2>3. \A e \in Digest : InPool(e)' => InPool(e)
    BY <2>2 DEF InPool
  <2>4. ASSUME NEW e \in Digest, e \in LiveDigests, InPool(e)'
        PROVE  e \in LiveDigests'
    <3>1. PICK r \in rows : r.digest = e /\ ~r.processed
      BY <2>4 DEF LiveDigests, Live
    <3>2. e # d
      BY <2>2, <2>3, <2>4
    <3>3. r \in rows'
      BY <2>2, <3>1, <3>2 DEF MarkProcessed
    <3> QED  BY <3>1, <3>3 DEF LiveDigests, Live
  <2> QED  BY <2>2, <2>3, <2>4, BackedShrink
<1> QED  BY <1>1, <1>2, <1>3 DEF RemoveMulti

\* The cleaner deletes from the table what it has dropped from memory.
LEMMA ExpireBacked ==
    ASSUME IndexInv, FreshInv, Leaving, Backed, Expire
    PROVE  Backed'
<1>0. TypeOK /\ DigestIndexExact /\ NoDuplicateDigest
  BY DEF IndexInv, FreshInv
<1>1. CASE ExpireStart
  BY <1>1, BackedShrink
  DEF ExpireStart, memory, storage, InPool, LiveDigests, Live
<1>2. CASE ExpireDrop
  <2>1. \A e \in Digest : InPool(e)' => InPool(e)
    <3>1. ASSUME NEW r \in todo, digest_index[r.digest] # 0,
                 DropEntry(r.digest)
          PROVE  \A e \in Digest : InPool(e)' => InPool(e)
      BY <1>0, <3>1, DropFresh DEF TypeOK, Row
    <3>2. CASE UNCHANGED memory
      BY <3>2 DEF memory, InPool
    <3> QED  BY <1>2, <3>1, <3>2 DEF ExpireDrop
  <2>2. rows' = rows /\ faulted' = faulted
    BY <1>2 DEF ExpireDrop, storage
  <2> QED  BY <2>1, <2>2, BackedShrink DEF LiveDigests, Live
<1>3. CASE ExpireFinish
  <2>1. /\ pool' = pool /\ holder = Cleaner /\ todo = {}
        /\ \/ rows' = rows \ doomed /\ faulted' = faulted
           \/ rows' = rows /\ faulted' = TRUE
    BY <1>3 DEF ExpireFinish, memory
  <2>2. \A e \in Digest : InPool(e)' => InPool(e)
    BY <2>1 DEF InPool
  <2>3. ASSUME NEW e \in Digest, e \in LiveDigests, InPool(e)'
        PROVE  e \in LiveDigests'
    <3>1. PICK r \in rows : r.digest = e /\ ~r.processed
      BY <2>3 DEF LiveDigests, Live
    <3>2. r \notin doomed
      BY <2>1, <2>2, <2>3, <3>1 DEF Leaving
    <3> QED  BY <2>1, <3>1, <3>2 DEF LiveDigests, Live
  <2> QED  BY <2>1, <2>2, <2>3, BackedShrink
<1>4. CASE ExpireFail
  BY <1>4, BackedShrink
  DEF ExpireFail, memory, storage, InPool, LiveDigests, Live
<1> QED  BY <1>1, <1>2, <1>3, <1>4 DEF Expire

\* A load brings unprocessed rows only.
LEMMA LoadBacked ==
    ASSUME IndexInv, FreshInv, Leaving, Backed, Restart \/ Load
    PROVE  Backed'
<1>1. CASE Restart
  BY <1>1, EmptyFresh DEF Restart, Backed
<1>2. CASE LoadDone
  BY <1>2, BackedShrink
  DEF LoadDone, memory, storage, InPool, LiveDigests, Live
<1>3. CASE LoadRow
  <2>1. PICK q \in todo :
          \/ AppendEntry(q.digest) /\ faulted' = faulted
          \/ UNCHANGED memory /\ faulted' = TRUE
    BY <1>3 DEF LoadRow
  <2>2. /\ q.digest \in Digest /\ q \in Live /\ ~InPool(q.digest)
        /\ TypeOK /\ NoDuplicateDigest /\ rows' = rows
    BY <1>3, <2>1 DEF LoadRow, IndexInv, TypeOK, Row, Leaving, FreshInv, storage
  <2>3. ASSUME ~faulted', NEW e \in Digest, InPool(e)'
        PROVE  e \in LiveDigests'
    <3>1. AppendEntry(q.digest) /\ ~faulted
      BY <2>1, <2>3
    <3>2. e = q.digest \/ InPool(e)
      BY <2>2, <2>3, <3>1, AppendFresh
    <3>3. e \in LiveDigests
      BY <2>2, <3>1, <3>2 DEF Backed, LiveDigests
    <3> QED  BY <2>2, <3>3 DEF LiveDigests, Live
  <2> QED  BY <2>3 DEF Backed
<1> QED  BY <1>1, <1>2, <1>3 DEF Load

\* Every step keeps the memory backed by the table.
LEMMA BackedStep ==
    IndexInv /\ FreshInv /\ Leaving /\ Backed /\ [Next]_vars => Backed'
<1> SUFFICES ASSUME IndexInv, FreshInv, Leaving, Backed, [Next]_vars
             PROVE  Backed'
  OBVIOUS
<1>1. ASSUME UNCHANGED <<pool, rows, faulted>> PROVE Backed'
  BY <1>1, BackedShrink DEF InPool, LiveDigests, Live
<1>2. ASSUME NEW t \in Client, AddMulti(t) PROVE Backed'
  BY <1>1, <1>2, EnterBacked DEF AddMulti, Validate, memory, storage
<1>3. ASSUME NEW t \in Client, RemoveMulti(t) \/ Clear(t) PROVE Backed'
  BY <1>3, RemoveBacked
<1>4. ASSUME Expire PROVE Backed'
  BY <1>4, ExpireBacked
<1>5. ASSUME Restart \/ Load PROVE Backed'
  BY <1>5, LoadBacked
<1>6. ASSUME \/ \E d \in Digest : Create(d)
             \/ \E t \in Thread : RebuildStep(t)
             \/ Tick
             \/ UNCHANGED vars
      PROVE  Backed'
  BY <1>1, <1>6 DEF Create, RebuildStep, Tick, vars, memory, storage
<1> QED  BY <1>2, <1>3, <1>4, <1>5, <1>6 DEF Next

-----------------------------------------------------------------------------
(* What is being deleted was too old.                                      *)

\* The cleaner is not at work at the start.
LEMMA DoomedOldInit == Init => DoomedOld
BY ThreadAssumption DEF Init, DoomedOld, Thread

\* The SELECT of the cleaner takes what is too old at that moment, and while
\* the cleaner has the lock nobody writes the table.
LEMMA DoomedOldStep ==
    ASSUME TzOffset = 0
    PROVE  IndexInv /\ BornInv /\ DoomedOld /\ [Next]_vars => DoomedOld'
<1> SUFFICES ASSUME IndexInv, BornInv, DoomedOld, [Next]_vars, holder' = Cleaner
             PROVE  \E t \in 0..now' : doomed' = OldAt(t)'
  BY DEF DoomedOld
<1>0. /\ TypeOK /\ LockDiscipline /\ rows \subseteq Row /\ now \in Nat
      /\ NoThread # Cleaner /\ Main # Cleaner /\ Cleaner \notin Client
  BY ThreadAssumption DEF IndexInv, TypeOK, Thread
<1>1. CASE ExpireStart
  <2>1. /\ doomed' = {r \in rows : Old(r)}
        /\ rows' = rows /\ born' = born /\ now' = now
    BY <1>1 DEF ExpireStart, storage, clock
  <2>2. ASSUME NEW r \in rows
        PROVE  Old(r) <=> ~r.processed /\ now - born[r.digest] > MaxAge
    <3>1. born[r.digest] \in Nat /\ MaxAge \in Nat /\ TzOffset = 0
      BY <1>0, <2>2, ClockAssumption DEF TypeOK, Row, BornInv
    <3> QED  BY <1>0, <3>1 DEF Old, Timestamp, Cutoff
  <2>3. doomed' = OldAt(now)'
    BY <2>1, <2>2 DEF OldAt
  <2>4. now' \in 0..now'
    BY <1>0, <2>1
  <2> QED  BY <2>1, <2>3, <2>4
<1>2. CASE ~ExpireStart
  <2>1. UNCHANGED <<holder, rows, doomed>> /\ (now' = now \/ now' = now + 1)
    <3>1. CASE UNCHANGED vars
      BY <3>1 DEF vars, work, storage, clock
    <3>2. CASE Expire \/ Restart \/ Load
      BY <1>0, <1>2, <3>2
      DEF Expire, ExpireFail, ExpireDrop, ExpireFinish, Restart, Load, LoadRow, LoadDone,
          storage, clock
    <3>3. ASSUME NEW t \in Client, AddMulti(t) \/ RemoveMulti(t) \/ Clear(t)
          PROVE  UNCHANGED <<holder, rows, doomed>> /\ now' = now
      BY <1>0, <3>3
      DEF AddMulti, Validate, Enter, RemoveMulti, RemoveStart, RemoveFinish,
          Clear, storage, clock, work
    <3>4. CASE \/ \E d \in Digest : Create(d)
               \/ \E t \in Thread : RebuildStep(t)
               \/ Tick
      BY <3>4 DEF Create, RebuildStep, Tick, storage, clock, work
    <3> QED  BY <3>1, <3>2, <3>3, <3>4 DEF Next
  <2>2. PICK t \in 0..now : doomed = OldAt(t)
    BY <2>1 DEF DoomedOld
  <2>3. \A r \in rows : born'[r.digest] = born[r.digest]
    <3>1. CASE UNCHANGED vars
      BY <3>1 DEF vars, clock
    <3>2. CASE Next
      BY <1>0, <3>2, BornKept DEF BornInv, Row
    <3> QED  BY <3>1, <3>2
  <2>4. OldAt(t)' = OldAt(t)
    BY <2>1, <2>3 DEF OldAt
  <2>5. t \in 0..now'
    BY <1>0, <2>1, <2>2
  <2> QED  BY <2>1, <2>2, <2>4, <2>5
<1> QED  BY <1>1, <1>2

-----------------------------------------------------------------------------
(* The refinement.                                                         *)

DurableInv == /\ IndexInv
              /\ TableInv
              /\ FreshInv
              /\ BornInv
              /\ Leaving
              /\ Backed
              /\ DoomedOld

\* Between two operations, memory and table have the same batches.
LEMMA AtRest ==
    ASSUME IndexInv, TableInv, Backed, ~faulted, holder = NoThread
    PROVE  /\ \A d \in Digest : InPool(d) => d \in LiveDigests
           /\ \A r \in Live : r.digest \in Digest /\ InPool(r.digest)
<1>1. ASSUME NEW r \in Live PROVE r.digest \in Digest /\ InPool(r.digest)
  <2>1. /\ r \in rows /\ ~r.processed /\ doomed = {} /\ r.digest \in Digest
        /\ holder # Main /\ holder \notin Client
    BY <1>1, ThreadAssumption
    DEF IndexInv, LockDiscipline, TypeOK, Row, Live, Thread
  <2> QED  BY <2>1 DEF TableInv, Accounted
<1> QED  BY <1>1 DEF Backed

\* Memory and table agree on what is waiting.
LEMMA WaitingLive == DurableInv /\ ~faulted => Waiting = LiveDigests
<1> SUFFICES ASSUME DurableInv, ~faulted PROVE Waiting = LiveDigests
  OBVIOUS
<1>1. CASE holder # NoThread
  BY <1>1 DEF Waiting, LiveDigests
<1>2. CASE holder = NoThread
  BY <1>2, AtRest DEF DurableInv, Waiting, LiveDigests, Live
<1> QED  BY <1>1, <1>2

\* The same in the next state.
LEMMA WaitingLiveNext == (DurableInv /\ ~faulted => Waiting = LiveDigests)'
BY WaitingLive, PTL

\* A step that changes the memory, the table and the lock without a fault does
\* what PoolSpec allows to the digests of the unprocessed rows.
LiveStep ==
    \/ LiveDigests' = LiveDigests
    \/ \E d \in Digest : /\ born[d] >= 0 /\ d \notin LiveDigests
                         /\ LiveDigests' = LiveDigests \cup {d}
    \/ \E d \in Digest : d \in LiveDigests /\ LiveDigests' = LiveDigests \ {d}
    \/ \E t \in 0..now : LiveDigests' = {d \in LiveDigests : t - born[d] <= MaxAge}
    \/ LiveDigests' = {}

\* Admission without a fault is Admit.
LEMMA EnterLive ==
    ASSUME DurableInv, NEW t \in Client, Enter(t), ~faulted'
    PROVE  LiveStep
<1>1. PICK d : d = job[t].digest
  OBVIOUS
<1>2. /\ TypeOK /\ d \in Digest /\ ~InPool(d) /\ job[t].op = "validated"
      /\ born[d] # Unborn
  BY <1>1
  DEF DurableInv, IndexInv, LockDiscipline, FreshInv, PendingFresh, BornInv,
      Enter, Thread
<1>3. ~faulted /\ rows' = InsertOrReplace(d) /\ holder = NoThread
  <2>1. faulted' = TRUE \/ (faulted' = faulted /\ rows' = InsertOrReplace(d))
    BY <1>1 DEF Enter
  <2> QED  BY <2>1 DEF Enter
<1>4. born[d] >= 0
  BY <1>2 DEF TypeOK, Unborn
<1>5. d \notin LiveDigests
  BY <1>2, <1>3, WaitingLive DEF Waiting
<1>6. LiveDigests' = LiveDigests \cup {d}
  <2> DEFINE new == [id |-> nextId, digest |-> d, processed |-> FALSE]
  <2>1. /\ rows' = {r \in rows : r.digest # d} \cup {new}
        /\ new.digest = d /\ ~new.processed
    BY <1>3 DEF InsertOrReplace
  <2> HIDE DEF new
  <2>2. \A e : e \in LiveDigests' <=> e \in LiveDigests \/ e = d
    BY <1>5, <2>1 DEF LiveDigests, Live
  <2> QED  BY <2>2
<1> QED  BY <1>2, <1>4, <1>5, <1>6 DEF LiveStep

\* The UPDATE of a removal is Take.
LEMMA RemoveFinishLive ==
    ASSUME DurableInv, NEW t \in Client, RemoveFinish(t), ~faulted'
    PROVE  LiveStep
<1>1. PICK d : d = job[t].digest
  OBVIOUS
<1>2. TypeOK /\ d \in Digest /\ rows' = MarkProcessed(d) /\ rows \subseteq Row
  BY <1>1
  DEF DurableInv, IndexInv, LockDiscipline, TypeOK, RemoveFinish, Thread
<1>3. LiveDigests' = LiveDigests \ {d}
  <2>1. ASSUME NEW e \in LiveDigests' PROVE e \in LiveDigests \ {d}
    <3>1. PICK r \in rows' : r.digest = e /\ ~r.processed
      BY <2>1 DEF LiveDigests, Live
    <3>2. r \in rows /\ r.digest # d
      BY <1>2, <3>1 DEF MarkProcessed, Row
    <3> QED  BY <3>1, <3>2 DEF LiveDigests, Live
  <2>2. ASSUME NEW e \in LiveDigests, e # d PROVE e \in LiveDigests'
    <3>1. PICK r \in rows : r.digest = e /\ ~r.processed
      BY <2>2 DEF LiveDigests, Live
    <3>2. r \in rows'
      BY <1>2, <2>2, <3>1 DEF MarkProcessed
    <3> QED  BY <3>1, <3>2 DEF LiveDigests, Live
  <2> QED  BY <2>1, <2>2
<1>4. CASE d \in LiveDigests
  BY <1>2, <1>3, <1>4 DEF LiveStep
<1>5. CASE d \notin LiveDigests
  BY <1>3, <1>5 DEF LiveStep
<1> QED  BY <1>4, <1>5

\* The commit of the cleaner is Expire, as of the moment of its SELECT.
LEMMA ExpireFinishLive ==
    ASSUME DurableInv, ExpireFinish, ~faulted'
    PROVE  LiveStep
<1>1. /\ rows' = rows \ doomed /\ TypeOK /\ OneRow
      /\ rows \subseteq Row /\ now \in Nat
  BY DEF DurableInv, IndexInv, TypeOK, TableInv, ExpireFinish
<1>2. PICK t \in 0..now : doomed = OldAt(t)
  BY DEF DurableInv, DoomedOld, ExpireFinish
<1>3. ASSUME NEW e \in LiveDigests'
      PROVE  e \in LiveDigests /\ t - born[e] <= MaxAge
  <2>1. PICK r \in rows' : r.digest = e /\ ~r.processed
    BY <1>3 DEF LiveDigests, Live
  <2>2. r \in rows /\ ~(t - born[e] > MaxAge) /\ born[e] \in Int
    BY <1>1, <1>2, <2>1 DEF OldAt, TypeOK, Row, Unborn
  <2> QED  BY <1>2, <2>1, <2>2, ClockAssumption DEF LiveDigests, Live
<1>4. ASSUME NEW e \in LiveDigests, t - born[e] <= MaxAge
      PROVE  e \in LiveDigests'
  <2>1. PICK r \in rows : r.digest = e /\ ~r.processed
    BY <1>4 DEF LiveDigests, Live
  <2>2. born[e] \in Int
    BY <1>1, <2>1 DEF TypeOK, Row, Unborn
  <2>3. r \notin doomed
    BY <1>2, <1>4, <2>1, <2>2, ClockAssumption DEF OldAt
  <2> QED  BY <1>1, <2>1, <2>3 DEF LiveDigests, Live
<1>5. LiveDigests' = {d \in LiveDigests : t - born[d] <= MaxAge}
  BY <1>3, <1>4
<1> QED  BY <1>5 DEF LiveStep

\* Every step of the pool that records no fault.
LEMMA SoundStep ==
    ASSUME DurableInv, Next, ~faulted'
    PROVE  LiveStep /\ ~faulted
<1>1. ~faulted
  BY DEF Next, Create, AddMulti, Validate, Enter, RemoveMulti, RemoveStart,
         RemoveFinish, Clear, RebuildStep, Expire, ExpireStart, ExpireFail, ExpireDrop,
         ExpireFinish, Restart, Load, LoadRow, LoadDone, Tick
<1>2. CASE rows' = rows
  BY <1>1, <1>2 DEF LiveStep, LiveDigests, Live
<1>3. CASE rows' = {}
  BY <1>1, <1>3 DEF LiveStep, LiveDigests, Live
<1>4. ASSUME NEW t \in Client, AddMulti(t) \/ RemoveMulti(t) \/ Clear(t)
      PROVE  LiveStep
  BY <1>1, <1>2, <1>3, <1>4, EnterLive, RemoveFinishLive
  DEF AddMulti, Validate, RemoveMulti, RemoveStart, Clear, storage
<1>5. CASE Expire
  BY <1>1, <1>2, <1>5, ExpireFinishLive DEF Expire, ExpireStart, ExpireFail, ExpireDrop, storage
<1>6. CASE Restart \/ Load
  BY <1>1, <1>2, <1>6 DEF Restart, Load, LoadRow, LoadDone, storage
<1>7. CASE \/ \E d \in Digest : Create(d)
           \/ \E t \in Thread : RebuildStep(t)
           \/ Tick
  BY <1>1, <1>2, <1>7 DEF Create, RebuildStep, Tick, storage
<1> QED  BY <1>1, <1>4, <1>5, <1>6, <1>7 DEF Next

\* The pool starts as PoolSpec does.
LEMMA PromisedInit == Init => Promised!Init
BY DEF Init, Promised!Init, Waiting, InPool, Contains, Unborn

\* Time and births pass in the abstract pool as they do in this one.
LEMMA PromisedClock ==
    ASSUME DurableInv, (\E d \in Digest : Create(d)) \/ Tick
    PROVE  Promised!Next
<1>0. UNCHANGED <<pool, holder, rows, faulted>>
  BY DEF Create, Tick, memory, storage
<1>1. Waiting' = Waiting /\ (~faulted)' = ~faulted
  BY <1>0 DEF Waiting, InPool, Live
<1>2. ASSUME NEW d \in Digest, Create(d) PROVE Promised!Next
  <2>1. Promised!Build(d)
    BY <1>1, <1>2 DEF Promised!Build, Create, Unborn
  <2> QED  BY <2>1 DEF Promised!Next
<1>3. CASE Tick
  BY <1>1, <1>3 DEF Tick, Promised!Tick, Promised!Next
<1> QED  BY <1>2, <1>3

\* All other steps leave the clock alone.
LEMMA OtherClock ==
    ASSUME Next, ~Tick, \A d \in Digest : ~Create(d)
    PROVE  now' = now /\ born' = born
BY DEF Next, AddMulti, Validate, Enter, RemoveMulti, RemoveStart,
       RemoveFinish, Clear, RebuildStep, Expire, ExpireStart, ExpireFail, ExpireDrop,
       ExpireFinish, Restart, Load, LoadRow, LoadDone, clock

\* Every step of the pool is a step of PoolSpec or a stutter.
LEMMA PromisedStep ==
    DurableInv /\ DurableInv' /\ [Next]_vars => [Promised!Next]_(Promised!vars)
<1> SUFFICES ASSUME DurableInv, DurableInv', [Next]_vars
             PROVE  Promised!Next \/ UNCHANGED Promised!vars
  OBVIOUS
<1>1. CASE UNCHANGED vars
  BY <1>1
  DEF vars, memory, storage, clock, Promised!vars, Waiting, InPool, Live
<1>2. CASE Next /\ ((\E d \in Digest : Create(d)) \/ Tick)
  BY <1>2, PromisedClock
<1>3. ASSUME Next, ~Tick, \A d \in Digest : ~Create(d)
      PROVE  Promised!Next \/ UNCHANGED Promised!vars
  <2>1. now' = now /\ born' = born
    BY <1>3, OtherClock
  <2>2. CASE faulted'
    <3>1. Waiting' \in SUBSET Digest
      BY DEF DurableInv, IndexInv, TypeOK, Waiting, Live, Row
    <3> QED  BY <2>1, <2>2, <3>1 DEF Promised!Broken, Promised!Next
  <2>3. CASE ~faulted'
    <3>1. LiveStep /\ ~faulted
      BY <1>3, <2>3, SoundStep
    <3>2. Waiting = LiveDigests
      BY <3>1, WaitingLive
    <3>3. Waiting' = LiveDigests'
      BY <2>3, WaitingLiveNext
    <3>4. (~faulted)' = ~faulted
      BY <2>3, <3>1
    <3> QED
      BY <2>1, <3>1, <3>2, <3>3, <3>4
      DEF LiveStep, Promised!Next, Promised!Admit, Promised!Take,
          Promised!Expire, Promised!Empty, Promised!vars
  <2> QED  BY <2>2, <2>3
<1> QED  BY <1>1, <1>2, <1>3

\* On a host whose clock shows UTC, disciplined callers see an atomic, durable
\* pool: adding, removing, expiring and clearing are single steps that a crash
\* does not undo, for any number of callers, batches and crashes.
THEOREM PoolImplements ==
    ASSUME TzOffset = 0
    PROVE  DisciplinedSpec => PromisesKept
<1>1. Init => DurableInv
  BY IndexInvInit, TableInvInit, FreshInvInit, BornInvInit, LeavingInit,
     BackedInit, DoomedOldInit
  DEF DurableInv
<1>2. DurableInv /\ [Next /\ Disciplined]_vars => DurableInv'
  <2>1. [Next /\ Disciplined]_vars => [Next]_vars
    OBVIOUS
  <2> QED
    BY <2>1, IndexInvStep, TableInvStep, FreshInvStep, BornInvStep,
       LeavingStep, BackedStep, DoomedOldStep
    DEF DurableInv
<1>3. DurableInv /\ DurableInv' /\ [Next /\ Disciplined]_vars
         => [Promised!Next]_(Promised!vars)
  BY PromisedStep
<1> QED
  BY <1>1, <1>2, <1>3, PromisedInit, PTL
  DEF DisciplinedSpec, PromisesKept, Promised!Spec

-----------------------------------------------------------------------------
(* The cleaner takes what is too old and nothing else.                     *)

\* What the cleaner has deleted from the table is old, also when time has
\* passed since.
DoomedAged == holder = Cleaner => \A r \in doomed : Old(r)

\* Removing an entry leaves as many copies of any other batch as there were.
LEMMA RemoveAtCopies ==
    ASSUME NEW p \in Seq(Digest), NEW i \in 1..Len(p), NEW d, d # p[i]
    PROVE  ~(Copies(RemoveAt(p, i), d) < Copies(p, d))
<1> DEFINE q == RemoveAt(p, i)
           A == {k \in DOMAIN p : p[k] = d}
           B == {k \in DOMAIN q : q[k] = d}
           f == [k \in A |-> IF k < i THEN k ELSE k - 1]
<1>1. /\ q \in Seq(Digest) /\ Len(q) = Len(p) - 1
      /\ \A k \in 1..(Len(p) - 1) : q[k] = IF k < i THEN p[k] ELSE p[k + 1]
  BY RemoveAtFacts
<1>2. DOMAIN p = 1..Len(p) /\ DOMAIN q = 1..(Len(p) - 1) /\ Len(p) \in Nat
  BY <1>1
<1> HIDE DEF q
<1>3. IsFiniteSet(B)
  <2>1. IsFiniteSet(DOMAIN q)
    BY <1>2, FS_Interval
  <2> QED  BY <2>1, FS_Subset
<1>4. f \in Injection(A, B)
  <2>1. ASSUME NEW k \in A
        PROVE  f[k] \in B /\ k \in Int /\ k # i /\ f[k] = IF k < i THEN k ELSE k - 1
    BY <1>1, <1>2
  <2>2. f \in [A -> B]
    BY <2>1
  <2>3. \A k, m \in A : f[k] = f[m] => k = m
    <3> SUFFICES ASSUME NEW k \in A, NEW m \in A, f[k] = f[m] PROVE k = m
      OBVIOUS
    <3>1. k \in Int /\ k # i /\ f[k] = IF k < i THEN k ELSE k - 1
      BY <2>1
    <3>2. m \in Int /\ m # i /\ f[m] = IF m < i THEN m ELSE m - 1
      BY <2>1
    <3> QED  BY <3>1, <3>2
  <2> HIDE DEF f, A, B
  <2> QED  BY <2>2, <2>3 DEF Injection, IsInjective
<1> HIDE DEF A, B, f
<1>5. IsFiniteSet(A) /\ Cardinality(A) <= Cardinality(B)
  BY <1>3, <1>4, FS_Injection
<1>6. Cardinality(A) \in Nat /\ Cardinality(B) \in Nat
  BY <1>3, <1>5, FS_CardinalityType
<1> QED  BY <1>5, <1>6 DEF A, B, q, Copies

\* The number of copies is a number.
LEMMA CopiesTyped ==
    ASSUME NEW p \in Seq(Digest), NEW d
    PROVE  Copies(p, d) \in Nat
<1>1. DOMAIN p = 1..Len(p) /\ Len(p) \in Nat
  OBVIOUS
<1>2. IsFiniteSet(1..Len(p))
  BY <1>1, FS_Interval
<1>3. IsFiniteSet({i \in DOMAIN p : p[i] = d})
  BY <1>1, <1>2, FS_Subset
<1> QED  BY <1>3, FS_CardinalityType DEF Copies

\* The rows that the cleaner's transaction has deleted grow no younger.
LEMMA DoomedAgedStep ==
    ASSUME IndexInv, BornInv, DoomedAged, [Next]_vars
    PROVE  DoomedAged'
<1> SUFFICES ASSUME holder' = Cleaner, NEW r \in doomed'
             PROVE  Old(r)'
  BY DEF DoomedAged
<1>0. /\ TypeOK /\ NoThread # Cleaner /\ Main # Cleaner /\ Cleaner \notin Client
      /\ MaxAge \in Int /\ TzOffset \in Int
  BY ThreadAssumption, ClockAssumption DEF IndexInv, Thread
<1>1. CASE ExpireStart
  BY <1>1 DEF ExpireStart, Old, Timestamp, Cutoff, clock
<1>2. CASE ~ExpireStart
  <2>1. holder = Cleaner /\ doomed' = doomed
    BY <1>0, <1>2
    DEF Next, Create, AddMulti, Validate, Enter, RemoveMulti, RemoveStart,
        RemoveFinish, Clear, RebuildStep, Expire, ExpireFail, ExpireDrop,
        ExpireFinish, Restart, Load, LoadRow, LoadDone, Tick, vars, work
  <2>2. PICK d \in Digest : d = r.digest
    BY <1>0, <2>1 DEF TypeOK, Row
  <2>3. Old(r) /\ born[d] # Unborn /\ born[d] \in Int
    BY <1>0, <2>1, <2>2 DEF DoomedAged, BornInv, TypeOK, Unborn
  <2>4. born'[d] = born[d]
    BY <1>0, <2>3, BornKept DEF vars, clock
  <2>5. now \in Int /\ (now' = now \/ now' = now + 1)
    BY <1>0
    DEF TypeOK, Next, Create, AddMulti, Validate, Enter, RemoveMulti, RemoveStart,
        RemoveFinish, Clear, RebuildStep, Expire, ExpireStart, ExpireFail, ExpireDrop,
        ExpireFinish, Restart, Load, LoadRow, LoadDone, Tick, vars, clock
  <2> QED  BY <1>0, <2>2, <2>3, <2>4, <2>5 DEF Old, Timestamp, Cutoff
<1> QED  BY <1>1, <1>2

\* What leaves the pool or the table by the cleaner's hand is old.
LEMMA ExpiresOldStep ==
    ASSUME TzOffset >= 0, IndexInv, TableInv, DoomedAged, [Next]_vars,
           NEW d \in Digest, holder = Cleaner, holder' # Main,
           \/ Copies(pool', d) < Copies(pool, d)
           \/ \E r \in rows \ rows' : r.digest = d
    PROVE  now - born[d] > MaxAge
<1>0. /\ TypeOK /\ LockDiscipline /\ DigestIndexExact
      /\ NoThread # Cleaner /\ Main # Cleaner /\ Cleaner \notin Client
      /\ NoThread # Main
      /\ todo \subseteq doomed
      /\ now \in Int /\ born[d] \in Int /\ MaxAge \in Int /\ TzOffset \in Int
  BY ThreadAssumption, ClockAssumption DEF IndexInv, TableInv, TypeOK, Thread, Unborn
<1>1. ASSUME NEW r \in doomed, r.digest = d
      PROVE  now - born[d] > MaxAge
  BY <1>0, <1>1 DEF DoomedAged, Old, Timestamp, Cutoff
<1>2. ASSUME pool' = pool, rows' = rows PROVE FALSE
  <2>1. Copies(pool, d) \in Nat
    BY <1>0, CopiesTyped DEF TypeOK
  <2> QED  BY <1>2, <2>1
<1>3. CASE ExpireDrop
  <2>1. PICK q \in todo :
           \/ digest_index[q.digest] # 0 /\ DropEntry(q.digest)
           \/ digest_index[q.digest] = 0 /\ UNCHANGED memory
    BY <1>3 DEF ExpireDrop
  <2>2. rows' = rows
    BY <1>3 DEF ExpireDrop, storage
  <2>3. CASE digest_index[q.digest] # 0 /\ DropEntry(q.digest)
    <3>1. PICK i : i = digest_index[q.digest]
      OBVIOUS
    <3>2. /\ q.digest \in Digest /\ i \in 1..Len(pool) /\ pool[i] = q.digest
          /\ pool' = RemoveAt(pool, i) /\ pool \in Seq(Digest)
      BY <1>0, <2>3, <3>1 DEF TypeOK, Row, DigestIndexExact, DropEntry
    <3>3. d = q.digest
      BY <2>2, <3>2, RemoveAtCopies
    <3> QED  BY <1>0, <1>1, <3>3
  <2>4. CASE digest_index[q.digest] = 0 /\ UNCHANGED memory
    BY <1>2, <2>2, <2>4 DEF memory
  <2> QED  BY <2>1, <2>3, <2>4
<1>4. CASE ExpireFinish
  <2>1. pool' = pool /\ (rows' = rows \ doomed \/ rows' = rows)
    BY <1>4 DEF ExpireFinish, memory
  <2>2. CASE rows' = rows
    BY <1>2, <2>1, <2>2
  <2>3. CASE rows' = rows \ doomed
    <3>1. Copies(pool, d) \in Nat
      BY <1>0, CopiesTyped DEF TypeOK
    <3> QED  BY <1>1, <2>1, <2>3, <3>1
  <2> QED  BY <2>1, <2>2, <2>3
<1>5. CASE ExpireStart \/ ExpireFail \/ Load \/ Restart
  BY <1>0, <1>5 DEF ExpireStart, ExpireFail, Load, LoadRow, LoadDone, Restart
<1>6. ASSUME NEW t \in Client, AddMulti(t) \/ RemoveMulti(t) \/ Clear(t)
      PROVE  FALSE
  BY <1>0, <1>2, <1>6
  DEF AddMulti, Validate, Enter, RemoveMulti, RemoveStart, RemoveFinish, Clear,
      memory, storage
<1>7. CASE \/ \E e \in Digest : Create(e)
           \/ \E t \in Thread : RebuildStep(t)
           \/ Tick
           \/ UNCHANGED vars
  BY <1>2, <1>7 DEF Create, RebuildStep, Tick, vars, memory, storage
<1> QED  BY <1>3, <1>4, <1>5, <1>6, <1>7 DEF Next, Expire

\* On a host whose local time is not behind UTC, whatever the cleaner takes out
\* of the pool or deletes from the table was built more than max_age_hours ago,
\* for any callers, duplicates, faults and crashes.
THEOREM ExpiresOld ==
    ASSUME TzOffset >= 0
    PROVE  Spec => ExpiresOnlyOld
<1> DEFINE Inv == IndexInv /\ TableInv /\ BornInv /\ DoomedAged
<1>1. Init => Inv
  BY IndexInvInit, TableInvInit, BornInvInit, ThreadAssumption
  DEF Init, DoomedAged, Thread
<1>2. Inv /\ [Next]_vars => Inv'
  BY IndexInvStep, TableInvStep, BornInvStep, DoomedAgedStep
<1>3. Inv /\ [Next]_vars
        => [\A d \in Digest :
              /\ holder = Cleaner
              /\ holder' # Main
              /\ \/ Copies(pool', d) < Copies(pool, d)
                 \/ \E r \in rows \ rows' : r.digest = d
              => now - born[d] > MaxAge]_vars
  BY ExpiresOldStep
<1> QED  BY <1>1, <1>2, <1>3, PTL DEF Spec, ExpiresOnlyOld

-----------------------------------------------------------------------------
(* A restart is invisible: the pool is in the order of the rows' ids.      *)

\* A row's id is its own, and behind the counter.
IdsInv == /\ \A r \in rows : r.id < nextId
          /\ \A r, q \in rows : r.id = q.id => r = q

\* The pool is in the order of its rows.
InOrder == \A i, j \in DOMAIN pool, r, q \in rows :
              i < j /\ pool[i] = r.digest /\ pool[j] = q.digest => r.id < q.id

\* What is still to be loaded comes after what is loaded.
LoadsBehind == holder = Main =>
    \A q \in todo, i \in DOMAIN pool, r \in rows :
        pool[i] = r.digest => r.id < q.id

OrderInv == IdsInv /\ (~faulted => InOrder /\ LoadsBehind)

\* The rows of the next state are rows of this one, or the same with another
\* processed mark.
SameRows == \A r \in rows' : \E q \in rows : q.id = r.id /\ q.digest = r.digest

\* Both the table and its ids are in order at the start.
LEMMA OrderInvInit == Init => OrderInv
BY DEF Init, OrderInv, IdsInv, InOrder, LoadsBehind

\* Steps that insert no row leave the ids apart.
LEMMA IdsKept ==
    ASSUME TypeOK, IdsInv, nextId' = nextId,
           \/ rows' \subseteq rows
           \/ \E d \in Digest : rows' = MarkProcessed(d)
    PROVE  IdsInv' /\ SameRows
<1>1. CASE rows' \subseteq rows
  BY <1>1 DEF IdsInv, SameRows
<1>2. ASSUME NEW d \in Digest, rows' = MarkProcessed(d)
      PROVE  IdsInv' /\ SameRows
  <2> DEFINE m(r) == IF r.digest = d THEN [r EXCEPT !.processed = TRUE] ELSE r
  <2>1. rows' = {m(r) : r \in rows}
    BY <1>2 DEF MarkProcessed
  <2>2. \A r \in rows : m(r).id = r.id /\ m(r).digest = r.digest
    BY DEF TypeOK, Row
  <2> HIDE DEF m
  <2>3. SameRows
    BY <2>1, <2>2 DEF SameRows
  <2>4. \A r \in rows' : r.id < nextId'
    BY <2>1, <2>2 DEF IdsInv
  <2>5. \A r, q \in rows' : r.id = q.id => r = q
    BY <2>1, <2>2 DEF IdsInv
  <2> QED  BY <2>3, <2>4, <2>5 DEF IdsInv
<1> QED  BY <1>1, <1>2

\* Steps that keep the pool, or only take entries out of it.
LEMMA OrderShrink ==
    ASSUME TypeOK, OrderInv, IdsInv', SameRows, faulted' \/ faulted' = faulted,
           \/ pool' = pool
           \/ pool' = <<>>
           \/ \E i \in 1..Len(pool) : pool' = RemoveAt(pool, i),
           holder' = Main => holder = Main /\ todo' \subseteq todo
    PROVE  OrderInv'
<1> SUFFICES ASSUME ~faulted' PROVE InOrder' /\ LoadsBehind'
  BY DEF OrderInv
<1>0. InOrder /\ LoadsBehind /\ pool \in Seq(Digest)
  BY DEF OrderInv, TypeOK
<1>1. PICK at : /\ \A k \in DOMAIN pool' : /\ at[k] \in DOMAIN pool
                                          /\ pool'[k] = pool[at[k]]
                /\ \A j, k \in DOMAIN pool' : j < k => at[j] < at[k]
  <2>1. CASE pool' = <<>>
    BY <2>1
  <2>2. CASE pool' = pool
    <3> DEFINE f == [k \in DOMAIN pool |-> k]
    <3>1. \A k \in DOMAIN pool' : f[k] = k /\ k \in DOMAIN pool
      BY <2>2
    <3> HIDE DEF f
    <3>2. \A k \in DOMAIN pool' : f[k] \in DOMAIN pool /\ pool'[k] = pool[f[k]]
      BY <2>2, <3>1
    <3>3. \A j, k \in DOMAIN pool' : j < k => f[j] < f[k]
      BY <3>1
    <3> QED  BY <3>2, <3>3
  <2>3. ASSUME NEW i \in 1..Len(pool), pool' = RemoveAt(pool, i)
        PROVE  \E f : /\ \A k \in DOMAIN pool' : /\ f[k] \in DOMAIN pool
                                                 /\ pool'[k] = pool[f[k]]
                      /\ \A j, k \in DOMAIN pool' : j < k => f[j] < f[k]
    <3> DEFINE f == [k \in 1..(Len(pool) - 1) |-> IF k < i THEN k ELSE k + 1]
    <3>1. /\ pool' \in Seq(Digest) /\ Len(pool') = Len(pool) - 1
          /\ \A k \in 1..(Len(pool) - 1) :
                pool'[k] = IF k < i THEN pool[k] ELSE pool[k + 1]
      BY <1>0, <2>3, RemoveAtFacts
    <3>2. DOMAIN pool' = 1..(Len(pool) - 1) /\ DOMAIN pool = 1..Len(pool)
      BY <1>0, <3>1
    <3>3. \A k \in 1..(Len(pool) - 1) : f[k] = IF k < i THEN k ELSE k + 1
      OBVIOUS
    <3> HIDE DEF f
    <3>4. \A k \in DOMAIN pool' : f[k] \in DOMAIN pool /\ pool'[k] = pool[f[k]]
      BY <1>0, <3>1, <3>2, <3>3
    <3>5. \A j, k \in DOMAIN pool' : j < k => f[j] < f[k]
      BY <1>0, <3>2, <3>3
    <3> QED  BY <3>4, <3>5
  <2> QED  BY <2>1, <2>2, <2>3
<1>2. ASSUME NEW i \in DOMAIN pool', NEW j \in DOMAIN pool',
             NEW r \in rows', NEW q \in rows',
             i < j, pool'[i] = r.digest, pool'[j] = q.digest
      PROVE  r.id < q.id
  <2>1. PICK a \in rows : a.id = r.id /\ a.digest = r.digest
    BY DEF SameRows
  <2>2. PICK b \in rows : b.id = q.id /\ b.digest = q.digest
    BY DEF SameRows
  <2>3. /\ at[i] \in DOMAIN pool /\ at[j] \in DOMAIN pool /\ at[i] < at[j]
        /\ pool[at[i]] = a.digest /\ pool[at[j]] = b.digest
    BY <1>1, <1>2, <2>1, <2>2
  <2>4. a.id < b.id
    BY <1>0, <2>3 DEF InOrder
  <2> QED  BY <2>1, <2>2, <2>4
<1>3. ASSUME holder' = Main, NEW q \in todo', NEW i \in DOMAIN pool',
             NEW r \in rows', pool'[i] = r.digest
      PROVE  r.id < q.id
  <2>1. PICK a \in rows : a.id = r.id /\ a.digest = r.digest
    BY DEF SameRows
  <2>2. at[i] \in DOMAIN pool /\ pool[at[i]] = a.digest /\ q \in todo
    BY <1>1, <1>3, <2>1
  <2>3. a.id < q.id
    BY <1>0, <1>3, <2>2 DEF LoadsBehind
  <2> QED  BY <2>1, <2>3
<1>4. InOrder'
  BY <1>2 DEF InOrder
<1>5. LoadsBehind'
  BY <1>3 DEF LoadsBehind
<1> QED  BY <1>4, <1>5

\* A new batch gets the last place and the largest id.
LEMMA EnterOrder ==
    ASSUME IndexInv, FreshInv, OrderInv, NEW t \in Client, Enter(t)
    PROVE  OrderInv'
<1>0. PICK d : d = job[t].digest
  OBVIOUS
<1>1. /\ TypeOK /\ IdsInv /\ d \in Digest /\ ~InPool(d)
      /\ pool \in Seq(Digest) /\ rows \subseteq Row /\ nextId \in Nat
      /\ holder' # Main /\ nextId' = nextId + 1 /\ pool' = Append(pool, d)
  BY <1>0, ThreadAssumption
  DEF IndexInv, LockDiscipline, TypeOK, FreshInv, PendingFresh, OrderInv,
      Enter, AppendEntry, Thread
<1>2. CASE faulted' = TRUE /\ rows' = rows
  BY <1>1, <1>2 DEF OrderInv, IdsInv, Row
<1>3. CASE rows' = InsertOrReplace(d) /\ faulted' = faulted
  <2> DEFINE new == [id |-> nextId, digest |-> d, processed |-> FALSE]
  <2>1. /\ rows' = {r \in rows : r.digest # d} \cup {new}
        /\ new.digest = d /\ new.id = nextId
    BY <1>3 DEF InsertOrReplace
  <2> HIDE DEF new
  <2>2. \A r \in rows : r.id < nextId /\ r.id \in Nat
    BY <1>1 DEF IdsInv, Row
  <2>3. IdsInv'
    <3>1. \A r \in rows' : r.id < nextId'
      BY <1>1, <2>1, <2>2
    <3>2. \A r, q \in rows' : r.id = q.id => r = q
      BY <1>1, <2>1, <2>2 DEF IdsInv
    <3> QED  BY <3>1, <3>2 DEF IdsInv
  <2>4. /\ DOMAIN pool = 1..Len(pool) /\ DOMAIN pool' = 1..(Len(pool) + 1)
        /\ \A i \in 1..Len(pool) : pool'[i] = pool[i] /\ pool[i] # d
        /\ pool'[Len(pool) + 1] = d /\ Len(pool) \in Nat
    BY <1>1, AppendProperties DEF InPool, Contains
  <2>5. ASSUME ~faulted', NEW i \in DOMAIN pool', NEW j \in DOMAIN pool',
               NEW r \in rows', NEW q \in rows',
               i < j, pool'[i] = r.digest, pool'[j] = q.digest
        PROVE  r.id < q.id
    <3>1. i \in DOMAIN pool /\ pool[i] = r.digest /\ r \in rows
      BY <2>1, <2>4, <2>5
    <3>2. CASE j = Len(pool) + 1
      BY <2>1, <2>2, <2>4, <2>5, <3>1, <3>2
    <3>3. CASE j # Len(pool) + 1
      <4>1. j \in DOMAIN pool /\ pool[j] = q.digest /\ q \in rows
        BY <2>1, <2>4, <2>5, <3>3
      <4> QED  BY <1>3, <2>5, <3>1, <4>1 DEF OrderInv, InOrder
    <3> QED  BY <3>2, <3>3
  <2>6. ~faulted' => InOrder'
    BY <2>5 DEF InOrder
  <2> QED  BY <1>1, <2>3, <2>6 DEF OrderInv, LoadsBehind
<1>4. \/ rows' = InsertOrReplace(d) /\ faulted' = faulted
      \/ faulted' = TRUE /\ rows' = rows
  BY <1>0 DEF Enter
<1> QED  BY <1>2, <1>3, <1>4

\* A load appends the rows in the order of their ids.
LEMMA LoadOrder ==
    ASSUME IndexInv, TableInv, FreshInv, Leaving, OrderInv, LoadRow
    PROVE  OrderInv'
<1>1. PICK p \in todo :
        /\ IsNext(p)
        /\ \/ AppendEntry(p.digest) /\ faulted' = faulted
           \/ UNCHANGED memory /\ faulted' = TRUE
        /\ todo' = todo \ {p}
  BY DEF LoadRow
<1>2. /\ TypeOK /\ IdsInv /\ OneRow /\ holder = Main
      /\ rows' = rows /\ nextId' = nextId
      /\ p \in rows /\ p.digest \in Digest /\ p.id \in Nat
      /\ todo \subseteq rows /\ rows \subseteq Row
      /\ \A q \in todo : p.id <= q.id
      /\ pool \in Seq(Digest) /\ ~InPool(p.digest)
  BY <1>1
  DEF LoadRow, IndexInv, TypeOK, TableInv, FreshInv, Leaving, Live, OrderInv,
      IsNext, Row, storage
<1>3. IdsInv'
  BY <1>2 DEF IdsInv
<1>4. ASSUME ~faulted' PROVE InOrder' /\ LoadsBehind'
  <2>1. /\ ~faulted /\ AppendEntry(p.digest) /\ InOrder /\ LoadsBehind
    BY <1>1, <1>4 DEF OrderInv
  <2>2. /\ DOMAIN pool = 1..Len(pool) /\ DOMAIN pool' = 1..(Len(pool) + 1)
        /\ \A i \in 1..Len(pool) : pool'[i] = pool[i] /\ pool[i] # p.digest
        /\ pool'[Len(pool) + 1] = p.digest /\ Len(pool) \in Nat
    BY <1>2, <2>1, AppendProperties DEF AppendEntry, InPool, Contains
  <2>3. ASSUME NEW i \in DOMAIN pool', NEW j \in DOMAIN pool',
               NEW r \in rows, NEW q \in rows,
               i < j, pool'[i] = r.digest, pool'[j] = q.digest
        PROVE  r.id < q.id
    <3>1. i \in DOMAIN pool /\ pool[i] = r.digest
      BY <2>2, <2>3
    <3>2. CASE j = Len(pool) + 1
      <4>1. q = p
        BY <1>2, <2>2, <2>3, <3>2 DEF OneRow
      <4> QED  BY <1>1, <1>2, <2>1, <3>1, <4>1 DEF LoadsBehind
    <3>3. CASE j # Len(pool) + 1
      <4>1. j \in DOMAIN pool /\ pool[j] = q.digest
        BY <2>2, <2>3, <3>3
      <4> QED  BY <2>1, <2>3, <3>1, <4>1 DEF InOrder
    <3> QED  BY <3>2, <3>3
  <2>4. ASSUME NEW q \in todo', NEW i \in DOMAIN pool', NEW r \in rows,
               pool'[i] = r.digest
        PROVE  r.id < q.id
    <3>1. q \in todo /\ q # p /\ q \in rows /\ q.id \in Nat /\ p.id <= q.id
      BY <1>1, <1>2, <2>4 DEF Row
    <3>2. CASE i = Len(pool) + 1
      <4>1. r = p
        BY <1>2, <2>2, <2>4, <3>2 DEF OneRow
      <4>2. p.id # q.id
        BY <1>2, <3>1 DEF IdsInv
      <4> QED  BY <1>2, <3>1, <4>1, <4>2
    <3>3. CASE i # Len(pool) + 1
      <4>1. i \in DOMAIN pool /\ pool[i] = r.digest
        BY <2>2, <2>4, <3>3
      <4> QED  BY <1>2, <2>1, <3>1, <4>1 DEF LoadsBehind
    <3> QED  BY <3>2, <3>3
  <2>5. InOrder'
    BY <1>2, <2>3 DEF InOrder
  <2>6. LoadsBehind'
    BY <1>2, <2>4 DEF LoadsBehind
  <2> QED  BY <2>5, <2>6
<1> QED  BY <1>3, <1>4 DEF OrderInv

\* Every step keeps the pool in the order of the rows.
LEMMA OrderInvStep ==
    IndexInv /\ TableInv /\ FreshInv /\ Leaving /\ OrderInv /\ [Next]_vars
        => OrderInv'
<1> SUFFICES ASSUME IndexInv, TableInv, FreshInv, Leaving, OrderInv, [Next]_vars
             PROVE  OrderInv'
  OBVIOUS
<1>0. /\ TypeOK /\ IdsInv /\ DigestIndexExact /\ LockDiscipline
      /\ NoThread # Main /\ Cleaner # Main /\ Main \notin Client
  BY ThreadAssumption DEF IndexInv, OrderInv, Thread
<1>1. ASSUME rows' = rows, nextId' = nextId, faulted' \/ faulted' = faulted,
             \/ pool' = pool
             \/ pool' = <<>>
             \/ \E i \in 1..Len(pool) : pool' = RemoveAt(pool, i),
             holder' = Main => holder = Main /\ todo' \subseteq todo
      PROVE  OrderInv'
  BY <1>0, <1>1, IdsKept, OrderShrink
<1>2. ASSUME NEW d \in Digest, digest_index[d] # 0, DropEntry(d)
      PROVE  \E i \in 1..Len(pool) : pool' = RemoveAt(pool, i)
  BY <1>0, <1>2 DEF DropEntry, DigestIndexExact, TypeOK
<1>3. ASSUME NEW t \in Client, NEW d \in Digest, RemoveStart(t, d)
      PROVE  OrderInv'
  BY <1>0, <1>1, <1>2, <1>3 DEF RemoveStart, storage
<1>4. ASSUME NEW t \in Client, RemoveFinish(t) PROVE OrderInv'
  <2>1. PICK d : d = job[t].digest
    OBVIOUS
  <2>2. /\ d \in Digest /\ pool' = pool /\ nextId' = nextId /\ holder' # Main
        /\ \/ rows' = MarkProcessed(d) /\ faulted' = faulted
           \/ rows' = rows /\ faulted' = TRUE
    BY <1>0, <1>4, <2>1 DEF RemoveFinish, memory, LockDiscipline, Thread
  <2>3. IdsInv' /\ SameRows
    BY <1>0, <2>2, IdsKept
  <2> QED  BY <1>0, <2>2, <2>3, OrderShrink
<1>5. ASSUME NEW t \in Client, Clear(t) PROVE OrderInv'
  <2>1. /\ pool' = <<>> /\ nextId' = nextId /\ rows' \subseteq rows
        /\ faulted' \/ faulted' = faulted
        /\ holder' # Main
    BY <1>0, <1>5 DEF Clear
  <2>2. IdsInv' /\ SameRows
    BY <1>0, <2>1, IdsKept
  <2> QED  BY <1>0, <2>1, <2>2, OrderShrink
<1>6. ASSUME ExpireStart \/ ExpireDrop PROVE OrderInv'
  <2>1. CASE ExpireStart
    BY <1>0, <1>1, <2>1 DEF ExpireStart, memory, storage
  <2>2. CASE ExpireDrop
    <3>1. /\ rows' = rows /\ nextId' = nextId /\ faulted' = faulted
          /\ holder' # Main
      BY <1>0, <2>2 DEF ExpireDrop, storage
    <3>2. PICK q \in todo :
            \/ digest_index[q.digest] # 0 /\ DropEntry(q.digest)
            \/ UNCHANGED memory
      BY <2>2 DEF ExpireDrop
    <3>3. q.digest \in Digest
      BY <1>0, <3>2 DEF TypeOK, Row
    <3>4. pool' = pool \/ \E i \in 1..Len(pool) : pool' = RemoveAt(pool, i)
      BY <1>2, <3>2, <3>3 DEF memory
    <3> QED  BY <1>1, <3>1, <3>4
  <2> QED  BY <1>6, <2>1, <2>2
<1>7. ASSUME ExpireFinish PROVE OrderInv'
  <2>1. /\ pool' = pool /\ nextId' = nextId /\ rows' \subseteq rows
        /\ faulted' \/ faulted' = faulted
        /\ holder' # Main
    BY <1>0, <1>7 DEF ExpireFinish, memory
  <2>2. IdsInv' /\ SameRows
    BY <1>0, <2>1, IdsKept
  <2> QED  BY <1>0, <2>1, <2>2, OrderShrink
<1>8. ASSUME Restart PROVE OrderInv'
  <2>1. pool' = <<>> /\ rows' = rows /\ nextId' = nextId
    BY <1>8 DEF Restart, storage
  <2> QED  BY <1>0, <2>1 DEF OrderInv, IdsInv, InOrder, LoadsBehind
<1>9. ASSUME NEW t \in Client, AddMulti(t) PROVE OrderInv'
  <2>1. ASSUME NEW d \in Digest, Validate(t, d) PROVE OrderInv'
    BY <1>0, <1>1, <2>1 DEF Validate, memory, storage
  <2> QED  BY <1>9, <2>1, EnterOrder DEF AddMulti
<1>10. ASSUME LoadDone PROVE OrderInv'
  BY <1>0, <1>1, <1>10 DEF LoadDone, memory, storage
<1>11. ASSUME \/ \E d \in Digest : Create(d)
              \/ \E t \in Thread : RebuildStep(t)
              \/ Tick
              \/ UNCHANGED vars
       PROVE  OrderInv'
  BY <1>0, <1>1, <1>11 DEF Create, RebuildStep, Tick, vars, memory, storage, work
<1>12. ASSUME Load PROVE OrderInv'
  BY <1>10, <1>12, LoadOrder DEF Load
<1>13. ASSUME Expire PROVE OrderInv'
  <2>1. CASE ExpireFail
    BY <1>0, <2>1 DEF ExpireFail, storage, OrderInv, IdsInv, InOrder, LoadsBehind
  <2> QED  BY <1>6, <1>7, <1>13, <2>1 DEF Expire
<1>14. ASSUME NEW t \in Client, RemoveMulti(t) PROVE OrderInv'
  BY <1>3, <1>4, <1>14 DEF RemoveMulti
<1> QED  BY <1>5, <1>8, <1>9, <1>11, <1>12, <1>13, <1>14 DEF Next

\* A set enumerated by 1..n has n elements.
LEMMA Enumerated ==
    ASSUME NEW n \in Nat, NEW S, NEW f \in [1..n -> S],
           \A i, j \in 1..n : f[i] = f[j] => i = j,
           \A s \in S : \E i \in 1..n : f[i] = s
    PROVE  IsFiniteSet(S) /\ Cardinality(S) = n
<1>1. IsFiniteSet(1..n) /\ Cardinality(1..n) = n
  BY FS_Interval
<1>2. f \in Bijection(1..n, S)
  BY DEF Bijection, Injection, Surjection, IsInjective
<1> QED  BY <1>1, <1>2, FS_Bijection DEF ExistsBijection

\* Then the pool is the unprocessed rows in the order of their ids.
LEMMA OrderRestores ==
    ASSUME IndexInv, TableInv, FreshInv, Backed, OrderInv
    PROVE  RestartInvisible
<1> SUFFICES ASSUME holder = NoThread, ~faulted
             PROVE  /\ Cardinality(Live) = Len(pool)
                    /\ \A r \in Live :
                          pool[Cardinality({q \in Live : q.id <= r.id})] = r.digest
  BY DEF RestartInvisible, Live
<1> DEFINE n == Len(pool)
           f == [i \in 1..n |-> CHOOSE r \in Live : r.digest = pool[i]]
<1>0. /\ n \in Nat /\ DOMAIN pool = 1..n /\ OneRow /\ InOrder
      /\ \A i \in 1..n : pool[i] \in Digest
      /\ \A r \in Live : r \in rows /\ r.id \in Nat
  BY DEF IndexInv, TypeOK, TableInv, OrderInv, Live, Row
<1>1. ASSUME NEW i \in 1..n
      PROVE  f[i] \in Live /\ f[i].digest = pool[i]
  <2>1. InPool(pool[i]) /\ pool[i] \in Digest
    BY <1>0 DEF InPool, Contains
  <2>2. \E r \in Live : r.digest = pool[i]
    BY <2>1, AtRest DEF LiveDigests
  <2> QED  BY <2>2
<1>2. f \in [1..n -> Live]
  BY <1>1
<1> HIDE DEF f, n
<1>3. \A i, j \in 1..n : i < j => f[i].id < f[j].id
  BY <1>0, <1>1 DEF InOrder
<1>4. \A i, j \in 1..n : f[i] = f[j] => i = j
  <2>1. \A i \in 1..n : f[i].id \in Nat /\ i \in Int
    BY <1>0, <1>1
  <2> QED  BY <1>3, <2>1
<1>5. \A r \in Live : \E i \in 1..n : f[i] = r
  <2> SUFFICES ASSUME NEW r \in Live PROVE \E i \in 1..n : f[i] = r
    OBVIOUS
  <2>1. PICK i \in 1..n : pool[i] = r.digest
    BY <1>0, AtRest DEF InPool, Contains
  <2> QED  BY <1>0, <1>1, <2>1 DEF OneRow
<1>6. Cardinality(Live) = n
  BY <1>0, <1>2, <1>4, <1>5, Enumerated
<1>7. ASSUME NEW r \in Live
      PROVE  pool[Cardinality({q \in Live : q.id <= r.id})] = r.digest
  <2> DEFINE S == {q \in Live : q.id <= r.id}
  <2>1. PICK i \in 1..n : f[i] = r
    BY <1>5
  <2> DEFINE g == [k \in 1..i |-> f[k]]
  <2>2. i \in Nat /\ 1..i \subseteq 1..n /\ \A k \in 1..i : g[k] = f[k]
    BY <1>0
  <2>3. \A k \in 1..n : k <= i <=> f[k] \in S
    <3>1. \A k \in 1..n : f[k] \in Live /\ f[k].id \in Nat /\ k \in Int
      BY <1>0, <1>1
    <3> QED  BY <1>3, <2>1, <3>1
  <2> HIDE DEF S
  <2>4. g \in [1..i -> S]
    BY <2>2, <2>3
  <2>5. \A s \in S : \E k \in 1..i : g[k] = s
    <3> SUFFICES ASSUME NEW s \in S PROVE \E k \in 1..i : g[k] = s
      OBVIOUS
    <3>1. PICK k \in 1..n : f[k] = s
      BY <1>5 DEF S
    <3>2. k \in 1..i
      BY <1>0, <2>2, <2>3, <3>1
    <3> QED  BY <2>2, <3>1, <3>2
  <2> HIDE DEF g
  <2>6. \A j, k \in 1..i : g[j] = g[k] => j = k
    BY <1>4, <2>2
  <2>7. Cardinality(S) = i
    BY <2>2, <2>4, <2>5, <2>6, Enumerated
  <2> QED  BY <1>1, <2>1, <2>7 DEF S
<1> QED  BY <1>6, <1>7 DEF n

\* Under the callers' discipline, a crash between two operations changes
\* nothing: the reload rebuilds the same list of batches in the same order, for
\* any number of callers, batches and clean-ups, on a sound database.
THEOREM RestartRestores == DisciplinedSpec => []RestartInvisible
<1> DEFINE Inv == /\ IndexInv /\ TableInv /\ FreshInv
                  /\ Leaving /\ Backed /\ OrderInv
<1>1. Init => Inv
  BY IndexInvInit, TableInvInit, FreshInvInit, LeavingInit, BackedInit,
     OrderInvInit
<1>2. Inv /\ [Next /\ Disciplined]_vars => Inv'
  <2>1. [Next /\ Disciplined]_vars => [Next]_vars
    OBVIOUS
  <2> QED
    BY <2>1, IndexInvStep, TableInvStep, FreshInvStep, LeavingStep,
       BackedStep, OrderInvStep
<1>3. Inv => RestartInvisible
  BY OrderRestores
<1> QED  BY <1>1, <1>2, <1>3, PTL DEF DisciplinedSpec

=============================================================================
