------------------------------- MODULE Packager -------------------------------
(***************************************************************************)
(* Making blocks out of the pool (EZ_Transaction_Pool/PackTransactions.py).*)
(*                                                                         *)
(* A packager copies the pool, selects batches, makes a block and removes  *)
(* the batches from the pool one by one; meanwhile others add, expire and  *)
(* clear, and the process may crash.  package_transactions_from_pool does  *)
(* it in one call, and its caller has the block only when every batch has  *)
(* been removed ("whole").  A caller of the TransactionPackager's methods  *)
(* has the block before it removes the batches ("stepwise").               *)
(*                                                                         *)
(* A block stands for the sequence of its batches, which determine its     *)
(* Merkle root and its bloom filter.  A block that has been handed to its  *)
(* caller survives a crash.                                                *)
(***************************************************************************)
EXTENDS TransactionPool

CONSTANTS
    Packager,     \* the clients that package
    Size,         \* the number of transactions of each batch
    MaxPerBlock,  \* max_multi_txns_per_block
    MaxBlocks,    \* bound on the blocks made
    MaxCrashes    \* bound on the crashes

ASSUME PackagerAssumption == /\ Packager \subseteq Client
                             /\ Size \in [Digest -> Nat]
                             /\ MaxPerBlock \in Nat
                             /\ MaxBlocks \in Nat
                             /\ MaxCrashes \in Nat

VARIABLES
    task,         \* what each packager is packaging
    chain,        \* the blocks handed to the callers, in order
    crashes,      \* history: crashes so far
    admitted,     \* history: the batches that entered the pool, in order
    interrupted   \* history: the unfinished tasks that a crash cut off

history == <<crashes, admitted, interrupted>>
allVars == <<vars, task, chain, history>>

\* batches: the selected ones; left: those still to be removed.
Task == [stage : {"none", "packed", "handed"}, whole : BOOLEAN,
         batches : Seq(Digest), left : Seq(Digest)]
NoTask == [stage |-> "none", whole |-> FALSE, batches |-> <<>>, left |-> <<>>]

Block == [whole : BOOLEAN, batches : Seq(Digest)]

-----------------------------------------------------------------------------
(* _select_transactions: in the order of the pool, or by falling number of *)
(* transactions with a stable sort.                                        *)

Before(p, i, j) ==
    \/ Size[p[i]] > Size[p[j]]
    \/ Size[p[i]] = Size[p[j]] /\ i < j

Rank(p, i) == Cardinality({j \in DOMAIN p : Before(p, j, i)}) + 1

BySize(p) == [k \in DOMAIN p |-> p[CHOOSE i \in DOMAIN p : Rank(p, i) = k]]

Orders(p) == [fifo |-> p, fee |-> BySize(p)]

\* Mutant: the slice takes the end of the list.
Select_Last(p, strategy) ==
    SubSeq(Orders(p)[strategy],
           IF Len(p) > MaxPerBlock THEN Len(p) - MaxPerBlock + 1 ELSE 1, Len(p))

Select(p, strategy) ==
    SubSeq(Orders(p)[strategy],
           1, IF Len(p) < MaxPerBlock THEN Len(p) ELSE MaxPerBlock)

\* Mutant: everything that was in the pool is removed, not what was selected.
TaskFor_All(p, whole, strategy) ==
    [stage |-> "packed", whole |-> whole,
     batches |-> Select(p, strategy), left |-> p]

TaskFor(p, whole, strategy) ==
    [stage |-> "packed", whole |-> whole,
     batches |-> Select(p, strategy), left |-> Select(p, strategy)]

\* package_transactions: a copy of the pool is taken under the lock.  The one
\* call always selects in the order of the pool.
Package(t) ==
    /\ task[t] = NoTask
    /\ job[t] = Idle
    /\ holder = NoThread
    /\ Len(chain) < MaxBlocks
    /\ \E whole \in BOOLEAN : \E strategy \in {"fifo", "fee"} :
          /\ whole => strategy = "fifo"
          /\ task' = [task EXCEPT ![t] = TaskFor(pool, whole, strategy)]
    /\ UNCHANGED <<vars, chain, history>>

\* The caller gets the block that create_block_from_package made: at the end
\* of the one call, before the removals otherwise.
HandOver(t) ==
    /\ task[t].stage = "packed"
    /\ job[t] = Idle
    /\ task[t].whole => task[t].left = <<>>
    /\ chain' = Append(chain, [whole |-> task[t].whole,
                               batches |-> task[t].batches])
    /\ task' = [task EXCEPT ![t] = IF task[t].whole THEN NoTask
                                   ELSE [@ EXCEPT !.stage = "handed"]]
    /\ UNCHANGED <<vars, history>>

\* remove_packaged_transactions.
Removing(t) == task[t].stage = IF task[t].whole THEN "packed" ELSE "handed"

RemoveNext(t) ==
    /\ Removing(t)
    /\ task[t].left # <<>>
    /\ RemoveStart(t, Head(task[t].left))
    /\ task' = [task EXCEPT ![t].left = Tail(@)]
    /\ UNCHANGED <<chain, history>>

\* The batch has left the pool meanwhile: remove_multi_transactions is FALSE.
RemoveMissing(t) ==
    /\ Removing(t)
    /\ job[t] = Idle
    /\ holder = NoThread
    /\ task[t].left # <<>>
    /\ digest_index[Head(task[t].left)] = 0
    /\ task' = [task EXCEPT ![t].left = Tail(@)]
    /\ UNCHANGED <<vars, chain, history>>

Finish(t) ==
    /\ task[t].stage = "handed"
    /\ job[t] = Idle
    /\ task[t].left = <<>>
    /\ task' = [task EXCEPT ![t] = NoTask]
    /\ UNCHANGED <<vars, chain, history>>

-----------------------------------------------------------------------------
(* The rest of the system.                                                 *)

Submit(t) ==
    \/ /\ \E d \in Digest : Validate(t, d)
       /\ UNCHANGED <<task, chain, history>>
    \/ /\ Enter(t)
       /\ admitted' = Append(admitted, job[t].digest)
       /\ UNCHANGED <<task, chain, crashes, interrupted>>

Crash ==
    /\ crashes < MaxCrashes
    /\ Restart
    /\ crashes' = crashes + 1
    /\ interrupted' = interrupted \cup ({task[t] : t \in Packager} \ {NoTask})
    /\ task' = [t \in Packager |-> NoTask]
    /\ UNCHANGED <<chain, admitted>>

PoolStep ==
    /\ \/ \E d \in Digest : Create(d)
       \/ \E t \in Client \ Packager : Clear(t)
       \/ \E t \in Packager : RemoveFinish(t)
       \/ \E t \in Thread : RebuildStep(t)
       \/ Expire
       \/ Load
       \/ Tick
    /\ UNCHANGED <<task, chain, history>>

PackInit ==
    /\ Init
    /\ task = [t \in Packager |-> NoTask]
    /\ chain = <<>>
    /\ crashes = 0
    /\ admitted = <<>>
    /\ interrupted = {}

PackNext ==
    \/ \E t \in Packager :
          \/ Package(t) \/ HandOver(t)
          \/ RemoveNext(t) \/ RemoveMissing(t) \/ Finish(t)
    \/ \E t \in Client \ Packager : Submit(t)
    \/ Crash
    \/ PoolStep

PackSpec == PackInit /\ [][PackNext]_allVars

-----------------------------------------------------------------------------
(* Properties.                                                             *)

PackTypeOK ==
    /\ TypeOK
    /\ task \in [Packager -> Task]
    /\ chain \in Seq(Block)
    /\ crashes \in 0..MaxCrashes
    /\ admitted \in Seq(Digest)
    /\ interrupted \subseteq Task

Occurrences(s, d) == Cardinality({i \in DOMAIN s : s[i] = d})
Included == FlattenSeq([i \in DOMAIN chain |-> chain[i].batches])

\* A single packager on a sound database puts a batch in blocks at most as
\* often as it entered the pool, whatever is added, expired, cleared or
\* reloaded while it packages.  Only a stepwise caller that crashed before it
\* had removed a batch meets it again.
PaidByAdmission ==
    ~faulted =>
        \A d \in Digest :
            \/ Occurrences(Included, d) <= Occurrences(admitted, d)
            \/ \E k \in interrupted : k.stage = "handed" /\ Contains(k.batches, d)

\* A batch marked processed, and so never offered again, is in a block, or in
\* the package of a one call that runs; it is lost only with such a call that a
\* crash cut off before it returned its block.
InChain(d) == \E i \in DOMAIN chain : Contains(chain[i].batches, d)

ProcessedInBlock ==
    \A r \in rows : r.processed =>
        \/ InChain(r.digest)
        \/ \E t \in Packager : task[t].whole /\ Contains(task[t].batches, r.digest)
        \/ \E k \in interrupted : k.whole /\ Contains(k.batches, r.digest)

\* Batches that entered the pool once are in the blocks of a single packager
\* in the order in which they entered, over crashes and reloads, if it selects
\* in the order of the pool.
ChainInOrder ==
    ~faulted /\ IsInjective(admitted) /\ (\A i \in DOMAIN chain : chain[i].whole) =>
        \A i, j \in DOMAIN Included : \A m, n \in DOMAIN admitted :
            i < j /\ Included[i] = admitted[m] /\ Included[j] = admitted[n] => m < n
=============================================================================
