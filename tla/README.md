# TLA+ models of EZchain

EZchain is a research blockchain in Python. An account owns *values*, intervals
of numbered units; it pays by signing a batch of transactions that name values;
batches wait in a *transaction pool* that is backed by SQLite, and a *packager*
makes them into blocks. This directory holds TLA+ models of that system, TLC
configurations that check them on small instances, and theorems that TLAPS
proves for every value of the constants.

All paths below are relative to `src/`.

## 1. The system

| component | state | operations |
|---|---|---|
| transaction pool, `EZ_Transaction_Pool/TransactionPool.py` | a list of batches; `digest_index` and `sender_index` with positions in it; an `RLock`; a SQLite table `multi_transactions` that survives the process; a daemon thread | `add_multi_transactions`, `remove_multi_transactions`, `clear_pool`, `_cleanup_old_transactions` (every so often, by the daemon), `_load_from_database` (at start), look-ups by digest and sender |
| block packaging, `EZ_Transaction_Pool/PackTransactions.py` | none of its own; a call holds a copy of the pool, the selection and the block | `package_transactions`, `create_block_from_package`, `remove_packaged_transactions`; `package_transactions_from_pool` does all three |
| values, `EZ_Value/Value.py` | first unit, number of units, one of four states | split, intersection, inclusion, identity |
| value collection, `EZ_Value/AccountValueCollection.py` | a doubly linked list of values, an index of nodes by state, `_decimal_begin_map` | add, remove, split, change of state, look-ups, clean-up, merging (marked as unused) |
| value selection, `EZ_Value/AccountPickValues.py` | the collection | greedy choice with a split for the change, commit, confirm, roll back, clean up |
| transaction creation, `EZ_Transaction/CreateSingleTransaction.py`, `CreateMultiTransactions.py` | the selector | create (select, sign, commit), confirm |
| transactions and batches, `EZ_Transaction/SingleTransaction.py`, `MultiTransactions.py` | sender, values, signature, digest, time | encode, hash, sign, verify |
| block, `EZ_Main_Chain/Block.py` | header, Bloom filter | hash, encode |
| Bloom filter, `EZ_Block_Units/Bloom.py` | bit array, optionally compressed | add, look up, compress |
| Merkle tree and proofs, `EZ_Block_Units/MerkleTree.py`, `MerkleProof.py`, `Proof.py` | a tree and its proofs | build, prove, verify |
| checkpoints, `EZ_Block_Units/VPBCheckPoint.py` | a list of (value, owner, height) | add or refresh, look up |
| transaction injector, `EZ_Simulation/` | a load generator | submit batches |
| signatures and hashing, `EZ_Tool_Box/` | none | sign, verify, hash |
| main chain, `EZ_Main_Chain/Blockchian.py` | the file is empty | |

How they interact. An account's thread creates a batch: the creator asks the
selector for values, the selector splits and marks nodes of the collection, the
batch is signed and its values are marked committed. Any thread hands batches to
the pool. The pool's daemon thread expires old ones. A packager copies the pool,
selects, makes a block and removes the batches from the pool. Once a batch is on
the chain the creator is told to confirm it, and a clean-up deletes the values
spent. A crash loses the pool's memory; the next start reloads the table.

What is hard, and what makes each component correct:

* **The pool** is shared by threads and by two stores. Its writers hold the lock,
  but validation, which includes the check for duplicates, reads `digest_index`
  without it; positions shift with every deletion; the two indices are rebuilt
  entry by entry; database errors are swallowed; the process may die between
  memory and table. It is correct when the indices are exact whenever the lock is
  free, no batch is in it twice, the table agrees with memory so that a crash
  neither loses nor resurrects a batch, only old batches are expired, and the lock
  is always released.
* **Packaging** works on a stale copy while others add, expire and clear. It is
  correct when each admitted batch is in at most one block, when no batch is marked
  processed without being in a block, and when blocks keep the order of arrival.
* **The wallet** (values, collection, selection, creation) is sequential, but its
  calls fail halfway, its nodes are looked up by value, and its state index is a
  second copy of the states. It is correct when units are neither lost nor
  counted twice, amounts are paid exactly, no unit is promised twice, and only
  units that the account owns can be spent.
* **The list of values** has four links to set right in every change and three
  indices beside it. It is correct when all of them agree, whatever was added,
  split, merged and removed in whatever order, and when its users see a plain
  sequence of values.
* **Signatures** are made at one moment of a wallet's life and checked at another;
  in between the values that were signed change their states.
* **Blocks** are objects that go on being used: their filters switch between two
  forms under every operation, reading ones included, while other blocks are linked to
  them. The Merkle tree has levels of odd length. They are correct when no sender is
  denied, links stay valid, and proofs are accepted for members only.

`PROJECT.json` lists every hazard at its line with the properties that cover it, or says why none does: properties that
are promised until a database operation fails, to callers with a discipline, or but for a crash
do not cover the hazard that they except.

## 2. Modules

| module | contents |
|---|---|
| `TransactionPool` | the pool with threads, table, clock, faults and crashes |
| `MCTransactionPool` | instances: batches, symmetry, time zone |
| `PoolSpec` | what a pool promises: a set of waiting batches that changes in single steps |
| `TransactionPoolRefinement` | the pool keeps that promise; expiry and restarts |
| `TransactionPoolProofs` | typing, the lock, exact indices; memory and table, duplicates, reloads |
| `Packager` (extends `TransactionPool`) | packagers over the pool, the chain of blocks |
| `MCPackager` | its instances |
| `PackagerProofs` | the composition implements the pool; no batch lost, none paid twice, blocks in order |
| `EZValue`, `EZValueProofs` | intervals and their laws |
| `SecureSignature` | hashes and signatures as terms |
| `Wallet` (extends `EZValue`, `SecureSignature`) | collection, selection, creation, signing, confirmation, roll-back |
| `MCWallet` | all intervals over a few units |
| `WalletProofs` | typing, exact state index, exact amounts |
| `WalletSafetyProofs` | conservation of units, pledges, signatures |
| `ValueSeq` | what a collection is to its users: a sequence of values |
| `ValueList` (extends `EZValue`) | the doubly linked list with its indices, every public operation |
| `MCValueList` | two values that follow one another |
| `ValueListProofs` | the list is a list; it implements the sequence |
| `Merkle` (extends `SecureSignature`) | construction of the tree, proofs, verification |
| `Bloom` | the two forms of a filter and the operations that change them |
| `BlockUnits` (extends `Merkle`, `Bloom`) | blocks made on blocks, and what is done to them afterwards |
| `MCBlockUnits` | packages of even and odd length, two senders |
| `BlockUnitsProofs` | the filters; links pin the history down; proofs for members and for nobody else |

### TransactionPool

| TLA+ | code |
|---|---|
| `pool`, `digest_index`, `sender_index` | the attributes of that name; positions count from 1, and 0 is an absent key |
| `indexed` | how far the loop of `_rebuild_indices` has come |
| `holder`, `job` | who holds `self.lock`, and the call each thread is in |
| `todo` | the result set the holder works through (`old_digests`, the rows being loaded) |
| `doomed` | rows deleted by the cleaner's transaction, which is open |
| `rows`, `nextId` | the table and its AUTOINCREMENT counter (only the order of ids matters; here it counts failing inserts too, as it bounds the adds) |
| `now`, `born` | the UTC clock, and when each batch was built |
| `faulted` | history: some database operation has failed |

`Validate` is the unlocked half of `add_multi_transactions` and `Enter` the locked
one. `RemoveStart`, `RebuildStep` and `RemoveFinish` are
`remove_multi_transactions`: delete, rebuild, UPDATE. `Clear` is `clear_pool`.
`ExpireStart`, `ExpireDrop`, `RebuildStep` and `ExpireFinish` are
`_cleanup_old_transactions`: SELECT and DELETE in an open transaction, one digest of
the loop (in any order, as the SELECT names none), COMMIT or roll-back; `ExpireFail` is a round whose connect,
SELECT or DELETE raises, which the code swallows and which changes nothing. `Restart`, `LoadRow` and `LoadDone` are a crash and the next
`__init__`. Where one critical section is one action (`Enter`, `Clear`) the
unlocked reader, which asks for one key, cannot tell the difference; where it can
(the rebuild) there is a step for every entry.

Abstractions: a batch is its digest, and what validation reads of it is a function
`Batch` of the digest. The `SELECT` of `_load_from_database` has no `ORDER BY`; rows come
in the order of a table scan, by id. The statistics counters and the table
`validation_results`, which no operation reads, are left out.

### Packager

`task` is what a packager has in hand; `chain` the blocks that callers have been
given. In the mode *whole* (`package_transactions_from_pool`) the batches leave the pool
first and the caller gets the block at the return; in the mode *stepwise* the caller
uses the methods of `TransactionPackager` and has the block before it removes. `Package` is
`package_transactions` with its copy of the pool, `HandOver` the block, `RemoveNext`
and `RemoveMissing` are the loop of `remove_packaged_transactions`. `Select` is
`_select_transactions`: FIFO, or a stable sort by number of transactions, then the
limit. A block stands for the sequence of its batches; one that was handed over
survives a crash. Every pool action is taken from `TransactionPool` as it is.

### PoolSpec

`PoolSpec` has a set `waiting`, a clock and nothing else: batches are admitted and taken one at
a time, the old ones leave together, a restart is no step at all. The refinement mapping is
`Waiting` in `TransactionPool`: while nobody is inside the pool, what it holds is what
is waiting; while somebody is, it is what the table has unprocessed. So a removal happens
at its UPDATE, an expiry at its COMMIT, an admission at the end of `Enter`, and a
crash maps to a stutter. The promise is made to disciplined callers, and until a database operation fails.

### EZValue and Wallet

Values are intervals of numbers. `is_same_value` compares the hexadecimal strings of the code; they are
equal exactly when the numbers are, for values whose first unit is written as `hex()` writes it (`0xa`, not `0x0A`). Values that
the code makes are; what a caller passes in may not be, and the model leaves that out. In `Wallet`, `coll` is the collection: nodes numbered
in the order of insertion, which is the order `_find_node_by_value` searches; the
state index; the next number. `draft` is the create call under way, a loop that can
stop at any request; `open` the results that were returned and not yet settled.
`Begin`, `Pick`, `Refuse`, `SignFails` and `Seal` are `create_transaction` and
`create_multi_transactions`; a single transaction is a batch of one request.
`Confirm`, `Rollback`, `Cleanup` and `Receive` are the other calls. `find_by_state` iterates over a set, so the
greedy loop sees the nodes in any order: `Greedy` says which ends are possible.
`held` (units received and not cleaned up) and `owned` (units that are the account's on the
chain) are history.

A transaction's signatures are terms over what was serialized when they were made. The
transaction holds the very `Value` objects of the collection, so serializing it
again uses the states of that later moment: `SerializeValues` (with states, for batches) and
`SerializeValuesForSigning` (without, for transactions) take them from the nodes. Sender, recipient,
nonce and time are the same at both moments and left out. Cryptography is perfect: a
signature verifies for its own data and key and for nothing else.

Assumed of callers: a result is settled once, by a confirmation or a roll-back; a
value is received only when the chain has given it to the account (`Receive`'s third
guard). `DisciplinedSpec` adds that spent values are cleaned up before an
overlapping one is received; what happens otherwise is a finding.

### ValueList

The same collection as a data structure: `head`, `tail`, `next`, `prev`, `size`, `_state_index`
(`states`) and `_decimal_begin_map` (`begins`) are fields of `l`, and `_index_map` is the
domain of `entry`. Every public operation that changes it is an action, at any
node, in any order, with overlapping and repeated values; those that only read are operators
(`Listing`, `ValidateNoOverlap`). `Link` and `Unlink` are the pointer updates that the code
writes out at each place. A value object is in one node at a time; adding one object
twice, whose two nodes would then share a state, is left out. The refinement
mapping to `ValueSeq` is the walk from `head` along `next`; `ValueListProofs` proves that the list
implements the sequence, and every invariant of the run.

### Merkle, Bloom and BlockUnits

Hashes are terms, so that two are equal only if the hashed data are. `Levels` is the list of
`build_tree` after each pass of its loop: pairs are taken from the front, their fathers
appended, and the node left over moves from the front to the end. `CheckPrf` is `check_prf`.
A `Bloom` filter has two fields that may be None, as sets of at most one
element. `Compress` and `Decompress` move the bits from one to the other; which of them the
operations call, and so what form they leave, is kept (`get_statistics` leaves a filter
compressed that was not, despite its comment "Restore original state", `EZ_Block_Units/Bloom.py:149`).

In `BlockUnits`, `blocks` has the blocks in the order of their making, on any earlier block;
`made` is history. `CreateBlock` is `create_block_from_package` with the Merkle root and the senders that
`package_transactions` computes; the rest is what holders of a block do. `GetHash` hashes
`str(self.bloom)`, which is the constant `BloomFilter()`: the class is a subclass of `set` that
never has an element, and its bits are an attribute. The link to a predecessor therefore does not pin down
that block's filter, and `ParentPinned` says exactly what it does, but for the time in the header: the model has
none, so that blocks which differ in nothing else count as the same block, while the code's
hashes tell them apart. `Decompress` has no error path: no operation makes data that it cannot unpack.

## 3. Runs

| run | question | answer |
|---|---|---|
| `pool_concurrent` | two clients, the cleaner, faults and crashes, anything submitted at any time | typing, exact indices (`IndexConsistent`), nothing a reload brings back (`NothingResurrected`), no duplicates after a reload (`ReloadDistinct`), only old batches expire (`ExpiresOnlyOld`): all hold |
| `pool_disciplined` | the same with callers that never submit a batch which the pool has or is getting | no duplicates, a reload would rebuild the pool entry by entry (`RestartInvisible`), the lock is always released (`LockReleased`), old batches leave in the end, if the database does not fail every round of the cleaner for ever (`ExpiresEventually`), the pool implements `PoolSpec` (`PromisesKept`): all hold |
| `pool_duplicate` | does the duplicate check keep duplicates out? | no, see findings |
| `pool_west` | does the cleaner spare young batches in every time zone? | no, see findings |
| `packager` | a packager beside a client, the cleaner, clearing, faults and a crash | inclusion once per admission (`PaidByAdmission`), nothing processed outside a block (`ProcessedInBlock`), order of arrival (`ChainInOrder`): hold, with the exceptions for crashes that the properties name |
| `wallet` | receiving, paying with batches that may fail, confirming, rolling back, cleaning up | exact state index, conservation (`Partition`), exact amounts (`PaysExactly`), no double promise (`NotPledgedTwice`), committed exactly what results pay with (`CommittedExactly`), only owned units spendable (`SpendableOwned`), transactions verify at any time after their creation (`TransactionsVerify`): all hold |
| `wallet_return`, `wallet_orphan`, `wallet_change` | three promises of the code's comments | do not hold, see findings |
| `wallet_signature` | does a batch verify when it is returned? | no, see findings |
| `collection` | every operation of the list, in any order and with any values | links, listings and size agree (`LinksAgree`), so does the state index (`StateIndexAgrees`), the overlap check is exact (`ValidationExact`), units are conserved as long as disjoint values are added and following ones merged (`UnitsConserved`), the list is a sequence (`IsSequence`): all hold |
| `block` | blocks in use while others are made on them | one form at a time (`OneForm`), no sender denied (`NoFalseNegative`), links hold and pin the history down (`ParentPinned`), proofs for members (`MembersProve`) and for nobody else (`OnlyMembersProve`): all hold |

**Bounds.** The pool's runs have two clients, two or three digests and three or four
inserts. Two clients are enough for the race of the unlocked check, which is between
one reader and one writer; four inserts of two or three digests allow a batch to be entered
twice and to be entered again after it was processed, and a third entry whose position
shifts when an earlier one is deleted. Clock values 0 to 2 with `MaxAge` 1 have batches on
both sides of the cutoff and on it. Crashes are not bounded there, nor are faults.
`packager` has one packager, blocks of one batch and a limit of two blocks: the
limit cuts every larger pool, and a third admission leaves a batch to be met again after
the crash. `wallet` has all intervals over four units, two requests of up to two units in each of three
calls, and receives while fewer than five nodes were made: splits of split values, selections of several
values, results settled in either order, and units that return after they were
spent. `collection` makes up to four nodes of two values that follow one another: with four nodes a
node has neighbours on both sides that themselves have neighbours, values are split, merged again in
the right and in the wrong order, and the same value occurs twice. `block` makes three blocks on a genesis
block, in chains and in forks, of packages of 0, 1, 2, 5 and 7 batches and two in the other
order: five and seven leave a node over at one level and at two, one and none are the special
cases of the code. `OnlyMembersProve` tries every part of a real proof, and every real proof with one element
replaced by any hash at hand, for each batch that is not in the block. `MayAdd`, `MaxTime`, `MaxBlocks`, `MaxCrashes`, `MaxCalls`, `MaxNodes`, `MaxAmount` and
`MaxRequests` are the bounds; no other guard is there for the sake of TLC.

**Deadlock** is checked in every run: the pool can always restart. The packager and wallet
runs end nowhere either: a `Load`, `Clear` or `Cleanup` is always possible.

**Fairness.** `Fairness == WF_vars(HolderSteps)`: whoever holds the pool's lock goes on.
Nothing in a critical section waits: no second lock, no I/O that the code waits
for indefinitely, no callback; SQLite calls return or raise. Each action that makes such a call has an
outcome for its failure, which sets `faulted` (`Enter`, `RemoveFinish`, `Clear`, `ExpireFinish`, `Restart`, `LoadRow`),
or an action of its own beside it (`ExpireFail` beside `ExpireStart`). No fairness is assumed of taking the lock (an `RLock` promises none), of clients,
of crashes or of the clock. `LockReleased` is stated accordingly: each crash makes the
loading thread the holder, so a lock is promised to be released in behaviours where the
process stops crashing.

`DisciplinedSpec` adds `RoundsGetThrough == SF_vars(ExpireStart)`: as long as there are old rows, rounds of the
cleaner get to the end of their DELETE again and again. Three things are in that. The daemon thread goes round for
ever; that is the code's doing (`while True` in `_start_cleanup_thread`, and
`_cleanup_old_transactions` catches every exception). A thread that asks for a free lock again and
again gets it some time; that is an assumption about the scheduler, which Python does not promise, and
without it other threads can keep the cleaner out. And connect, SELECT and DELETE do not fail in every
round from some time on; that is an assumption about the database. Rounds may fail as often as they like before and after
one that does not (`ExpireFail`), but if all of them fail, say because the file has become read-only, an old batch
stays in the pool for ever. The COMMIT may fail every time: the batches have left
memory by then, and come back only with a crash. `ExpiresEventually` needs the assumption and nothing
else does. It promises departure to batches that have a row: one whose INSERT failed has none, the cleaner
finds it never, and it stays until it is removed. The model computes the cleaner's cutoff when it gets the lock;
the code does so just before, which makes the cutoff older by the time it waits and
never lets a batch expire earlier.

**Mutants.** Beside most definitions stands a mutant, `X_Something`, which is the
definition with a plausible bug. It occurs in no specification; put in place of `X`
it makes the run that `PROJECT.json` names report a violation. They show that
each property depends on the code it is about.

## 4. Findings

* **Duplicates in the pool** (`pool_duplicate`): the check for duplicates is not
  repeated under the lock. Two threads that add one batch both succeed.
* **Early expiry** (`pool_west`): timestamps are local (`datetime.now()`), the cutoff
  is UTC (`time.gmtime`). West of Greenwich batches expire too early, east of it too late.
* **Returned values** (`wallet_return`): state changes look nodes up by value and
  hit the oldest. A value that returns before its spent copy is cleaned up can be
  selected again and again.
* **Orphaned selections** (`wallet_orphan`): a call that fails at a later request, or while it signs, leaves
  the values it had selected SELECTED, and nobody can roll them back.
* **Lost change** (`wallet_change`): confirming a transaction marks its change as spent;
  the clean-up deletes the account's own money.

* **Batches that do not verify** (`wallet_signature`): a batch is signed over values in state
  SELECTED, and the commit right after makes them LOCAL_COMMITTED. Transactions are
  signed without the states and do verify (`TransactionsVerify`).

Less than findings, as the repository claims nothing else: the hash of a block does not
cover its filter's bits, although `block_to_str` lists the filter; merging neighbours of the
list whose values do not follow one another makes units the account never had (hence the
condition of `UnitsConserved`); a crash between
the deletion from memory and the UPDATE brings a removed batch back, hence the
exceptions of `PaidByAdmission`; the one-call packager marks batches as processed
before its caller has the block, hence the exception of `ProcessedInBlock`; two packagers
that copy the pool at once include the same batches; the checkpoint list
(`EZ_Block_Units/VPBCheckPoint.py`) calls methods that `Value` no longer has.

## 5. Proofs

The theorems hold for every number of threads, batches, senders, units, calls and so
on. They rest on the named assumptions of the modules: `BatchAssumption` and
`NoValueAssumption` (what a batch is, and that the placeholders are no values),
`ThreadAssumption` (the threads are distinct), `ClockAssumption`,
`PackagerAssumption` (packagers are clients, sizes and bounds are numbers), `CoinAssumption` (coins
are intervals), `StateAssumption` (the two states the list itself uses are states), `BoundAssumption`,
`PositionsAssumption` (the positions of an item are numbers) and `BlockAssumption` (packages are
sequences of batches, the empty one among them, and senders are items). TLC evaluates each of them.
Hypotheses beyond these stand in the theorems themselves and are named below.

* **The pool's indices** (`TypeCorrect`, `LockProtects`, `IndicesExact`).
  `IndexConsistent` speaks of moments when the lock is free, so it is not inductive: it
  says nothing of a rebuild in progress. The inductive invariant `IndexInv` says that both
  indices are exact for the first `indexed` entries at *every* moment, that only the
  holder is in the middle of an operation and the indices cover the pool when the
  lock is free (`LockDiscipline`), and that only well-formed batches are in the pool or
  the table (`AdmittedOnly`, without which `sender_index` might lack a sender).
* **Memory and table** (`NothingComesBack`). `TableInv`: one row per digest; the cleaner has
  still to drop only what it deletes; every unprocessed row is in memory, or is
  accounted for by the holder's work, which will delete it, mark it or load it.
* **Duplicates** (`DisciplineSuffices`). `FreshInv`: no duplicates, no batch both in the pool and on
  its way there, no row to be loaded that is already in the pool. It is
  the guarantee that `pool_duplicate` shows to be missing without the discipline.
* **Reloads** (`ReloadsOnce`): one row per digest is a part of `TableInv`, and so no
  reload brings a batch back twice, for any callers, faults and crashes.
* **The pool keeps its promise** (`PoolImplements`). Every step of `DisciplinedSpec` maps to
  a step of `PoolSpec` or a stutter. The invariant adds to the ones above that memory
  and unprocessed rows agree whenever the lock is free and nothing has failed, and what the holder has still to do to make
  them agree. Needed are the discipline (a second copy would stay after the first one's
  removal) and `TzOffset = 0` (elsewhere batches leave that are not too old, `pool_west`).
* **Expiry takes the old only** (`ExpiresOld`). `DoomedAged`: the rows the cleaner has deleted
  in its open transaction are old, and what it drops from memory is one of them. It needs no discipline, but
  `TzOffset >= 0`: west of Greenwich young batches expire, which is what `pool_west` shows.
* **A restart is invisible** (`RestartRestores`). `OrderInv`: rows have ids of their own, the pool is in the
  order of its rows' ids, and what is left to load has larger ids than what is loaded. With memory
  and table agreeing at rest, the pool enumerates the unprocessed rows in their order. Needs
  the discipline (a digest added twice has one row), and holds until a database operation fails.
* **Composition** (`PoolUnderPackagers`). Every step of `PackSpec` is a step of the
  pool or leaves the pool alone, so all theorems about the pool hold under
  packagers. The proof needs that what a packager removes is a batch, and for that `RankOnto`: the
  stable sort by size is a permutation.
* **No batch lost** (`PackTypeCorrect`, `NoBatchLost`). `PackInv`: who is removing a batch has it in
  a block that was handed over, or is a one-call packager whose package holds it; rows become
  processed by the end of a removal only.
* **Nothing is paid twice** (`NothingPaidTwice`, for a single packager: `Packager = {p}`). `PaidByAdmission`
  compares blocks with admissions and says nothing of what memory and table still offer, so it is not
  inductive. `BalanceInv` is an account for each batch (`Balanced`): its occurrences in blocks, in the package
  at hand, in memory and in what a reload has still to load are at most its admissions
  and the removals that are due; and what the table would offer after a crash has not been paid, unless
  its removal is due. It excuses the batches (`Excused`) that a stepwise caller had in hand when it
  crashed, as the property does. `TableInv` supplies that one digest has one row.
* **Blocks in order** (`BlocksInOrder`, for a single packager). `RowsInv`: the id of a row is the place of
  its batch among the admissions, so that table order is order of arrival and a
  reload cannot change it. `OrderInv`: blocks, then the package at hand, then memory and the
  unprocessed rows that the packager does not have to remove are in the order of arrival.
* **Values** (`SplitPartition`, `IntersectMeaning`, `InMeaning`, `IntersectExact`): the operations of
  `Value.py` on first and last units mean what they should on sets of units.
* **The wallet** (`TypeCorrect`, `IndexExact`). `IndexInv`: each collection operation
  keeps the state index exact, for any collection that has an exact one. Holds without any
  discipline of callers.
* **Exact amounts** (`AmountsExact`). The sum that `PaysExactly` speaks of is a fold over a set, in
  an order nobody knows. `FoldIsHeap`: it is the number of pairs of a member and a number below its value
  (`Heap`), whatever the order. So a member can be exchanged for a smaller one, which is what splitting
  the last value does. Holds without any discipline of callers.
* **Conservation** (`UnitsKept`). `TilesInv`: the nodes' values are disjoint and cover exactly
  `held`. It needs `DisciplinedSpec`, for which `Disjoint` keeps a received
  value apart from all others.
* **Pledges** (`NeverPledgedTwice`, `CommittedByResults`, `OnlyOwnedSpendable`, `SignaturesHold`). `WalletInv`
  adds `PledgeInv` to the two above. It speaks of the transactions made and not settled
  (`Made`: those of the open results and of the call under way): what they pay with is committed, or selected
  while the call runs, and their change is selected (`Marked`); no value is twice in them
  (`Separate`); every committed value is paid by one (`Answered`); each part is signed over its values
  (`Signed`); and whatever is not confirmed is owned (`Owned`). None of these is inductive alone: a
  settlement removes nodes by their state, and only `Answered` and `Separate` together say
  that what it removes was its own.
* **Filters** (`FiltersInOneForm`, `FiltersNeverDeny`). `FilterInv`: every filter is the plain or
  the packed form of some bits that contain the positions of everything added. The two
  need one another: an operation that read a form which is not there would lose items.

* **The list** (`TypeCorrect`, `LinksCorrect`, `StateIndexCorrect`, `UnitsKept`, `ValidationCorrect` of `ValueListProofs`).
  `ListInv`: there *is* a sequence of all nodes, each once, that `next` follows from `head` and `prev` follows
  backwards from `tail` (`InOrder`); the state index is exact; and as long as the units are
  sound the values tile the units held and `begins` finds each by its first unit (`Tiles`). Each
  operation is shown to turn such a sequence into another one, and a walk along the links to list
  it (`WalkFollows`).
* **The list is a sequence** (`CollectionIsSequence`). Under that mapping each operation is the step of
  `ValueSeq` that its name says, at the place of its node. `clear_spent_values` removes one node after another,
  and its loop is shown to be one step of the sequence by induction on the nodes left.
* **The chain** (`LinksPinHistory`). `ChainInv`: every block but genesis has the index and the hash of
  an earlier block, and its root is that of its batches, whatever was done to filters. Blocks with
  one hash have one header and, unless they are genesis, parents with one hash, so by induction on
  the generation they have one history; the converse is by induction on the index.
* **Merkle trees** (`MembersAccepted`, `OnlyMembersAccepted`, `NobodyElseProves`). `Levels` and `PrfList` are folds; both are shown to be
  iterates of one pass of the loop they model (`LevelsByPasses`, `PrfListByClimbs`). Every level
  then tiles the digests with the ranges its nodes stand for (`Tiled`), and every
  hash of the tree is that of a digest or of two neighbouring ranges (`Grounded`). From this: two packages with
  one root are equal (`RootInjective`, by the smallest pair of ranges that differ under one hash);
  each node but the root has a father in a later level, so that the climb from a leaf ends at the root and its proof is
  accepted (`PrfListReaches`); and a proof that is accepted leads down from the root to a digest of the package
  (`AcceptedIsMember`). That holds of any sequence that is offered, not only of the altered proofs that the run
tries, and `NobodyElseProves` says so.

`LinksPinHistory`, `OnlyMembersAccepted` and `NobodyElseProves` have the hypothesis `DigestsAtomic`: a digest is not the pair of
two values. In the code an inner node hashes two digests in a row, 128 characters, and a leaf hashes a
digest, 64 characters, so that the two are never the same data. Without it a package of two batches
and a package of one whose digest is their pair would have one root.

**Induction.** The library's induction theorems take an operator as a parameter, which the installed provers
cannot instantiate. The proofs use the least counterexample instead: a set of numbers that is not empty has a least
member (`LeastNumber` and `Least`, from `WFMin`), and `UpTo` makes induction up to a bound of it, for a property
given as a set. Recursive functions, folds among them, are CHOOSEn: each is shown to have a solution, by
extending partial ones or by giving one, and then to satisfy its equation.

Only model-checked: `LockReleased` and `ExpiresEventually`, as liveness under fairness is out of the
prover's reach. Every other property of a passing run is a theorem, some under the
hypotheses named above.

## 6. Not modelled

* **Checkpoints** (`EZ_Block_Units/VPBCheckPoint.py`): written against an earlier `Value`; every call after
  the first raises `AttributeError`, and nothing calls the class. There is no behaviour to be
  faithful to; the interval algorithms it would use are in `EZValue`.
* **The injector and the examples** (`EZ_Simulation/`) are a load on the pool, whose clients
  call it in any order already. Their statistics are printed and decide nothing.
* **The statistics counters** and the table `validation_results` of the pool: nothing reads them back.
* **Key memory** (`SecureMemoryHandler`) and `temp_signature.py`, whose signature is over a miner's name.
* **Encodings** (pickle, JSON of transactions), `tx_hash`, `set_digest`: layout, or values that nothing
  compares afterwards.
* **`Proof.py`** is a list, **`utils.py`** random helpers, **`Blockchian.py`** is empty.
* **Two packagers**: nothing reserves a batch, so both include it; the repository does not claim otherwise.

## 7. Running

    tlc -workers 2 -config pool_concurrent.cfg MCTransactionPool
    tlapm TransactionPoolProofs.tla

`pool_concurrent` and `packager` visit about three million distinct states each, `wallet`
a million, `block` 390 thousand, `collection` and `pool_disciplined` under 30 thousand;
each takes well under two minutes.
