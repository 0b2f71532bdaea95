--------------------------- MODULE TransactionPool ---------------------------
(***************************************************************************)
(* The transaction pool of EZchain (EZ_Transaction_Pool/TransactionPool.py)*)
(*                                                                         *)
(* A pool is a list of batches (MultiTransactions), two indices over the   *)
(* list, and an SQLite table that survives the process.  Client threads    *)
(* add and remove batches, a daemon thread expires old ones, and the       *)
(* process may die and reload the table at any moment.                     *)
(*                                                                         *)
(* All writers hold the pool's lock, but validation reads digest_index     *)
(* WITHOUT the lock, so a batch is validated in one step and entered in a  *)
(* later one, and the reader can look at the index while another thread is *)
(* in the middle of _rebuild_indices.  The rebuild is therefore a loop of  *)
(* steps here (RebuildStep), with the lock held.                           *)
(*                                                                         *)
(* Abstractions.  A batch is named by its digest: everything the pool      *)
(* reads of it is a function of the digest (Batch).  Positions are 1-based *)
(* and 0 stands for an absent key.  The statistics counters, which no      *)
(* operation of the pool reads back, and the validation_results table,     *)
(* which nothing reads, are left out.                                      *)
(***************************************************************************)
EXTENDS Integers, Sequences, FiniteSets, SequencesExt

CONSTANTS
    Digest,       \* the digests of the batches that wallets build
    Sender,       \* the addresses batches are sent from
    NoSender,     \* an empty sender field
    Batch,        \* what validation reads of each batch (see BatchType)
    Client,       \* the threads that call the pool
    Cleaner,      \* the daemon thread of _start_cleanup_thread
    Main,         \* the thread that runs __init__
    NoThread,     \* the lock is free
    NoDigest,     \* a thread's call has no argument
    MaxAge,       \* max_age_hours
    TzOffset,     \* local time minus UTC, in the unit of the clock
    MaxTime,      \* bound on the clock
    MaxRows       \* bound on the number of adds (rows ever inserted)

Thread == Client \cup {Cleaner, Main}

\* What validate_multi_transactions looks at: the batch's own sender, the
\* senders of its transactions (empty: no transaction), the state of the
\* batch's signature and of the weakest of the transactions' signatures.
BatchType == [sender : Sender \cup {NoSender},
              txnSenders : SUBSET Sender,
              signature : {"none", "bad", "good"},
              txnSignature : {"none", "bad", "good"}]

ASSUME BatchAssumption == Batch \in [Digest -> BatchType]
ASSUME NoValueAssumption == /\ NoSender \notin Sender
                            /\ NoDigest \notin Digest
ASSUME ThreadAssumption == /\ Cleaner \notin Client
                           /\ Main \notin Client
                           /\ Main # Cleaner
                           /\ NoThread \notin Thread
ASSUME ClockAssumption == /\ MaxAge \in Nat
                          /\ TzOffset \in Int
                          /\ MaxTime \in Nat
                          /\ MaxRows \in Nat

VARIABLES
    \* memory, lost by a crash
    pool,           \* self.pool, a sequence of digests
    digest_index,   \* self.digest_index, position by digest
    sender_index,   \* self.sender_index, positions by sender
    indexed,        \* how many entries of pool the indices cover
    holder,         \* which thread holds self.lock
    job,            \* what each thread is doing
    todo,           \* rows the holder still has to load or to drop
    doomed,         \* rows deleted by the cleaner's open transaction
    \* storage, kept over a crash
    rows,           \* the table multi_transactions
    nextId,         \* its AUTOINCREMENT counter
    \* the world
    now,            \* the UTC clock
    born,           \* UTC time at which each batch was built
    \* history
    faulted         \* some database operation has failed

memory == <<pool, digest_index, sender_index, indexed>>
work == <<job, todo, doomed>>
storage == <<rows, nextId>>
clock == <<now, born>>
vars == <<memory, holder, work, storage, clock, faulted>>

Unborn == -1
Row == [id : Nat, digest : Digest, processed : BOOLEAN]
Job == [op : {"idle", "validated", "removing", "expiring", "loading"},
        digest : Digest \cup {NoDigest}]
Idle == [op |-> "idle", digest |-> NoDigest]

SenderOf(d) == Batch[d].sender
InPool(d) == Contains(pool, d)

-----------------------------------------------------------------------------
(* Formal validation: checks 1 to 5 of validate_multi_transactions, with   *)
(* (key = TRUE) or without the sender's public key.                        *)
WellFormed(d) ==
    /\ Batch[d].txnSenders # {}                                   \* 1
    /\ Batch[d].sender # NoSender                                 \* 2
    /\ \E s \in Sender : Batch[d].txnSenders = {s}                \* 3
    /\ Batch[d].signature # "none"                                \* 4
    /\ Batch[d].txnSignature # "none"                             \* 5

SignaturesVerify(d) ==
    /\ Batch[d].signature = "good"
    /\ Batch[d].txnSignature = "good"

Passes(d, key) == WellFormed(d) /\ (key => SignaturesVerify(d))

-----------------------------------------------------------------------------
(* The indices.                                                            *)

ClearIndices ==
    /\ digest_index' = [d \in Digest |-> 0]
    /\ sender_index' = [s \in Sender |-> <<>>]
    /\ indexed' = 0

\* Enter batch d, at position i, in both indices.
IndexEntry(d, i) ==
    /\ digest_index' = [digest_index EXCEPT ![d] = i]
    /\ sender_index' =
         [sender_index EXCEPT ![SenderOf(d)] = Append(@, i)]
    /\ indexed' = i

\* self.pool.append and the two index updates that follow it.
AppendEntry(d) ==
    /\ pool' = Append(pool, d)
    /\ IndexEntry(d, Len(pool) + 1)

\* Mutant: the entry is deleted and the indices are left as they are.
DropEntry_NoRebuild(d) ==
    /\ pool' = RemoveAt(pool, digest_index[d])
    /\ UNCHANGED <<digest_index, sender_index, indexed>>

\* Mutant: the entry's own keys are deleted, the later positions not shifted.
DropEntry_NoShift(d) ==
    /\ pool' = RemoveAt(pool, digest_index[d])
    /\ digest_index' = [digest_index EXCEPT ![d] = 0]
    /\ sender_index' = [sender_index EXCEPT ![SenderOf(d)] =
                           SelectSeq(@, LAMBDA i : i # digest_index[d])]
    /\ indexed' = indexed - 1

\* del self.pool[index] for the index the digest has, then the clear() calls
\* at the head of _rebuild_indices; RebuildStep does the rest.
DropEntry(d) ==
    /\ pool' = RemoveAt(pool, digest_index[d])
    /\ ClearIndices

Rebuilding == indexed < Len(pool)

\* The loop of _rebuild_indices, one entry per step: between two steps an
\* unlocked reader sees an index that covers only a prefix of the pool.
RebuildStep(t) ==
    /\ holder = t
    /\ Rebuilding
    /\ IndexEntry(pool[indexed + 1], indexed + 1)
    /\ UNCHANGED <<pool, holder, work, storage, clock, faulted>>

-----------------------------------------------------------------------------
(* Adding a batch.                                                         *)

\* A wallet builds batch d (MultiTransactions.__init__ stamps the time).
Create(d) ==
    /\ born[d] = Unborn
    /\ born' = [born EXCEPT ![d] = now]
    /\ UNCHANGED <<memory, holder, work, storage, now, faulted>>

\* The bound on adds: rows inserted so far and adds under way.
AddsUnderWay == {t \in Client : job[t].op = "validated"}
MayAdd == nextId + Cardinality(AddsUnderWay) <= MaxRows

\* First half of add_multi_transactions: validation, the duplicate check on
\* digest_index included, without the lock.  A refused batch changes nothing.
\* No thread has the pool before __init__ has loaded it.
Validate(t, d) ==
    /\ holder # Main
    /\ job[t] = Idle
    /\ born[d] # Unborn
    /\ MayAdd
    /\ \E key \in BOOLEAN : Passes(d, key)
    /\ digest_index[d] = 0                                        \* 6
    /\ job' = [job EXCEPT ![t] = [op |-> "validated", digest |-> d]]
    /\ UNCHANGED <<memory, holder, todo, doomed, storage, clock, faulted>>

\* Mutant: a plain INSERT into a table without UNIQUE(digest).
InsertOrReplace_Insert(d) ==
    rows \cup {[id |-> nextId, digest |-> d, processed |-> FALSE]}

\* Mutant: INSERT OR IGNORE, which keeps an old row as it is.
InsertOrReplace_Ignore(d) ==
    IF \E r \in rows : r.digest = d THEN rows ELSE InsertOrReplace_Insert(d)

\* INSERT OR REPLACE: the row of the digest is replaced by a new one, with
\* a new id and processed at its default, FALSE.
InsertOrReplace(d) ==
    {r \in rows : r.digest # d}
      \cup {[id |-> nextId, digest |-> d, processed |-> FALSE]}

\* Second half: append, index and persist, under the lock in one step (the
\* unlocked reader cannot tell apart its intermediate states).  A failing
\* insert is swallowed and the batch stays in memory only.
Enter(t) ==
    /\ job[t].op = "validated"
    /\ holder = NoThread
    /\ AppendEntry(job[t].digest)
    /\ \/ rows' = InsertOrReplace(job[t].digest) /\ UNCHANGED faulted
       \/ faulted' = TRUE /\ UNCHANGED rows
    /\ nextId' = nextId + 1
    /\ job' = [job EXCEPT ![t] = Idle]
    /\ UNCHANGED <<holder, todo, doomed, clock>>

-----------------------------------------------------------------------------
(* remove_multi_transactions.  Of a digest the pool lacks it is a no-op.   *)

RemoveStart(t, d) ==
    /\ job[t] = Idle
    /\ holder = NoThread
    /\ digest_index[d] # 0
    /\ DropEntry(d)
    /\ holder' = t
    /\ job' = [job EXCEPT ![t] = [op |-> "removing", digest |-> d]]
    /\ UNCHANGED <<todo, doomed, storage, clock, faulted>>

\* Mutant: the row is left unprocessed.
MarkProcessed_None(d) == rows

\* UPDATE ... SET processed = TRUE, whose failure is swallowed.
MarkProcessed(d) ==
    {IF r.digest = d THEN [r EXCEPT !.processed = TRUE] ELSE r : r \in rows}

\* Mutant: acquire() and release() around the call, so that a failing UPDATE
\* leaves without the release.
RemoveFinish_KeepsLock(t) ==
    /\ holder = t
    /\ job[t].op = "removing"
    /\ ~Rebuilding
    /\ \/ /\ rows' = MarkProcessed(job[t].digest)
          /\ holder' = NoThread
          /\ UNCHANGED faulted
       \/ faulted' = TRUE /\ UNCHANGED <<rows, holder>>
    /\ job' = [job EXCEPT ![t] = Idle]
    /\ UNCHANGED <<memory, todo, doomed, nextId, clock>>

RemoveFinish(t) ==
    /\ holder = t
    /\ job[t].op = "removing"
    /\ ~Rebuilding
    /\ \/ rows' = MarkProcessed(job[t].digest) /\ UNCHANGED faulted
       \/ faulted' = TRUE /\ UNCHANGED rows
    /\ holder' = NoThread
    /\ job' = [job EXCEPT ![t] = Idle]
    /\ UNCHANGED <<memory, todo, doomed, nextId, clock>>

-----------------------------------------------------------------------------
(* clear_pool: memory first, then the table, whose failure is swallowed.   *)

Clear(t) ==
    /\ job[t] = Idle
    /\ holder = NoThread
    /\ pool' = <<>>
    /\ ClearIndices
    /\ \/ rows' = {} /\ UNCHANGED faulted
       \/ faulted' = TRUE /\ UNCHANGED rows
    /\ UNCHANGED <<holder, work, nextId, clock>>

-----------------------------------------------------------------------------
(* _cleanup_old_transactions, run by the daemon thread.                    *)

\* The row's timestamp is the batch's local time, the cutoff is UTC.
Timestamp(d) == born[d] + TzOffset

\* Mutant: the age is not subtracted.
Cutoff_Now == now

Cutoff == now - MaxAge
Old(r) == ~r.processed /\ Timestamp(r.digest) < Cutoff

\* A table scan answers with the rows in the order of their ids.
IsNext(r) == r \in todo /\ \A q \in todo : r.id <= q.id

\* Mutant: fetchone instead of fetchall.
ExpireStart_One ==
    /\ job[Cleaner] = Idle
    /\ holder = NoThread
    /\ \E r \in rows : Old(r)
    /\ doomed' = {r \in rows : Old(r)}
    /\ todo' = {r \in doomed' : \A q \in doomed' : r.id <= q.id}
    /\ holder' = Cleaner
    /\ job' = [job EXCEPT ![Cleaner].op = "expiring"]
    /\ UNCHANGED <<memory, storage, clock, faulted>>

\* SELECT the old digests and DELETE their rows, in a transaction that stays
\* open.  With nothing to delete the call changes nothing.
ExpireStart ==
    /\ job[Cleaner] = Idle
    /\ holder = NoThread
    /\ \E r \in rows : Old(r)
    /\ doomed' = {r \in rows : Old(r)}
    /\ todo' = doomed'
    /\ holder' = Cleaner
    /\ job' = [job EXCEPT ![Cleaner].op = "expiring"]
    /\ UNCHANGED <<memory, storage, clock, faulted>>

\* The connect, the SELECT or the DELETE raises: the exception is swallowed, the
\* lock released, and nothing has left memory or table in this round.
ExpireFail ==
    /\ job[Cleaner] = Idle
    /\ holder = NoThread
    /\ faulted' = TRUE
    /\ UNCHANGED <<memory, holder, work, storage, clock>>

\* One round of the loop over the old digests: one entry of the digest leaves
\* the pool and the indices are rebuilt.  The SELECT names no order.
ExpireDrop ==
    /\ holder = Cleaner
    /\ ~Rebuilding
    /\ \E r \in todo :
          /\ \/ digest_index[r.digest] # 0 /\ DropEntry(r.digest)
             \/ digest_index[r.digest] = 0 /\ UNCHANGED memory
          /\ todo' = todo \ {r}
    /\ UNCHANGED <<holder, job, doomed, storage, clock, faulted>>

\* COMMIT, or a failure that rolls the DELETE back and is swallowed.
ExpireFinish ==
    /\ holder = Cleaner
    /\ ~Rebuilding
    /\ todo = {}
    /\ \/ rows' = rows \ doomed /\ UNCHANGED faulted
       \/ faulted' = TRUE /\ UNCHANGED rows
    /\ doomed' = {}
    /\ holder' = NoThread
    /\ job' = [job EXCEPT ![Cleaner] = Idle]
    /\ UNCHANGED <<memory, todo, nextId, clock>>

-----------------------------------------------------------------------------
(* A crash, at any moment, and the next __init__: memory and the open      *)
(* transaction are gone.  _load_from_database fetches the unprocessed rows *)
(* (none, if the table cannot be read) and appends them in the order of    *)
(* their ids; a row that cannot be decoded is skipped.                     *)

\* Mutant: WHERE processed = FALSE is forgotten.
Reloadable_All == rows

Reloadable == {r \in rows : ~r.processed}

Restart ==
    /\ pool' = <<>>
    /\ ClearIndices
    /\ holder' = Main
    /\ job' = [t \in Thread |-> IF t = Main
                                THEN [op |-> "loading", digest |-> NoDigest]
                                ELSE Idle]
    /\ doomed' = {}
    /\ \/ todo' = Reloadable /\ UNCHANGED faulted
       \/ todo' = {} /\ faulted' = TRUE
    /\ UNCHANGED <<storage, clock>>

LoadRow ==
    /\ holder = Main
    /\ \E r \in todo :
          /\ IsNext(r)
          /\ \/ AppendEntry(r.digest) /\ UNCHANGED faulted
             \/ UNCHANGED memory /\ faulted' = TRUE
          /\ todo' = todo \ {r}
    /\ UNCHANGED <<holder, job, doomed, storage, clock>>

LoadDone ==
    /\ holder = Main
    /\ todo = {}
    /\ holder' = NoThread
    /\ job' = [job EXCEPT ![Main] = Idle]
    /\ UNCHANGED <<memory, todo, doomed, storage, clock, faulted>>

Tick ==
    /\ now < MaxTime
    /\ now' = now + 1
    /\ UNCHANGED <<memory, holder, work, storage, born, faulted>>

-----------------------------------------------------------------------------
Init ==
    /\ pool = <<>>
    /\ digest_index = [d \in Digest |-> 0]
    /\ sender_index = [s \in Sender |-> <<>>]
    /\ indexed = 0
    /\ holder = NoThread
    /\ job = [t \in Thread |-> Idle]
    /\ todo = {}
    /\ doomed = {}
    /\ rows = {}
    /\ nextId = 1
    /\ now = 0
    /\ born = [d \in Digest |-> Unborn]
    /\ faulted = FALSE

AddMulti(t) == (\E d \in Digest : Validate(t, d)) \/ Enter(t)
RemoveMulti(t) == (\E d \in Digest : RemoveStart(t, d)) \/ RemoveFinish(t)
Expire == ExpireStart \/ ExpireFail \/ ExpireDrop \/ ExpireFinish
Load == LoadRow \/ LoadDone

Next ==
    \/ \E d \in Digest : Create(d)
    \/ \E t \in Client : AddMulti(t) \/ RemoveMulti(t) \/ Clear(t)
    \/ \E t \in Thread : RebuildStep(t)
    \/ Expire
    \/ Restart
    \/ Load
    \/ Tick

Spec == Init /\ [][Next]_vars

\* A thread inside the pool runs on: nothing in the code blocks or waits while
\* it holds the lock.  Taking the lock, calling the pool, crashing and the
\* passing of time are nobody's duty.
HolderSteps ==
    \/ \E t \in Client : RemoveFinish(t)
    \/ \E t \in Thread : RebuildStep(t)
    \/ ExpireDrop \/ ExpireFinish
    \/ Load

Fairness == WF_vars(HolderSteps)

-----------------------------------------------------------------------------
(* Properties.                                                             *)

TypeOK ==
    /\ pool \in Seq(Digest)
    /\ digest_index \in [Digest -> Nat]
    /\ sender_index \in [Sender -> Seq(Nat)]
    /\ indexed \in 0..Len(pool)
    /\ holder \in Thread \cup {NoThread}
    /\ job \in [Thread -> Job]
    /\ rows \subseteq Row
    /\ todo \subseteq rows
    /\ doomed \subseteq rows
    /\ nextId \in Nat
    /\ now \in Nat
    /\ born \in [Digest -> Nat \cup {Unborn}]
    /\ faulted \in BOOLEAN

\* digest_index maps each digest to its last position among the entries
\* covered so far, and only digests that occur there.
DigestIndexExact ==
    \A d \in Digest :
        /\ digest_index[d] \in 0..indexed
        /\ digest_index[d] # 0 => pool[digest_index[d]] = d
        /\ \A i \in 1..indexed : pool[i] = d => i <= digest_index[d]

\* sender_index lists, in ascending order, exactly the positions of each
\* sender's entries among those covered so far.
SenderIndexExact ==
    \A s \in Sender :
        /\ \A k, m \in DOMAIN sender_index[s] :
               k < m => sender_index[s][k] < sender_index[s][m]
        /\ \A k \in DOMAIN sender_index[s] :
               /\ sender_index[s][k] \in 1..indexed
               /\ SenderOf(pool[sender_index[s][k]]) = s
        /\ \A i \in 1..indexed :
               SenderOf(pool[i]) = s =>
                   \E k \in DOMAIN sender_index[s] : sender_index[s][k] = i

\* Who may be doing what, and what the lock protects: only its holder is in
\* the middle of an operation, the cleaner's transaction is open only while it
\* holds the lock, and the indices cover the pool whenever the lock is free.
LockDiscipline ==
    /\ \A t \in Thread :
           /\ job[t].op = "removing" => t \in Client /\ holder = t
           /\ job[t].op = "expiring" => t = Cleaner /\ holder = t
           /\ job[t].op = "loading" => t = Main /\ holder = t
           /\ job[t].op = "validated" => t \in Client
           /\ job[t].op \in {"validated", "removing"} => job[t].digest \in Digest
           /\ job[t].op = "idle" => job[t] = Idle
    /\ holder = Cleaner => job[Cleaner].op = "expiring"
    /\ holder = Main => job[Main].op = "loading"
    /\ holder \in Client => job[holder].op = "removing"
    /\ holder \notin {Cleaner, Main} => todo = {}
    /\ holder # Cleaner => doomed = {}
    /\ holder \in {NoThread, Main} => indexed = Len(pool)

\* Only batches that passed formal validation are in the pool, in the table or
\* on their way there, however often the pool was reloaded.
AdmittedOnly ==
    /\ \A i \in DOMAIN pool : WellFormed(pool[i])
    /\ \A r \in rows : WellFormed(r.digest)
    /\ \A t \in Thread :
           job[t].op = "validated" => WellFormed(job[t].digest)

\* Whoever gets the lock finds both indices exact for the whole pool, after
\* any interleaving of adds, removals, expiry, clearing, faults and reloads:
\* the lookups by digest and by sender, and del self.pool[index], never hit a
\* wrong batch or a position that is gone.
IndexConsistent ==
    holder = NoThread =>
        /\ indexed = Len(pool)
        /\ DigestIndexExact
        /\ SenderIndexExact

\* As long as no database operation has failed, every unprocessed row is
\* also in memory when the lock is free: a reload brings nothing back that
\* the running pool had already given up, such as a removed or expired batch.
NothingResurrected ==
    holder = NoThread /\ ~faulted =>
        \A r \in rows : ~r.processed => InPool(r.digest)

\* The pool holds no batch twice.
NoDuplicateDigest ==
    \A i, j \in DOMAIN pool : pool[i] = pool[j] => i = j

\* Whatever races took place before a crash, a reload ends with a pool that
\* holds each batch once: duplicates do not survive in the table.
ReloadDistinct == holder = Main => NoDuplicateDigest

\* Whatever the cleaner takes out of the pool, or deletes from the table, was
\* built more than max_age_hours ago; no other batch pays for it, wherever the
\* positions in the pool have moved meanwhile.
Copies(p, d) == Cardinality({i \in DOMAIN p : p[i] = d})

ExpiresOnlyOld ==
    [][\A d \in Digest :
          /\ holder = Cleaner
          /\ holder' # Main
          /\ \/ Copies(pool', d) < Copies(pool, d)
             \/ \E r \in rows \ rows' : r.digest = d
          => now - born[d] > MaxAge]_vars

\* The lock is always released again, unless the process keeps crashing: the
\* rebuild, load and expiry loops end, on every path.
LockReleased ==
    <>[][~Restart]_vars => (holder # NoThread ~> holder = NoThread)

-----------------------------------------------------------------------------
(* The callers' discipline under which the pool is exact: a batch is not   *)
(* submitted while it is in the pool or under way to it.                   *)

Fresh(d) == /\ ~InPool(d)
            /\ \A t \in Client : job[t].op = "validated" => job[t].digest # d

Disciplined ==
    \A t \in Client :
        job'[t].op = "validated" /\ job[t].op # "validated" =>
            Fresh(job'[t].digest)

\* As long as there are old rows, rounds of the cleaner get through to the end
\* of their DELETE again and again.  The code contributes the endless loop of
\* _start_cleanup_thread, which no exception leaves.  The rest is assumed of
\* its surroundings: the scheduler does not pass the thread over for ever when
\* it asks for the lock, and the database does not fail for ever, that is,
\* ExpireFail is not all that happens.  Commits may go on failing.
RoundsGetThrough == SF_vars(ExpireStart)

DisciplinedSpec == /\ Init
                   /\ [][Next /\ Disciplined]_vars
                   /\ Fairness
                   /\ RoundsGetThrough

\* With disciplined callers and a sound database, the pool is, entry by entry
\* and in the same order, what a reload would build from the table: a crash
\* while nobody is inside the pool loses nothing and brings nothing back.
RestartInvisible ==
    holder = NoThread /\ ~faulted =>
        LET live == {r \in rows : ~r.processed} IN
        /\ Cardinality(live) = Len(pool)
        /\ \A r \in live :
               pool[Cardinality({q \in live : q.id <= r.id})] = r.digest

\* A batch that is in the pool and in the table, and older than max_age_hours,
\* does not stay in the pool, whatever removals, failing rounds, failing commits
\* and reloads come between, unless the process keeps crashing or the cleaner
\* never gets through a round again (RoundsGetThrough).
Overdue(d) ==
    /\ InPool(d)
    /\ \E r \in rows : r.digest = d /\ Old(r)

ExpiresEventually ==
    <>[][~Restart]_vars => \A d \in Digest : (Overdue(d) ~> ~InPool(d))

-----------------------------------------------------------------------------
(* The pool keeps the promises of PoolSpec.  What is waiting is what the   *)
(* running pool holds, while nobody is inside it, and what the table holds *)
(* otherwise: removal, expiry and clearing take effect when their database *)
(* transaction does, and a crash, which loses the memory, changes nothing. *)

Live == {r \in rows : ~r.processed}
Waiting == IF holder = NoThread THEN {d \in Digest : InPool(d)}
                                ELSE {r.digest : r \in Live}

Promised == INSTANCE PoolSpec WITH waiting <- Waiting, sound <- ~faulted

\* Disciplined callers see an atomic, durable pool, as long as no database
\* operation has failed: no half-done removal, expiry or reload shows.
PromisesKept == Promised!Spec

=============================================================================
