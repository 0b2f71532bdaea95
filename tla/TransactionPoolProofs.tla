------------------------ MODULE TransactionPoolProofs ------------------------
(***************************************************************************)
(* Theorems about TransactionPool, for every set of threads, digests and   *)
(* senders, every clock setting and every bound.                           *)
(***************************************************************************)
EXTENDS TransactionPool, SequenceTheorems, TLAPS

IndexInv == /\ TypeOK
            /\ LockDiscipline
            /\ AdmittedOnly
            /\ DigestIndexExact
            /\ SenderIndexExact

-----------------------------------------------------------------------------
(* Sequences.                                                              *)

\* del s[i] shortens s by one and shifts the entries behind i.
LEMMA RemoveAtFacts ==
    ASSUME NEW S, NEW s \in Seq(S), NEW i \in 1..Len(s)
    PROVE  /\ RemoveAt(s, i) \in Seq(S)
           /\ Len(RemoveAt(s, i)) = Len(s) - 1
           /\ \A k \in 1..(Len(s) - 1) :
                 RemoveAt(s, i)[k] = IF k < i THEN s[k] ELSE s[k + 1]
<1> DEFINE a == SubSeq(s, 1, i - 1)
           b == SubSeq(s, i + 1, Len(s))
<1>1. /\ a \in Seq(S) /\ Len(a) = i - 1
      /\ \A k \in 1..(i - 1) : a[k] = s[k]
  BY SubSeqProperties
<1>2. /\ b \in Seq(S) /\ Len(b) = Len(s) - i
      /\ \A k \in 1..(Len(s) - i) : b[k] = s[k + i]
  BY SubSeqProperties
<1> HIDE DEF a, b
<1>3. /\ a \o b \in Seq(S)
      /\ Len(a \o b) = Len(a) + Len(b)
      /\ \A k \in 1..(Len(a) + Len(b)) :
            (a \o b)[k] = IF k <= Len(a) THEN a[k] ELSE b[k - Len(a)]
  BY <1>1, <1>2, ConcatProperties
<1>4. RemoveAt(s, i) = a \o b
  BY DEF RemoveAt, a, b
<1>5. Len(s) \in Nat /\ Len(a) + Len(b) = Len(s) - 1
  BY <1>1, <1>2
<1>6. ASSUME NEW k \in 1..(Len(s) - 1)
      PROVE  (a \o b)[k] = IF k < i THEN s[k] ELSE s[k + 1]
  <2>1. CASE k < i
    BY <1>1, <1>3, <1>5, <2>1
  <2>2. CASE k >= i
    <3>1. k - (i - 1) \in 1..(Len(s) - i) /\ k - (i - 1) + i = k + 1
      BY <1>5, <2>2
    <3>2. (a \o b)[k] = b[k - (i - 1)]
      BY <1>1, <1>3, <1>5, <2>2
    <3>3. b[k - (i - 1)] = s[(k - (i - 1)) + i]
      BY <1>2, <3>1
    <3>4. ~(k < i)
      BY <1>5, <2>2
    <3> QED  BY <3>1, <3>2, <3>3, <3>4, Zenon
  <2> QED  BY <1>5, <2>1, <2>2
<1> QED  BY <1>3, <1>4, <1>5, <1>6

\* What is left after del s[i] was in s, and all that differs from s[i] stays.
LEMMA RemoveAtElements ==
    ASSUME NEW S, NEW s \in Seq(S), NEW i \in 1..Len(s)
    PROVE  /\ \A k \in DOMAIN RemoveAt(s, i) :
                 \E j \in DOMAIN s : RemoveAt(s, i)[k] = s[j]
           /\ \A j \in DOMAIN s : s[j] # s[i] =>
                 \E k \in DOMAIN RemoveAt(s, i) : RemoveAt(s, i)[k] = s[j]
<1> DEFINE q == RemoveAt(s, i)
<1>1. /\ q \in Seq(S) /\ Len(q) = Len(s) - 1
      /\ \A k \in 1..(Len(s) - 1) : q[k] = IF k < i THEN s[k] ELSE s[k + 1]
  BY RemoveAtFacts
<1> HIDE DEF q
<1>2. DOMAIN q = 1..(Len(s) - 1) /\ DOMAIN s = 1..Len(s)
  BY <1>1
<1>3. ASSUME NEW k \in DOMAIN q
      PROVE  \E j \in DOMAIN s : q[k] = s[j]
  BY <1>1, <1>2, <1>3
<1>4. ASSUME NEW j \in DOMAIN s, s[j] # s[i]
      PROVE  \E k \in DOMAIN q : q[k] = s[j]
  <2>1. CASE j < i  BY <1>1, <1>2, <2>1
  <2>2. CASE j > i
    <3>1. j - 1 \in 1..(Len(s) - 1) /\ q[j - 1] = s[j]
      BY <1>1, <1>2, <2>2
    <3> QED  BY <3>1, <1>2
  <2> QED  BY <1>4, <2>1, <2>2, <1>2
<1> QED  BY <1>3, <1>4 DEF q

-----------------------------------------------------------------------------
(* The indices.                                                            *)

\* The two clear() calls leave indices that are exact for the empty prefix.
LEMMA ClearExact ==
    ASSUME ClearIndices, pool' \in Seq(Digest)
    PROVE  /\ digest_index' \in [Digest -> Nat]
           /\ sender_index' \in [Sender -> Seq(Nat)]
           /\ indexed' \in 0..Len(pool')
           /\ DigestIndexExact'
           /\ SenderIndexExact'
<1>1. /\ digest_index' = [d \in Digest |-> 0]
      /\ sender_index' = [s \in Sender |-> <<>>]
      /\ indexed' = 0
  BY DEF ClearIndices
<1>2. DigestIndexExact'
  BY <1>1 DEF DigestIndexExact
<1>3. SenderIndexExact'
  BY <1>1 DEF SenderIndexExact
<1> QED  BY <1>1, <1>2, <1>3

\* Entering the next position keeps the indices exact for one entry more.
LEMMA EntryExact ==
    ASSUME TypeOK, DigestIndexExact, SenderIndexExact,
           NEW d \in Digest, SenderOf(d) \in Sender,
           pool' \in Seq(Digest), indexed < Len(pool'),
           \A i \in 1..indexed : pool'[i] = pool[i],
           pool'[indexed + 1] = d,
           IndexEntry(d, indexed + 1)
    PROVE  /\ digest_index' \in [Digest -> Nat]
           /\ sender_index' \in [Sender -> Seq(Nat)]
           /\ indexed' \in 0..Len(pool')
           /\ DigestIndexExact'
           /\ SenderIndexExact'
<1> DEFINE n == indexed + 1
           s == SenderOf(d)
           list == sender_index[s]
<1>1. /\ indexed \in Nat /\ indexed' = n
      /\ digest_index \in [Digest -> Nat]
      /\ sender_index \in [Sender -> Seq(Nat)]
      /\ list \in Seq(Nat)
  BY DEF TypeOK, IndexEntry
<1>2. /\ digest_index' \in [Digest -> Nat]
      /\ digest_index'[d] = n
      /\ \A e \in Digest \ {d} : digest_index'[e] = digest_index[e]
  BY <1>1 DEF IndexEntry
<1>3. /\ sender_index' \in [Sender -> Seq(Nat)]
      /\ sender_index'[s] = Append(list, n)
      /\ \A u \in Sender \ {s} : sender_index'[u] = sender_index[u]
  BY <1>1 DEF IndexEntry
<1> HIDE DEF n, s
<1>n. n = indexed + 1 /\ n \in Nat \ {0} /\ s \in Sender /\ s = SenderOf(d)
  BY <1>1 DEF n, s
<1>p. pool'[n] = d /\ \A i \in 1..indexed : pool'[i] = pool[i]
  BY <1>n
<1>4. DigestIndexExact'
  <2>1. ASSUME NEW e \in Digest
        PROVE  /\ digest_index'[e] \in 0..n
               /\ digest_index'[e] # 0 => pool'[digest_index'[e]] = e
               /\ \A i \in 1..n : pool'[i] = e => i <= digest_index'[e]
    <3>1. /\ digest_index[e] \in 0..indexed
          /\ digest_index[e] # 0 => pool[digest_index[e]] = e
          /\ \A i \in 1..indexed : pool[i] = e => i <= digest_index[e]
      BY DEF DigestIndexExact
    <3>2. CASE e = d  BY <3>2, <1>1, <1>2, <1>n, <1>p
    <3>3. CASE e # d
      <4>1. digest_index'[e] = digest_index[e]
        BY <3>3, <1>2
      <4>2. \A i \in 1..n : pool'[i] = e => i \in 1..indexed /\ pool[i] = e
        BY <3>3, <1>1, <1>n, <1>p
      <4>3. digest_index[e] # 0 => pool'[digest_index[e]] = e
        <5>1. digest_index[e] # 0 => digest_index[e] \in 1..indexed
          BY <3>1
        <5> QED  BY <3>1, <5>1, <1>p
      <4>4. digest_index'[e] \in 0..n
        BY <3>1, <4>1, <1>1, <1>n
      <4>5. \A i \in 1..n : pool'[i] = e => i <= digest_index'[e]
        BY <3>1, <4>1, <4>2
      <4> QED  BY <4>1, <4>3, <4>4, <4>5
    <3> QED  BY <3>2, <3>3
  <2> QED  BY <2>1, <1>1 DEF DigestIndexExact
<1>5. /\ Len(Append(list, n)) = Len(list) + 1
      /\ \A k \in 1..Len(list) : Append(list, n)[k] = list[k]
      /\ Append(list, n)[Len(list) + 1] = n
      /\ DOMAIN Append(list, n) = 1..(Len(list) + 1)
      /\ DOMAIN list = 1..Len(list) /\ Len(list) \in Nat
  BY <1>1, <1>n, AppendProperties
<1> HIDE DEF list
<1>6. ASSUME NEW u \in Sender
      PROVE  /\ \A k, m \in DOMAIN sender_index'[u] :
                    k < m => sender_index'[u][k] < sender_index'[u][m]
             /\ \A k \in DOMAIN sender_index'[u] :
                    /\ sender_index'[u][k] \in 1..n
                    /\ SenderOf(pool'[sender_index'[u][k]]) = u
             /\ \A i \in 1..n : SenderOf(pool'[i]) = u =>
                    \E k \in DOMAIN sender_index'[u] : sender_index'[u][k] = i
  <2>1. /\ \A k, m \in DOMAIN sender_index[u] :
              k < m => sender_index[u][k] < sender_index[u][m]
        /\ \A k \in DOMAIN sender_index[u] :
              /\ sender_index[u][k] \in 1..indexed
              /\ SenderOf(pool[sender_index[u][k]]) = u
        /\ \A i \in 1..indexed : SenderOf(pool[i]) = u =>
              \E k \in DOMAIN sender_index[u] : sender_index[u][k] = i
    BY DEF SenderIndexExact
  <2>2. \A k \in DOMAIN sender_index[u] :
           SenderOf(pool'[sender_index[u][k]]) = u
    BY <2>1, <1>p
  <2>3. \A i \in 1..indexed : SenderOf(pool'[i]) = u =>
           \E k \in DOMAIN sender_index[u] : sender_index[u][k] = i
    BY <2>1, <1>p
  <2>4. CASE u # s
    <3>1. sender_index'[u] = sender_index[u]
      BY <2>4, <1>3
    <3>2. SenderOf(pool'[n]) # u
      BY <2>4, <1>n, <1>p
    <3>3. \A i \in 1..n : i = n \/ i \in 1..indexed
      BY <1>1, <1>n
    <3>4. 1..indexed \subseteq 1..n
      BY <1>1, <1>n
    <3> QED  BY <2>1, <2>2, <2>3, <3>1, <3>2, <3>3, <3>4
  <2>5. CASE u = s
    <3>1. list = sender_index[u] /\ sender_index'[u] = Append(list, n)
      BY <2>5, <1>3 DEF list
    <3> DEFINE new == Append(list, n)
    <3> HIDE DEF new
    <3>2. /\ DOMAIN new = 1..(Len(list) + 1) /\ DOMAIN list = 1..Len(list)
          /\ Len(list) \in Nat
          /\ \A k \in 1..Len(list) : new[k] = list[k] /\ list[k] \in 1..indexed
          /\ new[Len(list) + 1] = n
      BY <2>1, <3>1, <1>5 DEF new
    <3>3. \A k, m \in DOMAIN new : k < m => new[k] < new[m]
      <4> SUFFICES ASSUME NEW k \in DOMAIN new, NEW m \in DOMAIN new, k < m
                   PROVE  new[k] < new[m]
        OBVIOUS
      <4>1. CASE m = Len(list) + 1
        <5>1. k \in 1..Len(list)
          BY <3>2, <4>1
        <5>2. new[k] \in 1..indexed /\ new[m] = n
          BY <3>2, <4>1, <5>1
        <5> QED  BY <5>2, <1>1, <1>n
      <4>2. CASE m # Len(list) + 1
        <5>1. k \in DOMAIN list /\ m \in DOMAIN list
          BY <3>2, <4>2
        <5>2. list[k] < list[m]
          BY <2>1, <3>1, <5>1
        <5> QED  BY <3>2, <5>1, <5>2
      <4> QED  BY <4>1, <4>2
    <3>4. \A k \in DOMAIN new : new[k] \in 1..n /\ SenderOf(pool'[new[k]]) = u
      <4> SUFFICES ASSUME NEW k \in DOMAIN new
                   PROVE  new[k] \in 1..n /\ SenderOf(pool'[new[k]]) = u
        OBVIOUS
      <4>1. CASE k = Len(list) + 1
        BY <2>5, <3>2, <4>1, <1>n, <1>p
      <4>2. CASE k # Len(list) + 1
        <5>1. k \in DOMAIN list /\ new[k] = list[k] /\ list[k] \in 1..indexed
          BY <3>2, <4>2
        <5>2. SenderOf(pool'[list[k]]) = u
          BY <2>2, <3>1, <5>1
        <5> QED  BY <5>1, <5>2, <1>1, <1>n
      <4> QED  BY <4>1, <4>2
    <3>5. ASSUME NEW i \in 1..n, SenderOf(pool'[i]) = u
          PROVE  \E k \in DOMAIN new : new[k] = i
      <4>1. CASE i = n
        BY <3>2, <4>1
      <4>2. CASE i # n
        <5>1. PICK k \in DOMAIN list : list[k] = i
          BY <2>3, <3>1, <3>5, <4>2, <1>1, <1>n
        <5> QED  BY <3>2, <5>1
      <4> QED  BY <4>1, <4>2
    <3> QED  BY <3>1, <3>3, <3>4, <3>5 DEF new
  <2> QED  BY <2>4, <2>5
<1>7. SenderIndexExact'
  BY <1>1, <1>6 DEF SenderIndexExact, SenderOf
<1> QED  BY <1>1, <1>2, <1>3, <1>4, <1>7, <1>n

\* del self.pool[index] of a digest that is in the index removes one of its
\* entries, and no other.
LEMMA DropFacts ==
    ASSUME TypeOK, DigestIndexExact, NEW d \in Digest,
           digest_index[d] # 0, DropEntry(d)
    PROVE  /\ pool' \in Seq(Digest)
           /\ \A k \in DOMAIN pool' : \E j \in DOMAIN pool : pool'[k] = pool[j]
           /\ \A e \in Digest \ {d} : InPool(e) => InPool(e)'
           /\ ClearIndices
<1> DEFINE i == digest_index[d]
<1>1. pool \in Seq(Digest) /\ i \in 1..Len(pool) /\ pool[i] = d
  BY DEF TypeOK, DigestIndexExact
<1>2. pool' = RemoveAt(pool, i) /\ ClearIndices
  BY DEF DropEntry
<1>3. pool' \in Seq(Digest)
  BY <1>1, <1>2, RemoveAtFacts
<1>4. /\ \A k \in DOMAIN pool' : \E j \in DOMAIN pool : pool'[k] = pool[j]
      /\ \A j \in DOMAIN pool : pool[j] # d =>
            \E k \in DOMAIN pool' : pool'[k] = pool[j]
  BY <1>1, <1>2, RemoveAtElements
<1>5. DOMAIN pool = 1..Len(pool) /\ DOMAIN pool' = 1..Len(pool')
  BY <1>1, <1>3
<1> QED  BY <1>2, <1>3, <1>4, <1>5 DEF InPool, Contains

\* A well-formed batch has a sender.
LEMMA WellFormedSender ==
    \A d \in Digest : WellFormed(d) => SenderOf(d) \in Sender
BY BatchAssumption DEF WellFormed, SenderOf, BatchType

\* Appending a batch keeps the indices exact, if they covered the whole pool.
LEMMA AppendExact ==
    ASSUME TypeOK, DigestIndexExact, SenderIndexExact, indexed = Len(pool),
           NEW d \in Digest, SenderOf(d) \in Sender, AppendEntry(d)
    PROVE  /\ pool' \in Seq(Digest)
           /\ Len(pool') = Len(pool) + 1
           /\ \A i \in 1..Len(pool) : pool'[i] = pool[i]
           /\ pool'[Len(pool) + 1] = d
           /\ indexed' = Len(pool')
           /\ digest_index' \in [Digest -> Nat]
           /\ sender_index' \in [Sender -> Seq(Nat)]
           /\ DigestIndexExact'
           /\ SenderIndexExact'
<1>1. pool \in Seq(Digest) /\ Len(pool) \in Nat
  BY DEF TypeOK
<1>2. pool' = Append(pool, d) /\ IndexEntry(d, indexed + 1)
  BY DEF AppendEntry
<1>3. /\ pool' \in Seq(Digest) /\ Len(pool') = Len(pool) + 1
      /\ \A i \in 1..Len(pool) : pool'[i] = pool[i]
      /\ pool'[Len(pool) + 1] = d
  BY <1>1, <1>2, AppendProperties
<1>4. indexed' = Len(pool')
  BY <1>2, <1>3 DEF IndexEntry
<1>5. indexed < Len(pool')
  BY <1>1, <1>3
<1>6. /\ \A i \in 1..indexed : pool'[i] = pool[i]
      /\ pool'[indexed + 1] = d
  BY <1>3
<1>7. /\ digest_index' \in [Digest -> Nat]
      /\ sender_index' \in [Sender -> Seq(Nat)]
      /\ DigestIndexExact'
      /\ SenderIndexExact'
  BY <1>2, <1>3, <1>5, <1>6, EntryExact
<1> QED  BY <1>3, <1>4, <1>7

-----------------------------------------------------------------------------
(* The inductive invariant.                                                *)

\* The empty pool.
LEMMA IndexInvInit == Init => IndexInv
<1> SUFFICES ASSUME Init PROVE IndexInv
  OBVIOUS
<1>0. <<>> \in Seq(Digest) /\ <<>> \in Seq(Nat) /\ Len(<<>>) = 0
  OBVIOUS
<1>a. sender_index \in [Sender -> Seq(Nat)]
  BY <1>0 DEF Init
<1>b. job \in [Thread -> Job]
  BY DEF Init, Job, Idle
<1>c. /\ pool \in Seq(Digest) /\ indexed \in 0..Len(pool)
      /\ digest_index \in [Digest -> Nat]
      /\ born \in [Digest -> Nat \cup {Unborn}]
  BY <1>0 DEF Init
<1>d. /\ holder \in Thread \cup {NoThread}
      /\ rows \subseteq Row /\ todo \subseteq rows /\ doomed \subseteq rows
      /\ nextId \in Nat /\ now \in Nat /\ faulted \in BOOLEAN
  BY DEF Init
<1>1. TypeOK
  BY <1>a, <1>b, <1>c, <1>d DEF TypeOK
<1>2. LockDiscipline
  BY ThreadAssumption DEF Init, LockDiscipline, Idle, Thread
<1>3. AdmittedOnly
  BY DEF Init, AdmittedOnly, Idle
<1>4. DigestIndexExact /\ SenderIndexExact
  BY DEF Init, DigestIndexExact, SenderIndexExact
<1> QED  BY <1>1, <1>2, <1>3, <1>4 DEF IndexInv

\* Steps that leave the pool and its indices alone.
LEMMA QuietExact ==
    ASSUME DigestIndexExact, SenderIndexExact, UNCHANGED memory
    PROVE  DigestIndexExact' /\ SenderIndexExact'
BY DEF DigestIndexExact, SenderIndexExact, memory

\* Building a batch touches neither the pool nor the table.
LEMMA CreateStep ==
    ASSUME IndexInv, NEW d \in Digest, Create(d)
    PROVE  IndexInv'
<1> USE DEF IndexInv, Create
<1>1. TypeOK'
  BY DEF TypeOK, memory, work, storage
<1>2. LockDiscipline' /\ AdmittedOnly'
  BY DEF LockDiscipline, AdmittedOnly, memory, work, storage
<1> QED  BY <1>1, <1>2, QuietExact

\* A batch that is on its way to the pool has passed validation.
LEMMA ValidateStep ==
    ASSUME IndexInv, NEW t \in Client, NEW d \in Digest, Validate(t, d)
    PROVE  IndexInv'
<1> USE DEF IndexInv, Validate
<1>1. /\ t \in Thread /\ job'[t] = [op |-> "validated", digest |-> d]
      /\ \A u \in Thread \ {t} : job'[u] = job[u]
      /\ job[t] = Idle
  BY DEF TypeOK, Thread
<1>2. TypeOK'
  BY DEF TypeOK, memory, storage, clock, Job
<1>3. LockDiscipline'
  BY <1>1 DEF LockDiscipline, memory, Idle, TypeOK
<1>4. AdmittedOnly'
  BY <1>1 DEF AdmittedOnly, memory, storage, Passes
<1> QED  BY <1>2, <1>3, <1>4, QuietExact

\* Time passes.
LEMMA TickStep ==
    ASSUME IndexInv, Tick
    PROVE  IndexInv'
<1> USE DEF IndexInv, Tick
<1>1. TypeOK'
  BY DEF TypeOK, memory, work, storage
<1>2. LockDiscipline' /\ AdmittedOnly'
  BY DEF LockDiscipline, AdmittedOnly, memory, work, storage
<1> QED  BY <1>1, <1>2, QuietExact

\* One round of _rebuild_indices covers one entry more.
LEMMA RebuildStepStep ==
    ASSUME IndexInv, NEW t \in Thread, RebuildStep(t)
    PROVE  IndexInv'
<1> USE DEF IndexInv, RebuildStep
<1> DEFINE d == pool[indexed + 1]
<1>1. /\ pool \in Seq(Digest) /\ indexed \in Nat /\ Len(pool) \in Nat
      /\ indexed < Len(pool) /\ pool' = pool
  BY DEF TypeOK, Rebuilding
<1>2. d \in Digest /\ WellFormed(d)
  BY <1>1 DEF AdmittedOnly
<1>3. SenderOf(d) \in Sender
  BY <1>2, WellFormedSender
<1>4. /\ digest_index' \in [Digest -> Nat]
      /\ sender_index' \in [Sender -> Seq(Nat)]
      /\ indexed' \in 0..Len(pool')
      /\ DigestIndexExact'
      /\ SenderIndexExact'
  BY <1>1, <1>2, <1>3, EntryExact
<1>5. TypeOK'
  BY <1>4 DEF TypeOK, work, storage, clock
<1>6. holder \notin {NoThread, Main}
  BY <1>1, ThreadAssumption DEF LockDiscipline
<1>7. LockDiscipline'
  BY <1>6 DEF LockDiscipline, work
<1>8. AdmittedOnly'
  BY DEF AdmittedOnly, work, storage
<1> QED  BY <1>4, <1>5, <1>7, <1>8

\* A validated batch is appended, indexed and persisted.
LEMMA EnterStep ==
    ASSUME IndexInv, NEW t \in Client, Enter(t)
    PROVE  IndexInv'
<1> USE DEF IndexInv, Enter
<1> DEFINE d == job[t].digest
<1>1. /\ t \in Thread /\ job'[t] = Idle
      /\ \A u \in Thread \ {t} : job'[u] = job[u]
  BY DEF TypeOK, Thread
<1>2. d \in Digest /\ WellFormed(d) /\ SenderOf(d) \in Sender
  BY <1>1, WellFormedSender DEF LockDiscipline, AdmittedOnly
<1>3. todo = {} /\ doomed = {} /\ indexed = Len(pool)
  BY ThreadAssumption DEF LockDiscipline, Thread
<1>4. /\ pool' \in Seq(Digest)
      /\ Len(pool') = Len(pool) + 1
      /\ \A i \in 1..Len(pool) : pool'[i] = pool[i]
      /\ pool'[Len(pool) + 1] = d
      /\ indexed' = Len(pool')
      /\ digest_index' \in [Digest -> Nat]
      /\ sender_index' \in [Sender -> Seq(Nat)]
      /\ DigestIndexExact'
      /\ SenderIndexExact'
  <2> HIDE DEF d
  <2> QED  BY <1>2, <1>3, AppendExact DEF d
<1>5. rows' \subseteq Row /\ \A r \in rows' : r \in rows \/ r.digest = d
  <2>1. CASE rows' = InsertOrReplace(d)
    <3>1. nextId \in Nat /\ rows \subseteq Row
      BY DEF TypeOK
    <3> DEFINE new == [id |-> nextId, digest |-> d, processed |-> FALSE]
    <3>2. new \in Row /\ new.digest = d
      BY <1>2, <3>1 DEF Row
    <3>3. rows' = {r \in rows : r.digest # d} \cup {new}
      BY <2>1 DEF InsertOrReplace
    <3> HIDE DEF new
    <3> QED  BY <3>1, <3>2, <3>3
  <2>2. CASE rows' = rows
    BY <2>2 DEF TypeOK
  <2> QED  BY <2>1, <2>2
<1>6. job' \in [Thread -> Job]
  BY DEF TypeOK, Idle, Job
<1>7. TypeOK'
  <2>0. nextId \in Nat /\ faulted \in BOOLEAN
    BY DEF TypeOK
  <2>a. faulted' = faulted \/ faulted' = TRUE
    OBVIOUS
  <2>b. faulted' \in BOOLEAN
    BY <2>0, <2>a
  <2>1. nextId' \in Nat /\ todo' = {} /\ doomed' = {}
    BY <1>3, <2>0
  <2>2. indexed' \in 0..Len(pool')
    BY <1>4
  <2> QED  BY <1>4, <1>5, <1>6, <2>b, <2>1, <2>2 DEF TypeOK, clock
<1>8. LockDiscipline'
  BY <1>1, <1>3, <1>4, ThreadAssumption DEF LockDiscipline, Idle, Thread
<1>9. AdmittedOnly'
  <2>1. pool \in Seq(Digest) /\ Len(pool) \in Nat
    BY DEF TypeOK
  <2>2. \A i \in DOMAIN pool' : (i \in DOMAIN pool /\ pool'[i] = pool[i]) \/ pool'[i] = d
    BY <1>4, <2>1
  <2>3. \A i \in DOMAIN pool' : WellFormed(pool'[i])
    BY <1>2, <2>2 DEF AdmittedOnly
  <2>4. \A r \in rows' : WellFormed(r.digest)
    BY <1>2, <1>5 DEF AdmittedOnly
  <2>5. \A u \in Thread : job'[u].op = "validated" => WellFormed(job'[u].digest)
    BY <1>1 DEF AdmittedOnly, Idle
  <2> QED  BY <2>3, <2>4, <2>5 DEF AdmittedOnly, WellFormed
<1> QED  BY <1>4, <1>7, <1>8, <1>9

\* An entry leaves the pool, and the indices cover nothing.
LEMMA RemoveStartStep ==
    ASSUME IndexInv, NEW t \in Client, NEW d \in Digest, RemoveStart(t, d)
    PROVE  IndexInv'
<1> USE DEF IndexInv, RemoveStart
<1>1. /\ t \in Thread /\ job'[t] = [op |-> "removing", digest |-> d]
      /\ \A u \in Thread \ {t} : job'[u] = job[u]
  BY DEF TypeOK, Thread
<1>2. todo = {} /\ doomed = {}
  BY ThreadAssumption DEF LockDiscipline, Thread
<1>3. /\ pool' \in Seq(Digest) /\ ClearIndices
      /\ \A k \in DOMAIN pool' : \E j \in DOMAIN pool : pool'[k] = pool[j]
  BY DropFacts
<1>4. /\ digest_index' \in [Digest -> Nat]
      /\ sender_index' \in [Sender -> Seq(Nat)]
      /\ indexed' \in 0..Len(pool')
      /\ DigestIndexExact'
      /\ SenderIndexExact'
  BY <1>3, ClearExact
<1>5. job' \in [Thread -> Job]
  BY DEF TypeOK, Job
<1>6. TypeOK'
  BY <1>1, <1>2, <1>3, <1>4, <1>5 DEF TypeOK, storage, clock
<1>7. LockDiscipline'
  BY <1>1, <1>2, ThreadAssumption DEF LockDiscipline, Idle, Thread
<1>8. AdmittedOnly'
  <2>1. \A k \in DOMAIN pool' : WellFormed(pool'[k])
    BY <1>3 DEF AdmittedOnly
  <2>2. \A u \in Thread : job'[u].op = "validated" => WellFormed(job'[u].digest)
    BY <1>1 DEF AdmittedOnly
  <2>3. \A r \in rows' : WellFormed(r.digest)
    BY DEF AdmittedOnly, storage
  <2> QED  BY <2>1, <2>2, <2>3 DEF AdmittedOnly, WellFormed
<1> QED  BY <1>4, <1>6, <1>7, <1>8

\* The lock is released with the indices covering the pool again.
LEMMA RemoveFinishStep ==
    ASSUME IndexInv, NEW t \in Client, RemoveFinish(t)
    PROVE  IndexInv'
<1> USE DEF IndexInv, RemoveFinish
<1>1. /\ t \in Thread /\ job'[t] = Idle
      /\ \A u \in Thread \ {t} : job'[u] = job[u]
  BY DEF TypeOK, Thread
<1>2. todo = {} /\ doomed = {} /\ indexed = Len(pool)
  BY ThreadAssumption DEF LockDiscipline, Rebuilding, TypeOK
<1>3. rows' \subseteq Row
      /\ \A r \in rows' : \E q \in rows : r.digest = q.digest
  <2>1. CASE rows' = MarkProcessed(job[t].digest)
    BY <2>1 DEF TypeOK, MarkProcessed, Row
  <2>2. CASE rows' = rows
    BY <2>2 DEF TypeOK
  <2> QED  BY <2>1, <2>2
<1>4. job' \in [Thread -> Job]
  BY DEF TypeOK, Idle, Job
<1>5. TypeOK'
  BY <1>2, <1>3, <1>4 DEF TypeOK, memory, clock
<1>6. LockDiscipline'
  BY <1>1, <1>2, ThreadAssumption DEF LockDiscipline, Idle, Thread, memory
<1>7. AdmittedOnly'
  BY <1>1, <1>3 DEF AdmittedOnly, Idle, memory, WellFormed
<1> QED  BY <1>5, <1>6, <1>7, QuietExact

\* Everything leaves the pool, faulty table or not.
LEMMA ClearStep ==
    ASSUME IndexInv, NEW t \in Client, Clear(t)
    PROVE  IndexInv'
<1> USE DEF IndexInv, Clear
<1>1. todo = {} /\ doomed = {}
  BY ThreadAssumption DEF LockDiscipline, Thread
<1>2. pool' \in Seq(Digest) /\ Len(pool') = 0 /\ DOMAIN pool' = {}
  OBVIOUS
<1>3. /\ digest_index' \in [Digest -> Nat]
      /\ sender_index' \in [Sender -> Seq(Nat)]
      /\ indexed' \in 0..Len(pool')
      /\ DigestIndexExact'
      /\ SenderIndexExact'
  BY <1>2, ClearExact
<1>4. TypeOK'
  BY <1>1, <1>2, <1>3 DEF TypeOK, work, clock
<1>5. LockDiscipline'
  BY <1>1, <1>2, ThreadAssumption DEF LockDiscipline, work, ClearIndices
<1>6. AdmittedOnly'
  BY <1>2 DEF AdmittedOnly, work
<1> QED  BY <1>3, <1>4, <1>5, <1>6

\* The cleaner takes the lock and opens its transaction.
LEMMA ExpireStartStep ==
    ASSUME IndexInv, ExpireStart
    PROVE  IndexInv'
<1> USE DEF IndexInv, ExpireStart
<1>1. Cleaner \in Thread /\ job[Cleaner] = Idle
  BY DEF Thread
<1>2. /\ job'[Cleaner] = [op |-> "expiring", digest |-> NoDigest]
      /\ \A u \in Thread \ {Cleaner} : job'[u] = job[u]
      /\ job' \in [Thread -> Job]
  BY <1>1 DEF TypeOK, Idle, Job
<1>3. TypeOK'
  BY <1>1, <1>2 DEF TypeOK, memory, storage, clock
<1>4. LockDiscipline'
  BY <1>1, <1>2, ThreadAssumption DEF LockDiscipline, Idle, Thread, memory
<1>5. AdmittedOnly'
  <2>1. pool' = pool /\ rows' = rows
    BY DEF memory, storage
  <2>2. ASSUME NEW u \in Thread, job'[u].op = "validated"
        PROVE  WellFormed(job'[u].digest)
    <3>1. job'[Cleaner].op # "validated"
      BY <1>2
    <3>2. u # Cleaner
      BY <2>2, <3>1
    <3>3. job'[u] = job[u]
      BY <1>2, <3>2
    <3> QED  BY <2>2, <3>3 DEF AdmittedOnly
  <2> QED  BY <2>1, <2>2 DEF AdmittedOnly, WellFormed
<1> QED  BY <1>3, <1>4, <1>5, QuietExact

\* A round that fails at the start leaves everything but the record of it.
LEMMA ExpireFailStep ==
    ASSUME IndexInv, ExpireFail
    PROVE  IndexInv'
<1> USE DEF IndexInv, ExpireFail
<1>1. TypeOK'
  BY DEF TypeOK, memory, work, storage, clock
<1>2. LockDiscipline'
  BY DEF LockDiscipline, memory, work
<1>3. AdmittedOnly'
  BY DEF AdmittedOnly, memory, work, storage, WellFormed
<1> QED  BY <1>1, <1>2, <1>3, QuietExact

\* An old batch's entry leaves the pool, or has left it before.
LEMMA ExpireDropStep ==
    ASSUME IndexInv, ExpireDrop
    PROVE  IndexInv'
<1> USE DEF IndexInv, ExpireDrop
<1>1. PICK r \in todo :
        /\ \/ digest_index[r.digest] # 0 /\ DropEntry(r.digest)
           \/ digest_index[r.digest] = 0 /\ UNCHANGED memory
        /\ todo' = todo \ {r}
  OBVIOUS
<1>2. r \in rows /\ r.digest \in Digest
  BY <1>1 DEF TypeOK, Row
<1>3. CASE UNCHANGED memory
  <2>1. TypeOK'
    BY <1>1, <1>3 DEF TypeOK, memory, storage, clock
  <2>2. LockDiscipline'
    BY <1>1, <1>3, ThreadAssumption DEF LockDiscipline, Thread, memory
  <2>3. AdmittedOnly'
    BY <1>3 DEF AdmittedOnly, memory, storage, WellFormed
  <2> QED  BY <2>1, <2>2, <2>3, <1>3, QuietExact
<1>4. CASE digest_index[r.digest] # 0 /\ DropEntry(r.digest)
  <2>1. /\ pool' \in Seq(Digest) /\ ClearIndices
        /\ \A k \in DOMAIN pool' : \E j \in DOMAIN pool : pool'[k] = pool[j]
    BY <1>2, <1>4, DropFacts
  <2>2. /\ digest_index' \in [Digest -> Nat]
        /\ sender_index' \in [Sender -> Seq(Nat)]
        /\ indexed' \in 0..Len(pool')
        /\ DigestIndexExact'
        /\ SenderIndexExact'
    BY <2>1, ClearExact
  <2>3. TypeOK'
    BY <1>1, <2>1, <2>2 DEF TypeOK, storage, clock
  <2>4. LockDiscipline'
    BY <1>1, <2>1, ThreadAssumption DEF LockDiscipline, Thread
  <2>5. \A k \in DOMAIN pool' : WellFormed(pool'[k])
    BY <2>1 DEF AdmittedOnly
  <2>6. AdmittedOnly'
    BY <2>5 DEF AdmittedOnly, storage, WellFormed
  <2> QED  BY <2>2, <2>3, <2>4, <2>6
<1> QED  BY <1>1, <1>3, <1>4

\* The cleaner's transaction is over, committed or not.
LEMMA ExpireFinishStep ==
    ASSUME IndexInv, ExpireFinish
    PROVE  IndexInv'
<1> USE DEF IndexInv, ExpireFinish
<1>1. /\ Cleaner \in Thread /\ job'[Cleaner] = Idle
      /\ \A u \in Thread \ {Cleaner} : job'[u] = job[u]
  BY DEF TypeOK, Thread
<1>2. indexed = Len(pool) /\ rows' \subseteq rows
  BY DEF TypeOK, Rebuilding
<1>3. job' \in [Thread -> Job]
  BY DEF TypeOK, Idle, Job
<1>4. TypeOK'
  BY <1>2, <1>3 DEF TypeOK, memory, clock
<1>5. LockDiscipline'
  BY <1>1, <1>2, ThreadAssumption DEF LockDiscipline, Idle, Thread, memory
<1>6. AdmittedOnly'
  <2>1. \A u \in Thread : job'[u].op = "validated" => WellFormed(job'[u].digest)
    BY <1>1 DEF AdmittedOnly, Idle
  <2> QED  BY <1>2, <2>1 DEF AdmittedOnly, memory, WellFormed
<1> QED  BY <1>4, <1>5, <1>6, QuietExact

\* A crash leaves an empty memory and nobody inside but __init__.
LEMMA RestartStep ==
    ASSUME IndexInv, Restart
    PROVE  IndexInv'
<1> USE DEF IndexInv, Restart, Reloadable
<1>1. Main \in Thread
  BY DEF Thread
<1>2. pool' \in Seq(Digest) /\ Len(pool') = 0 /\ DOMAIN pool' = {}
  OBVIOUS
<1>3. /\ digest_index' \in [Digest -> Nat]
      /\ sender_index' \in [Sender -> Seq(Nat)]
      /\ indexed' \in 0..Len(pool')
      /\ DigestIndexExact'
      /\ SenderIndexExact'
  BY <1>2, ClearExact
<1>4. /\ job'[Main] = [op |-> "loading", digest |-> NoDigest]
      /\ \A u \in Thread \ {Main} : job'[u] = Idle
      /\ job' \in [Thread -> Job]
  BY <1>1 DEF Idle, Job
<1>5. todo' \subseteq rows
  OBVIOUS
<1>6. faulted' \in BOOLEAN
  <2>1. faulted' = faulted \/ faulted' = TRUE
    OBVIOUS
  <2> QED  BY <2>1 DEF TypeOK
<1>7. TypeOK'
  BY <1>1, <1>2, <1>3, <1>4, <1>5, <1>6 DEF TypeOK, storage, clock
<1>8. LockDiscipline'
  BY <1>1, <1>2, <1>4, ThreadAssumption DEF LockDiscipline, Idle, Thread, ClearIndices
<1>9. AdmittedOnly'
  BY <1>1, <1>2, <1>4 DEF AdmittedOnly, Idle, storage, WellFormed
<1> QED  BY <1>3, <1>7, <1>8, <1>9

\* A row of the table was admitted when it was entered.
LEMMA LoadRowStep ==
    ASSUME IndexInv, LoadRow
    PROVE  IndexInv'
<1> USE DEF IndexInv, LoadRow
<1>1. PICK r \in todo :
        /\ AppendEntry(r.digest) \/ UNCHANGED memory
        /\ todo' = todo \ {r}
  OBVIOUS
<1>2. r \in rows /\ r.digest \in Digest /\ SenderOf(r.digest) \in Sender
      /\ WellFormed(r.digest)
  BY <1>1, WellFormedSender DEF TypeOK, Row, AdmittedOnly
<1>3. faulted' \in BOOLEAN
  <2>1. faulted' = faulted \/ faulted' = TRUE
    OBVIOUS
  <2> QED  BY <2>1 DEF TypeOK
<1>4. CASE UNCHANGED memory
  <2>1. TypeOK'
    BY <1>1, <1>3, <1>4 DEF TypeOK, memory, storage, clock
  <2>2. LockDiscipline'
    BY <1>1, <1>4, ThreadAssumption DEF LockDiscipline, Thread, memory
  <2>3. AdmittedOnly'
    BY <1>4 DEF AdmittedOnly, memory, storage, WellFormed
  <2> QED  BY <2>1, <2>2, <2>3, <1>4, QuietExact
<1>5. CASE AppendEntry(r.digest)
  <2> DEFINE d == r.digest
  <2>1. indexed = Len(pool)
    BY DEF LockDiscipline
  <2>2. /\ pool' \in Seq(Digest)
        /\ Len(pool') = Len(pool) + 1
        /\ \A i \in 1..Len(pool) : pool'[i] = pool[i]
        /\ pool'[Len(pool) + 1] = d
        /\ indexed' = Len(pool')
        /\ digest_index' \in [Digest -> Nat]
        /\ sender_index' \in [Sender -> Seq(Nat)]
        /\ DigestIndexExact'
        /\ SenderIndexExact'
    BY <1>2, <1>5, <2>1, AppendExact
  <2>3. pool \in Seq(Digest) /\ Len(pool) \in Nat
    BY DEF TypeOK
  <2>4. indexed' \in 0..Len(pool')
    BY <2>2, <2>3
  <2>5. TypeOK'
    BY <1>1, <1>3, <2>2, <2>4 DEF TypeOK, storage, clock
  <2>6. LockDiscipline'
    BY <1>1, <2>2, ThreadAssumption DEF LockDiscipline, Thread
  <2>7. \A i \in DOMAIN pool' : (i \in DOMAIN pool /\ pool'[i] = pool[i]) \/ pool'[i] = d
    BY <2>2, <2>3
  <2>8. AdmittedOnly'
    BY <1>2, <2>7 DEF AdmittedOnly, storage, WellFormed
  <2> QED  BY <2>2, <2>5, <2>6, <2>8
<1> QED  BY <1>1, <1>4, <1>5

\* The pool is loaded and open to its callers.
LEMMA LoadDoneStep ==
    ASSUME IndexInv, LoadDone
    PROVE  IndexInv'
<1> USE DEF IndexInv, LoadDone
<1>1. /\ Main \in Thread /\ job'[Main] = Idle
      /\ \A u \in Thread \ {Main} : job'[u] = job[u]
      /\ job' \in [Thread -> Job]
  BY DEF TypeOK, Thread, Idle, Job
<1>2. TypeOK'
  BY <1>1 DEF TypeOK, memory, storage, clock
<1>3. LockDiscipline'
  BY <1>1, ThreadAssumption DEF LockDiscipline, Idle, Thread, memory
<1>4. AdmittedOnly'
  <2>1. \A u \in Thread : job'[u].op = "validated" => WellFormed(job'[u].digest)
    BY <1>1 DEF AdmittedOnly, Idle
  <2> QED  BY <2>1 DEF AdmittedOnly, memory, storage, WellFormed
<1> QED  BY <1>2, <1>3, <1>4, QuietExact

\* Every step keeps the inductive invariant, one lemma per action.
THEOREM IndexInvStep == IndexInv /\ [Next]_vars => IndexInv'
<1> SUFFICES ASSUME IndexInv, [Next]_vars PROVE IndexInv'
  OBVIOUS
<1>1. ASSUME NEW d \in Digest, Create(d) PROVE IndexInv'
  BY <1>1, CreateStep
<1>2. ASSUME NEW t \in Client, AddMulti(t) PROVE IndexInv'
  BY <1>2, ValidateStep, EnterStep DEF AddMulti
<1>3. ASSUME NEW t \in Client, RemoveMulti(t) PROVE IndexInv'
  BY <1>3, RemoveStartStep, RemoveFinishStep DEF RemoveMulti
<1>4. ASSUME NEW t \in Client, Clear(t) PROVE IndexInv'
  BY <1>4, ClearStep
<1>5. ASSUME NEW t \in Thread, RebuildStep(t) PROVE IndexInv'
  BY <1>5, RebuildStepStep
<1>6. ASSUME Expire PROVE IndexInv'
  BY <1>6, ExpireStartStep, ExpireFailStep, ExpireDropStep, ExpireFinishStep DEF Expire
<1>7. ASSUME Restart PROVE IndexInv'
  BY <1>7, RestartStep
<1>8. ASSUME Load PROVE IndexInv'
  BY <1>8, LoadRowStep, LoadDoneStep DEF Load
<1>9. ASSUME Tick PROVE IndexInv'
  BY <1>9, TickStep
<1>10. ASSUME UNCHANGED vars PROVE IndexInv'
  <2> USE <1>10 DEF IndexInv, vars
  <2>1. TypeOK'
    BY DEF TypeOK, memory, work, storage, clock
  <2>2. LockDiscipline' /\ AdmittedOnly'
    BY DEF LockDiscipline, AdmittedOnly, memory, work, storage
  <2> QED  BY <2>1, <2>2, QuietExact
<1> QED
  BY <1>1, <1>2, <1>3, <1>4, <1>5, <1>6, <1>7, <1>8, <1>9, <1>10 DEF Next

-----------------------------------------------------------------------------
(* The theorems.                                                           *)

\* The indices are exact for what they cover at every moment, the middle of a
\* rebuild included, and each thread is where the lock allows it to be.
THEOREM InductiveInvariant == Spec => []IndexInv
<1>1. Init => IndexInv
  BY IndexInvInit
<1>2. IndexInv /\ [Next]_vars => IndexInv'
  BY IndexInvStep
<1> QED  BY <1>1, <1>2, PTL DEF Spec

\* Every variable keeps its type.
THEOREM TypeCorrect == Spec => []TypeOK
<1>1. IndexInv => TypeOK
  BY DEF IndexInv
<1> QED  BY <1>1, InductiveInvariant, PTL

\* The lock protects what the code means it to protect: nobody but its holder
\* is in the middle of an operation, and the indices cover the pool whenever
\* it is free.
THEOREM LockProtects == Spec => []LockDiscipline
<1>1. IndexInv => LockDiscipline
  BY DEF IndexInv
<1> QED  BY <1>1, InductiveInvariant, PTL

\* Whoever takes the lock finds digest_index and sender_index exact, for any
\* number of threads, batches, duplicates, crashes and database faults.
THEOREM IndicesExact == Spec => []IndexConsistent
<1>1. IndexInv => IndexConsistent
  BY DEF IndexInv, IndexConsistent, LockDiscipline
<1> QED  BY <1>1, InductiveInvariant, PTL

-----------------------------------------------------------------------------
(* What the table and the pool know of each other, that a reload brings   *)
(* nothing back twice, and the absence of duplicates under the callers'   *)
(* discipline.                                                            *)

\* The table's digest column is UNIQUE.
OneRow == \A r, q \in rows : r.digest = q.digest => r = q

\* While no database operation has failed, every unprocessed row is in memory,
\* or is being loaded, removed or expired by the holder of the lock.
Accounted(r) ==
    \/ InPool(r.digest)
    \/ r \in doomed
    \/ holder = Main /\ r \in todo
    \/ holder \in Client /\ job[holder].digest = r.digest

TableInv == /\ OneRow
            /\ holder = Cleaner => todo \subseteq doomed
            /\ ~faulted => \A r \in rows : ~r.processed => Accounted(r)

-----------------------------------------------------------------------------
\* Appending keeps what is in the pool and adds the batch.
LEMMA AppendKeeps ==
    ASSUME TypeOK, NEW d \in Digest, AppendEntry(d)
    PROVE  /\ InPool(d)'
           /\ \A e \in Digest : InPool(e) => InPool(e)'
<1>1. pool \in Seq(Digest) /\ Len(pool) \in Nat /\ pool' = Append(pool, d)
  BY DEF TypeOK, AppendEntry
<1>2. /\ Len(pool') = Len(pool) + 1
      /\ \A i \in 1..Len(pool) : pool'[i] = pool[i]
      /\ pool'[Len(pool) + 1] = d
  BY <1>1, AppendProperties
<1> QED  BY <1>1, <1>2 DEF InPool, Contains

\* What is in the pool does not change when the pool does not.
LEMMA QuietPool ==
    ASSUME UNCHANGED pool
    PROVE  \A e \in Digest : InPool(e) => InPool(e)'
BY DEF InPool, Contains

\* The empty table.
LEMMA TableInvInit == Init => TableInv
BY ThreadAssumption DEF Init, TableInv, OneRow, Thread

\* Steps that touch neither the table, the pool nor the holder's work.
LEMMA TableQuiet ==
    ASSUME TypeOK, TableInv, UNCHANGED <<rows, todo, doomed, holder>>,
           faulted' = faulted, UNCHANGED pool,
           holder \in Client => job'[holder].digest = job[holder].digest
    PROVE  TableInv'
<1>1. OneRow'
  BY DEF TableInv, OneRow
<1>2. ASSUME ~faulted', NEW r \in rows', ~r.processed
      PROVE  Accounted(r)'
  <2>1. Accounted(r) /\ r.digest \in Digest
    BY <1>2 DEF TableInv, TypeOK, Row
  <2> QED  BY <2>1, QuietPool DEF Accounted
<1>3. (holder = Cleaner => todo \subseteq doomed)'
  BY DEF TableInv
<1> QED  BY <1>1, <1>2, <1>3 DEF TableInv

\* The new row's batch is in the pool.
LEMMA EnterTable ==
    ASSUME IndexInv, TableInv, NEW t \in Client, Enter(t),
           NEW d \in Digest, d = job[t].digest
    PROVE  TableInv'
<1> DEFINE new == [id |-> nextId, digest |-> d, processed |-> FALSE]
<1>1. /\ TypeOK /\ d \in Digest /\ AppendEntry(d)
      /\ todo = {} /\ doomed = {} /\ holder = NoThread
      /\ holder' = holder /\ todo' = todo /\ doomed' = doomed
  BY ThreadAssumption DEF IndexInv, LockDiscipline, Thread, Enter
<1>2. /\ InPool(d)'
      /\ \A e \in Digest : InPool(e) => InPool(e)'
  BY <1>1, AppendKeeps
<1>3. \/ rows' = {r \in rows : r.digest # d} \cup {new} /\ faulted' = faulted
      \/ rows' = rows /\ faulted' = TRUE
  BY DEF Enter, InsertOrReplace
<1>4. new.digest = d
  OBVIOUS
<1> HIDE DEF new
<1>5. OneRow'
  BY <1>3, <1>4 DEF TableInv, OneRow
<1>6. ASSUME ~faulted', NEW r \in rows', ~r.processed
      PROVE  InPool(r.digest)'
  <2>1. CASE r = new
    BY <2>1, <1>2, <1>4
  <2>2. CASE r # new
    <3>0. faulted' # TRUE
      BY <1>6
    <3>1. r \in rows /\ ~faulted
      BY <1>3, <1>6, <2>2, <3>0
    <3>2. InPool(r.digest) /\ r.digest \in Digest
      BY <1>1, <1>6, <3>1, ThreadAssumption
      DEF TableInv, Accounted, TypeOK, Row, Thread
    <3> QED  BY <1>2, <3>2
  <2> QED  BY <2>1, <2>2
<1>7. holder' # Cleaner
  BY <1>1, ThreadAssumption DEF Thread
<1> QED  BY <1>5, <1>6, <1>7 DEF TableInv, Accounted

\* The batch that is being removed is accounted for by its remover.
LEMMA RemoveStartTable ==
    ASSUME IndexInv, TableInv, NEW t \in Client, NEW d \in Digest,
           RemoveStart(t, d)
    PROVE  TableInv'
<1>1. /\ TypeOK /\ DigestIndexExact /\ digest_index[d] # 0 /\ DropEntry(d)
      /\ todo = {} /\ doomed = {} /\ holder = NoThread
      /\ holder' = t /\ rows' = rows /\ faulted' = faulted
      /\ job' = [job EXCEPT ![t] = [op |-> "removing", digest |-> d]]
  BY ThreadAssumption DEF IndexInv, LockDiscipline, Thread, RemoveStart, storage
<1>2. \A e \in Digest \ {d} : InPool(e) => InPool(e)'
  BY <1>1, DropFacts
<1>3. job'[t].digest = d
  BY <1>1 DEF TypeOK, Thread
<1>4. OneRow'
  BY <1>1 DEF TableInv, OneRow
<1>5. ASSUME ~faulted', NEW r \in rows', ~r.processed
      PROVE  Accounted(r)'
  <2>1. InPool(r.digest) /\ r.digest \in Digest
    BY <1>1, <1>5, ThreadAssumption
    DEF TableInv, Accounted, TypeOK, Row, Thread
  <2>2. CASE r.digest = d
    BY <2>2, <1>1, <1>3 DEF Accounted
  <2>3. CASE r.digest # d
    BY <2>1, <2>3, <1>2 DEF Accounted
  <2> QED  BY <2>2, <2>3
<1>6. holder' # Cleaner
  BY <1>1, ThreadAssumption
<1> QED  BY <1>4, <1>5, <1>6 DEF TableInv

\* The removed batch's row is processed, or a fault is recorded.
LEMMA RemoveFinishTable ==
    ASSUME IndexInv, TableInv, NEW t \in Client, RemoveFinish(t)
    PROVE  TableInv'
<1> DEFINE d == job[t].digest
<1>1. /\ TypeOK /\ doomed = {} /\ holder = t /\ holder' = NoThread
      /\ UNCHANGED pool
  BY ThreadAssumption
  DEF IndexInv, LockDiscipline, Thread, RemoveFinish, memory
<1>2. \/ rows' = MarkProcessed(d) /\ faulted' = faulted
      \/ rows' = rows /\ faulted' = TRUE
  BY DEF RemoveFinish
<1> HIDE DEF d
<1>3. rows \subseteq Row
  BY <1>1 DEF TypeOK
<1>4. \A r \in rows' : \E q \in rows :
         /\ r.digest = q.digest
         /\ r = IF rows' = rows THEN q
                ELSE IF q.digest = d THEN [q EXCEPT !.processed = TRUE] ELSE q
  <2>1. CASE rows' = rows
    BY <2>1
  <2>2. CASE rows' # rows
    BY <1>2, <1>3, <2>2 DEF MarkProcessed, Row
  <2> QED  BY <2>1, <2>2
<1>5. OneRow'
  <2> SUFFICES ASSUME NEW r \in rows', NEW q \in rows', r.digest = q.digest
               PROVE  r = q
    BY DEF OneRow
  <2>1. PICK r0 \in rows :
            /\ r.digest = r0.digest
            /\ r = IF rows' = rows THEN r0
                   ELSE IF r0.digest = d THEN [r0 EXCEPT !.processed = TRUE] ELSE r0
    BY <1>4
  <2>2. PICK q0 \in rows :
            /\ q.digest = q0.digest
            /\ q = IF rows' = rows THEN q0
                   ELSE IF q0.digest = d THEN [q0 EXCEPT !.processed = TRUE] ELSE q0
    BY <1>4
  <2>3. r0 = q0
    BY <2>1, <2>2 DEF TableInv, OneRow
  <2> QED  BY <2>1, <2>2, <2>3
<1>6. ASSUME ~faulted', NEW r \in rows', ~r.processed
      PROVE  InPool(r.digest)'
  <2>1. /\ ~faulted /\ r \in rows /\ r.digest # d
    BY <1>2, <1>3, <1>6 DEF MarkProcessed, Row
  <2>2. InPool(r.digest) /\ r.digest \in Digest
    BY <1>1, <1>6, <2>1, ThreadAssumption
    DEF TableInv, Accounted, TypeOK, Row, d
  <2> QED  BY <1>1, <2>2, QuietPool
<1>7. holder' # Cleaner
  BY <1>1, ThreadAssumption DEF Thread
<1> QED  BY <1>5, <1>6, <1>7 DEF TableInv, Accounted

\* Pool and table are emptied together, or a fault is recorded.
LEMMA ClearTable ==
    ASSUME IndexInv, TableInv, NEW t \in Client, Clear(t)
    PROVE  TableInv'
<1>1. /\ holder' = NoThread
      /\ \/ rows' = {}
         \/ rows' = rows /\ faulted' = TRUE
  BY DEF Clear
<1>2. OneRow'
  BY <1>1 DEF TableInv, OneRow
<1>3. ASSUME ~faulted' PROVE rows' = {}
  <2>1. faulted' # TRUE
    BY <1>3
  <2> QED  BY <1>1, <2>1
<1>4. holder' # Cleaner
  BY <1>1, ThreadAssumption DEF Thread
<1> QED  BY <1>2, <1>3, <1>4 DEF TableInv

\* The rows to be deleted are accounted for by the cleaner.
LEMMA ExpireStartTable ==
    ASSUME IndexInv, TableInv, ExpireStart
    PROVE  TableInv'
<1>1. /\ TypeOK /\ todo = {} /\ doomed = {} /\ holder = NoThread
      /\ holder' = Cleaner /\ todo' = doomed' /\ UNCHANGED pool
      /\ rows' = rows /\ faulted' = faulted
  BY ThreadAssumption
  DEF IndexInv, LockDiscipline, Thread, ExpireStart, memory, storage
<1>2. OneRow'
  BY <1>1 DEF TableInv, OneRow
<1>3. ASSUME ~faulted', NEW r \in rows', ~r.processed
      PROVE  InPool(r.digest)'
  <2>1. InPool(r.digest) /\ r.digest \in Digest
    BY <1>1, <1>3, ThreadAssumption
    DEF TableInv, Accounted, TypeOK, Row, Thread
  <2> QED  BY <1>1, <2>1, QuietPool
<1> QED  BY <1>1, <1>2, <1>3 DEF TableInv, Accounted

\* A round that fails at the start is recorded as a fault.
LEMMA ExpireFailTable ==
    ASSUME TableInv, ExpireFail
    PROVE  TableInv'
<1>1. UNCHANGED <<rows, todo, doomed, holder>> /\ faulted' = TRUE
  BY DEF ExpireFail, storage, work
<1> QED  BY <1>1 DEF TableInv, OneRow

\* What leaves the pool is among the rows to be deleted.
LEMMA ExpireDropTable ==
    ASSUME IndexInv, TableInv, ExpireDrop
    PROVE  TableInv'
<1>1. PICK q \in todo :
        /\ \/ digest_index[q.digest] # 0 /\ DropEntry(q.digest)
           \/ UNCHANGED memory
        /\ todo' = todo \ {q}
  BY DEF ExpireDrop
<1>2. /\ TypeOK /\ DigestIndexExact /\ q \in rows /\ q.digest \in Digest
      /\ q \in doomed /\ holder = Cleaner
      /\ holder' = Cleaner /\ doomed' = doomed
      /\ rows' = rows /\ faulted' = faulted
  BY <1>1 DEF IndexInv, TableInv, TypeOK, Row, ExpireDrop, storage
<1>3. \A e \in Digest \ {q.digest} : InPool(e) => InPool(e)'
  <2>1. CASE DropEntry(q.digest) /\ digest_index[q.digest] # 0
    BY <1>2, <2>1, DropFacts
  <2>2. CASE UNCHANGED memory
    BY <2>2, QuietPool DEF memory
  <2> QED  BY <1>1, <2>1, <2>2
<1>4. OneRow'
  BY <1>2 DEF TableInv, OneRow
<1>5. ASSUME ~faulted', NEW r \in rows', ~r.processed
      PROVE  Accounted(r)'
  <2>1. Accounted(r) /\ r.digest \in Digest
    BY <1>2, <1>5 DEF TableInv, TypeOK, Row
  <2>2. CASE r.digest = q.digest
    <3>1. r = q
      BY <1>2, <1>5, <2>2 DEF TableInv, OneRow
    <3> QED  BY <1>2, <3>1 DEF Accounted
  <2>3. CASE r.digest # q.digest
    BY <1>2, <1>3, <2>1, <2>3, ThreadAssumption DEF Accounted, Thread
  <2> QED  BY <2>2, <2>3
<1>6. todo' \subseteq doomed'
  BY <1>1, <1>2 DEF TableInv
<1> QED  BY <1>4, <1>5, <1>6 DEF TableInv

\* The rows are deleted, or a fault is recorded.
LEMMA ExpireFinishTable ==
    ASSUME IndexInv, TableInv, ExpireFinish
    PROVE  TableInv'
<1>1. /\ TypeOK /\ todo = {} /\ holder = Cleaner /\ holder' = NoThread
      /\ UNCHANGED pool
      /\ \/ rows' = rows \ doomed /\ faulted' = faulted
         \/ rows' = rows /\ faulted' = TRUE
  BY DEF IndexInv, ExpireFinish, memory
<1>2. OneRow'
  BY <1>1 DEF TableInv, OneRow
<1>3. ASSUME ~faulted', NEW r \in rows', ~r.processed
      PROVE  InPool(r.digest)'
  <2>1. rows' = rows \ doomed /\ ~faulted
    BY <1>1, <1>3
  <2>2. InPool(r.digest) /\ r.digest \in Digest
    BY <1>1, <1>3, <2>1, ThreadAssumption
    DEF TableInv, Accounted, TypeOK, Row
  <2> QED  BY <1>1, <2>2, QuietPool
<1>4. holder' # Cleaner
  BY <1>1, ThreadAssumption DEF Thread
<1> QED  BY <1>2, <1>3, <1>4 DEF TableInv, Accounted

\* All that is unprocessed is to be loaded, or a fault is recorded.
LEMMA RestartTable ==
    ASSUME IndexInv, TableInv, Restart
    PROVE  TableInv'
<1>1. /\ holder' = Main /\ rows' = rows
      /\ todo' = {r \in rows : ~r.processed} \/ faulted' = TRUE
  BY DEF Restart, Reloadable, storage
<1>2. OneRow'
  BY <1>1 DEF TableInv, OneRow
<1>3. ASSUME ~faulted', NEW r \in rows', ~r.processed
      PROVE  Accounted(r)'
  <2>1. r \in todo'
    BY <1>1, <1>3
  <2> QED  BY <1>1, <2>1 DEF Accounted
<1>4. holder' # Cleaner
  BY <1>1, ThreadAssumption
<1> QED  BY <1>2, <1>3, <1>4 DEF TableInv

\* A loaded row's batch is in the pool, a skipped one is a fault.
LEMMA LoadRowTable ==
    ASSUME IndexInv, TableInv, LoadRow
    PROVE  TableInv'
<1>1. PICK q \in todo :
        /\ \/ AppendEntry(q.digest) /\ faulted' = faulted
           \/ faulted' = TRUE
        /\ todo' = todo \ {q}
  BY DEF LoadRow
<1>2. /\ TypeOK /\ q.digest \in Digest
      /\ holder = Main /\ holder' = Main /\ doomed' = doomed
      /\ rows' = rows
  BY <1>1 DEF IndexInv, TypeOK, Row, LoadRow, storage
<1>3. OneRow'
  BY <1>2 DEF TableInv, OneRow
<1>4. ASSUME ~faulted', NEW r \in rows', ~r.processed
      PROVE  Accounted(r)'
  <2>1. AppendEntry(q.digest) /\ ~faulted
    BY <1>1, <1>4
  <2>2. /\ InPool(q.digest)'
        /\ \A e \in Digest : InPool(e) => InPool(e)'
    BY <1>2, <2>1, AppendKeeps
  <2>3. Accounted(r) /\ r.digest \in Digest
    BY <1>2, <1>4, <2>1 DEF TableInv, TypeOK, Row
  <2>4. CASE r = q
    BY <2>2, <2>4 DEF Accounted
  <2>5. CASE r # q
    BY <1>1, <1>2, <2>2, <2>3, <2>5, ThreadAssumption DEF Accounted
  <2> QED  BY <2>4, <2>5
<1>5. holder' # Cleaner
  BY <1>2, ThreadAssumption
<1> QED  BY <1>3, <1>4, <1>5 DEF TableInv

\* Nothing is left to load.
LEMMA LoadDoneTable ==
    ASSUME IndexInv, TableInv, LoadDone
    PROVE  TableInv'
<1>1. /\ TypeOK /\ holder = Main /\ holder' = NoThread
      /\ todo = {} /\ doomed = {} /\ UNCHANGED pool
      /\ rows' = rows /\ faulted' = faulted
  BY ThreadAssumption
  DEF IndexInv, LockDiscipline, LoadDone, memory, storage
<1>2. OneRow'
  BY <1>1 DEF TableInv, OneRow
<1>3. ASSUME ~faulted', NEW r \in rows', ~r.processed
      PROVE  InPool(r.digest)'
  <2>1. InPool(r.digest) /\ r.digest \in Digest
    BY <1>1, <1>3, ThreadAssumption
    DEF TableInv, Accounted, TypeOK, Row
  <2> QED  BY <1>1, <2>1, QuietPool
<1>4. holder' # Cleaner
  BY <1>1, ThreadAssumption DEF Thread
<1> QED  BY <1>2, <1>3, <1>4 DEF TableInv, Accounted

\* Every step, given the invariant of the indices.
LEMMA TableInvStep == IndexInv /\ TableInv /\ [Next]_vars => TableInv'
<1> SUFFICES ASSUME IndexInv, TableInv, [Next]_vars PROVE TableInv'
  OBVIOUS
<1>0. TypeOK /\ LockDiscipline
  BY DEF IndexInv
<1>1. ASSUME NEW d \in Digest, Create(d) PROVE TableInv'
  BY <1>0, <1>1, TableQuiet DEF Create, memory, work, storage
<1>2. ASSUME NEW t \in Client, NEW d \in Digest, Validate(t, d)
      PROVE  TableInv'
  <2>1. holder \in Client => holder # t
    BY <1>0, <1>2 DEF LockDiscipline, Validate, Idle
  <2>2. holder \in Client => job'[holder].digest = job[holder].digest
    BY <1>2, <2>1 DEF Validate
  <2>3. /\ UNCHANGED <<rows, todo, doomed, holder>> /\ UNCHANGED pool
        /\ faulted' = faulted
    BY <1>2 DEF Validate, memory, storage
  <2> QED  BY <1>0, <2>2, <2>3, TableQuiet
<1>3. ASSUME NEW t \in Client, Enter(t) PROVE TableInv'
  <2>1. job[t].digest \in Digest
    BY <1>0, <1>3 DEF LockDiscipline, Enter, Thread
  <2> QED  BY <1>3, <2>1, EnterTable
<1>4. ASSUME NEW t \in Client, RemoveMulti(t) PROVE TableInv'
  BY <1>4, RemoveStartTable, RemoveFinishTable DEF RemoveMulti
<1>5. ASSUME NEW t \in Client, Clear(t) PROVE TableInv'
  BY <1>5, ClearTable
<1>6. ASSUME NEW t \in Thread, RebuildStep(t) PROVE TableInv'
  BY <1>0, <1>6, TableQuiet DEF RebuildStep, work, storage
<1>7. ASSUME Expire PROVE TableInv'
  BY <1>7, ExpireStartTable, ExpireFailTable, ExpireDropTable, ExpireFinishTable
  DEF Expire
<1>8. ASSUME Restart PROVE TableInv'
  BY <1>8, RestartTable
<1>9. ASSUME Load PROVE TableInv'
  BY <1>9, LoadRowTable, LoadDoneTable DEF Load
<1>10. ASSUME Tick PROVE TableInv'
  BY <1>0, <1>10, TableQuiet DEF Tick, memory, work, storage
<1>11. ASSUME UNCHANGED vars PROVE TableInv'
  BY <1>0, <1>11, TableQuiet DEF vars, memory, work, storage
<1> QED
  BY <1>1, <1>2, <1>3, <1>4, <1>5, <1>6, <1>7, <1>8, <1>9, <1>10, <1>11
  DEF Next, AddMulti

\* As long as no database operation has failed, no unprocessed row outlives
\* its batch in memory: for any number of threads, duplicates and crashes.
THEOREM NothingComesBack == Spec => []NothingResurrected
<1>1. Init => IndexInv /\ TableInv
  BY IndexInvInit, TableInvInit
<1>2. IndexInv /\ TableInv /\ [Next]_vars => (IndexInv /\ TableInv)'
  BY IndexInvStep, TableInvStep
<1>3. IndexInv /\ TableInv => NothingResurrected
  BY ThreadAssumption
  DEF NothingResurrected, TableInv, Accounted, IndexInv, LockDiscipline, Thread
<1> QED  BY <1>1, <1>2, <1>3, PTL DEF Spec

-----------------------------------------------------------------------------
(* Disciplined callers never see a duplicate.                              *)

\* A batch under way is not in the pool, nobody else has it under way, and
\* nobody is under way while the pool is being loaded.
PendingFresh(t) ==
    job[t].op = "validated" =>
        /\ ~InPool(job[t].digest)
        /\ \A u \in Client \ {t} :
               job[u].op = "validated" => job[u].digest # job[t].digest
        /\ holder # Main

FreshInv == /\ NoDuplicateDigest
            /\ \A t \in Client : PendingFresh(t)
            /\ holder = Main => \A r \in todo : ~InPool(r.digest)

\* del s[i] of a sequence without repetitions leaves one without.
LEMMA RemoveAtInjective ==
    ASSUME NEW S, NEW s \in Seq(S), NEW i \in 1..Len(s),
           \A j, k \in DOMAIN s : s[j] = s[k] => j = k
    PROVE  \A j, k \in DOMAIN RemoveAt(s, i) :
              RemoveAt(s, i)[j] = RemoveAt(s, i)[k] => j = k
<1> DEFINE q == RemoveAt(s, i)
           at(k) == IF k < i THEN k ELSE k + 1
<1>1. /\ q \in Seq(S) /\ Len(q) = Len(s) - 1
      /\ \A k \in 1..(Len(s) - 1) : q[k] = IF k < i THEN s[k] ELSE s[k + 1]
  BY RemoveAtFacts
<1> HIDE DEF q
<1>2. DOMAIN q = 1..(Len(s) - 1) /\ DOMAIN s = 1..Len(s)
  BY <1>1
<1>3. \A k \in DOMAIN q : at(k) \in DOMAIN s /\ q[k] = s[at(k)]
  BY <1>1, <1>2
<1>4. \A j, k \in DOMAIN q : at(j) = at(k) => j = k
  BY <1>2
<1> HIDE DEF at
<1>5. \A j, k \in DOMAIN q : q[j] = q[k] => j = k
  BY <1>3, <1>4
<1> QED  BY <1>5 DEF q

\* Appending a batch the pool lacks adds that batch and no duplicate.
LEMMA AppendFresh ==
    ASSUME TypeOK, NoDuplicateDigest, NEW d \in Digest, ~InPool(d),
           AppendEntry(d)
    PROVE  /\ NoDuplicateDigest'
           /\ \A e \in Digest \ {d} : InPool(e)' => InPool(e)
<1>1. pool \in Seq(Digest) /\ Len(pool) \in Nat /\ pool' = Append(pool, d)
  BY DEF TypeOK, AppendEntry
<1>2. /\ Len(pool') = Len(pool) + 1
      /\ DOMAIN pool' = 1..(Len(pool) + 1)
      /\ DOMAIN pool = 1..Len(pool)
      /\ \A i \in 1..Len(pool) : pool'[i] = pool[i] /\ pool[i] # d
      /\ pool'[Len(pool) + 1] = d
  BY <1>1, AppendProperties DEF InPool, Contains
<1>3. ASSUME NEW i \in DOMAIN pool', NEW j \in DOMAIN pool', pool'[i] = pool'[j]
      PROVE  i = j
  <2>1. CASE i \in 1..Len(pool) /\ j \in 1..Len(pool)
    BY <1>2, <1>3, <2>1 DEF NoDuplicateDigest
  <2>2. CASE i = Len(pool) + 1 \/ j = Len(pool) + 1
    BY <1>1, <1>2, <1>3, <2>2
  <2> QED  BY <1>1, <1>2, <2>1, <2>2
<1>4. ASSUME NEW e \in Digest \ {d}, InPool(e)'
      PROVE  InPool(e)
  <2>1. PICK i \in 1..Len(pool') : pool'[i] = e
    BY <1>4 DEF InPool, Contains
  <2>2. i \in 1..Len(pool)
    BY <1>1, <1>2, <2>1
  <2> QED  BY <1>2, <2>1, <2>2 DEF InPool, Contains
<1> QED  BY <1>3, <1>4 DEF NoDuplicateDigest

\* del self.pool[index] adds nothing and makes no duplicate.
LEMMA DropFresh ==
    ASSUME TypeOK, DigestIndexExact, NoDuplicateDigest, NEW d \in Digest,
           digest_index[d] # 0, DropEntry(d)
    PROVE  /\ NoDuplicateDigest'
           /\ \A e : InPool(e)' => InPool(e)
<1> DEFINE i == digest_index[d]
<1>1. pool \in Seq(Digest) /\ i \in 1..Len(pool)
  BY DEF TypeOK, DigestIndexExact
<1>2. pool' = RemoveAt(pool, i) /\ pool' \in Seq(Digest)
  BY <1>1, RemoveAtFacts DEF DropEntry
<1>3. \A j, k \in DOMAIN pool' : pool'[j] = pool'[k] => j = k
  BY <1>1, <1>2, RemoveAtInjective DEF NoDuplicateDigest
<1>4. \A k \in DOMAIN pool' : \E j \in DOMAIN pool : pool'[k] = pool[j]
  BY <1>1, <1>2, RemoveAtElements
<1>5. DOMAIN pool = 1..Len(pool) /\ DOMAIN pool' = 1..Len(pool')
  BY <1>1, <1>2
<1> QED  BY <1>3, <1>4, <1>5 DEF NoDuplicateDigest, InPool, Contains

\* Steps that add nothing to the pool, start no add and do not start a load.
LEMMA FreshShrink ==
    ASSUME FreshInv, NoDuplicateDigest',
           \A e : InPool(e)' => InPool(e),
           \A t \in Client : job'[t].op = "validated" => job'[t] = job[t],
           \/ holder' # Main
           \/ holder' = holder /\ todo' \subseteq todo
    PROVE  FreshInv'
<1>1. ASSUME NEW t \in Client
      PROVE  PendingFresh(t)'
  <2>1. CASE job'[t].op = "validated"
    <3>1. PICK d : d = job[t].digest /\ job'[t].digest = d
      BY <2>1
    <3>2. /\ job[t].op = "validated" /\ ~InPool(d) /\ holder # Main
          /\ \A u \in Client \ {t} : job[u].op = "validated" => job[u].digest # d
      BY <2>1, <3>1 DEF FreshInv, PendingFresh
    <3>3. /\ ~InPool(d)' /\ holder' # Main
          /\ \A u \in Client \ {t} : job'[u].op = "validated" => job'[u].digest # d
      BY <3>2
    <3> QED  BY <3>1, <3>3 DEF PendingFresh, InPool
  <2>2. CASE job'[t].op # "validated"
    BY <2>2 DEF PendingFresh
  <2> QED  BY <2>1, <2>2
<1>2. ASSUME holder' = Main, NEW r \in todo'
      PROVE  ~InPool(r.digest)'
  BY <1>2 DEF FreshInv
<1> QED  BY <1>1, <1>2 DEF FreshInv

\* The empty pool and the empty table.
LEMMA FreshInvInit == Init => FreshInv
BY ThreadAssumption
DEF Init, FreshInv, NoDuplicateDigest, PendingFresh, Idle, Thread

\* A pool left alone stays free of duplicates and gains nothing.
LEMMA QuietFresh ==
    ASSUME NoDuplicateDigest, UNCHANGED pool
    PROVE  /\ NoDuplicateDigest'
           /\ \A e : InPool(e)' => InPool(e)
BY DEF NoDuplicateDigest, InPool, Contains

\* A disciplined caller submits a batch nobody else has or submits.
LEMMA ValidateFresh ==
    ASSUME IndexInv, FreshInv, Disciplined,
           NEW t \in Client, NEW d \in Digest, Validate(t, d)
    PROVE  FreshInv'
<1>1. /\ job[t].op = "idle" /\ holder # Main /\ holder' = holder
      /\ todo' = todo /\ UNCHANGED pool
      /\ job'[t] = [op |-> "validated", digest |-> d]
      /\ \A u \in Client \ {t} : job'[u] = job[u]
  BY DEF IndexInv, TypeOK, Validate, Idle, Thread, memory
<1>2. Fresh(d)
  BY <1>1 DEF Disciplined
<1>3. NoDuplicateDigest' /\ \A e : InPool(e)' => InPool(e)
  BY <1>1, QuietFresh DEF FreshInv
<1>4. ASSUME NEW u \in Client
      PROVE  PendingFresh(u)'
  <2>1. CASE u = t
    BY <1>1, <1>2, <2>1 DEF PendingFresh, Fresh, InPool
  <2>2. CASE u # t
    <3>1. job'[u] = job[u] /\ PendingFresh(u)
      BY <1>1, <2>2 DEF FreshInv
    <3>2. job[u].op = "validated" => job[u].digest # d
      BY <1>2 DEF Fresh
    <3> QED  BY <1>1, <3>1, <3>2 DEF PendingFresh, InPool
  <2> QED  BY <2>1, <2>2
<1> QED  BY <1>1, <1>3, <1>4 DEF FreshInv

\* The appended batch is new to the pool, and its row to the table.
LEMMA EnterFresh ==
    ASSUME IndexInv, FreshInv, NEW t \in Client, Enter(t),
           NEW d \in Digest, d = job[t].digest
    PROVE  FreshInv'
<1>1. /\ TypeOK /\ NoDuplicateDigest /\ job[t].op = "validated"
      /\ holder = NoThread /\ holder' = holder /\ AppendEntry(d)
      /\ job'[t] = Idle
      /\ \A u \in Client \ {t} : job'[u] = job[u]
  BY DEF IndexInv, FreshInv, TypeOK, Enter, Thread
<1>2. /\ ~InPool(d)
      /\ \A u \in Client \ {t} : job[u].op = "validated" => job[u].digest # d
  BY <1>1 DEF FreshInv, PendingFresh
<1>3. /\ NoDuplicateDigest'
      /\ \A e \in Digest \ {d} : InPool(e)' => InPool(e)
  BY <1>1, <1>2, AppendFresh
<1>4. ASSUME NEW u \in Client
      PROVE  PendingFresh(u)'
  <2>1. CASE u = t
    BY <1>1, <2>1 DEF PendingFresh, Idle
  <2>2. CASE u # t /\ job[u].op = "validated"
    <3>1. PICK e \in Digest \ {d} : e = job[u].digest
      BY <1>2, <2>2 DEF IndexInv, LockDiscipline, Thread
    <3>2. /\ ~InPool(e)
          /\ \A v \in Client \ {u} : job[v].op = "validated" => job[v].digest # e
          /\ holder # Main
      BY <2>2, <3>1 DEF FreshInv, PendingFresh
    <3>3. ~InPool(e)' /\ job'[u].digest = e
      BY <1>1, <1>3, <2>2, <3>1, <3>2
    <3>4. \A v \in Client \ {u} : job'[v].op = "validated" => job'[v].digest # e
      BY <1>1, <3>2 DEF Idle
    <3> QED  BY <1>1, <3>2, <3>3, <3>4 DEF PendingFresh, InPool
  <2>3. CASE u # t /\ job[u].op # "validated"
    BY <1>1, <2>3 DEF PendingFresh
  <2> QED  BY <2>1, <2>2, <2>3
<1>5. holder' # Main
  BY <1>1, ThreadAssumption DEF Thread
<1> QED  BY <1>3, <1>4, <1>5 DEF FreshInv

\* Each row is loaded once, and no two have the same batch.
LEMMA LoadRowFresh ==
    ASSUME IndexInv, TableInv, FreshInv, LoadRow
    PROVE  FreshInv'
<1>1. PICK q \in todo :
        /\ AppendEntry(q.digest) \/ UNCHANGED memory
        /\ todo' = todo \ {q}
  BY DEF LoadRow
<1>2. /\ TypeOK /\ NoDuplicateDigest /\ q.digest \in Digest
      /\ ~InPool(q.digest) /\ holder = Main /\ holder' = Main
      /\ job' = job /\ todo \subseteq rows /\ rows \subseteq Row
  BY <1>1 DEF IndexInv, FreshInv, TypeOK, Row, LoadRow
<1>3. \A t \in Client : job[t].op # "validated"
  BY <1>2 DEF FreshInv, PendingFresh
<1>4. \A t \in Client : PendingFresh(t)'
  BY <1>2, <1>3 DEF PendingFresh
<1>5. CASE UNCHANGED memory
  BY <1>1, <1>2, <1>4, <1>5, QuietFresh DEF FreshInv, memory
<1>6. CASE AppendEntry(q.digest)
  <2>1. /\ NoDuplicateDigest'
        /\ \A e \in Digest \ {q.digest} : InPool(e)' => InPool(e)
    BY <1>2, <1>6, AppendFresh
  <2>2. ASSUME NEW r \in todo'
        PROVE  ~InPool(r.digest)'
    <3>1. r \in todo /\ r # q /\ r.digest \in Digest
      BY <1>1, <1>2, <2>2 DEF Row
    <3>2. r.digest # q.digest
      BY <1>2, <3>1 DEF TableInv, OneRow
    <3>3. ~InPool(r.digest)
      BY <1>2, <3>1 DEF FreshInv
    <3> QED  BY <2>1, <3>1, <3>2, <3>3
  <2> QED  BY <1>4, <2>1, <2>2 DEF FreshInv
<1> QED  BY <1>1, <1>5, <1>6

\* An empty pool holds no batch twice.
LEMMA EmptyFresh ==
    ASSUME pool' = <<>>
    PROVE  NoDuplicateDigest' /\ \A e : ~InPool(e)'
BY DEF NoDuplicateDigest, InPool, Contains

\* The rows to be loaded are of different batches.
LEMMA RestartFresh ==
    ASSUME Restart
    PROVE  FreshInv'
<1>1. NoDuplicateDigest' /\ \A e : ~InPool(e)'
  BY EmptyFresh DEF Restart
<1>2. ASSUME NEW t \in Client PROVE job'[t].op # "validated"
  BY DEF Restart, Thread, Idle
<1> QED  BY <1>1, <1>2 DEF FreshInv, PendingFresh

\* Removing leaves no second copy.
LEMMA RemoveFresh ==
    ASSUME IndexInv, FreshInv, NEW t \in Client, RemoveMulti(t) \/ Clear(t)
    PROVE  FreshInv'
<1>0. /\ TypeOK /\ DigestIndexExact /\ NoDuplicateDigest
      /\ NoThread # Main /\ t # Main /\ t \in Thread
  BY ThreadAssumption DEF IndexInv, FreshInv, Thread
<1>1. CASE Clear(t)
  <2>1. /\ pool' = <<>> /\ job' = job /\ todo' = todo /\ holder' = holder
    BY <1>1 DEF Clear, work
  <2> QED  BY <2>1, EmptyFresh, FreshShrink
<1>2. ASSUME NEW d \in Digest, RemoveStart(t, d) PROVE FreshInv'
  <2>1. /\ holder' = t
        /\ job' = [job EXCEPT ![t] = [op |-> "removing", digest |-> d]]
        /\ digest_index[d] # 0 /\ DropEntry(d)
    BY <1>2 DEF RemoveStart
  <2>2. \A u \in Client : job'[u].op = "validated" => job'[u] = job[u]
    BY <1>0, <2>1 DEF TypeOK, Thread
  <2> QED  BY <1>0, <2>1, <2>2, DropFresh, FreshShrink
<1>3. CASE RemoveFinish(t)
  <2>1. holder' = NoThread /\ job' = [job EXCEPT ![t] = Idle] /\ UNCHANGED pool
    BY <1>3 DEF RemoveFinish, memory
  <2>2. \A u \in Client : job'[u].op = "validated" => job'[u] = job[u]
    BY <1>0, <2>1 DEF TypeOK, Thread, Idle
  <2> QED  BY <1>0, <2>1, <2>2, QuietFresh, FreshShrink
<1> QED  BY <1>1, <1>2, <1>3 DEF RemoveMulti

\* Expiring leaves no second copy.
LEMMA ExpireFresh ==
    ASSUME IndexInv, FreshInv, Expire
    PROVE  FreshInv'
<1>0. /\ TypeOK /\ DigestIndexExact /\ NoDuplicateDigest
      /\ NoThread # Main /\ Cleaner # Main /\ Cleaner \in Thread
  BY ThreadAssumption DEF IndexInv, FreshInv, Thread
<1>1. \A u \in Client : job'[u] = job[u]
  BY <1>0, ThreadAssumption
  DEF Expire, ExpireStart, ExpireFail, ExpireDrop, ExpireFinish, work, TypeOK, Thread
<1>2. holder' # Main
  BY <1>0 DEF Expire, ExpireStart, ExpireFail, ExpireDrop, ExpireFinish
<1>3. NoDuplicateDigest' /\ \A e : InPool(e)' => InPool(e)
  <2>1. CASE UNCHANGED pool
    BY <1>0, <2>1, QuietFresh
  <2>2. ASSUME NEW r \in todo, digest_index[r.digest] # 0, DropEntry(r.digest)
        PROVE  NoDuplicateDigest' /\ \A e : InPool(e)' => InPool(e)
    BY <1>0, <2>2, DropFresh DEF TypeOK, Row
  <2> QED
    BY <2>1, <2>2
    DEF Expire, ExpireStart, ExpireFail, ExpireDrop, ExpireFinish, memory
<1> QED  BY <1>1, <1>2, <1>3, FreshShrink

\* Every step of a disciplined system.
LEMMA FreshInvStep ==
    IndexInv /\ TableInv /\ FreshInv /\ [Next /\ Disciplined]_vars => FreshInv'
<1> SUFFICES ASSUME IndexInv, TableInv, FreshInv, [Next /\ Disciplined]_vars
             PROVE  FreshInv'
  OBVIOUS
<1>0. TypeOK /\ LockDiscipline /\ NoDuplicateDigest /\ NoThread # Main
  BY ThreadAssumption DEF IndexInv, FreshInv, Thread
<1>1. ASSUME UNCHANGED <<pool, holder, job, todo>> PROVE FreshInv'
  BY <1>0, <1>1, QuietFresh, FreshShrink
<1>2. ASSUME NEW d \in Digest, Create(d) PROVE FreshInv'
  BY <1>1, <1>2 DEF Create, memory, work
<1>3. ASSUME NEW t \in Client, AddMulti(t), Disciplined PROVE FreshInv'
  <2>1. ASSUME Enter(t) PROVE FreshInv'
    <3>1. job[t].digest \in Digest
      BY <1>0, <2>1 DEF LockDiscipline, Enter, Thread
    <3> QED  BY <2>1, <3>1, EnterFresh
  <2> QED  BY <1>3, <2>1, ValidateFresh DEF AddMulti
<1>4. ASSUME NEW t \in Client, RemoveMulti(t) \/ Clear(t) PROVE FreshInv'
  BY <1>4, RemoveFresh
<1>5. ASSUME NEW t \in Thread, RebuildStep(t) PROVE FreshInv'
  BY <1>1, <1>5 DEF RebuildStep, work
<1>6. ASSUME Expire PROVE FreshInv'
  BY <1>6, ExpireFresh
<1>7. ASSUME Restart PROVE FreshInv'
  BY <1>7, RestartFresh
<1>8. ASSUME LoadDone PROVE FreshInv'
  <2>1. /\ holder' = NoThread /\ UNCHANGED pool
        /\ job' = [job EXCEPT ![Main] = Idle]
    BY <1>8 DEF LoadDone, memory
  <2>2. \A u \in Client : job'[u] = job[u]
    BY <1>0, <2>1, ThreadAssumption DEF TypeOK, Thread
  <2> QED  BY <1>0, <2>1, <2>2, QuietFresh, FreshShrink
<1>9. ASSUME LoadRow PROVE FreshInv'
  BY <1>9, LoadRowFresh
<1>10. ASSUME Tick PROVE FreshInv'
  BY <1>1, <1>10 DEF Tick, memory, work
<1>11. ASSUME UNCHANGED vars PROVE FreshInv'
  BY <1>1, <1>11 DEF vars, memory, work
<1> QED
  BY <1>2, <1>3, <1>4, <1>5, <1>6, <1>7, <1>8, <1>9, <1>10, <1>11
  DEF Next, Load

\* If no caller submits a batch that is in the pool or under way to it, the
\* pool never holds a batch twice: for any number of callers racing each
\* other, the cleaner, crashes and database faults.
THEOREM DisciplineSuffices == DisciplinedSpec => []NoDuplicateDigest
<1> DEFINE Inv == IndexInv /\ TableInv /\ FreshInv
<1>1. Init => Inv
  BY IndexInvInit, TableInvInit, FreshInvInit
<1>2. Inv /\ [Next /\ Disciplined]_vars => Inv'
  <2>1. [Next /\ Disciplined]_vars => [Next]_vars
    OBVIOUS
  <2> QED  BY <2>1, IndexInvStep, TableInvStep, FreshInvStep
<1>3. Inv => NoDuplicateDigest
  BY DEF FreshInv
<1> QED  BY <1>1, <1>2, <1>3, PTL DEF DisciplinedSpec

-----------------------------------------------------------------------------
(* A reload makes no duplicates, whatever the callers do.                  *)

LoadInv == holder = Main => /\ NoDuplicateDigest
                            /\ \A r \in todo : ~InPool(r.digest)

\* Every step keeps the rows to be loaded apart.
LEMMA LoadInvStep == IndexInv /\ TableInv /\ LoadInv /\ [Next]_vars => LoadInv'
<1> SUFFICES ASSUME IndexInv, TableInv, LoadInv, [Next]_vars, holder' = Main
             PROVE  /\ NoDuplicateDigest'
                    /\ \A r \in todo' : ~InPool(r.digest)'
  BY DEF LoadInv
<1>0. /\ TypeOK /\ LockDiscipline /\ NoThread # Main
      /\ Main \notin Client /\ Main # Cleaner
  BY ThreadAssumption DEF IndexInv, Thread
<1>1. CASE UNCHANGED <<pool, holder, todo>>
  BY <1>1 DEF LoadInv, NoDuplicateDigest, InPool
<1>2. CASE Restart
  BY <1>2, EmptyFresh DEF Restart
<1>3. CASE LoadRow
  <2>1. PICK q \in todo :
          /\ AppendEntry(q.digest) \/ UNCHANGED memory
          /\ todo' = todo \ {q}
    BY <1>3 DEF LoadRow
  <2>2. /\ NoDuplicateDigest /\ q.digest \in Digest /\ ~InPool(q.digest)
        /\ todo \subseteq rows /\ rows \subseteq Row
    BY <1>0, <1>3, <2>1 DEF LoadRow, LoadInv, TypeOK, Row
  <2>3. CASE UNCHANGED memory
    BY <1>3, <2>1, <2>3 DEF LoadRow, LoadInv, memory, NoDuplicateDigest, InPool
  <2>4. CASE AppendEntry(q.digest)
    <3>1. /\ NoDuplicateDigest'
          /\ \A e \in Digest \ {q.digest} : InPool(e)' => InPool(e)
      BY <1>0, <2>2, <2>4, AppendFresh
    <3>2. ASSUME NEW r \in todo' PROVE ~InPool(r.digest)'
      <4>1. /\ r \in todo /\ r.digest \in Digest /\ r.digest # q.digest
            /\ ~InPool(r.digest)
        BY <1>3, <2>1, <2>2, <3>2 DEF TableInv, OneRow, Row, LoadRow, LoadInv
      <4> QED  BY <3>1, <4>1
    <3> QED  BY <3>1, <3>2
  <2> QED  BY <2>1, <2>3, <2>4
<1>4. CASE LoadDone
  BY <1>0, <1>4 DEF LoadDone
<1>5. ASSUME NEW t \in Client, AddMulti(t) \/ RemoveMulti(t) \/ Clear(t)
      PROVE  FALSE
  BY <1>0, <1>5
  DEF AddMulti, Validate, Enter, RemoveMulti, RemoveStart, RemoveFinish, Clear
<1>6. CASE Expire
  BY <1>0, <1>6 DEF Expire, ExpireStart, ExpireFail, ExpireDrop, ExpireFinish
<1>7. CASE \/ \E d \in Digest : Create(d)
           \/ \E t \in Thread : RebuildStep(t)
           \/ Tick
           \/ UNCHANGED vars
  BY <1>1, <1>7 DEF Create, RebuildStep, Tick, vars, memory, work
<1> QED  BY <1>2, <1>3, <1>4, <1>5, <1>6, <1>7 DEF Next, Load

\* Even after races that put a batch into the pool twice, a reload ends with
\* each batch once.
THEOREM ReloadsOnce == Spec => []ReloadDistinct
<1> DEFINE Inv == IndexInv /\ TableInv /\ LoadInv
<1>1. Init => Inv
  BY IndexInvInit, TableInvInit, ThreadAssumption DEF Init, LoadInv, Thread
<1>2. Inv /\ [Next]_vars => Inv'
  BY IndexInvStep, TableInvStep, LoadInvStep
<1>3. Inv => ReloadDistinct
  BY DEF LoadInv, ReloadDistinct
<1> QED  BY <1>1, <1>2, <1>3, PTL DEF Spec

=============================================================================
