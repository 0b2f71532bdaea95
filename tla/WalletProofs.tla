----------------------------- MODULE WalletProofs -----------------------------
(***************************************************************************)
(* Theorems about Wallet, for every set of coins and every bound.          *)
(***************************************************************************)
EXTENDS Wallet, EZValueProofs, FiniteSetTheorems, WellFoundedInduction

\* The operators of AccountValueCollection keep the state index exact.
Exact(c) == /\ IsCollection(c)
            /\ \A s \in State : c.index[s] = InState(c, s)

-----------------------------------------------------------------------------
(* The collection.                                                         *)

\* A number that no node has yet.
LEMMA NextIsNew ==
    ASSUME NEW c, IsCollection(c)
    PROVE  c.next \notin Nodes(c) /\ c.next \in Nat /\ c.next + 1 \in Nat
BY DEF IsCollection, Nodes

\* add_value enters the new node under its state.
LEMMA AddExact ==
    ASSUME NEW c, Exact(c), c.next >= 1, NEW v \in Interval
    PROVE  /\ Exact(AddValue(c, v))
           /\ AddValue(c, v).next >= 1
           /\ Nodes(AddValue(c, v)) = Nodes(c) \cup {c.next}
           /\ ValueOf(AddValue(c, v), c.next) = v
           /\ \A n \in Nodes(c) : AddValue(c, v).node[n] = c.node[n]
           /\ AddValue(c, v).node[c.next].state = "unspent"
<1> DEFINE e == AddValue(c, v)
           new == [value |-> v, state |-> "unspent"]
<1>1. c.next \notin DOMAIN c.node /\ c.next \in Nat
  BY NextIsNew DEF Exact, Nodes
<1>2. /\ DOMAIN e.node = DOMAIN c.node \cup {c.next}
      /\ e.node[c.next] = new
      /\ \A n \in DOMAIN c.node : e.node[n] = c.node[n]
      /\ e.next = c.next + 1
  BY <1>1 DEF AddValue, Enter
<1>3. new \in Node
  BY DEF Node, State
<1>4. /\ DOMAIN e.index = State
      /\ e.index["unspent"] = c.index["unspent"] \cup {c.next}
      /\ \A s \in State \ {"unspent"} : e.index[s] = c.index[s]
  BY DEF AddValue, Exact, IsCollection, State
<1> HIDE DEF e
<1>5. IsCollection(e)
  <2>1. e.next \in Nat /\ DOMAIN e.node \subseteq 1..e.next - 1
    BY <1>1, <1>2 DEF Exact, IsCollection
  <2>2. \A n \in DOMAIN e.node : e.node[n] \in Node
    BY <1>2, <1>3 DEF Exact, IsCollection
  <2>3. \A s \in State : e.index[s] \subseteq DOMAIN e.node
    BY <1>2, <1>4 DEF Exact, IsCollection
  <2> QED  BY <1>4, <2>1, <2>2, <2>3 DEF IsCollection
<1>6. ASSUME NEW s \in State PROVE e.index[s] = InState(e, s)
  <2>1. c.index[s] = InState(c, s)
    BY DEF Exact
  <2>2. InState(e, s) = InState(c, s) \cup {n \in {c.next} : new.state = s}
    BY <1>1, <1>2 DEF InState, Nodes
  <2>3. CASE s = "unspent"
    BY <1>4, <2>1, <2>2, <2>3
  <2>4. CASE s # "unspent"
    BY <1>4, <2>1, <2>2, <2>4
  <2> QED  BY <2>3, <2>4
<1> QED  BY <1>1, <1>2, <1>5, <1>6 DEF e, Exact, Nodes, ValueOf

\* split_value enters the change under the state of the node it comes from.
LEMMA SplitExact ==
    ASSUME NEW c, Exact(c), c.next >= 1,
           NEW n \in Nodes(c), NEW change \in 1..ValueOf(c, n).num - 1
    PROVE  LET e == SplitNode(c, n, change)
               parts == SplitValue(ValueOf(c, n), change)
           IN  /\ Exact(e)
               /\ e.next >= 1
               /\ Nodes(e) = Nodes(c) \cup {c.next}
               /\ ValueOf(e, n) = parts[1]
               /\ ValueOf(e, c.next) = parts[2]
               /\ \A m \in Nodes(c) \ {n} : e.node[m] = c.node[m]
<1> DEFINE e == SplitNode(c, n, change)
           parts == SplitValue(ValueOf(c, n), change)
           st == c.node[n].state
<1>1. c.next \notin DOMAIN c.node /\ c.next \in Nat
  BY NextIsNew DEF Exact, Nodes
<1>2. c.node[n] \in Node /\ n \in DOMAIN c.node /\ ValueOf(c, n) = c.node[n].value
  BY DEF Exact, IsCollection, Nodes, ValueOf
<1>3. ValueOf(c, n) \in Interval /\ st \in State
  BY <1>2 DEF Node
<1>4. parts[1] \in Interval /\ parts[2] \in Interval
  BY <1>3, SplitPartition
<1> HIDE DEF parts, st
<1>5. /\ DOMAIN e.node = DOMAIN c.node \cup {c.next}
      /\ e.node[c.next] = [c.node[n] EXCEPT !.value = parts[2]]
      /\ e.node[n] = [c.node[n] EXCEPT !.value = parts[1]]
      /\ \A m \in DOMAIN c.node \ {n} : e.node[m] = c.node[m]
      /\ e.next = c.next + 1
  BY <1>1, <1>2 DEF SplitNode, Enter, parts
<1>6. /\ DOMAIN e.index = State
      /\ e.index[st] = c.index[st] \cup {c.next}
      /\ \A s \in State \ {st} : e.index[s] = c.index[s]
  BY <1>3 DEF SplitNode, Exact, IsCollection, st
<1> HIDE DEF e
<1>7. /\ e.node[c.next] \in Node /\ e.node[n] \in Node
      /\ e.node[c.next].state = st /\ e.node[n].state = st
      /\ e.node[c.next].value = parts[2] /\ e.node[n].value = parts[1]
  BY <1>2, <1>4, <1>5 DEF Node, st
<1>8. IsCollection(e)
  <2>1. e.next \in Nat /\ DOMAIN e.node \subseteq 1..e.next - 1
    BY <1>1, <1>5 DEF Exact, IsCollection
  <2>2. \A m \in DOMAIN e.node : e.node[m] \in Node
    BY <1>5, <1>7 DEF Exact, IsCollection
  <2>3. \A s \in State : e.index[s] \subseteq DOMAIN e.node
    BY <1>5, <1>6 DEF Exact, IsCollection
  <2> QED  BY <1>6, <2>1, <2>2, <2>3 DEF IsCollection
<1>9. ASSUME NEW s \in State PROVE e.index[s] = InState(e, s)
  <2>1. c.index[s] = InState(c, s)
    BY DEF Exact
  <2>2. \A m \in DOMAIN c.node : e.node[m].state = c.node[m].state
    BY <1>2, <1>5, <1>7 DEF st
  <2>3. InState(e, s) = InState(c, s) \cup {m \in {c.next} : st = s}
    BY <1>1, <1>5, <1>7, <2>2 DEF InState, Nodes
  <2>4. CASE s = st
    BY <1>6, <2>1, <2>3, <2>4
  <2>5. CASE s # st
    BY <1>6, <2>1, <2>3, <2>5
  <2> QED  BY <2>4, <2>5
<1> QED  BY <1>1, <1>2, <1>5, <1>7, <1>8, <1>9 DEF e, parts, Exact, Nodes, ValueOf

\* _update_value_state moves the nodes found from the index of their state to
\* the new one, and changes nothing else.
LEMMA UpdateExact ==
    ASSUME NEW c, Exact(c), NEW values, NEW s \in State
    PROVE  LET e == UpdateStates(c, values, s)
           IN  /\ Exact(e)
               /\ e.next = c.next
               /\ Nodes(e) = Nodes(c)
               /\ \A n \in Nodes(c) : ValueOf(e, n) = ValueOf(c, n)
               /\ \A n \in Nodes(c) :
                     e.node[n].state = IF n \in FindNodes(c, values)
                                       THEN s ELSE c.node[n].state
<1> DEFINE e == UpdateStates(c, values, s)
           found == FindNodes(c, values)
           moved == {n \in found : c.node[n].state # s}
<1>1. found \subseteq DOMAIN c.node
  BY DEF FindNodes, Nodes
<1>2. /\ DOMAIN e.node = DOMAIN c.node
      /\ \A n \in DOMAIN c.node :
            e.node[n] = IF n \in found THEN [c.node[n] EXCEPT !.state = s]
                        ELSE c.node[n]
      /\ e.next = c.next
  BY DEF UpdateStates, Nodes
<1>3. /\ DOMAIN e.index = State
      /\ \A x \in State :
            e.index[x] = IF x = s THEN c.index[x] \cup moved
                         ELSE c.index[x] \ {n \in moved : c.node[n].state = x}
  BY DEF UpdateStates
<1>4. \A n \in DOMAIN c.node : c.node[n] \in Node
  BY DEF Exact, IsCollection
<1> HIDE DEF e, found
<1>5. \A n \in DOMAIN c.node :
         /\ e.node[n] \in Node
         /\ e.node[n].value = c.node[n].value
         /\ e.node[n].state = IF n \in found THEN s ELSE c.node[n].state
  BY <1>2, <1>4 DEF Node
<1>6. ASSUME NEW x \in State PROVE e.index[x] = InState(e, x)
  <2>1. c.index[x] = {n \in DOMAIN c.node : c.node[n].state = x}
    BY DEF Exact, InState, Nodes
  <2>2. InState(e, x) = {n \in DOMAIN c.node : e.node[n].state = x}
    BY <1>2 DEF InState, Nodes
  <2>3. CASE x = s
    <3>1. e.index[x] = c.index[x] \cup moved
      BY <1>3, <2>3
    <3> QED  BY <1>1, <1>5, <2>1, <2>2, <2>3, <3>1
  <2>4. CASE x # s
    <3>1. e.index[x] = c.index[x] \ {n \in moved : c.node[n].state = x}
      BY <1>3, <2>4
    <3> QED  BY <1>1, <1>5, <2>1, <2>2, <2>4, <3>1
  <2> QED  BY <2>3, <2>4
<1>7. IsCollection(e)
  <2>1. e.next \in Nat /\ DOMAIN e.node \subseteq 1..e.next - 1
    BY <1>2 DEF Exact, IsCollection
  <2>2. \A x \in State : e.index[x] \subseteq DOMAIN e.node
    BY <1>6 DEF InState, Nodes
  <2> QED  BY <1>2, <1>3, <1>5, <2>1, <2>2 DEF IsCollection
<1> QED  BY <1>2, <1>5, <1>6, <1>7 DEF e, found, Exact, Nodes, ValueOf

\* clear_spent_values takes out exactly the confirmed nodes.
LEMMA ClearExact ==
    ASSUME NEW c, Exact(c)
    PROVE  LET e == ClearSpentValues(c)
           IN  /\ Exact(e)
               /\ e.next = c.next
               /\ Nodes(e) = Nodes(c) \ InState(c, "confirmed")
               /\ \A n \in Nodes(e) : e.node[n] = c.node[n]
<1> DEFINE e == ClearSpentValues(c)
           spent == c.index["confirmed"]
<1>1. spent = InState(c, "confirmed")
  BY DEF Exact, State
<1>2. /\ DOMAIN e.node = DOMAIN c.node \ spent
      /\ \A n \in DOMAIN e.node : e.node[n] = c.node[n]
      /\ e.next = c.next
      /\ DOMAIN e.index = State
      /\ \A x \in State :
            e.index[x] = c.index[x] \ {n \in spent : c.node[n].state = x}
  BY DEF ClearSpentValues, RemoveValues, Nodes
<1> HIDE DEF e, spent
<1>3. ASSUME NEW x \in State PROVE e.index[x] = InState(e, x)
  <2>1. c.index[x] = {n \in DOMAIN c.node : c.node[n].state = x}
    BY DEF Exact, InState, Nodes
  <2> QED  BY <1>2, <2>1 DEF InState, Nodes
<1>4. IsCollection(e)
  <2>1. e.next \in Nat /\ DOMAIN e.node \subseteq 1..e.next - 1
    BY <1>2 DEF Exact, IsCollection
  <2>2. \A n \in DOMAIN e.node : e.node[n] \in Node
    BY <1>2 DEF Exact, IsCollection
  <2>3. \A x \in State : e.index[x] \subseteq DOMAIN e.node
    BY <1>3 DEF InState, Nodes
  <2> QED  BY <1>2, <2>1, <2>2, <2>3 DEF IsCollection
<1> QED  BY <1>1, <1>2, <1>3, <1>4 DEF e, Exact, Nodes

\* _find_node_by_value finds a node for every value the collection has.
LEMMA OldestFound ==
    ASSUME NEW c, IsCollection(c), NEW n \in Nodes(c)
    PROVE  LET m == CHOOSE m \in FindNodes(c, {ValueOf(c, n)}) : TRUE
           IN  m \in Nodes(c) /\ ValueOf(c, m) = ValueOf(c, n)
<1> DEFINE same == {m \in Nodes(c) : ValueOf(c, m) = ValueOf(c, n)}
           less == {ss \in Nat \X Nat : ss[1] < ss[2]}
<1>1. same \subseteq Nat /\ same # {}
  BY DEF IsCollection, Nodes
<1>2. IsWellFoundedOn(less, Nat)
  BY NatLessThanWellFounded, Zenon DEF OpToRel
<1>3. PICK m \in same : \A k \in same : ~(<<k, m>> \in less)
  <2> HIDE DEF same, less
  <2> QED  BY <1>1, <1>2, WFMin
<1>4. \A k \in same : m <= k
  <2> TAKE k \in same
  <2>1. k \in Nat /\ m \in Nat /\ ~(<<k, m>> \in less)
    BY <1>1, <1>3
  <2> QED  BY <2>1
<1>5. m \in FindNodes(c, {ValueOf(c, n)})
  BY <1>4 DEF FindNodes, IsSameValue
<1>6. \A k \in FindNodes(c, {ValueOf(c, n)}) :
         k \in Nodes(c) /\ ValueOf(c, k) = ValueOf(c, n)
  BY DEF FindNodes, IsSameValue
<1> QED  BY <1>5, <1>6

\* The split of a selection: exact, and the same but for the node split.
LEMMA AfterSplitExact ==
    ASSUME NEW c, Exact(c), c.next >= 1, NEW last \in Nodes(c),
           NEW change \in Nat, change < ValueOf(c, last).num
    PROVE  /\ Exact(AfterSplit(c, last, change))
           /\ AfterSplit(c, last, change).next >= 1
<1>1. CASE change > 0
  <2>1. PICK m \in Nodes(c) :
           /\ ValueOf(c, m) = ValueOf(c, last)
           /\ AfterSplit(c, last, change) = SplitNode(c, m, change)
    BY <1>1, OldestFound DEF AfterSplit, Exact
  <2>2. ValueOf(c, last) \in Interval
    BY DEF Exact, IsCollection, Nodes, Node, ValueOf
  <2>3. change \in 1..ValueOf(c, m).num - 1
    BY <1>1, <2>1, <2>2 DEF Interval
  <2> QED  BY <2>1, <2>3, SplitExact
<1>2. CASE ~(change > 0)
  BY <1>2 DEF AfterSplit
<1> QED  BY <1>1, <1>2

\* The transaction of a selection is made of values.
LEMMA TxnTyped ==
    ASSUME NEW c, Exact(c), NEW N \in SUBSET Nodes(c), NEW last \in N,
           NEW change \in Nat, change < ValueOf(c, last).num,
           NEW amount \in 0..MaxAmount
    PROVE  Txn(c, N, last, change, amount) \in TxnType
<1>1. \A n \in Nodes(c) : n \in Nat /\ ValueOf(c, n) \in Interval
  BY DEF Exact, IsCollection, Nodes, Node, ValueOf
<1>2. change > 0 => /\ SplitValue(ValueOf(c, last), change)[1] \in Interval
                    /\ SplitValue(ValueOf(c, last), change)[2] \in Interval
  <2>1. change > 0 => change \in 1..ValueOf(c, last).num - 1
    BY <1>1 DEF Interval
  <2> QED  BY <1>1, <2>1, SplitPartition
<1>3. PaidValues(c, N, last, change) \in SUBSET [node : Nat, value : Interval]
  BY <1>1, <1>2 DEF PaidValues
<1>4. ChangeValues(c, last, change) \in SUBSET Interval
  BY <1>2 DEF ChangeValues
<1> QED  BY <1>3, <1>4 DEF Txn, TxnType

\* Signing a transaction changes none of its types.
LEMMA SigTxnTyped ==
    ASSUME NEW c, Exact(c), NEW t \in TxnType
    PROVE  SigTxn(c, t) \in TxnType
<1> DEFINE over(part) == SerializeValuesForSigning(c, part)
<1>1. \A n \in Nodes(c) : ValueOf(c, n) \in Interval
  BY DEF Exact, IsCollection, Nodes, Node, ValueOf
<1>2. ASSUME NEW part PROVE over(part) \in SUBSET Interval
  BY <1>1 DEF SerializeValuesForSigning, FindNodes
<1>3. ASSUME NEW part
      PROVE  SignTransaction(over(part), Key)
                 \in [by : {Key}, over : [sha256 : SUBSET Interval]]
  <2> HIDE DEF over
  <2> QED  BY <1>2 DEF SignTransaction, SignTransactionData, Hash
<1>4. {SignTransaction(over(part), Key) : part \in Parts(t)}
          \in SUBSET [by : {Key}, over : [sha256 : SUBSET Interval]]
  <2> HIDE DEF over
  <2> QED  BY <1>3
<1> QED  BY <1>4 DEF SigTxn, TxnType

-----------------------------------------------------------------------------
(* The inductive invariant.  It adds to type correctness and to the exact  *)
(* index only that node numbers start at 1.                                *)

IndexInv == /\ TypeOK
            /\ StateIndexExact
            /\ coll.next >= 1

\* The collection is well-formed and its state index is exact.
LEMMA IndexInvExact ==
    ASSUME IndexInv
    PROVE  Exact(coll)
BY DEF IndexInv, TypeOK, StateIndexExact, Exact

\* The empty wallet.
LEMMA IndexInvInit ==
    ASSUME Init
    PROVE  IndexInv
<1>1. IsCollection(coll)
  BY DEF Init, IsCollection
<1>2. StateIndexExact
  BY DEF Init, StateIndexExact, InState, Nodes
<1>3. /\ draft \in [busy : BOOLEAN, todo : Seq(0..MaxAmount), txns : Seq(TxnType)]
      /\ \A r \in open : r.id \in Nat /\ r.txns \in Seq(TxnType)
      /\ calls \in 0..MaxCalls
      /\ held \subseteq Nat /\ owned \subseteq Nat
  BY BoundAssumption DEF Init, Idle
<1> QED  BY <1>1, <1>2, <1>3 DEF Init, IndexInv, TypeOK

\* No call is under way.
LEMMA IdleTyped ==
    Idle \in [busy : BOOLEAN, todo : Seq(0..MaxAmount), txns : Seq(TxnType)]
BY DEF Idle

\* The units of values are natural numbers.
LEMMA UnitsTyped ==
    ASSUME NEW v \in Interval
    PROVE  UnitsOf(v) \subseteq Nat
BY DEF Interval, UnitsOf, EndIndex

\* A value is received.
LEMMA ReceiveStep ==
    ASSUME IndexInv, NEW v \in Coin, Receive(v)
    PROVE  IndexInv'
<1>1. v \in Interval
  BY CoinAssumption
<1>2. Exact(coll') /\ coll'.next >= 1
  BY <1>1, AddExact, IndexInvExact DEF Receive, IndexInv
<1>3. held' \subseteq Nat /\ owned' \subseteq Nat
  BY <1>1, UnitsTyped DEF Receive, IndexInv, TypeOK
<1>4. UNCHANGED <<draft, open, calls>>
  BY DEF Receive
<1> QED  BY <1>2, <1>3, <1>4 DEF IndexInv, TypeOK, StateIndexExact, Exact

\* The confirmed values are cleaned up.
LEMMA CleanupStep ==
    ASSUME IndexInv, Cleanup
    PROVE  IndexInv'
<1>1. Exact(coll') /\ coll'.next >= 1
  BY ClearExact, IndexInvExact DEF Cleanup, IndexInv
<1>2. held' \subseteq Nat /\ UNCHANGED <<draft, open, calls, owned>>
  BY DEF Cleanup, IndexInv, TypeOK
<1> QED  BY <1>1, <1>2 DEF IndexInv, TypeOK, StateIndexExact, Exact

\* A call to create transactions begins.
LEMMA BeginStep ==
    ASSUME IndexInv, NEW requests \in Requests, Begin(requests)
    PROVE  IndexInv'
<1>1. requests \in Seq(0..MaxAmount)
  <2>1. PICK k \in 1..MaxRequests : requests \in [1..k -> 0..MaxAmount]
    BY DEF Requests
  <2>2. k \in Nat
    OBVIOUS
  <2> QED  BY <2>1, <2>2, SeqDef, Zenon
<1>2. draft' \in [busy : BOOLEAN, todo : Seq(0..MaxAmount), txns : Seq(TxnType)]
  BY <1>1 DEF Begin
<1>3. calls' \in 0..MaxCalls
  BY BoundAssumption DEF Begin, IndexInv, TypeOK
<1>4. UNCHANGED <<coll, open, held, owned>>
  BY DEF Begin
<1> QED  BY <1>2, <1>3, <1>4 DEF IndexInv, TypeOK, StateIndexExact

\* Values are selected for a request, the last one split if need be.
LEMMA PickStep ==
    ASSUME IndexInv, Pick
    PROVE  IndexInv'
<1>0. PICK N \in SUBSET Available(coll) : \E last \in N :
           \E change \in 0..ValueOf(coll, last).num :
              /\ Greedy(coll, N, last, change, Head(draft.todo))
              /\ LET t == Txn(coll, N, last, change, Head(draft.todo))
                     after == Select(coll, t, last, change)
                 IN  /\ coll' = after
                     /\ draft' = [draft EXCEPT !.todo = Tail(@),
                                               !.txns = Append(@, SigTxn(after, t))]
  BY DEF Pick
<1>1. PICK last \in N : \E change \in 0..ValueOf(coll, last).num :
              /\ Greedy(coll, N, last, change, Head(draft.todo))
              /\ LET t == Txn(coll, N, last, change, Head(draft.todo))
                     after == Select(coll, t, last, change)
                 IN  /\ coll' = after
                     /\ draft' = [draft EXCEPT !.todo = Tail(@),
                                               !.txns = Append(@, SigTxn(after, t))]
  BY <1>0
<1>2. PICK change \in 0..ValueOf(coll, last).num :
         /\ Greedy(coll, N, last, change, Head(draft.todo))
         /\ LET t == Txn(coll, N, last, change, Head(draft.todo))
                after == Select(coll, t, last, change)
            IN  /\ coll' = after
                /\ draft' = [draft EXCEPT !.todo = Tail(@),
                                          !.txns = Append(@, SigTxn(after, t))]
  BY <1>1
<1> DEFINE t == Txn(coll, N, last, change, Head(draft.todo))
<1>3. /\ draft.todo \in Seq(0..MaxAmount) /\ draft.todo # <<>>
      /\ draft.txns \in Seq(TxnType)
  BY DEF Pick, IndexInv, TypeOK
<1>4. Head(draft.todo) \in 0..MaxAmount /\ Tail(draft.todo) \in Seq(0..MaxAmount)
  BY <1>3, HeadTailProperties
<1>5. N \subseteq Nodes(coll) /\ last \in Nodes(coll)
  BY DEF Available, IndexInv, TypeOK, IsCollection, Nodes, State
<1>6. change \in Nat /\ change < ValueOf(coll, last).num
  <2>1. ValueOf(coll, last) \in Interval
    BY <1>5, IndexInvExact DEF Exact, IsCollection, Nodes, Node, ValueOf
  <2> QED  BY <1>2, <2>1 DEF Interval, Greedy
<1>7. t \in TxnType
  BY <1>4, <1>5, <1>6, TxnTyped, IndexInvExact
<1>8. Exact(coll') /\ coll'.next >= 1
  <2>1. /\ Exact(AfterSplit(coll, last, change))
        /\ AfterSplit(coll, last, change).next >= 1
    BY <1>5, <1>6, AfterSplitExact, IndexInvExact DEF IndexInv
  <2>2. coll' = UpdateStates(AfterSplit(coll, last, change), Values(t), "selected")
    BY <1>2 DEF Select
  <2> HIDE DEF t
  <2> QED  BY <2>1, <2>2, UpdateExact DEF State
<1>9. draft' \in [busy : BOOLEAN, todo : Seq(0..MaxAmount), txns : Seq(TxnType)]
  <2> DEFINE signed == SigTxn(coll', t)
  <2>1. draft' = [draft EXCEPT !.todo = Tail(@), !.txns = Append(@, signed)]
    BY <1>2
  <2> HIDE DEF t
  <2>2. signed \in TxnType
    BY <1>7, <1>8, SigTxnTyped
  <2> HIDE DEF signed
  <2>3. Append(draft.txns, signed) \in Seq(TxnType)
    BY <1>3, <2>2
  <2> QED  BY <1>4, <2>1, <2>3 DEF IndexInv, TypeOK
<1>10. UNCHANGED <<open, calls, held, owned>>
  BY DEF Pick
<1> QED  BY <1>8, <1>9, <1>10 DEF IndexInv, TypeOK, StateIndexExact, Exact

\* The call fails; what it has changed stays changed.
LEMMA EndStep ==
    ASSUME IndexInv, Refuse \/ SignFails
    PROVE  IndexInv'
<1>1. draft' = Idle /\ UNCHANGED <<coll, open, calls, held, owned>>
  BY DEF Refuse, SignFails
<1> QED  BY <1>1, IdleTyped DEF IndexInv, TypeOK, StateIndexExact

\* The values paid with are committed and the result is returned.
LEMMA SealStep ==
    ASSUME IndexInv, Seal
    PROVE  IndexInv'
<1>1. Exact(coll') /\ coll'.next >= 1
  BY UpdateExact, IndexInvExact DEF Seal, Commit, State, IndexInv
<1>2. \A r \in open' : r.id \in Nat /\ r.txns \in Seq(TxnType)
  <2>1. draft.txns \in Seq(TxnType) /\ calls \in Nat
    BY BoundAssumption DEF IndexInv, TypeOK
  <2>2. \A r \in open' : \/ r \in open
                         \/ r.id = calls /\ r.txns = draft.txns
    BY DEF Seal
  <2> QED  BY <2>1, <2>2 DEF IndexInv, TypeOK
<1>3. draft' = Idle /\ UNCHANGED <<calls, held, owned>>
  BY DEF Seal
<1> QED  BY <1>1, <1>2, <1>3, IdleTyped DEF IndexInv, TypeOK, StateIndexExact, Exact

\* A result is confirmed or rolled back.
LEMMA SettleStep ==
    ASSUME IndexInv, NEW r \in open, Confirm(r) \/ Rollback(r)
    PROVE  IndexInv'
<1>1. Exact(coll') /\ coll'.next >= 1
  BY UpdateExact, IndexInvExact DEF Confirm, ConfirmValues, Rollback, State, IndexInv
<1>2. /\ open' \subseteq open /\ owned' \subseteq owned
      /\ UNCHANGED <<draft, calls, held>>
  BY DEF Confirm, Rollback
<1> QED  BY <1>1, <1>2 DEF IndexInv, TypeOK, StateIndexExact, Exact

\* Whatever the wallet does apart from receiving.
LEMMA MovesStep ==
    ASSUME IndexInv, Moves
    PROVE  IndexInv'
BY CleanupStep, BeginStep, PickStep, EndStep, SealStep, SettleStep DEF Moves

\* Every step.
LEMMA IndexInvStep ==
    ASSUME IndexInv, [Next]_vars
    PROVE  IndexInv'
<1>1. CASE Next
  BY <1>1, ReceiveStep, MovesStep DEF Next
<1>2. CASE UNCHANGED vars
  BY <1>2 DEF vars, IndexInv, TypeOK, StateIndexExact
<1> QED  BY <1>1, <1>2

\* The collection is well-typed and its state index exact, also between the
\* steps of a call and after a call that failed.
THEOREM InductiveInvariant == Spec => []IndexInv
<1>1. Init => IndexInv
  BY IndexInvInit
<1>2. IndexInv /\ [Next]_vars => IndexInv'
  BY IndexInvStep
<1> QED  BY <1>1, <1>2, PTL DEF Spec

\* Every variable keeps its type; in particular every value ever split off or
\* selected is a non-empty interval.
THEOREM TypeCorrect == Spec => []TypeOK
<1>1. IndexInv => TypeOK
  BY DEF IndexInv
<1> QED  BY <1>1, InductiveInvariant, PTL

\* The state index tells the true state of every node, whatever is received,
\* selected, refused, confirmed, rolled back and cleaned up, in any order, and
\* even when a value is received while a spent copy of it is still there.
THEOREM IndexExact == Spec => []StateIndexExact
<1>1. IndexInv => StateIndexExact
  BY DEF IndexInv
<1> QED  BY <1>1, InductiveInvariant, PTL

-----------------------------------------------------------------------------
(* Sums over finite sets.                                                  *)

\* As many things as the numbers of the set's elements add up to.
Heap(f, S) == {e \in S \X Nat : e[2] < f[e[1]]}

\* One unfolding of a fold that adds the numbers of a set's elements.
AddOne(f, S, h) ==
    [s \in SUBSET S |->
        IF s = {} THEN 0
        ELSE f[CHOOSE x \in s : TRUE] + h[s \ {CHOOSE x \in s : TRUE}]]

\* A collection of subsets of a finite set has a minimal one.
LEMMA MinimalSubset ==
    ASSUME NEW S, IsFiniteSet(S), NEW bad, bad \subseteq SUBSET S, bad # {}
    PROVE  \E T \in bad : \A U \in bad : U \subseteq T => U = T
<1>1. IsWellFoundedOn(StrictSubsetOrdering(S), FiniteSubsetsOf(S))
  BY FS_StrictSubsetOrderingWellFounded
<1>2. bad \subseteq FiniteSubsetsOf(S)
  BY FS_Subset DEF FiniteSubsetsOf
<1>3. PICK T \in bad : \A U \in bad : ~(<<U, T>> \in StrictSubsetOrdering(S))
  BY <1>1, <1>2, WFMin
<1>4. \A U \in bad : U \subseteq T => U = T
  BY <1>2, <1>3 DEF StrictSubsetOrdering, FiniteSubsetsOf
<1> QED  BY <1>4

\* An element adds its number.
LEMMA HeapAdds ==
    ASSUME NEW D, NEW f \in [D -> Nat], NEW T, T \subseteq D, NEW x \in T,
           IsFiniteSet(Heap(f, T \ {x}))
    PROVE  /\ IsFiniteSet(Heap(f, T))
           /\ Cardinality(Heap(f, T)) = f[x] + Cardinality(Heap(f, T \ {x}))
           /\ Cardinality(Heap(f, T)) \in Nat
<1> DEFINE A == Heap(f, T \ {x})
           m == f[x]
           B == {<<x, i>> : i \in 0..m - 1}
<1>1. m \in Nat
  OBVIOUS
<1>2. Heap(f, T) = A \cup B /\ A \cap B = {}
  BY <1>1 DEF Heap
<1>3. IsFiniteSet(B) /\ Cardinality(B) = m
  <2>1. IsFiniteSet(0..m - 1) /\ Cardinality(0..m - 1) = m
    <3>1. 0 \in Int /\ m - 1 \in Int
      BY <1>1
    <3> HIDE DEF m
    <3> QED  BY <1>1, <3>1, FS_Interval, SMTT(30)
  <2>2. ExistsBijection(0..m - 1, B)
    <3> DEFINE b == [i \in 0..m - 1 |-> <<x, i>>]
    <3> HIDE DEF m
    <3>1. b \in [0..m - 1 -> B]
      OBVIOUS
    <3>2. b \in Injection(0..m - 1, B)
      BY <3>1 DEF Injection, IsInjective
    <3>3. b \in Surjection(0..m - 1, B)
      BY <3>1 DEF Surjection
    <3> QED  BY <3>2, <3>3 DEF ExistsBijection, Bijection
  <2> HIDE DEF B, m
  <2> QED  BY <2>1, <2>2, FS_Bijection
<1> HIDE DEF A, B, m
<1>4. IsFiniteSet(A)
  BY DEF A
<1>5. /\ IsFiniteSet(A \cup B)
      /\ Cardinality(A \cup B) = Cardinality(A) + Cardinality(B) - Cardinality(A \cap B)
  BY <1>3, <1>4, FS_Union
<1>6. Cardinality(A \cap B) = 0 /\ Cardinality(A) \in Nat
  BY <1>2, <1>4, FS_EmptySet, FS_CardinalityType
<1>7. Cardinality(A \cup B) = m + Cardinality(A)
  BY <1>1, <1>3, <1>5, <1>6
<1> QED  BY <1>1, <1>2, <1>5, <1>6, <1>7 DEF A, m

\* The heap of a finite set is finite, and empty for the empty set.
LEMMA HeapFinite ==
    ASSUME NEW S, IsFiniteSet(S), NEW f \in [S -> Nat]
    PROVE  /\ \A T \in SUBSET S : /\ IsFiniteSet(Heap(f, T))
                                  /\ Cardinality(Heap(f, T)) \in Nat
           /\ Cardinality(Heap(f, {})) = 0
<1> DEFINE bad == {T \in SUBSET S : ~IsFiniteSet(Heap(f, T))}
<1>1. IsFiniteSet(Heap(f, {})) /\ Cardinality(Heap(f, {})) = 0
  <2>1. Heap(f, {}) = {}
    BY DEF Heap
  <2> QED  BY <2>1, FS_EmptySet
<1>2. bad = {}
  <2> SUFFICES ASSUME bad # {} PROVE FALSE
    OBVIOUS
  <2>1. PICK T \in bad : \A U \in bad : U \subseteq T => U = T
    <3>1. bad \subseteq SUBSET S
      OBVIOUS
    <3> HIDE DEF bad
    <3> QED  BY <3>1, MinimalSubset
  <2>2. PICK x : x \in T
    BY <1>1, <2>1
  <2>3. IsFiniteSet(Heap(f, T \ {x}))
    BY <2>1, <2>2
  <2>4. T \subseteq S
    BY <2>1
  <2>5. IsFiniteSet(Heap(f, T))
    BY <2>2, <2>3, <2>4, HeapAdds
  <2> QED  BY <2>1, <2>5
<1> QED  BY <1>1, <1>2, FS_CardinalityType

\* What the fold over the set computes: its result is the size of the heap.
LEMMA FoldIsHeap ==
    ASSUME NEW S, IsFiniteSet(S), NEW f \in [S -> Nat], NEW iter,
           iter = AddOne(f, S, iter)
    PROVE  iter[S] = Cardinality(Heap(f, S))
<1> DEFINE bad == {T \in SUBSET S : iter[T] # Cardinality(Heap(f, T))}
<1>1. bad = {}
  <2> SUFFICES ASSUME bad # {} PROVE FALSE
    OBVIOUS
  <2>1. PICK T \in bad : \A U \in bad : U \subseteq T => U = T
    <3>1. bad \subseteq SUBSET S
      OBVIOUS
    <3> HIDE DEF bad
    <3> QED  BY <3>1, MinimalSubset
  <2> DEFINE x == CHOOSE y \in T : TRUE
  <2>2. T \in SUBSET S /\ iter[T] # Cardinality(Heap(f, T))
    BY <2>1
  <2>3. iter[T] = IF T = {} THEN 0 ELSE f[x] + iter[T \ {x}]
    <3>1. iter[T] = AddOne(f, S, iter)[T]
      OBVIOUS
    <3> QED  BY <2>2, <3>1 DEF AddOne
  <2>4. T # {} => x \in T
    OBVIOUS
  <2> HIDE DEF x
  <2>5. T # {}
    BY <2>2, <2>3, HeapFinite
  <2>6. iter[T \ {x}] = Cardinality(Heap(f, T \ {x}))
    BY <2>1, <2>2, <2>4, <2>5
  <2>7. Cardinality(Heap(f, T)) = f[x] + Cardinality(Heap(f, T \ {x}))
    BY <2>2, <2>4, <2>5, HeapFinite, HeapAdds
  <2> QED  BY <2>2, <2>3, <2>5, <2>6, <2>7
<1> QED  BY <1>1

\* There is such a function.
LEMMA FoldExists ==
    ASSUME NEW S, IsFiniteSet(S), NEW f \in [S -> Nat]
    PROVE  \E iter : iter = AddOne(f, S, iter)
<1> DEFINE g == [s \in SUBSET S |-> Cardinality(Heap(f, s))]
<1>1. ASSUME NEW s \in SUBSET S
      PROVE  g[s] = IF s = {} THEN 0
                    ELSE f[CHOOSE x \in s : TRUE] + g[s \ {CHOOSE x \in s : TRUE}]
  <2> DEFINE x == CHOOSE y \in s : TRUE
  <2>1. g[{}] = 0
    BY HeapFinite
  <2>2. s # {} => x \in s
    OBVIOUS
  <2> HIDE DEF x
  <2>3. s # {} => Cardinality(Heap(f, s)) = f[x] + Cardinality(Heap(f, s \ {x}))
    BY <2>2, HeapFinite, HeapAdds
  <2>4. s # {} => g[s] = f[x] + g[s \ {x}]
    BY <2>2, <2>3
  <2> QED  BY <2>1, <2>4 DEF x
<1>2. g = [s \in SUBSET S |-> g[s]]
  OBVIOUS
<1> HIDE DEF g
<1>3. g = AddOne(f, S, g)
  BY <1>1, <1>2 DEF AddOne
<1> QED  BY <1>3

\* Sum adds up the values of the nodes.
LEMMA SumIs ==
    ASSUME NEW c, NEW N, IsFiniteSet(N), \A n \in N : ValueOf(c, n).num \in Nat
    PROVE  Sum(c, N) = Cardinality(Heap([n \in N |-> ValueOf(c, n).num], N))
<1> DEFINE f == [n \in N |-> ValueOf(c, n).num]
           Step(h) == [s \in SUBSET N |->
                         IF s = {} THEN 0
                         ELSE ValueOf(c, CHOOSE x \in s : TRUE).num
                                 + h[s \ {CHOOSE x \in s : TRUE}]]
           sum == CHOOSE h : h = Step(h)
<1>1. Sum(c, N) = sum[N]
  BY DEF Sum, MapThenSumSet, MapThenFoldSet
<1>2. \A h : Step(h) = AddOne(f, N, h)
  <2> TAKE h
  <2>1. \A s \in SUBSET N : s # {} => f[CHOOSE x \in s : TRUE] = ValueOf(c, CHOOSE x \in s : TRUE).num
    OBVIOUS
  <2> HIDE DEF f
  <2> QED  BY <2>1 DEF AddOne
<1>3. f \in [N -> Nat]
  OBVIOUS
<1> HIDE DEF f
<1>4. \E h : h = AddOne(f, N, h)
  BY <1>3, FoldExists
<1> HIDE DEF Step
<1>5. sum = AddOne(f, N, sum)
  <2>1. \E h : h = Step(h)
    BY <1>2, <1>4
  <2>2. sum = Step(sum)
    BY <2>1
  <2> QED  BY <1>2, <2>2
<1> HIDE DEF sum
<1>6. sum[N] = Cardinality(Heap(f, N))
  BY <1>3, <1>5, FoldIsHeap
<1> QED  BY <1>1, <1>6 DEF f

\* The same sum over what a transaction pays with.
LEMMA PaidIs ==
    ASSUME NEW N, IsFiniteSet(N), \A p \in N : p.value.num \in Nat
    PROVE  MapThenSumSet(LAMBDA p : p.value.num, N)
             = Cardinality(Heap([p \in N |-> p.value.num], N))
<1> DEFINE f == [n \in N |-> n.value.num]
           Step(h) == [s \in SUBSET N |->
                         IF s = {} THEN 0
                         ELSE (CHOOSE x \in s : TRUE).value.num
                                 + h[s \ {CHOOSE x \in s : TRUE}]]
           sum == CHOOSE h : h = Step(h)
<1>1. MapThenSumSet(LAMBDA p : p.value.num, N) = sum[N]
  BY DEF MapThenSumSet, MapThenFoldSet
<1>2. \A h : Step(h) = AddOne(f, N, h)
  <2> TAKE h
  <2>1. \A s \in SUBSET N : s # {} => f[CHOOSE x \in s : TRUE] = (CHOOSE x \in s : TRUE).value.num
    OBVIOUS
  <2> HIDE DEF f
  <2> QED  BY <2>1 DEF AddOne
<1>3. f \in [N -> Nat]
  OBVIOUS
<1> HIDE DEF f
<1>4. \E h : h = AddOne(f, N, h)
  BY <1>3, FoldExists
<1> HIDE DEF Step
<1>5. sum = AddOne(f, N, sum)
  <2>1. \E h : h = Step(h)
    BY <1>2, <1>4
  <2>2. sum = Step(sum)
    BY <2>1
  <2> QED  BY <1>2, <2>2
<1> HIDE DEF sum
<1>6. sum[N] = Cardinality(Heap(f, N))
  BY <1>3, <1>5, FoldIsHeap
<1> QED  BY <1>1, <1>6 DEF f

\* Heaps over sets that correspond have the same size.
LEMMA SameHeap ==
    ASSUME NEW S, NEW T, NEW f, NEW g, NEW r \in [S -> T],
           \A x, y \in S : r[x] = r[y] => x = y,
           \A y \in T : \E x \in S : y = r[x],
           \A x \in S : g[r[x]] = f[x],
           IsFiniteSet(Heap(f, S))
    PROVE  Cardinality(Heap(g, T)) = Cardinality(Heap(f, S))
<1> DEFINE A == Heap(f, S)
           B == Heap(g, T)
           b == [e \in A |-> <<r[e[1]], e[2]>>]
<1>1. b \in [A -> B]
  BY DEF Heap
<1>2. \A d, e \in A : b[d] = b[e] => d = e
  <2> SUFFICES ASSUME NEW d \in A, NEW e \in A, b[d] = b[e] PROVE d = e
    OBVIOUS
  <2>1. /\ d \in S \X Nat /\ e \in S \X Nat
    BY DEF Heap
  <2>2. r[d[1]] = r[e[1]] /\ d[2] = e[2]
    OBVIOUS
  <2> HIDE DEF A, b
  <2>3. d[1] = e[1]
    BY <2>1, <2>2
  <2> QED  BY <2>1, <2>2, <2>3
<1>3. \A y \in B : \E e \in A : b[e] = y
  <2> TAKE y \in B
  <2>1. y \in T \X Nat /\ y[2] < g[y[1]]
    BY DEF Heap
  <2>2. PICK x \in S : y[1] = r[x]
    BY <2>1
  <2>3. <<x, y[2]>> \in A
    BY <2>1, <2>2 DEF Heap
  <2>4. b[<<x, y[2]>>] = <<r[x], y[2]>>
    BY <2>3
  <2> HIDE DEF A, B, b
  <2> QED  BY <2>1, <2>2, <2>3, <2>4
<1>4. IsFiniteSet(A)
  OBVIOUS
<1> HIDE DEF A, B, b
<1>5. b \in Bijection(A, B)
  BY <1>1, <1>2, <1>3 DEF Bijection, Injection, Surjection, IsInjective
<1>6. ExistsBijection(A, B)
  BY <1>5 DEF ExistsBijection
<1> QED  BY <1>4, <1>6, FS_Bijection DEF A, B

\* A selection pays with the sum of its values, less the change.
LEMMA SelectionExact ==
    ASSUME NEW c, IsCollection(c), NEW N, N \subseteq Nodes(c), NEW last \in N,
           NEW change \in 0..ValueOf(c, last).num, NEW amount \in Nat,
           Sum(c, N) = amount + change
    PROVE  MapThenSumSet(LAMBDA p : p.value.num, PaidValues(c, N, last, change)) = amount
<1> DEFINE f == [n \in N |-> ValueOf(c, n).num]
           r == [n \in N |-> [node |-> n,
                              value |-> IF n = last /\ change > 0
                                        THEN SplitValue(ValueOf(c, last), change)[1]
                                        ELSE ValueOf(c, n)]]
           paid == PaidValues(c, N, last, change)
           g == [p \in paid |-> p.value.num]
<1>1. \A n \in N : ValueOf(c, n) \in Interval
  BY DEF IsCollection, Nodes, Node, ValueOf
<1>2. IsFiniteSet(N)
  <2>1. N \subseteq 1..c.next - 1 /\ c.next \in Nat
    BY DEF IsCollection, Nodes
  <2>2. 1 \in Int /\ c.next - 1 \in Int
    BY <2>1
  <2>3. IsFiniteSet(1..c.next - 1)
    BY <2>2, FS_Interval
  <2> QED  BY <2>1, <2>3, FS_Subset
<1>3. f \in [N -> Nat] /\ f[last] = ValueOf(c, last).num /\ change \in Nat /\ change <= f[last]
  BY <1>1 DEF Interval
<1>4. paid = {r[n] : n \in N}
  BY DEF PaidValues
<1>5. \A m, n \in N : r[m] = r[n] => m = n
  OBVIOUS
<1>6. \A n \in N : r[n].value.num = IF n = last THEN f[n] - change ELSE f[n]
  <2> TAKE n \in N
  <2>1. CASE n = last /\ change > 0
    <3>1. r[n].value.num = ValueOf(c, last).num - change
      BY <2>1 DEF SplitValue
    <3> QED  BY <1>3, <2>1, <3>1
  <2>2. CASE ~(n = last /\ change > 0)
    <3>1. r[n].value.num = f[n]
      BY <2>2
    <3> HIDE DEF r
    <3>2. f[n] \in Nat
      BY <1>3
    <3> HIDE DEF f
    <3> QED  BY <1>3, <2>2, <3>1, <3>2
  <2> QED  BY <2>1, <2>2
<1> HIDE DEF r, paid
<1>7. IsFiniteSet(paid)
  <2>1. r \in Surjection(N, paid)
    <3>1. r \in [N -> paid]
      BY <1>4 DEF r
    <3> QED  BY <1>4, <3>1 DEF Surjection
  <2> QED  BY <1>2, <2>1, FS_Surjection
<1>8. \A p \in paid : p.value.num \in Nat
  BY <1>3, <1>4, <1>6
<1>9. g \in [paid -> Nat] /\ \A n \in N : g[r[n]] = IF n = last THEN f[n] - change ELSE f[n]
  BY <1>4, <1>6, <1>8
<1>10. Sum(c, N) = Cardinality(Heap(f, N))
  <2>1. \A n \in N : ValueOf(c, n).num \in Nat
    BY <1>1 DEF Interval
  <2> QED  BY <1>2, <2>1, SumIs
<1>11. MapThenSumSet(LAMBDA p : p.value.num, paid) = Cardinality(Heap(g, paid))
  BY <1>7, <1>8, PaidIs
<1> HIDE DEF f, g
<1> DEFINE A == N \ {last}
           B == paid \ {r[last]}
<1>12. Cardinality(Heap(f, N)) = f[last] + Cardinality(Heap(f, A))
  BY <1>2, <1>3, HeapFinite, HeapAdds
<1>13. /\ Cardinality(Heap(g, paid)) = g[r[last]] + Cardinality(Heap(g, B))
  <2>1. r[last] \in paid
    BY <1>4
  <2> QED  BY <1>7, <1>9, <2>1, HeapFinite, HeapAdds
<1>14. Cardinality(Heap(g, B)) = Cardinality(Heap(f, A))
  <2> DEFINE q == [n \in A |-> r[n]]
  <2>1. q \in [A -> B]
    BY <1>4, <1>5
  <2>2. \A x, y \in A : q[x] = q[y] => x = y
    BY <1>5
  <2>3. \A y \in B : \E x \in A : y = q[x]
    BY <1>4
  <2>4. \A x \in A : g[q[x]] = f[x]
    BY <1>9
  <2>5. IsFiniteSet(Heap(f, A))
    BY <1>2, <1>3, HeapFinite
  <2> HIDE DEF q, A, B
  <2> QED  BY <2>1, <2>2, <2>3, <2>4, <2>5, SameHeap
<1>15. Cardinality(Heap(f, A)) \in Nat /\ g[r[last]] = f[last] - change /\ f[last] \in Nat
  BY <1>2, <1>3, <1>9, HeapFinite
<1> HIDE DEF A, B
<1>16. MapThenSumSet(LAMBDA p : p.value.num, paid) = amount
  BY <1>3, <1>10, <1>11, <1>12, <1>13, <1>14, <1>15
<1> QED  BY <1>16 DEF paid

-----------------------------------------------------------------------------
(* Amounts.                                                                *)

\* What the transaction pays with adds up to its amount.
ExactTxn(t) == MapThenSumSet(LAMBDA p : p.value.num, t.paid) = t.amount

\* So it does for every transaction of the sequence.
ExactTxns(txns) == \A i \in DOMAIN txns : ExactTxn(txns[i])

\* A selection makes such a transaction.
LEMMA PickExact ==
    ASSUME IndexInv, Pick, ExactTxns(draft.txns)
    PROVE  ExactTxns(draft'.txns)
<1>0. PICK N \in SUBSET Available(coll) : \E last \in N :
           \E change \in 0..ValueOf(coll, last).num :
              /\ Greedy(coll, N, last, change, Head(draft.todo))
              /\ LET t == Txn(coll, N, last, change, Head(draft.todo))
                     after == Select(coll, t, last, change)
                 IN  draft' = [draft EXCEPT !.todo = Tail(@),
                                            !.txns = Append(@, SigTxn(after, t))]
  BY DEF Pick
<1>1. PICK last \in N : \E change \in 0..ValueOf(coll, last).num :
              /\ Greedy(coll, N, last, change, Head(draft.todo))
              /\ LET t == Txn(coll, N, last, change, Head(draft.todo))
                     after == Select(coll, t, last, change)
                 IN  draft' = [draft EXCEPT !.todo = Tail(@),
                                            !.txns = Append(@, SigTxn(after, t))]
  BY <1>0
<1>2. PICK change \in 0..ValueOf(coll, last).num :
              /\ Greedy(coll, N, last, change, Head(draft.todo))
              /\ LET t == Txn(coll, N, last, change, Head(draft.todo))
                     after == Select(coll, t, last, change)
                 IN  draft' = [draft EXCEPT !.todo = Tail(@),
                                            !.txns = Append(@, SigTxn(after, t))]
  BY <1>1
<1> DEFINE amount == Head(draft.todo)
           t == Txn(coll, N, last, change, amount)
           signed == SigTxn(Select(coll, t, last, change), t)
<1>3. /\ draft.todo \in Seq(0..MaxAmount) /\ draft.todo # <<>>
      /\ draft.txns \in Seq(TxnType)
      /\ draft.txns = draft["txns"]
      /\ draft \in [busy : BOOLEAN, todo : Seq(0..MaxAmount), txns : Seq(TxnType)]
  BY DEF Pick, IndexInv, TypeOK
<1>4. amount \in Nat
  <2>1. amount \in 0..MaxAmount
    BY <1>3, HeadTailProperties
  <2> QED  BY <2>1, BoundAssumption
<1>5. N \subseteq Nodes(coll) /\ IsCollection(coll)
  BY DEF Available, IndexInv, TypeOK, IsCollection, Nodes, State
<1>6. draft'.txns = Append(draft.txns, signed)
  <2>1. draft' = [draft EXCEPT !.todo = Tail(@), !.txns = Append(@, signed)]
    BY <1>2
  <2> HIDE DEF signed, t, amount
  <2> QED  BY <1>3, <2>1
<1>7. t.amount = amount /\ t.paid = PaidValues(coll, N, last, change)
  BY DEF Txn
<1>8. signed.amount = t.amount /\ signed.paid = t.paid
  <2>1. signed = [t EXCEPT !.signatures =
                     {SignTransaction(SerializeValuesForSigning(Select(coll, t, last, change), part), Key)
                         : part \in Parts(t)}]
    BY DEF SigTxn
  <2>2. t = [amount |-> t.amount, paid |-> t.paid, change |-> t.change,
             signatures |-> t.signatures]
    BY DEF Txn
  <2> HIDE DEF t, signed
  <2> QED  BY <2>1, <2>2
<1>9. Sum(coll, N) = amount + change
  BY <1>2 DEF Greedy
<1> HIDE DEF t, signed, amount
<1>10. ExactTxn(signed)
  <2>1. MapThenSumSet(LAMBDA p : p.value.num, PaidValues(coll, N, last, change)) = amount
    BY <1>4, <1>5, <1>9, SelectionExact
  <2> QED  BY <1>7, <1>8, <2>1 DEF ExactTxn
<1>11. PICK S : draft.txns \in Seq(S)
  BY <1>3
<1>12. /\ DOMAIN draft.txns = 1..Len(draft.txns) /\ Len(draft.txns) \in Nat
       /\ DOMAIN Append(draft.txns, signed) = 1..Len(draft.txns) + 1
       /\ \A i \in 1..Len(draft.txns) : Append(draft.txns, signed)[i] = draft.txns[i]
       /\ Append(draft.txns, signed)[Len(draft.txns) + 1] = signed
  <2>1. draft.txns \in Seq(S \cup {signed})
    BY <1>11
  <2>2. Append(draft.txns, signed) \in Seq(S \cup {signed})
    BY <2>1, AppendProperties
  <2> QED  BY <2>1, <2>2, AppendProperties, LenProperties
<1>13. \A i \in DOMAIN Append(draft.txns, signed) :
          i \in DOMAIN draft.txns \/ i = Len(draft.txns) + 1
  BY <1>12
<1> QED  BY <1>6, <1>10, <1>12, <1>13 DEF ExactTxns

\* What was made and not settled is exact.
AmountsInv == ExactTxns(draft.txns) /\ \A r \in open : ExactTxns(r.txns)

\* Every step keeps it so.
LEMMA AmountsStep ==
    ASSUME IndexInv, AmountsInv, [Next]_vars
    PROVE  AmountsInv'
<1>1. ExactTxns(Idle.txns)
  BY DEF Idle, ExactTxns
<1>2. CASE Pick
  <2>1. ExactTxns(draft'.txns) /\ open' = open
    BY <1>2, PickExact DEF AmountsInv, Pick
  <2> QED  BY <2>1 DEF AmountsInv
<1>3. CASE Seal
  <2>1. PICK r : r.txns = draft.txns /\ open' = open \cup {r} /\ draft' = Idle
    <3> DEFINE r == [id |-> calls, txns |-> draft.txns,
                     signature |-> SigAccTxn(coll, draft.txns)]
    <3>1. r.txns = draft.txns
      OBVIOUS
    <3>2. open' = open \cup {r} /\ draft' = Idle
      BY <1>3 DEF Seal
    <3> HIDE DEF r
    <3> QED  BY <3>1, <3>2
  <2>2. ExactTxns(draft'.txns) /\ \A q \in open' : ExactTxns(q.txns)
    BY <1>1, <2>1 DEF AmountsInv
  <2> QED  BY <2>2 DEF AmountsInv
<1>4. ASSUME (draft'.txns = draft.txns \/ draft'.txns = Idle.txns) /\ open' \subseteq open
      PROVE  AmountsInv'
  <2>1. ExactTxns(draft'.txns) /\ \A q \in open' : ExactTxns(q.txns)
    BY <1>1, <1>4 DEF AmountsInv
  <2> QED  BY <2>1 DEF AmountsInv
<1>5. ASSUME NEW v \in Coin, Receive(v) PROVE AmountsInv'
  BY <1>4, <1>5 DEF Receive
<1>6. CASE Cleanup
  BY <1>4, <1>6 DEF Cleanup
<1>7. ASSUME NEW requests \in Requests, Begin(requests) PROVE AmountsInv'
  BY <1>4, <1>7 DEF Begin, Idle
<1>8. CASE Refuse \/ SignFails
  BY <1>4, <1>8 DEF Refuse, SignFails
<1>9. ASSUME NEW r \in open, Confirm(r) \/ Rollback(r) PROVE AmountsInv'
  BY <1>4, <1>9 DEF Confirm, Rollback
<1>10. CASE UNCHANGED vars
  BY <1>4, <1>10 DEF vars
<1> QED  BY <1>2, <1>3, <1>5, <1>6, <1>7, <1>8, <1>9, <1>10 DEF Next, Moves

\* Every transaction the wallet makes pays its amount to the unit, whatever
\* values pick_values_for_transaction met, in whatever order, and wherever the
\* last one was split; no discipline of the callers is needed.
THEOREM AmountsExact == Spec => []PaysExactly
<1>1. Init => AmountsInv
  BY DEF Init, Idle, AmountsInv, ExactTxns
<1>2. IndexInv /\ AmountsInv /\ [Next]_vars => AmountsInv'
  BY AmountsStep
<1>3. AmountsInv => PaysExactly
  BY DEF AmountsInv, ExactTxns, ExactTxn, PaysExactly
<1> QED  BY <1>1, <1>2, <1>3, InductiveInvariant, PTL DEF Spec
===============================================================================
