-------------------------- MODULE WalletSafetyProofs --------------------------
(***************************************************************************)
(* The wallet loses no unit and counts none twice, and pledges none twice, *)
(* as long as values that come back are received only after the spent ones *)
(* were cleaned up.                                                        *)
(***************************************************************************)
EXTENDS WalletProofs

\* The nodes' values are disjoint and together have the units of H.
Apart(c) ==
    \A m, n \in Nodes(c) :
        m # n => UnitsOf(ValueOf(c, m)) \cap UnitsOf(ValueOf(c, n)) = {}

Holds(c, H) ==
    \A u : u \in H <=> \E n \in Nodes(c) : u \in UnitsOf(ValueOf(c, n))

-----------------------------------------------------------------------------
\* Partition in terms of units.
LEMMA PartitionMeaning ==
    ASSUME IsCollection(coll)
    PROVE  Partition <=> Apart(coll) /\ Holds(coll, held)
<1>1. \A n \in Nodes(coll) : ValueOf(coll, n) \in Interval
  BY DEF IsCollection, Nodes, Node, ValueOf
<1>2. \A m, n \in Nodes(coll) :
         ~IsIntersectValue(ValueOf(coll, m), ValueOf(coll, n))
           <=> UnitsOf(ValueOf(coll, m)) \cap UnitsOf(ValueOf(coll, n)) = {}
  BY <1>1, IntersectMeaning
<1>3. AllUnits({ValueOf(coll, n) : n \in Nodes(coll)}) = held
        <=> Holds(coll, held)
  BY DEF AllUnits, Holds
<1> QED  BY <1>2, <1>3 DEF Partition, Apart

\* A value apart from the others adds its units.
LEMMA AddTiles ==
    ASSUME NEW c, Exact(c), c.next >= 1, NEW H, Apart(c), Holds(c, H),
           NEW v \in Interval,
           \A n \in Nodes(c) : ~IsIntersectValue(ValueOf(c, n), v)
    PROVE  /\ Apart(AddValue(c, v))
           /\ Holds(AddValue(c, v), H \cup UnitsOf(v))
<1> DEFINE e == AddValue(c, v)
<1>1. /\ Nodes(e) = Nodes(c) \cup {c.next}
      /\ ValueOf(e, c.next) = v
      /\ \A n \in Nodes(c) : ValueOf(e, n) = ValueOf(c, n)
  BY AddExact DEF ValueOf
<1> HIDE DEF e
<1>2. \A n \in Nodes(c) : UnitsOf(ValueOf(c, n)) \cap UnitsOf(v) = {}
  <2>1. \A n \in Nodes(c) : ValueOf(c, n) \in Interval
    BY DEF Exact, IsCollection, Nodes, Node, ValueOf
  <2> QED  BY <2>1, IntersectMeaning
<1>3. Apart(e)
  BY <1>1, <1>2 DEF Apart
<1>4. Holds(e, H \cup UnitsOf(v))
  BY <1>1 DEF Holds
<1> QED  BY <1>3, <1>4 DEF e

\* Splitting a node keeps the units where they are.
LEMMA SplitTiles ==
    ASSUME NEW c, Exact(c), c.next >= 1, NEW H, Apart(c), Holds(c, H),
           NEW n \in Nodes(c), NEW change \in 1..ValueOf(c, n).num - 1
    PROVE  /\ Apart(SplitNode(c, n, change))
           /\ Holds(SplitNode(c, n, change), H)
<1> DEFINE e == SplitNode(c, n, change)
           parts == SplitValue(ValueOf(c, n), change)
           A == UnitsOf(parts[1])
           B == UnitsOf(parts[2])
           V == UnitsOf(ValueOf(c, n))
<1>1. ValueOf(c, n) \in Interval
  BY DEF Exact, IsCollection, Nodes, Node, ValueOf
<1>2. A \cup B = V /\ A \cap B = {}
  BY <1>1, SplitPartition
<1>3. /\ Nodes(e) = Nodes(c) \cup {c.next}
      /\ UnitsOf(ValueOf(e, n)) = A
      /\ UnitsOf(ValueOf(e, c.next)) = B
      /\ \A m \in Nodes(c) \ {n} : UnitsOf(ValueOf(e, m)) = UnitsOf(ValueOf(c, m))
  BY SplitExact DEF ValueOf
<1>4. c.next \notin Nodes(c)
  BY NextIsNew DEF Exact
<1> HIDE DEF e, A, B, V
<1>5. \A m \in Nodes(c) \ {n} : UnitsOf(ValueOf(c, m)) \cap V = {}
  BY DEF Apart, V
<1>6. Apart(e)
  <2> SUFFICES ASSUME NEW m \in Nodes(e), NEW k \in Nodes(e), m # k
               PROVE  UnitsOf(ValueOf(e, m)) \cap UnitsOf(ValueOf(e, k)) = {}
    BY DEF Apart
  <2>1. CASE m \in Nodes(c) \ {n} /\ k \in Nodes(c) \ {n}
    BY <1>3, <2>1 DEF Apart
  <2>2. CASE m \in Nodes(c) \ {n} /\ k \in {n, c.next}
    BY <1>2, <1>3, <1>5, <2>2
  <2>3. CASE m \in {n, c.next} /\ k \in Nodes(c) \ {n}
    BY <1>2, <1>3, <1>5, <2>3
  <2>4. CASE m \in {n, c.next} /\ k \in {n, c.next}
    BY <1>2, <1>3, <2>4
  <2> QED  BY <1>3, <2>1, <2>2, <2>3, <2>4
<1>7. Holds(e, H)
  <2> SUFFICES ASSUME NEW u
               PROVE  u \in H <=> \E m \in Nodes(e) : u \in UnitsOf(ValueOf(e, m))
    BY DEF Holds
  <2>1. u \in H <=> \E m \in Nodes(c) : u \in UnitsOf(ValueOf(c, m))
    BY DEF Holds
  <2>2. (\E m \in Nodes(c) : u \in UnitsOf(ValueOf(c, m)))
          <=> \/ u \in V
              \/ \E m \in Nodes(c) \ {n} : u \in UnitsOf(ValueOf(c, m))
    BY DEF V
  <2>3. (\E m \in Nodes(e) : u \in UnitsOf(ValueOf(e, m)))
          <=> \/ u \in A
              \/ u \in B
              \/ \E m \in Nodes(c) \ {n} : u \in UnitsOf(ValueOf(c, m))
    BY <1>3
  <2> QED  BY <1>2, <2>1, <2>2, <2>3
<1> QED  BY <1>6, <1>7 DEF e

\* Changing states keeps the units where they are.
LEMMA UpdateTiles ==
    ASSUME NEW c, Exact(c), NEW H, Apart(c), Holds(c, H),
           NEW values, NEW s \in State
    PROVE  /\ Apart(UpdateStates(c, values, s))
           /\ Holds(UpdateStates(c, values, s), H)
<1>1. /\ Nodes(UpdateStates(c, values, s)) = Nodes(c)
      /\ \A n \in Nodes(c) : ValueOf(UpdateStates(c, values, s), n) = ValueOf(c, n)
  BY UpdateExact
<1> QED  BY <1>1 DEF Apart, Holds

\* Cleaning up removes the units of the confirmed values and no others.
LEMMA ClearTiles ==
    ASSUME NEW c, Exact(c), NEW H, Apart(c), Holds(c, H)
    PROVE  /\ Apart(ClearSpentValues(c))
           /\ Holds(ClearSpentValues(c), H \ AllUnits(ValuesIn(c, "confirmed")))
<1> DEFINE e == ClearSpentValues(c)
           C == InState(c, "confirmed")
<1>1. /\ Nodes(e) = Nodes(c) \ C
      /\ \A n \in Nodes(e) : ValueOf(e, n) = ValueOf(c, n)
  BY ClearExact DEF ValueOf
<1>2. C \subseteq Nodes(c)
  BY DEF InState
<1>3. \A u : u \in AllUnits(ValuesIn(c, "confirmed"))
               <=> \E n \in C : u \in UnitsOf(ValueOf(c, n))
  BY DEF AllUnits, ValuesIn
<1> HIDE DEF e, C
<1>4. Apart(e)
  BY <1>1 DEF Apart
<1>5. Holds(e, H \ AllUnits(ValuesIn(c, "confirmed")))
  BY <1>1, <1>2, <1>3 DEF Apart, Holds
<1> QED  BY <1>4, <1>5 DEF e

\* So does splitting the node found for the last value selected.
LEMMA AfterSplitTiles ==
    ASSUME NEW c, Exact(c), c.next >= 1, NEW H, Apart(c), Holds(c, H),
           NEW last \in Nodes(c),
           NEW change \in Nat, change < ValueOf(c, last).num
    PROVE  /\ Apart(AfterSplit(c, last, change))
           /\ Holds(AfterSplit(c, last, change), H)
<1>1. CASE change > 0
  <2>1. PICK m \in Nodes(c) :
           /\ ValueOf(c, m) = ValueOf(c, last)
           /\ AfterSplit(c, last, change) = SplitNode(c, m, change)
    BY <1>1, OldestFound DEF AfterSplit, Exact
  <2>2. ValueOf(c, last) \in Interval
    BY DEF Exact, IsCollection, Nodes, Node, ValueOf
  <2>3. change \in 1..ValueOf(c, m).num - 1
    BY <1>1, <2>1, <2>2 DEF Interval
  <2> QED  BY <2>1, <2>3, SplitTiles
<1>2. CASE ~(change > 0)
  BY <1>2 DEF AfterSplit
<1> QED  BY <1>1, <1>2

-----------------------------------------------------------------------------
\* The inductive invariant.
TilesInv == Apart(coll) /\ Holds(coll, held)

\* The empty wallet.
LEMMA TilesInit ==
    ASSUME Init
    PROVE  TilesInv
BY DEF Init, TilesInv, Apart, Holds, Nodes

\* A disciplined receipt.
LEMMA TilesReceive ==
    ASSUME IndexInv, TilesInv, NEW v \in Coin, Disjoint(v), Receive(v)
    PROVE  TilesInv'
<1>1. v \in Interval
  BY CoinAssumption
<1>2. coll' = AddValue(coll, v) /\ held' = held \cup UnitsOf(v)
  BY DEF Receive
<1> QED  BY <1>1, <1>2, AddTiles, IndexInvExact DEF TilesInv, Disjoint, IndexInv

\* A selection.
LEMMA TilesPick ==
    ASSUME IndexInv, TilesInv, Pick
    PROVE  TilesInv'
<1>1. PICK N \in SUBSET Available(coll) : \E last \in N :
           \E change \in 0..ValueOf(coll, last).num :
              /\ change < ValueOf(coll, last).num
              /\ \E t : coll' = Select(coll, t, last, change)
  BY DEF Pick, Greedy
<1>2. PICK last \in N : \E change \in 0..ValueOf(coll, last).num :
              /\ change < ValueOf(coll, last).num
              /\ \E t : coll' = Select(coll, t, last, change)
  BY <1>1
<1>3. PICK change \in 0..ValueOf(coll, last).num :
         /\ change < ValueOf(coll, last).num
         /\ \E t : coll' = Select(coll, t, last, change)
  BY <1>2
<1>4. PICK t : coll' = Select(coll, t, last, change)
  BY <1>3
<1>5. last \in Nodes(coll)
  BY DEF Available, IndexInv, TypeOK, IsCollection, Nodes, State
<1>6. change \in Nat /\ change < ValueOf(coll, last).num
  BY <1>3
<1>7. Exact(AfterSplit(coll, last, change))
  BY <1>5, <1>6, AfterSplitExact, IndexInvExact DEF IndexInv
<1>8. /\ Apart(AfterSplit(coll, last, change))
      /\ Holds(AfterSplit(coll, last, change), held)
  BY <1>5, <1>6, AfterSplitTiles, IndexInvExact DEF IndexInv, TilesInv
<1>9. Apart(coll') /\ Holds(coll', held)
  BY <1>4, <1>7, <1>8, UpdateTiles DEF Select, State
<1> QED  BY <1>9 DEF Pick, TilesInv

\* Whatever the wallet does apart from receiving.
LEMMA TilesMoves ==
    ASSUME IndexInv, TilesInv, Moves
    PROVE  TilesInv'
<1> USE IndexInvExact DEF TilesInv
<1>1. ASSUME Cleanup PROVE TilesInv'
  BY <1>1, ClearTiles DEF Cleanup
<1>2. ASSUME NEW requests \in Requests, Begin(requests) PROVE TilesInv'
  BY <1>2 DEF Begin
<1>3. ASSUME Pick PROVE TilesInv'
  BY <1>3, TilesPick
<1>4. ASSUME Refuse \/ SignFails PROVE TilesInv'
  BY <1>4 DEF Refuse, SignFails
<1>5. ASSUME Seal PROVE TilesInv'
  BY <1>5, UpdateTiles DEF Seal, Commit, State
<1>6. ASSUME NEW r \in open, Confirm(r) \/ Rollback(r) PROVE TilesInv'
  BY <1>6, UpdateTiles DEF Confirm, ConfirmValues, Rollback, State
<1> QED  BY <1>1, <1>2, <1>3, <1>4, <1>5, <1>6 DEF Moves

\* Every step of a disciplined wallet.
LEMMA TilesStep ==
    ASSUME IndexInv, TilesInv, [DisciplinedNext]_vars
    PROVE  TilesInv'
<1>1. CASE DisciplinedNext
  BY <1>1, TilesReceive, TilesMoves DEF DisciplinedNext
<1>2. CASE UNCHANGED vars
  BY <1>2 DEF vars, TilesInv
<1> QED  BY <1>1, <1>2

-----------------------------------------------------------------------------
\* A wallet that is cleaned up before a value is received again holds every
\* unit it was given exactly once, until the unit is spent and cleaned up:
\* selecting, splitting, failing, confirming and rolling back lose none and
\* duplicate none, for any values, amounts and order of calls.
THEOREM UnitsKept == DisciplinedSpec => []Partition
<1>1. Init => IndexInv /\ TilesInv
  BY IndexInvInit, TilesInit
<1>2. IndexInv /\ TilesInv /\ [DisciplinedNext]_vars => (IndexInv /\ TilesInv)'
  <2>1. [DisciplinedNext]_vars => [Next]_vars
    BY DEF DisciplinedNext, Next
  <2> QED  BY <2>1, IndexInvStep, TilesStep
<1>3. IndexInv /\ TilesInv => Partition
  BY PartitionMeaning DEF IndexInv, TypeOK, TilesInv
<1> QED  BY <1>1, <1>2, <1>3, PTL DEF DisciplinedSpec

-----------------------------------------------------------------------------
(* What the collection says of a value, whichever node has it.             *)

Has(c, v, s) == \E n \in Nodes(c) : ValueOf(c, n) = v /\ c.node[n].state = s

\* The values that are not yet spent are within the units of O.
Owned(c, O) ==
    \A n \in Nodes(c) :
        c.node[n].state # "confirmed" => UnitsOf(ValueOf(c, n)) \subseteq O

\* The nodes and their fields are of the right type.
LEMMA NodeTyped ==
    ASSUME NEW c, Exact(c), NEW n \in Nodes(c)
    PROVE  n \in Nat /\ ValueOf(c, n) \in Interval /\ c.node[n].state \in State
BY DEF Exact, IsCollection, Nodes, Node, ValueOf

\* No interval is empty.
LEMMA SomeUnit ==
    ASSUME NEW v \in Interval
    PROVE  v.begin \in UnitsOf(v)
BY DEF Interval, UnitsOf, EndIndex

\* Values that are apart are in one node each.
LEMMA OneNode ==
    ASSUME NEW c, Exact(c), Apart(c), NEW m \in Nodes(c), NEW n \in Nodes(c),
           ValueOf(c, m) = ValueOf(c, n)
    PROVE  m = n
<1>1. ValueOf(c, n).begin \in UnitsOf(ValueOf(c, n))
  BY NodeTyped, SomeUnit
<1> QED  BY <1>1 DEF Apart

\* So a value has one state.
LEMMA OneState ==
    ASSUME NEW c, Exact(c), Apart(c), NEW v, NEW s, NEW x, Has(c, v, s), Has(c, v, x)
    PROVE  s = x
BY OneNode DEF Has

\* _find_node_by_value misses no node of the values.
LEMMA FoundByValue ==
    ASSUME NEW c, Exact(c), Apart(c), NEW values
    PROVE  FindNodes(c, values) = {n \in Nodes(c) : ValueOf(c, n) \in values}
<1>1. \A n, m \in Nodes(c) : ValueOf(c, m) = ValueOf(c, n) => n <= m
  BY OneNode, NodeTyped
<1> QED  BY <1>1 DEF FindNodes, IsSameValue

\* update_value_state gives the values the new state and leaves the others.
LEMMA UpdateHas ==
    ASSUME NEW c, Exact(c), Apart(c), NEW values, NEW s \in State
    PROVE  LET e == UpdateStates(c, values, s) IN
           /\ Exact(e) /\ Apart(e)
           /\ \A v, x : v \notin values => (Has(e, v, x) <=> Has(c, v, x))
           /\ \A v \in values : \A x :
                  Has(e, v, x) <=> x = s /\ \E n \in Nodes(c) : ValueOf(c, n) = v
<1> DEFINE e == UpdateStates(c, values, s)
<1>1. /\ Exact(e)
      /\ Nodes(e) = Nodes(c)
      /\ \A n \in Nodes(c) : ValueOf(e, n) = ValueOf(c, n)
      /\ \A n \in Nodes(c) :
            e.node[n].state = IF n \in FindNodes(c, values)
                              THEN s ELSE c.node[n].state
  BY UpdateExact
<1>2. \A n \in Nodes(c) : n \in FindNodes(c, values) <=> ValueOf(c, n) \in values
  BY FoundByValue
<1> HIDE DEF e
<1>3. Apart(e)
  BY <1>1 DEF Apart
<1> QED  BY <1>1, <1>2, <1>3 DEF e, Has

\* It leaves the unspent values owned if none of the values was spent.
LEMMA UpdateOwned ==
    ASSUME NEW c, Exact(c), Apart(c), NEW values, NEW s \in State, NEW O,
           Owned(c, O), \A v \in values : ~Has(c, v, "confirmed")
    PROVE  Owned(UpdateStates(c, values, s), O)
<1> DEFINE e == UpdateStates(c, values, s)
<1>1. /\ Nodes(e) = Nodes(c)
      /\ \A n \in Nodes(c) : ValueOf(e, n) = ValueOf(c, n)
      /\ \A n \in Nodes(c) :
            e.node[n].state = IF n \in FindNodes(c, values)
                              THEN s ELSE c.node[n].state
  BY UpdateExact
<1>2. \A n \in Nodes(c) : n \in FindNodes(c, values) <=> ValueOf(c, n) \in values
  BY FoundByValue
<1> HIDE DEF e
<1>3. ASSUME NEW n \in Nodes(c), e.node[n].state # "confirmed"
      PROVE  c.node[n].state # "confirmed"
  <2>1. CASE ValueOf(c, n) \in values
    BY <2>1 DEF Has
  <2>2. CASE ValueOf(c, n) \notin values
    BY <1>1, <1>2, <1>3, <2>2
  <2> QED  BY <2>1, <2>2
<1> QED  BY <1>1, <1>3 DEF e, Owned

\* Confirming takes the paid values' units, and no unit of another value.
LEMMA ConfirmOwned ==
    ASSUME NEW c, Exact(c), Apart(c), NEW O, Owned(c, O), NEW values, NEW paid,
           paid \subseteq values, \A v \in paid : \E n \in Nodes(c) : ValueOf(c, n) = v
    PROVE  Owned(UpdateStates(c, values, "confirmed"), O \ AllUnits(paid))
<1> DEFINE e == UpdateStates(c, values, "confirmed")
<1>1. /\ Nodes(e) = Nodes(c)
      /\ \A n \in Nodes(c) : ValueOf(e, n) = ValueOf(c, n)
      /\ \A n \in Nodes(c) :
            e.node[n].state = IF n \in FindNodes(c, values)
                              THEN "confirmed" ELSE c.node[n].state
  BY UpdateExact DEF State
<1>2. \A n \in Nodes(c) : n \in FindNodes(c, values) <=> ValueOf(c, n) \in values
  BY FoundByValue
<1> HIDE DEF e
<1>3. ASSUME NEW n \in Nodes(c), e.node[n].state # "confirmed"
      PROVE  UnitsOf(ValueOf(c, n)) \subseteq O \ AllUnits(paid)
  <2>1. ValueOf(c, n) \notin values /\ c.node[n].state # "confirmed"
    BY <1>1, <1>2, <1>3
  <2>2. UnitsOf(ValueOf(c, n)) \subseteq O
    BY <2>1 DEF Owned
  <2>3. ASSUME NEW v \in paid
        PROVE  UnitsOf(ValueOf(c, n)) \cap UnitsOf(v) = {}
    <3>1. PICK m \in Nodes(c) : ValueOf(c, m) = v
      OBVIOUS
    <3>2. m # n
      BY <2>1, <3>1
    <3> QED  BY <3>1, <3>2 DEF Apart
  <2> QED  BY <2>2, <2>3 DEF AllUnits
<1> QED  BY <1>1, <1>3 DEF e, Owned

\* What signing serializes of values that are there is the values.
LEMMA SerializedValues ==
    ASSUME NEW c, Exact(c), Apart(c), NEW values,
           \A v \in values : \E n \in Nodes(c) : ValueOf(c, n) = v
    PROVE  SerializeValuesForSigning(c, values) = values
BY FoundByValue DEF SerializeValuesForSigning

\* Both parts of a split value have its state.
LEMMA SplitStates ==
    ASSUME NEW c, Exact(c), c.next >= 1,
           NEW n \in Nodes(c), NEW change \in 1..ValueOf(c, n).num - 1
    PROVE  LET e == SplitNode(c, n, change)
           IN  /\ e.node[n].state = c.node[n].state
               /\ e.node[c.next].state = c.node[n].state
<1>1. c.next \notin DOMAIN c.node
  BY NextIsNew DEF Exact, Nodes
<1>2. n \in DOMAIN c.node /\ c.node[n] \in Node
  BY DEF Exact, IsCollection, Nodes
<1> QED  BY <1>1, <1>2 DEF SplitNode, Enter, Node

\* The split of a selection: the last value, unspent, gives way to two unspent
\* parts of it; every other value stays as it is.
LEMMA AfterSplitHas ==
    ASSUME NEW c, Exact(c), c.next >= 1, Apart(c),
           NEW last \in InState(c, "unspent"),
           NEW change \in Nat, change > 0, change < ValueOf(c, last).num
    PROVE  LET e == AfterSplit(c, last, change)
               parts == SplitValue(ValueOf(c, last), change)
           IN  /\ \A v, x : x # "unspent" => (Has(e, v, x) <=> Has(c, v, x))
               /\ \A n \in Nodes(c) \ {last} : Has(e, ValueOf(c, n), c.node[n].state)
               /\ Has(e, parts[1], "unspent") /\ Has(e, parts[2], "unspent")
               /\ \A O : Owned(c, O) => Owned(e, O)
<1> DEFINE e == AfterSplit(c, last, change)
           parts == SplitValue(ValueOf(c, last), change)
<1>1. last \in Nodes(c) /\ c.node[last].state = "unspent"
  BY DEF InState
<1>2. ValueOf(c, last) \in Interval /\ change \in 1..ValueOf(c, last).num - 1
  BY <1>1, NodeTyped DEF Interval
<1>3. e = SplitNode(c, last, change)
  <2>1. PICK m \in Nodes(c) :
           ValueOf(c, m) = ValueOf(c, last) /\ e = SplitNode(c, m, change)
    BY <1>1, OldestFound DEF AfterSplit, Exact
  <2>2. m = last
    BY <1>1, <2>1, OneNode
  <2> QED  BY <2>1, <2>2
<1>4. /\ Nodes(e) = Nodes(c) \cup {c.next}
      /\ ValueOf(e, last) = parts[1]
      /\ ValueOf(e, c.next) = parts[2]
      /\ \A m \in Nodes(c) \ {last} : e.node[m] = c.node[m]
  BY <1>1, <1>2, <1>3, SplitExact
<1>5. e.node[last].state = "unspent" /\ e.node[c.next].state = "unspent"
  BY <1>1, <1>2, <1>3, SplitStates
<1>6. \A m \in Nodes(c) \ {last} : ValueOf(e, m) = ValueOf(c, m)
  BY <1>4 DEF ValueOf
<1>7. /\ UnitsOf(parts[1]) \subseteq UnitsOf(ValueOf(c, last))
      /\ UnitsOf(parts[2]) \subseteq UnitsOf(ValueOf(c, last))
  BY <1>2, SplitPartition
<1> HIDE DEF e, parts
<1>8. \A v, x : x # "unspent" => (Has(e, v, x) <=> Has(c, v, x))
  BY <1>1, <1>4, <1>5, <1>6 DEF Has
<1>9. /\ \A n \in Nodes(c) \ {last} : Has(e, ValueOf(c, n), c.node[n].state)
      /\ Has(e, parts[1], "unspent") /\ Has(e, parts[2], "unspent")
  BY <1>1, <1>4, <1>5, <1>6 DEF Has
<1>10. ASSUME NEW O, Owned(c, O) PROVE Owned(e, O)
  <2>1. UnitsOf(ValueOf(c, last)) \subseteq O
    BY <1>1, <1>10 DEF Owned
  <2> QED  BY <1>1, <1>4, <1>6, <1>7, <1>10, <2>1 DEF Owned
<1> QED  BY <1>8, <1>9, <1>10 DEF e, parts

\* What a selection pays with, and the change, are in the collection, unspent,
\* and apart from each other.
LEMMA SelectedValues ==
    ASSUME NEW c, Exact(c), c.next >= 1, Apart(c),
           NEW N \in SUBSET InState(c, "unspent"), NEW last \in N,
           NEW change \in Nat, change < ValueOf(c, last).num, NEW amount
    PROVE  LET t == Txn(c, N, last, change, amount)
           IN  /\ \A v \in Values(t) : Has(AfterSplit(c, last, change), v, "unspent")
               /\ Paid(t) \cap t.change = {}
<1> DEFINE t == Txn(c, N, last, change, amount)
           e == AfterSplit(c, last, change)
           parts == SplitValue(ValueOf(c, last), change)
<1>1. \A n \in N : n \in Nodes(c) /\ c.node[n].state = "unspent"
  BY DEF InState
<1>2. Paid(t) = {IF n = last /\ change > 0 THEN parts[1] ELSE ValueOf(c, n) : n \in N}
  <2> DEFINE pay(n) == IF n = last /\ change > 0 THEN parts[1] ELSE ValueOf(c, n)
  <2>1. t.paid = {[node |-> n, value |-> pay(n)] : n \in N}
    BY DEF Txn, PaidValues
  <2> HIDE DEF pay, t
  <2>2. \A p \in t.paid : p.value \in {pay(n) : n \in N}
    BY <2>1
  <2>3. \A n \in N : \E p \in t.paid : p.value = pay(n)
    <3> TAKE n \in N
    <3>1. [node |-> n, value |-> pay(n)] \in t.paid
      BY <2>1
    <3> QED  BY <3>1
  <2>4. Paid(t) = {pay(n) : n \in N}
    BY <2>2, <2>3 DEF Paid
  <2> QED  BY <2>4 DEF pay
<1>3. t.change = IF change > 0 THEN {parts[2]} ELSE {}
  BY DEF Txn, ChangeValues
<1> HIDE DEF t, parts
<1>4. CASE change > 0
  <2> DEFINE V == UnitsOf(ValueOf(c, last))
  <2>1. \A v \in Paid(t) : v = parts[1] \/ \E n \in N \ {last} : v = ValueOf(c, n)
    BY <1>2, <1>4
  <2>2. /\ \A n \in Nodes(c) \ {last} : Has(e, ValueOf(c, n), c.node[n].state)
        /\ Has(e, parts[1], "unspent") /\ Has(e, parts[2], "unspent")
    BY <1>4, AfterSplitHas DEF parts
  <2> HIDE DEF e
  <2>3. ValueOf(c, last) \in Interval /\ change \in 1..ValueOf(c, last).num - 1
    BY <1>1, <1>4, NodeTyped DEF Interval
  <2>4. /\ UnitsOf(parts[1]) \cap UnitsOf(parts[2]) = {}
        /\ UnitsOf(parts[2]) \subseteq V
        /\ parts[2] \in Interval
    <3>1. PICK v \in Interval : v = ValueOf(c, last)
      BY <2>3
    <3>2. change \in 1..v.num - 1 /\ V = UnitsOf(v) /\ parts = SplitValue(v, change)
      BY <2>3, <3>1 DEF parts
    <3>3. PICK q : q = SplitValue(v, change)
      OBVIOUS
    <3>4. /\ UnitsOf(q[1]) \cup UnitsOf(q[2]) = UnitsOf(v)
          /\ UnitsOf(q[1]) \cap UnitsOf(q[2]) = {}
          /\ q[2] \in Interval
      BY <3>2, <3>3, SplitPartition
    <3>5. UnitsOf(q[2]) \subseteq UnitsOf(v)
      BY <3>4
    <3> HIDE DEF V, parts
    <3> QED  BY <3>2, <3>3, <3>4, <3>5
  <2>5. parts[2].begin \in UnitsOf(parts[2])
    BY <2>4, SomeUnit
  <2>6. \A n \in N \ {last} : UnitsOf(ValueOf(c, n)) \cap V = {}
    BY <1>1 DEF Apart
  <2>7. parts[2] \notin Paid(t)
    BY <2>1, <2>4, <2>5, <2>6
  <2>8. \A v \in Values(t) : Has(e, v, "unspent")
    BY <1>1, <1>3, <1>4, <2>1, <2>2 DEF Values
  <2> QED  BY <1>3, <1>4, <2>7, <2>8 DEF t, e
<1>5. CASE ~(change > 0)
  <2>1. e = c
    BY <1>5 DEF AfterSplit
  <2>2. t.change = {} /\ \A v \in Paid(t) : \E n \in N : v = ValueOf(c, n)
    BY <1>2, <1>3, <1>5
  <2> HIDE DEF e
  <2>3. \A v \in Values(t) : Has(e, v, "unspent")
    BY <1>1, <2>1, <2>2 DEF Values, Has
  <2> QED  BY <2>2, <2>3 DEF t, e
<1> QED  BY <1>4, <1>5

-----------------------------------------------------------------------------
(* The transactions made and not settled, with the result they belong to;  *)
(* 0 is the call under way.                                                *)

MadeOf(results, txns) ==
    UNION {{[id |-> r.id, at |-> i, txn |-> r.txns[i]] : i \in DOMAIN r.txns} :
              r \in results \cup {[id |-> 0, txns |-> txns]}}

Made == MadeOf(open, draft.txns)

\* The states of what they pay with and of their change.
Marked(c, M) ==
    \A m \in M :
        /\ \A v \in Paid(m.txn) :
               Has(c, v, IF m.id = 0 THEN "selected" ELSE "local_committed")
        /\ \A v \in m.txn.change : Has(c, v, "selected")

\* No value is twice in them.
Separate(M) ==
    \A m \in M :
        /\ Paid(m.txn) \cap m.txn.change = {}
        /\ \A k \in M : m # k => Values(m.txn) \cap Values(k.txn) = {}

\* What is committed is paid by a result.
Answered(c, M) ==
    \A v : Has(c, v, "local_committed") => \E m \in M : m.id # 0 /\ v \in Paid(m.txn)

\* They are signed over their values.
Signed(M) ==
    \A m \in M : \A part \in Parts(m.txn) :
        SignTransaction(part, Key) \in m.txn.signatures

Pledged(c, M) == Marked(c, M) /\ Separate(M) /\ Answered(c, M) /\ Signed(M)

\* What the pledges say depends on the selected and the committed values alone.
LEMMA PledgedSame ==
    ASSUME NEW c, NEW e, NEW M, Pledged(c, M),
           \A v : Has(e, v, "selected") <=> Has(c, v, "selected"),
           \A v : Has(e, v, "local_committed") <=> Has(c, v, "local_committed")
    PROVE  Pledged(e, M)
<1>1. Marked(e, M)
  BY DEF Pledged, Marked
<1>2. Answered(e, M)
  BY DEF Pledged, Answered
<1> QED  BY <1>1, <1>2 DEF Pledged

\* The transactions of a call that fails are forgotten.
LEMMA PledgedFailed ==
    ASSUME NEW c, NEW M, Pledged(c, M)
    PROVE  Pledged(c, {m \in M : m.id # 0})
BY DEF Pledged, Marked, Separate, Answered, Signed

\* Unspent values are selected for a transaction k of the call.
LEMMA PledgedMore ==
    ASSUME NEW c, Exact(c), Apart(c), NEW M, Pledged(c, M), NEW k, k.id = 0,
           \A v \in Values(k.txn) : Has(c, v, "unspent"),
           Paid(k.txn) \cap k.txn.change = {},
           \A part \in Parts(k.txn) : SignTransaction(part, Key) \in k.txn.signatures
    PROVE  Pledged(UpdateStates(c, Values(k.txn), "selected"), M \cup {k})
<1> DEFINE e == UpdateStates(c, Values(k.txn), "selected")
<1>1. /\ \A v, x : v \notin Values(k.txn) => (Has(e, v, x) <=> Has(c, v, x))
      /\ \A v \in Values(k.txn) : \A x :
             Has(e, v, x) <=> x = "selected" /\ \E n \in Nodes(c) : ValueOf(c, n) = v
  BY UpdateHas DEF State
<1>2. \A v \in Values(k.txn) : Has(e, v, "selected")
  BY <1>1 DEF Has
<1>3. \A m \in M : Values(m.txn) \cap Values(k.txn) = {}
  <2> SUFFICES ASSUME NEW m \in M, NEW v \in Values(m.txn), v \in Values(k.txn)
               PROVE  FALSE
    OBVIOUS
  <2>1. Has(c, v, "unspent")
    OBVIOUS
  <2>2. Has(c, v, "selected") \/ Has(c, v, "local_committed")
    BY DEF Pledged, Marked, Values
  <2> QED  BY <2>1, <2>2, OneState
<1> HIDE DEF e
<1>4. Marked(e, M \cup {k})
  BY <1>1, <1>2, <1>3 DEF Pledged, Marked, Values
<1>5. Separate(M \cup {k})
  BY <1>3 DEF Pledged, Separate
<1>6. Answered(e, M \cup {k})
  <2> SUFFICES ASSUME NEW v, Has(e, v, "local_committed")
               PROVE  \E m \in M : m.id # 0 /\ v \in Paid(m.txn)
    BY DEF Answered
  <2>1. v \notin Values(k.txn)
    BY <1>1
  <2> QED  BY <1>1, <2>1 DEF Pledged, Answered
<1>7. Signed(M \cup {k})
  BY DEF Pledged, Signed
<1> QED  BY <1>4, <1>5, <1>6, <1>7 DEF e, Pledged

\* A transaction of the call as one of the call's result.
SealedAs(m, id) ==
    [id |-> IF m.id = 0 THEN id ELSE m.id, at |-> m.at, txn |-> m.txn]

\* The values that the call's transactions pay with are committed and the
\* transactions become those of a result.
LEMMA PledgedSealed ==
    ASSUME NEW c, Exact(c), Apart(c), NEW M, Pledged(c, M), NEW id, id # 0,
           NEW values,
           \A v : v \in values <=> \E m \in M : m.id = 0 /\ v \in Paid(m.txn)
    PROVE  Pledged(UpdateStates(c, values, "local_committed"),
                   {SealedAs(m, id) : m \in M})
<1> DEFINE e == UpdateStates(c, values, "local_committed")
           M1 == {SealedAs(m, id) : m \in M}
<1>1. /\ \A v, x : v \notin values => (Has(e, v, x) <=> Has(c, v, x))
      /\ \A v \in values : \A x :
             Has(e, v, x) <=> x = "local_committed" /\ \E n \in Nodes(c) : ValueOf(c, n) = v
  BY UpdateHas DEF State
<1>2. \A v \in values : Has(e, v, "local_committed")
  BY <1>1 DEF Pledged, Marked, Has
<1> HIDE DEF e
<1>3. ASSUME NEW m \in M, NEW v \in m.txn.change
      PROVE  v \notin values
  BY DEF Pledged, Separate, Values
<1>4. \A m \in M : SealedAs(m, id).id # 0 /\ SealedAs(m, id).txn = m.txn
  BY DEF SealedAs
<1>5. Marked(e, M1)
  <2> SUFFICES ASSUME NEW m \in M
               PROVE  /\ \A v \in Paid(m.txn) : Has(e, v, "local_committed")
                      /\ \A v \in m.txn.change : Has(e, v, "selected")
    BY <1>4 DEF Marked
  <2>1. \A v \in m.txn.change : Has(e, v, "selected")
    BY <1>1, <1>3 DEF Pledged, Marked
  <2>2. ASSUME NEW v \in Paid(m.txn)
        PROVE  Has(e, v, "local_committed")
    <3>1. CASE v \in values
      BY <1>2, <3>1
    <3>2. CASE v \notin values
      BY <1>1, <3>2 DEF Pledged, Marked
    <3> QED  BY <3>1, <3>2
  <2> QED  BY <2>1, <2>2
<1>6. Separate(M1)
  BY <1>4 DEF Pledged, Separate
<1>7. Answered(e, M1)
  <2> SUFFICES ASSUME NEW v, Has(e, v, "local_committed")
               PROVE  \E m \in M : v \in Paid(m.txn)
    BY <1>4 DEF Answered
  <2> QED  BY <1>1 DEF Pledged, Answered
<1>8. Signed(M1)
  BY <1>4 DEF Pledged, Signed
<1> QED  BY <1>5, <1>6, <1>7, <1>8 DEF e, Pledged

\* The values are those of result id: those it pays with at least.
ValuesOf(M, id, values) ==
    /\ \A v \in values : \E m \in M : m.id = id /\ v \in Values(m.txn)
    /\ \A m \in M : m.id = id => Paid(m.txn) \subseteq values

\* The values of a result, those it pays with at least, get a state that no
\* pledge is about, and the result is forgotten.
LEMMA PledgedSettled ==
    ASSUME NEW c, Exact(c), Apart(c), NEW M, Pledged(c, M), NEW id, id # 0,
           NEW values, NEW s \in {"unspent", "confirmed"},
           ValuesOf(M, id, values)
    PROVE  Pledged(UpdateStates(c, values, s), {m \in M : m.id # id})
<1> DEFINE e == UpdateStates(c, values, s)
           M1 == {m \in M : m.id # id}
<1>1. /\ \A v, x : v \notin values => (Has(e, v, x) <=> Has(c, v, x))
      /\ \A v \in values : \A x :
             Has(e, v, x) <=> x = s /\ \E n \in Nodes(c) : ValueOf(c, n) = v
  BY UpdateHas DEF State
<1> HIDE DEF e
<1>2. ASSUME NEW m \in M1, NEW v \in Values(m.txn)
      PROVE  v \notin values
  BY DEF Pledged, Separate, ValuesOf
<1>3. Marked(e, M1)
  BY <1>1, <1>2 DEF Pledged, Marked, Values
<1>4. Separate(M1) /\ Signed(M1)
  BY DEF Pledged, Separate, Signed
<1>5. Answered(e, M1)
  <2> SUFFICES ASSUME NEW v, Has(e, v, "local_committed")
               PROVE  \E m \in M1 : m.id # 0 /\ v \in Paid(m.txn)
    BY DEF Answered
  <2>1. v \notin values
    BY <1>1
  <2>2. PICK m \in M : m.id # 0 /\ v \in Paid(m.txn)
    BY <1>1, <2>1 DEF Pledged, Answered
  <2>3. m.id # id
    BY <2>1, <2>2 DEF ValuesOf
  <2> QED  BY <2>2, <2>3
<1> QED  BY <1>3, <1>4, <1>5 DEF e, Pledged

\* What MadeOf lists.
LEMMA MadeMeaning ==
    ASSUME NEW results, NEW txns, NEW m
    PROVE  m \in MadeOf(results, txns)
             <=> \/ \E i \in DOMAIN txns : m = [id |-> 0, at |-> i, txn |-> txns[i]]
                 \/ \E r \in results : \E i \in DOMAIN r.txns :
                        m = [id |-> r.id, at |-> i, txn |-> r.txns[i]]
<1> DEFINE call == [id |-> 0, txns |-> txns]
<1>1. m \in MadeOf(results, txns)
        <=> \E r \in results \cup {call} : \E i \in DOMAIN r.txns :
                m = [id |-> r.id, at |-> i, txn |-> r.txns[i]]
  BY DEF MadeOf
<1>2. call.id = 0 /\ call.txns = txns
  OBVIOUS
<1> HIDE DEF call
<1> QED  BY <1>1, <1>2

\* One more transaction in the call.
LEMMA MadeAppend ==
    ASSUME NEW results, NEW S, NEW txns \in Seq(S), NEW t \in S
    PROVE  MadeOf(results, Append(txns, t))
             = MadeOf(results, txns)
                 \cup {[id |-> 0, at |-> Len(txns) + 1, txn |-> t]}
<1> DEFINE more == Append(txns, t)
<1>1. /\ DOMAIN txns = 1..Len(txns) /\ DOMAIN more = 1..Len(txns) + 1
      /\ \A i \in 1..Len(txns) : more[i] = txns[i]
      /\ more[Len(txns) + 1] = t /\ Len(txns) \in Nat
  OBVIOUS
<1> HIDE DEF more
<1>2. ASSUME NEW m
      PROVE  (\E i \in DOMAIN more : m = [id |-> 0, at |-> i, txn |-> more[i]])
               <=> \/ \E i \in DOMAIN txns : m = [id |-> 0, at |-> i, txn |-> txns[i]]
                   \/ m = [id |-> 0, at |-> Len(txns) + 1, txn |-> t]
  <2>1. \A i : i \in DOMAIN more <=> i \in DOMAIN txns \/ i = Len(txns) + 1
    BY <1>1
  <2> QED  BY <1>1, <2>1
<1>3. \A m : m \in MadeOf(results, more)
               <=> \/ m \in MadeOf(results, txns)
                   \/ m = [id |-> 0, at |-> Len(txns) + 1, txn |-> t]
  BY <1>2, MadeMeaning
<1> QED  BY <1>3 DEF more

\* No call.
LEMMA MadeIdle ==
    ASSUME NEW results, \A r \in results : r.id # 0, NEW txns
    PROVE  MadeOf(results, <<>>) = {m \in MadeOf(results, txns) : m.id # 0}
<1>1. \A m : m \in MadeOf(results, <<>>)
               <=> \E r \in results : \E i \in DOMAIN r.txns :
                       m = [id |-> r.id, at |-> i, txn |-> r.txns[i]]
  BY MadeMeaning
<1>2. \A m : m \in {k \in MadeOf(results, txns) : k.id # 0}
               <=> \E r \in results : \E i \in DOMAIN r.txns :
                       m = [id |-> r.id, at |-> i, txn |-> r.txns[i]]
  BY MadeMeaning
<1> QED  BY <1>1, <1>2

\* One result less.
LEMMA MadeWithout ==
    ASSUME NEW results, NEW txns, NEW r \in results, r.id # 0,
           \A q \in results : q.id = r.id => q = r
    PROVE  MadeOf(results \ {r}, txns) = {m \in MadeOf(results, txns) : m.id # r.id}
<1>1. \A m : m \in MadeOf(results \ {r}, txns)
               <=> \/ \E i \in DOMAIN txns : m = [id |-> 0, at |-> i, txn |-> txns[i]]
                   \/ \E q \in results \ {r} : \E i \in DOMAIN q.txns :
                          m = [id |-> q.id, at |-> i, txn |-> q.txns[i]]
  BY MadeMeaning
<1>2. \A m : m \in {k \in MadeOf(results, txns) : k.id # r.id}
               <=> \/ \E i \in DOMAIN txns : m = [id |-> 0, at |-> i, txn |-> txns[i]]
                   \/ \E q \in results \ {r} : \E i \in DOMAIN q.txns :
                          m = [id |-> q.id, at |-> i, txn |-> q.txns[i]]
  BY MadeMeaning
<1> QED  BY <1>1, <1>2

\* The call's transactions are those of its result.
LEMMA MadeSealed ==
    ASSUME NEW results, NEW txns, \A r \in results : r.id # 0,
           NEW result, result.id # 0, result.txns = txns
    PROVE  MadeOf(results \cup {result}, <<>>)
             = {SealedAs(m, result.id) : m \in MadeOf(results, txns)}
<1> DEFINE sealed == MadeOf(results \cup {result}, <<>>)
<1>1. ASSUME NEW m
      PROVE  m \in sealed
               <=> \/ \E i \in DOMAIN txns :
                          m = [id |-> result.id, at |-> i, txn |-> txns[i]]
                   \/ \E r \in results : \E i \in DOMAIN r.txns :
                          m = [id |-> r.id, at |-> i, txn |-> r.txns[i]]
  BY MadeMeaning
<1> HIDE DEF sealed
<1>2. \A i \in DOMAIN txns :
         SealedAs([id |-> 0, at |-> i, txn |-> txns[i]], result.id)
           = [id |-> result.id, at |-> i, txn |-> txns[i]]
  BY DEF SealedAs
<1>3. \A r \in results : \A i \in DOMAIN r.txns :
         SealedAs([id |-> r.id, at |-> i, txn |-> r.txns[i]], result.id)
           = [id |-> r.id, at |-> i, txn |-> r.txns[i]]
  BY DEF SealedAs
<1>4. ASSUME NEW m \in MadeOf(results, txns)
      PROVE  SealedAs(m, result.id) \in sealed
  <2>1. CASE \E i \in DOMAIN txns : m = [id |-> 0, at |-> i, txn |-> txns[i]]
    <3>1. PICK i \in DOMAIN txns : m = [id |-> 0, at |-> i, txn |-> txns[i]]
      BY <2>1
    <3>2. SealedAs(m, result.id) = [id |-> result.id, at |-> i, txn |-> txns[i]]
      BY <1>2, <3>1
    <3> QED  BY <1>1, <3>2
  <2>2. CASE \E r \in results : \E i \in DOMAIN r.txns :
                 m = [id |-> r.id, at |-> i, txn |-> r.txns[i]]
    <3>1. SealedAs(m, result.id) = m
      BY <1>3, <2>2
    <3> QED  BY <1>1, <2>2, <3>1
  <2>3. \/ \E i \in DOMAIN txns : m = [id |-> 0, at |-> i, txn |-> txns[i]]
        \/ \E r \in results : \E i \in DOMAIN r.txns :
               m = [id |-> r.id, at |-> i, txn |-> r.txns[i]]
    BY MadeMeaning
  <2> QED  BY <2>1, <2>2, <2>3
<1>5. ASSUME NEW m \in sealed
      PROVE  \E k \in MadeOf(results, txns) : m = SealedAs(k, result.id)
  <2>1. CASE \E i \in DOMAIN txns : m = [id |-> result.id, at |-> i, txn |-> txns[i]]
    <3>1. PICK i \in DOMAIN txns : m = [id |-> result.id, at |-> i, txn |-> txns[i]]
      BY <2>1
    <3>2. [id |-> 0, at |-> i, txn |-> txns[i]] \in MadeOf(results, txns)
      BY MadeMeaning
    <3> QED  BY <1>2, <3>1, <3>2
  <2>2. CASE \E r \in results : \E i \in DOMAIN r.txns :
                 m = [id |-> r.id, at |-> i, txn |-> r.txns[i]]
    <3>1. m \in MadeOf(results, txns) /\ m = SealedAs(m, result.id)
      BY <1>3, <2>2, MadeMeaning
    <3> QED  BY <3>1
  <2>3. \/ \E i \in DOMAIN txns : m = [id |-> result.id, at |-> i, txn |-> txns[i]]
        \/ \E r \in results : \E i \in DOMAIN r.txns :
               m = [id |-> r.id, at |-> i, txn |-> r.txns[i]]
    BY <1>1
  <2> QED  BY <2>1, <2>2, <2>3
<1> QED  BY <1>4, <1>5 DEF sealed

-----------------------------------------------------------------------------
(* The inductive invariant.  A result is known by the number of its call;  *)
(* outside a call there is no draft.                                       *)

IdInv ==
    /\ \A r \in open : r.id \in 1..calls
    /\ \A r, q \in open : r.id = q.id => r = q
    /\ IF draft.busy THEN \A r \in open : r.id # calls
                     ELSE draft.todo = <<>> /\ draft.txns = <<>>
    /\ draft.busy => calls >= 1

PledgeInv == IdInv /\ Pledged(coll, Made) /\ Owned(coll, owned)

WalletInv == IndexInv /\ TilesInv /\ PledgeInv

\* What the steps of the wallet use of the invariants.
LEMMA WalletInvFacts ==
    ASSUME WalletInv
    PROVE  /\ Exact(coll) /\ coll.next >= 1 /\ Apart(coll)
           /\ Pledged(coll, Made) /\ Owned(coll, owned)
           /\ calls \in Nat
           /\ \A r \in open : r.id \in 1..calls /\ r.id # 0
BY IndexInvExact
   DEF WalletInv, IndexInv, TypeOK, TilesInv, PledgeInv, IdInv

\* The empty wallet.
LEMMA PledgeInit ==
    ASSUME Init
    PROVE  PledgeInv
<1>1. /\ \A m : m \notin Made
      /\ \A v, s : ~Has(coll, v, s)
  BY MadeMeaning DEF Init, Idle, Made, Has, Nodes
<1>2. Pledged(coll, Made)
  BY <1>1 DEF Pledged, Marked, Separate, Answered, Signed
<1> QED  BY <1>2 DEF Init, Idle, PledgeInv, IdInv, Owned, Nodes

\* A disciplined receipt.
LEMMA PledgeReceive ==
    ASSUME WalletInv, NEW v \in Coin, Receive(v)
    PROVE  PledgeInv'
<1>1. v \in Interval
  BY CoinAssumption
<1>2. /\ coll' = AddValue(coll, v) /\ owned' = owned \cup UnitsOf(v)
      /\ UNCHANGED <<draft, open, calls>>
  BY DEF Receive
<1>3. /\ Nodes(coll') = Nodes(coll) \cup {coll.next}
      /\ ValueOf(coll', coll.next) = v
      /\ \A n \in Nodes(coll) : coll'.node[n] = coll.node[n]
      /\ coll'.node[coll.next].state = "unspent"
  BY <1>1, <1>2, AddExact, WalletInvFacts
<1>4. \A n \in Nodes(coll) : ValueOf(coll', n) = ValueOf(coll, n)
  BY <1>3 DEF ValueOf
<1>5. coll.next \notin Nodes(coll)
  BY NextIsNew, WalletInvFacts DEF Exact
<1>6. \A x, s : s # "unspent" => (Has(coll', x, s) <=> Has(coll, x, s))
  BY <1>3, <1>4, <1>5 DEF Has
<1>7. Made' = Made
  BY <1>2 DEF Made
<1>8. Pledged(coll', Made')
  <2>1. Pledged(coll, Made)
    BY WalletInvFacts
  <2> QED  BY <1>6, <1>7, <2>1, PledgedSame
<1>9. Owned(coll', owned')
  BY <1>2, <1>3, <1>4, WalletInvFacts DEF Owned
<1> QED  BY <1>2, <1>8, <1>9 DEF PledgeInv, IdInv, WalletInv

\* The confirmed values are cleaned up.
LEMMA PledgeCleanup ==
    ASSUME WalletInv, Cleanup
    PROVE  PledgeInv'
<1>1. coll' = ClearSpentValues(coll) /\ UNCHANGED <<draft, open, calls, owned>>
  BY DEF Cleanup
<1>2. /\ Nodes(coll') = Nodes(coll) \ InState(coll, "confirmed")
      /\ \A n \in Nodes(coll') : coll'.node[n] = coll.node[n]
  BY <1>1, ClearExact, WalletInvFacts
<1>3. \A n \in Nodes(coll') : ValueOf(coll', n) = ValueOf(coll, n)
  BY <1>2 DEF ValueOf
<1>4. \A x, s : s # "confirmed" => (Has(coll', x, s) <=> Has(coll, x, s))
  BY <1>2, <1>3 DEF Has, InState
<1>5. Made' = Made
  BY <1>1 DEF Made
<1>6. Pledged(coll', Made')
  <2>1. Pledged(coll, Made)
    BY WalletInvFacts
  <2> QED  BY <1>4, <1>5, <2>1, PledgedSame
<1>7. Owned(coll', owned')
  BY <1>1, <1>2, <1>3, WalletInvFacts DEF Owned
<1> QED  BY <1>1, <1>6, <1>7 DEF PledgeInv, IdInv, WalletInv

\* A call begins.
LEMMA PledgeBegin ==
    ASSUME WalletInv, NEW requests, Begin(requests)
    PROVE  PledgeInv'
<1>1. /\ ~draft.busy /\ draft' = [busy |-> TRUE, todo |-> requests, txns |-> <<>>]
      /\ calls' = calls + 1 /\ UNCHANGED <<coll, open, owned>>
  BY DEF Begin
<1>2. Made' = Made
  BY <1>1 DEF Made, WalletInv, PledgeInv, IdInv
<1>3. IdInv'
  BY <1>1, WalletInvFacts DEF WalletInv, PledgeInv, IdInv
<1> QED  BY <1>1, <1>2, <1>3, WalletInvFacts DEF PledgeInv

\* A call fails.
LEMMA PledgeEnd ==
    ASSUME WalletInv, Refuse \/ SignFails
    PROVE  PledgeInv'
<1>1. draft' = Idle /\ UNCHANGED <<coll, open, calls, owned>>
  BY DEF Refuse, SignFails
<1>2. Made' = {m \in Made : m.id # 0}
  <2>1. Made' = MadeOf(open, <<>>)
    BY <1>1 DEF Made, Idle
  <2> QED  BY <2>1, MadeIdle, WalletInvFacts DEF Made
<1>3. Pledged(coll, {m \in Made : m.id # 0})
  BY PledgedFailed, WalletInvFacts
<1>4. IdInv'
  BY <1>1 DEF WalletInv, PledgeInv, IdInv, Idle
<1> QED  BY <1>1, <1>2, <1>3, <1>4, WalletInvFacts DEF PledgeInv

\* Signing leaves the values and signs each part over its own.
LEMMA SigTxnSigned ==
    ASSUME NEW c, Exact(c), Apart(c), NEW t \in TxnType,
           \A v \in Values(t) : \E n \in Nodes(c) : ValueOf(c, n) = v
    PROVE  LET x == SigTxn(c, t)
           IN  /\ Paid(x) = Paid(t) /\ x.change = t.change
               /\ \A part \in Parts(x) : SignTransaction(part, Key) \in x.signatures
<1> DEFINE x == SigTxn(c, t)
           signed == {SignTransaction(SerializeValuesForSigning(c, part), Key) :
                         part \in Parts(t)}
<1>1. x.paid = t.paid /\ x.change = t.change /\ x.signatures = signed
  BY DEF SigTxn, TxnType
<1>2. ASSUME NEW part \in Parts(t) PROVE SignTransaction(part, Key) \in signed
  <2>1. \A v \in part : \E n \in Nodes(c) : ValueOf(c, n) = v
    BY DEF Parts, Values
  <2>2. SerializeValuesForSigning(c, part) = part
    BY <2>1, SerializedValues
  <2> QED  BY <2>2
<1> HIDE DEF x, signed
<1>3. Paid(x) = Paid(t) /\ Parts(x) = Parts(t)
  BY <1>1 DEF Paid, Parts
<1> QED  BY <1>1, <1>2, <1>3 DEF x

\* Values are selected for a request.
LEMMA PledgePick ==
    ASSUME WalletInv, Pick
    PROVE  PledgeInv'
<1> DEFINE picks(N, last, change) ==
               /\ Greedy(coll, N, last, change, Head(draft.todo))
               /\ LET s == Txn(coll, N, last, change, Head(draft.todo))
                      after == Select(coll, s, last, change)
                  IN  /\ coll' = after
                      /\ draft' = [draft EXCEPT !.todo = Tail(@),
                                                !.txns = Append(@, SigTxn(after, s))]
<1>a. PICK N \in SUBSET Available(coll) :
         \E last \in N : \E change \in 0..ValueOf(coll, last).num : picks(N, last, change)
  BY DEF Pick
<1>b. PICK last \in N : \E change \in 0..ValueOf(coll, last).num : picks(N, last, change)
  BY <1>a
<1>1. PICK change \in 0..ValueOf(coll, last).num : picks(N, last, change)
  BY <1>b
<1> DEFINE t == Txn(coll, N, last, change, Head(draft.todo))
           a == AfterSplit(coll, last, change)
           x == SigTxn(coll', t)
           k == [id |-> 0, at |-> Len(draft.txns) + 1, txn |-> x]
<1>2. /\ draft.todo \in Seq(0..MaxAmount) /\ draft.todo # <<>>
      /\ draft.txns \in Seq(TxnType)
      /\ draft \in [busy : BOOLEAN, todo : Seq(0..MaxAmount), txns : Seq(TxnType)]
  BY DEF Pick, WalletInv, IndexInv, TypeOK
<1>3. N \subseteq InState(coll, "unspent") /\ last \in Nodes(coll)
      /\ N \subseteq Nodes(coll)
  BY WalletInvFacts DEF Available, Exact, State, InState
<1>4. change \in Nat /\ change < ValueOf(coll, last).num
  <2>1. ValueOf(coll, last) \in Interval
    BY <1>3, NodeTyped, WalletInvFacts
  <2> QED  BY <1>1, <2>1 DEF Interval, Greedy
<1>5. t \in TxnType
  <2>1. Head(draft.todo) \in 0..MaxAmount
    BY <1>2, HeadTailProperties
  <2> QED  BY <1>3, <1>4, <2>1, TxnTyped, WalletInvFacts
<1>6. Exact(a) /\ Apart(a)
  BY <1>3, <1>4, AfterSplitExact, AfterSplitTiles, WalletInvFacts
     DEF WalletInv, TilesInv
<1>7. /\ \A v \in Values(t) : Has(a, v, "unspent")
      /\ Paid(t) \cap t.change = {}
  BY <1>3, <1>4, SelectedValues, WalletInvFacts
<1>8. /\ \A v, s : s # "unspent" => (Has(a, v, s) <=> Has(coll, v, s))
      /\ Owned(a, owned)
  <2>1. CASE change > 0
    BY <1>3, <1>4, <2>1, AfterSplitHas, WalletInvFacts
  <2>2. CASE ~(change > 0)
    BY <2>2, WalletInvFacts DEF AfterSplit
  <2> QED  BY <2>1, <2>2
<1>9. /\ coll' = UpdateStates(a, Values(t), "selected")
      /\ draft' = [draft EXCEPT !.todo = Tail(@), !.txns = Append(@, x)]
  BY <1>1 DEF Select
<1>10. UNCHANGED <<open, calls, owned>>
  BY DEF Pick
<1> HIDE DEF t, a
<1>11. /\ Exact(coll') /\ Apart(coll')
       /\ \A v \in Values(t) : \E n \in Nodes(coll') : ValueOf(coll', n) = v
  <2>1. /\ Exact(coll') /\ Apart(coll')
        /\ \A v \in Values(t) : \A s :
               Has(coll', v, s) <=> s = "selected" /\ \E n \in Nodes(a) : ValueOf(a, n) = v
    BY <1>6, <1>9, UpdateHas DEF State
  <2> QED  BY <1>7, <2>1 DEF Has
<1>12. /\ Paid(x) = Paid(t) /\ x.change = t.change
       /\ \A part \in Parts(x) : SignTransaction(part, Key) \in x.signatures
  BY <1>5, <1>11, SigTxnSigned
<1>13. x \in TxnType
  BY <1>5, <1>11, SigTxnTyped
<1> HIDE DEF x
<1>14. Values(x) = Values(t)
  BY <1>12 DEF Values
<1>15. Made' = Made \cup {k}
  <2>1. draft'.txns = Append(draft.txns, x) /\ open' = open
    BY <1>2, <1>9, <1>10
  <2>2. MadeOf(open, Append(draft.txns, x)) = MadeOf(open, draft.txns) \cup {k}
    BY <1>2, <1>13, MadeAppend
  <2> QED  BY <2>1, <2>2 DEF Made
<1>16. Pledged(coll', Made')
  <2>1. Pledged(a, Made)
    <3>1. Pledged(coll, Made)
      BY WalletInvFacts
    <3> QED  BY <1>8, <3>1, PledgedSame
  <2>2. k.id = 0 /\ k.txn = x
    OBVIOUS
  <2> HIDE DEF k
  <2>3. Pledged(UpdateStates(a, Values(x), "selected"), Made \cup {k})
    BY <1>6, <1>7, <1>12, <1>14, <2>1, <2>2, PledgedMore
  <2> QED  BY <1>9, <1>14, <1>15, <2>3
<1>17. Owned(coll', owned')
  <2>1. \A v \in Values(t) : ~Has(a, v, "confirmed")
    BY <1>6, <1>7, OneState
  <2>2. Owned(UpdateStates(a, Values(t), "selected"), owned)
    BY <1>6, <1>8, <2>1, UpdateOwned DEF State
  <2> QED  BY <1>9, <1>10, <2>2
<1>18. IdInv'
  <2>1. draft.busy /\ draft'.busy = draft.busy
    BY <1>2, <1>9 DEF WalletInv, PledgeInv, IdInv
  <2> QED  BY <1>10, <2>1 DEF WalletInv, PledgeInv, IdInv
<1> QED  BY <1>16, <1>17, <1>18 DEF PledgeInv

\* The transactions of a result, in and out of Made.
LEMMA MadeOfResult ==
    ASSUME WalletInv, NEW r \in open
    PROVE  /\ \A v : v \in AllPaid(r.txns)
                       <=> \E m \in Made : m.id = r.id /\ v \in Paid(m.txn)
           /\ \A v : v \in AllChange(r.txns)
                       <=> \E m \in Made : m.id = r.id /\ v \in m.txn.change
<1>1. \A q \in open : q.id # 0 /\ (q.id = r.id => q = r)
  BY WalletInvFacts DEF WalletInv, PledgeInv, IdInv
<1>2. \A m : m \in Made /\ m.id = r.id
               <=> \E i \in DOMAIN r.txns : m = [id |-> r.id, at |-> i, txn |-> r.txns[i]]
  BY <1>1, MadeMeaning DEF Made
<1>3. \A m \in Made : m.id = r.id => \E i \in DOMAIN r.txns : m.txn = r.txns[i]
  BY <1>2
<1>4. ASSUME NEW i \in DOMAIN r.txns
      PROVE  \E m \in Made : m.id = r.id /\ m.txn = r.txns[i]
  <2> DEFINE k == [id |-> r.id, at |-> i, txn |-> r.txns[i]]
  <2>1. k \in Made
    BY <1>2
  <2> QED  BY <2>1
<1>5. \A v : v \in AllPaid(r.txns) <=> \E i \in DOMAIN r.txns : v \in Paid(r.txns[i])
  BY DEF AllPaid
<1>6. \A v : v \in AllChange(r.txns) <=> \E i \in DOMAIN r.txns : v \in r.txns[i].change
  BY DEF AllChange
<1> QED  BY <1>3, <1>4, <1>5, <1>6

\* The same of the call under way.
LEMMA MadeOfCall ==
    ASSUME WalletInv
    PROVE  \A v : v \in AllPaid(draft.txns)
                    <=> \E m \in Made : m.id = 0 /\ v \in Paid(m.txn)
<1>1. \A q \in open : q.id # 0
  BY WalletInvFacts
<1>2. \A m : m \in Made /\ m.id = 0
               <=> \E i \in DOMAIN draft.txns :
                       m = [id |-> 0, at |-> i, txn |-> draft.txns[i]]
  BY <1>1, MadeMeaning DEF Made
<1>3. \A m \in Made : m.id = 0 => \E i \in DOMAIN draft.txns : m.txn = draft.txns[i]
  BY <1>2
<1>4. ASSUME NEW i \in DOMAIN draft.txns
      PROVE  \E m \in Made : m.id = 0 /\ m.txn = draft.txns[i]
  <2> DEFINE k == [id |-> 0, at |-> i, txn |-> draft.txns[i]]
  <2>1. k \in Made
    BY <1>2
  <2> QED  BY <2>1
<1>5. \A v : v \in AllPaid(draft.txns) <=> \E i \in DOMAIN draft.txns : v \in Paid(draft.txns[i])
  BY DEF AllPaid
<1> QED  BY <1>3, <1>4, <1>5

\* The call's result is returned.
LEMMA PledgeSeal ==
    ASSUME WalletInv, Seal
    PROVE  PledgeInv'
<1> DEFINE result == [id |-> calls, txns |-> draft.txns,
                      signature |-> SigAccTxn(coll, draft.txns)]
           values == AllPaid(draft.txns)
<1>1. /\ draft.busy
      /\ coll' = UpdateStates(coll, values, "local_committed")
      /\ open' = open \cup {result} /\ draft' = Idle
      /\ UNCHANGED <<calls, owned>>
  BY DEF Seal, Commit
<1>2. result.id = calls /\ result.txns = draft.txns
  OBVIOUS
<1> HIDE DEF result
<1>3. calls >= 1 /\ calls # 0 /\ \A r \in open : r.id # calls /\ r.id # 0
  BY <1>1, WalletInvFacts DEF WalletInv, PledgeInv, IdInv
<1>4. Made' = {SealedAs(m, calls) : m \in Made}
  <2>1. Made' = MadeOf(open \cup {result}, <<>>)
    BY <1>1 DEF Made, Idle
  <2> QED  BY <1>2, <1>3, <2>1, MadeSealed DEF Made
<1> HIDE DEF values
<1>5. \A v : v \in values <=> \E m \in Made : m.id = 0 /\ v \in Paid(m.txn)
  BY MadeOfCall DEF values
<1>6. Pledged(coll', Made')
  <2>1. Pledged(UpdateStates(coll, values, "local_committed"),
                {SealedAs(m, calls) : m \in Made})
    BY <1>3, <1>5, WalletInvFacts, PledgedSealed
  <2> QED  BY <1>1, <1>4, <2>1
<1>7. Owned(coll', owned')
  <2>1. \A v \in values : Has(coll, v, "selected")
    BY <1>5, WalletInvFacts DEF Pledged, Marked
  <2>2. \A v \in values : ~Has(coll, v, "confirmed")
    BY <2>1, OneState, WalletInvFacts
  <2> QED  BY <1>1, <2>2, UpdateOwned, WalletInvFacts DEF State
<1>8. IdInv'
  BY <1>1, <1>2, <1>3, WalletInvFacts DEF WalletInv, PledgeInv, IdInv, Idle
<1> QED  BY <1>6, <1>7, <1>8 DEF PledgeInv

\* A result is confirmed or rolled back.
LEMMA PledgeSettle ==
    ASSUME WalletInv, NEW r \in open, Confirm(r) \/ Rollback(r)
    PROVE  PledgeInv'
<1>1. open' = open \ {r} /\ UNCHANGED <<draft, calls>>
  BY DEF Confirm, Rollback
<1>2. r.id # 0 /\ \A q \in open : q.id = r.id => q = r
  BY WalletInvFacts DEF WalletInv, PledgeInv, IdInv
<1>3. Made' = {m \in Made : m.id # r.id}
  <2>1. Made' = MadeOf(open \ {r}, draft.txns)
    BY <1>1 DEF Made
  <2> QED  BY <1>2, <2>1, MadeWithout DEF Made
<1>4. IdInv'
  BY <1>1 DEF WalletInv, PledgeInv, IdInv
<1>5. /\ \A m \in Made : m.id = r.id => Paid(m.txn) \subseteq AllPaid(r.txns)
      /\ \A v \in AllPaid(r.txns) \cup AllChange(r.txns) :
             \E m \in Made : m.id = r.id /\ v \in Values(m.txn)
  BY MadeOfResult DEF Values
<1>6. \A v \in AllPaid(r.txns) : Has(coll, v, "local_committed")
  BY <1>2, MadeOfResult, WalletInvFacts DEF Pledged, Marked
<1>7. CASE Confirm(r)
  <2> DEFINE values == AllPaid(r.txns) \cup AllChange(r.txns)
  <2>1. /\ coll' = UpdateStates(coll, values, "confirmed")
        /\ owned' = owned \ AllUnits(AllPaid(r.txns))
    BY <1>7 DEF Confirm, ConfirmValues
  <2>2. AllPaid(r.txns) \subseteq values
    OBVIOUS
  <2>3. ValuesOf(Made, r.id, values)
    BY <1>5 DEF ValuesOf
  <2> HIDE DEF values
  <2>4. Pledged(UpdateStates(coll, values, "confirmed"), {m \in Made : m.id # r.id})
    BY <1>2, <2>3, PledgedSettled, WalletInvFacts
  <2>5. Owned(UpdateStates(coll, values, "confirmed"), owned \ AllUnits(AllPaid(r.txns)))
    BY <1>6, <2>2, ConfirmOwned, WalletInvFacts DEF Has
  <2> QED  BY <1>3, <1>4, <2>1, <2>4, <2>5 DEF PledgeInv
<1>8. CASE Rollback(r)
  <2>1. /\ coll' = UpdateStates(coll, AllPaid(r.txns), "unspent")
        /\ owned' = owned
    BY <1>8 DEF Rollback
  <2>2. Pledged(UpdateStates(coll, AllPaid(r.txns), "unspent"),
                {m \in Made : m.id # r.id})
    <3>1. ValuesOf(Made, r.id, AllPaid(r.txns))
      BY <1>5 DEF ValuesOf
    <3> QED  BY <1>2, <3>1, PledgedSettled, WalletInvFacts
  <2>3. \A v \in AllPaid(r.txns) : ~Has(coll, v, "confirmed")
    BY <1>6, OneState, WalletInvFacts
  <2>4. Owned(UpdateStates(coll, AllPaid(r.txns), "unspent"), owned)
    BY <2>3, UpdateOwned, WalletInvFacts DEF State
  <2> QED  BY <1>3, <1>4, <2>1, <2>2, <2>4 DEF PledgeInv
<1> QED  BY <1>7, <1>8

-----------------------------------------------------------------------------
\* Every step of a disciplined wallet.
LEMMA WalletStep ==
    ASSUME WalletInv, [DisciplinedNext]_vars
    PROVE  WalletInv'
<1>1. IndexInv' /\ TilesInv'
  <2>1. [Next]_vars
    BY DEF DisciplinedNext, Next
  <2> QED  BY <2>1, IndexInvStep, TilesStep DEF WalletInv
<1>2. CASE UNCHANGED vars
  <2>1. PledgeInv'
    BY <1>2 DEF WalletInv, PledgeInv, IdInv, Made, vars
  <2> QED  BY <1>1, <2>1 DEF WalletInv
<1>3. CASE DisciplinedNext
  <2>1. ASSUME NEW v \in Coin, Receive(v) PROVE PledgeInv'
    BY <2>1, PledgeReceive
  <2>2. ASSUME Cleanup PROVE PledgeInv'
    BY <2>2, PledgeCleanup
  <2>3. ASSUME NEW requests \in Requests, Begin(requests) PROVE PledgeInv'
    BY <2>3, PledgeBegin
  <2>4. ASSUME Pick PROVE PledgeInv'
    BY <2>4, PledgePick
  <2>5. ASSUME Refuse \/ SignFails PROVE PledgeInv'
    BY <2>5, PledgeEnd
  <2>6. ASSUME Seal PROVE PledgeInv'
    BY <2>6, PledgeSeal
  <2>7. ASSUME NEW r \in open, Confirm(r) \/ Rollback(r) PROVE PledgeInv'
    BY <2>7, PledgeSettle
  <2>8. PledgeInv'
    BY <1>3, <2>1, <2>2, <2>3, <2>4, <2>5, <2>6, <2>7 DEF DisciplinedNext, Moves
  <2> QED  BY <1>1, <2>8 DEF WalletInv
<1> QED  BY <1>2, <1>3

\* The invariant holds of a disciplined wallet.
THEOREM WalletInvariant == DisciplinedSpec => []WalletInv
<1>1. Init => WalletInv
  BY IndexInvInit, TilesInit, PledgeInit DEF WalletInv
<1>2. WalletInv /\ [DisciplinedNext]_vars => WalletInv'
  BY WalletStep
<1> QED  BY <1>1, <1>2, PTL DEF DisciplinedSpec

\* A transaction of Results is in Made.
LEMMA ResultsMade ==
    ASSUME NEW r \in Results, NEW i \in DOMAIN r.txns
    PROVE  [id |-> r.id, at |-> i, txn |-> r.txns[i]] \in Made
BY DEF Results, Made, MadeOf

\* Two values of the collection that differ have no unit in common.
LEMMA OtherUnits ==
    ASSUME WalletInv, NEW v, NEW w, v # w,
           \E n \in Nodes(coll) : ValueOf(coll, n) = v,
           \E n \in Nodes(coll) : ValueOf(coll, n) = w
    PROVE  UnitsOf(v) \cap UnitsOf(w) = {}
BY DEF WalletInv, TilesInv, Apart

\* The values of a transaction that was made are in the collection, and none of
\* them is unspent.
LEMMA MadeHeld ==
    ASSUME WalletInv, NEW m \in Made, NEW v \in Values(m.txn)
    PROVE  /\ \E n \in Nodes(coll) : ValueOf(coll, n) = v
           /\ ~Has(coll, v, "unspent")
<1>1. Has(coll, v, "selected") \/ Has(coll, v, "local_committed")
  BY WalletInvFacts DEF Pledged, Marked, Values
<1>2. ~Has(coll, v, "unspent")
  BY <1>1, OneState, WalletInvFacts
<1> QED  BY <1>1, <1>2 DEF Has

\* In a disciplined wallet no unit is promised twice: the open results and the
\* call under way pay with, and take as change, units of their own, and none of
\* these can be selected again (pick_values_for_transaction), for any values,
\* amounts, batch sizes and order of calls, failed ones included.
THEOREM NeverPledgedTwice == DisciplinedSpec => []NotPledgedTwice
<1>1. ASSUME WalletInv PROVE NotPledgedTwice
  <2> SUFFICES ASSUME NEW r \in Results, NEW i \in DOMAIN r.txns
               PROVE  LET pledged == AllUnits(Values(r.txns[i])) IN
                      /\ pledged \cap AllUnits(ValuesIn(coll, "unspent")) = {}
                      /\ \A q \in Results : \A j \in DOMAIN q.txns :
                             <<r.id, i>> # <<q.id, j>> =>
                                 pledged \cap AllUnits(Values(q.txns[j])) = {}
    BY DEF NotPledgedTwice
  <2> DEFINE m == [id |-> r.id, at |-> i, txn |-> r.txns[i]]
             V == Values(r.txns[i])
  <2>1. m \in Made
    BY ResultsMade
  <2>2. ASSUME NEW v \in V
        PROVE  /\ \E n \in Nodes(coll) : ValueOf(coll, n) = v
               /\ ~Has(coll, v, "unspent")
    BY <1>1, <2>1, MadeHeld
  <2>3. AllUnits(V) \cap AllUnits(ValuesIn(coll, "unspent")) = {}
    <3>1. ASSUME NEW v \in V, NEW w \in ValuesIn(coll, "unspent")
          PROVE  UnitsOf(v) \cap UnitsOf(w) = {}
      <4>1. Has(coll, w, "unspent")
        BY DEF ValuesIn, InState, Has
      <4>2. v # w
        BY <2>2, <4>1
      <4> QED  BY <1>1, <2>2, <4>1, <4>2, OtherUnits DEF Has
    <3> QED  BY <3>1 DEF AllUnits
  <2>4. ASSUME NEW q \in Results, NEW j \in DOMAIN q.txns, <<r.id, i>> # <<q.id, j>>
        PROVE  AllUnits(V) \cap AllUnits(Values(q.txns[j])) = {}
    <3> DEFINE k == [id |-> q.id, at |-> j, txn |-> q.txns[j]]
    <3>1. k \in Made /\ m # k
      BY <2>4, ResultsMade
    <3>2. V \cap Values(q.txns[j]) = {}
      <4>1. m.txn = r.txns[i] /\ k.txn = q.txns[j]
        OBVIOUS
      <4> HIDE DEF m, k
      <4>2. Values(m.txn) \cap Values(k.txn) = {}
        BY <1>1, <2>1, <3>1, WalletInvFacts DEF Pledged, Separate
      <4> QED  BY <4>1, <4>2
    <3>3. \A w \in Values(q.txns[j]) : \E n \in Nodes(coll) : ValueOf(coll, n) = w
      BY <1>1, <3>1, MadeHeld
    <3>4. ASSUME NEW v \in V, NEW w \in Values(q.txns[j])
          PROVE  UnitsOf(v) \cap UnitsOf(w) = {}
      BY <1>1, <2>2, <3>2, <3>3, OtherUnits
    <3> QED  BY <3>4 DEF AllUnits
  <2> QED  BY <2>3, <2>4
<1> QED  BY <1>1, WalletInvariant, PTL

\* In a disciplined wallet the values that await confirmation are exactly those
\* that the open results pay with (commit_transaction_values): a call that
\* failed leaves none behind, a result that was settled none over.
THEOREM CommittedByResults == DisciplinedSpec => []CommittedExactly
<1>1. ASSUME WalletInv PROVE CommittedExactly
  <2>1. ASSUME NEW v \in ValuesIn(coll, "local_committed")
        PROVE  \E r \in open : v \in AllPaid(r.txns)
    <3>1. Has(coll, v, "local_committed")
      BY DEF ValuesIn, InState, Has
    <3>2. PICK m \in Made : m.id # 0 /\ v \in Paid(m.txn)
      BY <1>1, <3>1, WalletInvFacts DEF Pledged, Answered
    <3>3. PICK r \in open : \E i \in DOMAIN r.txns :
             m = [id |-> r.id, at |-> i, txn |-> r.txns[i]]
      BY <3>2, MadeMeaning DEF Made
    <3>4. \E i \in DOMAIN r.txns : v \in Paid(r.txns[i])
      BY <3>2, <3>3
    <3> QED  BY <3>4 DEF AllPaid
  <2>2. ASSUME NEW r \in open, NEW v \in AllPaid(r.txns)
        PROVE  v \in ValuesIn(coll, "local_committed")
    <3>1. PICK m \in Made : m.id = r.id /\ v \in Paid(m.txn)
      BY <1>1, MadeOfResult
    <3>2. Has(coll, v, "local_committed")
      BY <1>1, <3>1, WalletInvFacts DEF Pledged, Marked
    <3> QED  BY <3>2 DEF ValuesIn, InState, Has
  <2> QED  BY <2>1, <2>2 DEF CommittedExactly
<1> QED  BY <1>1, WalletInvariant, PTL

\* Whatever a disciplined wallet would spend is the account's on the chain, for
\* any order of receipts, payments, confirmations and roll-backs.
THEOREM OnlyOwnedSpendable == DisciplinedSpec => []SpendableOwned
<1>1. ASSUME WalletInv PROVE SpendableOwned
  <2>1. ASSUME NEW v \in ValuesIn(coll, "unspent")
        PROVE  UnitsOf(v) \subseteq owned
    <3>1. PICK n \in Nodes(coll) : ValueOf(coll, n) = v /\ coll.node[n].state = "unspent"
      BY DEF ValuesIn, InState
    <3> QED  BY <1>1, <3>1, WalletInvFacts DEF Owned
  <2> QED  BY <2>1 DEF SpendableOwned, AllUnits
<1> QED  BY <1>1, WalletInvariant, PTL

\* In a disciplined wallet the signature of every transaction made verifies
\* (check_txn_sig) from its signing to the settlement of its result: nothing the
\* wallet does meanwhile changes what was signed.
THEOREM SignaturesHold == DisciplinedSpec => []TransactionsVerify
<1>1. ASSUME WalletInv PROVE TransactionsVerify
  <2> SUFFICES ASSUME NEW r \in Results, NEW i \in DOMAIN r.txns,
                      NEW part \in Parts(r.txns[i])
               PROVE  \E signature \in r.txns[i].signatures :
                          VerifyTransactionSignature(
                              SerializeValuesForSigning(coll, part), signature, Key)
    BY DEF TransactionsVerify, CheckTxnSig
  <2> DEFINE m == [id |-> r.id, at |-> i, txn |-> r.txns[i]]
  <2>1. m \in Made
    BY ResultsMade
  <2>2. SignTransaction(part, Key) \in r.txns[i].signatures
    <3>1. m.txn = r.txns[i]
      OBVIOUS
    <3> HIDE DEF m
    <3> QED  BY <1>1, <2>1, <3>1, WalletInvFacts DEF Pledged, Signed
  <2>3. \A v \in part : \E n \in Nodes(coll) : ValueOf(coll, n) = v
    <3>1. \A v \in part : v \in Values(m.txn)
      BY DEF Parts, Values
    <3> HIDE DEF m
    <3> QED  BY <1>1, <2>1, <3>1, MadeHeld
  <2>4. SerializeValuesForSigning(coll, part) = part
    BY <1>1, <2>3, SerializedValues, WalletInvFacts
  <2> QED  BY <2>2, <2>4
           DEF VerifyTransactionSignature, VerifySignature, SignTransaction
<1> QED  BY <1>1, WalletInvariant, PTL
=============================================================================
