------------------------------- MODULE ValueList -------------------------------
(***************************************************************************)
(* The data structure of EZ_Value/AccountValueCollection.py: a doubly      *)
(* linked list of nodes with three indices kept beside it, under every     *)
(* public operation in any order and with any values, overlapping ones     *)
(* and duplicates included.  (Module Wallet has the same collection without*)
(* its links, under the operations that the rest of the program uses.)     *)
(*                                                                         *)
(* A node id is a number, larger for a later node (the code takes a uuid); *)
(* None is the null link.  The domain of next, prev and entry is           *)
(* _index_map; nodes that are removed are garbage.                         *)
(***************************************************************************)
EXTENDS Integers, Sequences, FiniteSets, SequencesExt, EZValue

CONSTANTS
    Coin,      \* the values that may be added
    State,     \* the states of a value
    MaxNodes   \* bound on the nodes ever made

ASSUME CoinAssumption == Coin \subseteq Interval
ASSUME StateAssumption == {"unspent", "confirmed"} \subseteq State
ASSUME BoundAssumption == MaxNodes \in Nat

VARIABLES
    l,       \* the collection
    held,    \* history: the units added and not removed
    sound    \* history: every value added was disjoint from the values there,
             \* every merge joined two values that follow one another

vars == <<l, held, sound>>

None == 0

Nodes == DOMAIN l.entry
ValueAt(n) == l.entry[n].value
StateAt(n) == l.entry[n].state

Empty == [head |-> None, tail |-> None, size |-> 0,
          next |-> <<>>, prev |-> <<>>, entry |-> <<>>,
          states |-> [s \in State |-> {}],    \* _state_index
          begins |-> <<>>,                    \* _decimal_begin_map
          fresh |-> 1]

\* A key of a Python dictionary is set, is deleted.
Put(f, key, x) == [k \in DOMAIN f \cup {key} |-> IF k = key THEN x ELSE f[k]]
Del(f, key) == [k \in DOMAIN f \ {key} |-> f[k]]

\* A link of node n, if there is a node n, is set.
SetLink(f, n, to) == IF n = None THEN f ELSE [f EXCEPT ![n] = to]

\* Mutant: the node after the new one keeps its link to the one before.
Link_OneWay(c, before, after) ==
    [c EXCEPT !.head = IF before = None THEN c.fresh ELSE @,
              !.tail = IF after = None THEN c.fresh ELSE @,
              !.next = Put(SetLink(@, before, c.fresh), c.fresh, after),
              !.prev = Put(@, c.fresh, before)]

\* The new node comes between two neighbours, None at an end of the list.
Link(c, before, after) ==
    [c EXCEPT !.head = IF before = None THEN c.fresh ELSE @,
              !.tail = IF after = None THEN c.fresh ELSE @,
              !.next = Put(SetLink(@, before, c.fresh), c.fresh, after),
              !.prev = Put(SetLink(@, after, c.fresh), c.fresh, before)]

Insert(c, before, after, entry) ==
    [Link(c, before, after) EXCEPT
              !.entry = Put(@, c.fresh, entry),
              !.states[entry.state] = @ \cup {c.fresh},
              !.begins = Put(@, entry.value.begin, c.fresh),
              !.size = @ + 1,
              !.fresh = @ + 1]

\* Mutant: the beginning of the list is taken for a place after its head.
AddValue_AfterHead(c, entry) ==
    {Insert(c, c.tail, None, entry),
     Insert(c, c.head, IF c.head = None THEN None ELSE c.next[c.head], entry)}

\* add_value, at the end or at the beginning.
AddValue(c, entry) ==
    {Insert(c, c.tail, None, entry), Insert(c, None, c.head, entry)}

\* split_value: the node keeps the paid part, the change comes right after it.
SplitNode(c, n, change) ==
    LET parts == SplitValue(c.entry[n].value, change)
    IN  Insert([c EXCEPT !.entry[n].value = parts[1]], n, c.next[n],
               [c.entry[n] EXCEPT !.value = parts[2]])

Unlink(c, n) ==
    [c EXCEPT !.head = IF c.prev[n] = None THEN c.next[n] ELSE @,
              !.tail = IF c.next[n] = None THEN c.prev[n] ELSE @,
              !.next = Del(SetLink(@, c.prev[n], c.next[n]), n),
              !.prev = Del(SetLink(@, c.next[n], c.prev[n]), n),
              !.entry = Del(@, n),
              !.size = @ - 1]

\* Mutants: one of the indices keeps the node.
RemoveNode_StaleBegin(c, n) ==
    [Unlink(c, n) EXCEPT !.states[c.entry[n].state] = @ \ {n}]

RemoveNode_StaleState(c, n) ==
    [Unlink(c, n) EXCEPT !.begins = Del(@, c.entry[n].value.begin)]

\* remove_value.  An entry of _decimal_begin_map that a later value with the
\* same first unit has taken over stays.
RemoveNode(c, n) ==
    LET begin == c.entry[n].value.begin
    IN  [Unlink(c, n) EXCEPT
            !.states[c.entry[n].state] = @ \ {n},
            !.begins = IF begin \in DOMAIN @ /\ @[begin] = n THEN Del(@, begin) ELSE @]

\* Mutant: the merged value is as long as the first of the two.
Merged_First(v, w) == v

\* The value merge_adjacent_values makes, whether or not w follows v.
Merged(v, w) == [begin |-> v.begin, num |-> v.num + w.num]

\* Mutant: the node stays in the index of its old state.
UpdateValueState_Both(c, n, s) ==
    [c EXCEPT !.entry[n].state = s, !.states[s] = @ \cup {n}]

\* update_value_state.
UpdateValueState(c, n, s) ==
    LET old == c.entry[n].state
    IN  IF old = s THEN c
        ELSE [c EXCEPT !.entry[n].state = s,
                       !.states[old] = @ \ {n}, !.states[s] = @ \cup {n}]

\* clear_spent_values: remove_value of every node in a list of those indexed as
\* CONFIRMED, which is made before the first of them is removed.
ClearSpentValues(c) ==
    LET spent == SetToSeq(c.states["confirmed"])
        after[i \in 0..Len(spent)] ==
            IF i = 0 THEN c ELSE RemoveNode(after[i - 1], spent[i])
    IN  after[Len(spent)]

-----------------------------------------------------------------------------
AllUnits(N) == UNION {UnitsOf(ValueAt(n)) : n \in N}

Add(v) ==
    /\ l.fresh <= MaxNodes
    /\ l' \in AddValue(l, [value |-> v, state |-> "unspent"])
    /\ held' = held \cup UnitsOf(v)
    /\ sound' = (sound /\ UnitsOf(v) \cap held = {})

RemoveValue(n) ==
    /\ l' = RemoveNode(l, n)
    /\ held' = held \ UnitsOf(ValueAt(n))
    /\ UNCHANGED sound

Split(n, change) ==
    /\ l.fresh <= MaxNodes
    /\ l' = SplitNode(l, n, change)
    /\ UNCHANGED <<held, sound>>

\* merge_adjacent_values: adjacent in the list.  Whether the two values are
\* adjacent as well is not looked at.
MergeAdjacentValues(n, m) ==
    /\ l.next[n] = m
    /\ StateAt(n) = StateAt(m)
    /\ l' = RemoveNode([l EXCEPT !.entry[n].value = Merged(ValueAt(n), ValueAt(m))], m)
    /\ sound' = (sound /\ EndIndex(ValueAt(n)) + 1 = ValueAt(m).begin)
    /\ UNCHANGED held

Update(n, s) ==
    /\ l' = UpdateValueState(l, n, s)
    /\ UNCHANGED <<held, sound>>

ClearSpent ==
    /\ l' = ClearSpentValues(l)
    /\ held' = held \ AllUnits({n \in Nodes : StateAt(n) = "confirmed"})
    /\ UNCHANGED sound

Init == l = Empty /\ held = {} /\ sound = TRUE

Next ==
    \/ \E v \in Coin : Add(v)
    \/ \E n \in Nodes :
           \/ RemoveValue(n)
           \/ \E change \in 1..ValueAt(n).num - 1 : Split(n, change)
           \/ \E m \in Nodes : MergeAdjacentValues(n, m)
           \/ \E s \in State : Update(n, s)
    \/ ClearSpent

Spec == Init /\ [][Next]_vars

-----------------------------------------------------------------------------
(* What the listings see.                                                  *)

\* The nodes a walk along the links visits; it is cut off when it is longer
\* than a walk without a cycle can be.
Walk(nodes, first, link) ==
    LET at[k \in 1..Cardinality(nodes) + 1] ==
            IF k = 1 THEN first
            ELSE IF at[k - 1] = None THEN None ELSE link[at[k - 1]]
    IN  [k \in {i \in DOMAIN at : at[i] # None} |-> at[k]]

\* get_all_values, and every other loop over the list.
Listing == Walk(Nodes, l.head, l.next)

\* sorted by the first unit: of values with the same one, the first in the list.
Before(i, j) ==
    LET first(k) == ValueAt(Listing[k]).begin
    IN  first(i) < first(j) \/ (first(i) = first(j) /\ i < j)

\* Mutant: neighbours in the order of the list are compared.
ValidateNoOverlap_Unsorted ==
    \A i \in 1..Len(Listing) - 1 :
        EndIndex(ValueAt(Listing[i])) < ValueAt(Listing[i + 1]).begin

\* validate_no_overlap: neighbours in the order of the first units are compared.
ValidateNoOverlap ==
    \A i, j \in 1..Len(Listing) :
        Before(i, j) /\ ~(\E k \in 1..Len(Listing) : Before(i, k) /\ Before(k, j))
            => EndIndex(ValueAt(Listing[i])) < ValueAt(Listing[j]).begin

-----------------------------------------------------------------------------
(* Properties.                                                             *)

TypeOK ==
    /\ l.entry \in [Nodes -> [value : Interval, state : State]]
    /\ l.next \in [Nodes -> Nodes \cup {None}] /\ l.prev \in [Nodes -> Nodes \cup {None}]
    /\ l.head \in Nodes \cup {None} /\ l.tail \in Nodes \cup {None}
    /\ l.size \in Nat /\ l.fresh \in Nat
    /\ \A s \in State : l.states[s] \subseteq Nodes
    /\ held \subseteq Nat /\ sound \in BOOLEAN

\* Whatever was added, removed, split and merged before, both directions of the
\* list visit every node of _index_map once and in opposite orders, and size
\* counts them: no node is lost from the listings, none is visited after its
\* removal, no walk runs in a circle.
LinksAgree ==
    /\ Listing = Reverse(Walk(Nodes, l.tail, l.prev))
    /\ ToSet(Listing) = Nodes
    /\ Len(Listing) = l.size

\* The state index and the list give the same values for every state: the
\* balance (from the index) is the balance of the list.
StateIndexAgrees == \A s \in State : l.states[s] = {n \in Nodes : StateAt(n) = s}

\* The collection is a sequence of values: every operation does to the listing
\* what its name says, in the place of the list it says.
Contents == [i \in 1..Len(Listing) |-> l.entry[Listing[i]]]
Abstract == INSTANCE ValueSeq WITH list <- Contents
IsSequence == Abstract!Spec

\* As long as only disjoint values are added and only values that follow one
\* another are merged, splitting, merging and clearing conserve the units: the
\* values are disjoint, are what was added and not removed, and
\* _decimal_begin_map finds each of them by its first unit and nothing else.
\* merge_adjacent_values itself does not see to this.
UnitsConserved ==
    sound =>
        /\ \A n, m \in Nodes : n # m => ~IsIntersectValue(ValueAt(n), ValueAt(m))
        /\ AllUnits(Nodes) = held
        /\ DOMAIN l.begins = {ValueAt(n).begin : n \in Nodes}
        /\ \A n \in Nodes : l.begins[ValueAt(n).begin] = n

\* validate_no_overlap, which compares neighbours only, sees an overlap of any
\* two values, whatever the collection has become.
ValidationExact ==
    ValidateNoOverlap <=>
        \A n, m \in Nodes : n # m => ~IsIntersectValue(ValueAt(n), ValueAt(m))
===============================================================================
