-------------------------------- MODULE Wallet --------------------------------
(***************************************************************************)
(* An account's wallet: the collection of its values                       *)
(* (EZ_Value/AccountValueCollection.py), the selection of values for a     *)
(* payment (EZ_Value/AccountPickValues.py) and the two creators of         *)
(* transactions (EZ_Transaction/CreateSingleTransaction.py and             *)
(* CreateMultiTransactions.py).  As far as the wallet's state goes, a      *)
(* single transaction is a batch of one request.                           *)
(*                                                                         *)
(* The wallet belongs to one thread: between Begin and the Seal, Refuse or *)
(* SignFails that ends the call nothing else happens.  The call is a loop  *)
(* of steps because it can raise in the middle of a batch, after earlier   *)
(* requests have changed the states of their values.                       *)
(*                                                                         *)
(* Abstractions.  A node of the collection has a number; numbers grow in   *)
(* the order of insertion, which is the order _find_node_by_value searches.*)
(* The links between the nodes, which only the unused                      *)
(* merge_adjacent_values and the listings depend on, and                   *)
(* _decimal_begin_map, which nothing looks up, are left out (module        *)
(* ValueList has them).  Of what a transaction serializes only its values  *)
(* are kept: sender, recipient, nonce and time never change.               *)
(***************************************************************************)
EXTENDS Integers, Sequences, FiniteSets, FiniteSetsExt, EZValue, SecureSignature

CONSTANTS
    Coin,         \* the values the account may be given
    MaxAmount,    \* bound on the amount of a request
    MaxRequests,  \* bound on the requests of one call
    MaxCalls,     \* bound on the calls that create transactions
    MaxNodes      \* values are received only while fewer nodes were made

ASSUME CoinAssumption == Coin \subseteq Interval
ASSUME BoundAssumption == /\ MaxAmount \in Nat
                          /\ MaxRequests \in Nat
                          /\ MaxCalls \in Nat
                          /\ MaxNodes \in Nat

VARIABLES
    coll,    \* the collection: its nodes, its state index, its next node
    draft,   \* the create call under way: requests left, transactions made
    open,    \* results returned and neither confirmed nor rolled back
    calls,   \* create calls so far
    held,    \* history: units received and not cleaned up
    owned    \* history: units that are the account's on the chain

vars == <<coll, draft, open, calls, held, owned>>

State == {"unspent", "selected", "local_committed", "confirmed"}
Node == [value : Interval, state : State]

IsCollection(c) ==
    /\ c.next \in Nat
    /\ DOMAIN c.node \subseteq 1..c.next - 1
    /\ \A n \in DOMAIN c.node : c.node[n] \in Node
    /\ DOMAIN c.index = State
    /\ \A s \in State : c.index[s] \subseteq DOMAIN c.node

Idle == [busy |-> FALSE, todo |-> <<>>, txns |-> <<>>]

AllUnits(values) == UNION {UnitsOf(v) : v \in values}

-----------------------------------------------------------------------------
(* AccountValueCollection.                                                 *)

Nodes(c) == DOMAIN c.node
ValueOf(c, n) == c.node[n].value
InState(c, s) == {n \in Nodes(c) : c.node[n].state = s}
ValuesIn(c, s) == {ValueOf(c, n) : n \in InState(c, s)}

\* A new node joins the nodes.
Enter(nodes, new, entry) ==
    [n \in DOMAIN nodes \cup {new} |-> IF n = new THEN entry ELSE nodes[n]]

\* add_value: no check against the values that are there.
AddValue(c, v) ==
    [node |-> Enter(c.node, c.next, [value |-> v, state |-> "unspent"]),
     index |-> [c.index EXCEPT !["unspent"] = @ \cup {c.next}],
     next |-> c.next + 1]

\* split_value: the node keeps the paid part, a new node has the change.
SplitNode(c, n, change) ==
    LET parts == SplitValue(ValueOf(c, n), change)
    IN  [node |-> Enter([c.node EXCEPT ![n].value = parts[1]],
                        c.next, [c.node[n] EXCEPT !.value = parts[2]]),
         index |-> [c.index EXCEPT ![c.node[n].state] = @ \cup {c.next}],
         next |-> c.next + 1]

\* _find_node_by_value for each of the values: the oldest node that has it.
FindNodes(c, values) ==
    {n \in Nodes(c) :
        /\ \E v \in values : IsSameValue(ValueOf(c, n), v)
        /\ \A m \in Nodes(c) :
               IsSameValue(ValueOf(c, m), ValueOf(c, n)) => n <= m}

\* Mutant: the node is not discarded from the index of its old state.
UpdateStates_NoDiscard(c, values, s) ==
    LET found == FindNodes(c, values)
    IN  [node |-> [n \in Nodes(c) |->
                      IF n \in found THEN [c.node[n] EXCEPT !.state = s]
                                     ELSE c.node[n]],
         index |-> [c.index EXCEPT ![s] = @ \cup found],
         next |-> c.next]

\* update_value_state for the nodes found.  Which node is found does not depend
\* on any state, so the order of the values does not matter; values without a
\* node are passed over.
UpdateStates(c, values, s) ==
    LET found == FindNodes(c, values)
        moved == {n \in found : c.node[n].state # s}
    IN  [node |-> [n \in Nodes(c) |->
                      IF n \in found THEN [c.node[n] EXCEPT !.state = s]
                                     ELSE c.node[n]],
         index |-> [x \in State |->
                      IF x = s THEN c.index[x] \cup moved
                      ELSE c.index[x] \ {n \in moved : c.node[n].state = x}],
         next |-> c.next]

\* Mutant: remove_value forgets the state index.
ClearSpentValues_Dangling(c) ==
    [c EXCEPT !.node = [n \in Nodes(c) \ c.index["confirmed"] |-> c.node[n]]]

\* remove_value of each of the nodes: out of the index of the state it is in.
RemoveValues(c, N) ==
    [node |-> [n \in Nodes(c) \ N |-> c.node[n]],
     index |-> [x \in State |->
                  c.index[x] \ {n \in N : c.node[n].state = x}],
     next |-> c.next]

\* clear_spent_values: every node the index has as confirmed.
ClearSpentValues(c) == RemoveValues(c, c.index["confirmed"])

-----------------------------------------------------------------------------
(* Receiving and cleaning up.                                              *)

\* add_values_from_list, of a value the chain has just given to the account.
Receive(v) ==
    /\ ~draft.busy
    /\ coll.next <= MaxNodes
    /\ UnitsOf(v) \cap owned = {}
    /\ coll' = AddValue(coll, v)
    /\ held' = held \cup UnitsOf(v)
    /\ owned' = owned \cup UnitsOf(v)
    /\ UNCHANGED <<draft, open, calls>>

\* cleanup_confirmed_values.
Cleanup ==
    /\ ~draft.busy
    /\ coll' = ClearSpentValues(coll)
    /\ held' = held \ AllUnits(ValuesIn(coll, "confirmed"))
    /\ UNCHANGED <<draft, open, calls, owned>>

-----------------------------------------------------------------------------
(* Creating transactions: create_transaction, create_multi_transactions.   *)

\* The amounts of the requests; 0 stands for every request that is refused
\* whatever the balance (amount below 1, recipient or amount missing).
Begin(requests) ==
    /\ ~draft.busy
    /\ calls < MaxCalls
    /\ requests # <<>>
    /\ draft' = [busy |-> TRUE, todo |-> requests, txns |-> <<>>]
    /\ calls' = calls + 1
    /\ UNCHANGED <<coll, open, held, owned>>

\* The nodes find_by_state(UNSPENT) returns, in the arbitrary order of a set.
Available(c) == c.index["unspent"]

Sum(c, N) == MapThenSumSet(LAMBDA n : ValueOf(c, n).num, N)

\* The greedy loop can stop with the nodes of N selected, last the latest: they
\* suffice, by less than the value of last.
Greedy(c, N, last, change, amount) ==
    /\ Sum(c, N) = amount + change
    /\ change < ValueOf(c, last).num

\* Mutant: selected_values[-1] = v1 is forgotten.
PaidValues_Unsplit(c, N, last, change) ==
    {[node |-> n, value |-> ValueOf(c, n)] : n \in N}

\* The values a selection pays with: with change, the last one is split.
PaidValues(c, N, last, change) ==
    {[node |-> n,
      value |-> IF n = last /\ change > 0
                THEN SplitValue(ValueOf(c, last), change)[1]
                ELSE ValueOf(c, n)] : n \in N}

ChangeValues(c, last, change) ==
    IF change > 0 THEN {SplitValue(ValueOf(c, last), change)[2]} ELSE {}

\* The values of a transaction, and with those of its change transaction.
Paid(t) == {p.value : p \in t.paid}
Values(t) == Paid(t) \cup t.change

Txn(c, N, last, change, amount) ==
    [amount |-> amount,
     paid |-> PaidValues(c, N, last, change),
     change |-> ChangeValues(c, last, change),
     signatures |-> {}]

\* The node that is split is the one found for the last value.
AfterSplit(c, last, change) ==
    IF change > 0
    THEN SplitNode(c, CHOOSE n \in FindNodes(c, {ValueOf(c, last)}) : TRUE, change)
    ELSE c

\* Mutant: the change is left as it was split off, unspent.
Select_PaidOnly(c, t, last, change) ==
    UpdateStates(AfterSplit(c, last, change), Paid(t), "selected")

\* The values of transaction t become SELECTED, looked up again by value.
Select(c, t, last, change) ==
    UpdateStates(AfterSplit(c, last, change), Values(t), "selected")

-----------------------------------------------------------------------------
(* Serializing and signing: SingleTransaction.py, MultiTransactions.py.  A *)
(* transaction holds the very Value objects of the collection, so that     *)
(* what it serializes has the states of the moment; the objects are those  *)
(* of the nodes found for its values.                                      *)

Key == "account"

\* _serialize_values: a value's numbers and its state.
SerializeValues(c, values) ==
    {[value |-> ValueOf(c, n), state |-> c.node[n].state] : n \in FindNodes(c, values)}

\* Mutant: transactions are signed over the serialization that has the states.
SerializeValuesForSigning_States(c, values) == SerializeValues(c, values)

\* _serialize_values_for_signing: the numbers alone.
SerializeValuesForSigning(c, values) == {ValueOf(c, n) : n \in FindNodes(c, values)}

\* The values of the main transaction, and of the change transaction if any.
Parts(t) == {Paid(t), t.change} \ {{}}

\* sig_txn of the main and the change transaction.
SigTxn(c, t) ==
    [t EXCEPT !.signatures =
        {SignTransaction(SerializeValuesForSigning(c, part), Key) : part \in Parts(t)}]

\* check_txn_sig of the main and the change transaction.
CheckTxnSig(c, t) ==
    \A part \in Parts(t) : \E signature \in t.signatures :
        VerifyTransactionSignature(SerializeValuesForSigning(c, part), signature, Key)

\* The transactions of a batch as sig_acc_txn and check_acc_txn_sig serialize them.
SerializeBatch(c, txns) ==
    [i \in DOMAIN txns |-> {SerializeValues(c, part) : part \in Parts(txns[i])}]

SigAccTxn(c, txns) == SignMultiTransaction(SerializeBatch(c, txns), Key)

CheckAccTxnSig(c, r) ==
    VerifyMultiTransactionSignature(SerializeBatch(c, r.txns), r.signature, Key)

\* pick_values_for_transaction, and the signing of the transactions made.
Pick ==
    /\ draft.todo # <<>>
    /\ Head(draft.todo) >= 1
    /\ \E N \in SUBSET Available(coll) : \E last \in N :
       \E change \in 0..ValueOf(coll, last).num :
          /\ Greedy(coll, N, last, change, Head(draft.todo))
          /\ LET t == Txn(coll, N, last, change, Head(draft.todo))
                 after == Select(coll, t, last, change)
             IN  /\ coll' = after
                 /\ draft' = [draft EXCEPT !.todo = Tail(@),
                                           !.txns = Append(@, SigTxn(after, t))]
    /\ UNCHANGED <<open, calls, held, owned>>

\* ValueError: the request is malformed or the balance does not suffice.
Refuse ==
    /\ draft.todo # <<>>
    /\ \/ Head(draft.todo) < 1
       \/ Sum(coll, Available(coll)) < Head(draft.todo)
    /\ draft' = Idle
    /\ UNCHANGED <<coll, open, calls, held, owned>>

\* Signing raises, after values were selected.
SignFails ==
    /\ draft.txns # <<>>
    /\ draft' = Idle
    /\ UNCHANGED <<coll, open, calls, held, owned>>

AllPaid(txns) == UNION {Paid(txns[i]) : i \in DOMAIN txns}
AllChange(txns) == UNION {txns[i].change : i \in DOMAIN txns}

\* Mutant: only the first transaction's values are committed.
Commit_First(c, txns) == UpdateStates(c, Paid(txns[1]), "local_committed")

\* commit_transaction_values of the values paid; the change stays SELECTED.
Commit(c, txns) == UpdateStates(c, AllPaid(txns), "local_committed")

\* The batch is signed, then its values are committed; the result is returned.
Seal ==
    /\ draft.busy
    /\ draft.todo = <<>>
    /\ coll' = Commit(coll, draft.txns)
    /\ open' = open \cup {[id |-> calls, txns |-> draft.txns,
                           signature |-> SigAccTxn(coll, draft.txns)]}
    /\ draft' = Idle
    /\ UNCHANGED <<calls, held, owned>>

-----------------------------------------------------------------------------
(* What becomes of a result.  The caller settles it once.                  *)

\* Mutant: the values go back to UNSPENT, as in a rollback.
ConfirmValues_Unspent(c, txns) ==
    UpdateStates(c, AllPaid(txns) \cup AllChange(txns), "unspent")

ConfirmValues(c, txns) ==
    UpdateStates(c, AllPaid(txns) \cup AllChange(txns), "confirmed")

\* confirm_transaction, confirm_multi_transactions: the chain has the batch,
\* what was paid is the recipients' and the change is the sender's.
Confirm(r) ==
    /\ ~draft.busy
    /\ coll' = ConfirmValues(coll, r.txns)
    /\ open' = open \ {r}
    /\ owned' = owned \ AllUnits(AllPaid(r.txns))
    /\ UNCHANGED <<draft, calls, held>>

\* rollback_transaction_selection of a result's selected values.
Rollback(r) ==
    /\ ~draft.busy
    /\ coll' = UpdateStates(coll, AllPaid(r.txns), "unspent")
    /\ open' = open \ {r}
    /\ UNCHANGED <<draft, calls, held, owned>>

-----------------------------------------------------------------------------
Init ==
    /\ coll = [node |-> <<>>, index |-> [s \in State |-> {}], next |-> 1]
    /\ draft = Idle
    /\ open = {}
    /\ calls = 0
    /\ held = {}
    /\ owned = {}

Requests == UNION {[1..k -> 0..MaxAmount] : k \in 1..MaxRequests}

Moves ==
    \/ Cleanup
    \/ \E requests \in Requests : Begin(requests)
    \/ Pick
    \/ Refuse
    \/ SignFails
    \/ Seal
    \/ \E r \in open : Confirm(r) \/ Rollback(r)

Next == (\E v \in Coin : Receive(v)) \/ Moves

Spec == Init /\ [][Next]_vars

\* The callers' discipline under which the wallet is sound: a value that comes
\* back is received only after the spent values have been cleaned up.
Disjoint(v) == \A n \in Nodes(coll) : ~IsIntersectValue(ValueOf(coll, n), v)

DisciplinedNext == (\E v \in Coin : Disjoint(v) /\ Receive(v)) \/ Moves

DisciplinedSpec == Init /\ [][DisciplinedNext]_vars

-----------------------------------------------------------------------------
(* Properties.                                                             *)

TxnType == [amount : 0..MaxAmount,
            paid : SUBSET [node : Nat, value : Interval],
            change : SUBSET Interval,
            signatures : SUBSET [by : {Key}, over : [sha256 : SUBSET Interval]]]

TypeOK ==
    /\ IsCollection(coll)
    /\ draft \in [busy : BOOLEAN, todo : Seq(0..MaxAmount), txns : Seq(TxnType)]
    /\ \A r \in open : r.id \in Nat /\ r.txns \in Seq(TxnType)
    /\ calls \in 0..MaxCalls
    /\ held \subseteq Nat
    /\ owned \subseteq Nat

\* The state index lists each node under the state its value is in, and under
\* no other, after any sequence of splits, state changes and clean-ups: the
\* balance and the selection, which trust the index, see the true states.
StateIndexExact == \A s \in State : coll.index[s] = InState(coll, s)

\* The values of the collection are disjoint and together are what was received
\* and not yet cleaned up: splitting and settling neither lose a unit nor count
\* one twice (validate_no_overlap always succeeds).
Partition ==
    /\ \A m, n \in Nodes(coll) :
           m # n => ~IsIntersectValue(ValueOf(coll, m), ValueOf(coll, n))
    /\ AllUnits({ValueOf(coll, n) : n \in Nodes(coll)}) = held

\* Every transaction that was made pays its amount exactly, whatever values the
\* greedy loop met and wherever the last one was split.
PaysExactly ==
    \A txns \in {draft.txns} \cup {r.txns : r \in open} : \A i \in DOMAIN txns :
        MapThenSumSet(LAMBDA p : p.value.num, txns[i].paid) = txns[i].amount

\* No unit is promised twice: the transactions of the open results and of the
\* call under way are disjoint, change included, and none of their units can
\* be selected again.
Results == open \cup {[id |-> 0, txns |-> draft.txns]}

NotPledgedTwice ==
    \A r \in Results : \A i \in DOMAIN r.txns :
        LET pledged == AllUnits(Values(r.txns[i])) IN
        /\ pledged \cap AllUnits(ValuesIn(coll, "unspent")) = {}
        /\ \A q \in Results : \A j \in DOMAIN q.txns :
               <<r.id, i>> # <<q.id, j>> =>
                   pledged \cap AllUnits(Values(q.txns[j])) = {}

\* The values that await confirmation are exactly those the open results pay
\* with: a failed call leaves none behind, a settled result none over.
CommittedExactly ==
    ValuesIn(coll, "local_committed") = UNION {AllPaid(r.txns) : r \in open}

\* Whatever the wallet would spend is the account's on the chain.
SpendableOwned == AllUnits(ValuesIn(coll, "unspent")) \subseteq owned

\* Whatever happens to the wallet between the signing of a transaction and its
\* settlement, its signature verifies (check_txn_sig, which the pool runs on each
\* transaction): the states it leaves out are all that changes of its values,
\* and none of these leaves the collection or is split again.
TransactionsVerify ==
    \A r \in Results : \A i \in DOMAIN r.txns : CheckTxnSig(coll, r.txns[i])

\* What the code's comments and tests promise.  The batch that a create call
\* returns verifies under the sender's key, as the pool's admission demands.
BatchVerifies == \A r \in open : CheckAccTxnSig(coll, r)

\* A value marked SELECTED is "selected,
\* ready to go into a transaction": outside a call it belongs to a result.
SelectedInResult ==
    ~draft.busy =>
        ValuesIn(coll, "selected") \subseteq UNION {AllChange(r.txns) : r \in open}

\* A value marked CONFIRMED is "confirmed on the chain, that is, spent", and the
\* change of a transaction "goes back to the sender": the account has no unit on
\* the chain that the wallet takes for spent.
ConfirmedIsSpent == AllUnits(ValuesIn(coll, "confirmed")) \cap owned = {}
=============================================================================
