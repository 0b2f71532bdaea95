------------------------------- MODULE ValueSeq -------------------------------
(***************************************************************************)
(* What an AccountValueCollection is to its users: a sequence of values    *)
(* with states, the two parts of a split value in the place of the whole,  *)
(* merged values in the place of the two.  No nodes, links or indices.     *)
(***************************************************************************)
EXTENDS Integers, FiniteSets, SequencesExt, EZValue

CONSTANTS Coin,   \* the values that may be added
          State   \* the states of a value

VARIABLE list     \* the values and their states, in order

Init == list = <<>>

Insert(entry) == list' = Append(list, entry) \/ list' = Cons(entry, list)

Delete(i) == list' = RemoveAt(list, i)

Split(i, change) ==
    LET parts == SplitValue(list[i].value, change)
    IN  list' = InsertAt(ReplaceAt(list, i, [list[i] EXCEPT !.value = parts[1]]),
                         i + 1, [list[i] EXCEPT !.value = parts[2]])

\* The value starts where the first one does and is as long as both together.
Merge(i) ==
    /\ list[i].state = list[i + 1].state
    /\ list' = ReplaceAt(RemoveAt(list, i + 1), i,
                         [list[i] EXCEPT !.value.num = @ + list[i + 1].value.num])

SetState(i, s) == list' = ReplaceAt(list, i, [list[i] EXCEPT !.state = s])

\* What is not confirmed stays, in its order.
Kept == {i \in 1..Len(list) : list[i].state # "confirmed"}

ClearSpent ==
    \E at \in [1..Cardinality(Kept) -> Kept] :
        /\ \A i, j \in DOMAIN at : i < j => at[i] < at[j]
        /\ list' = [i \in DOMAIN at |-> list[at[i]]]

Next ==
    \/ \E v \in Coin : Insert([value |-> v, state |-> "unspent"])
    \/ \E i \in 1..Len(list) :
           \/ Delete(i)
           \/ \E change \in 1..list[i].value.num - 1 : Split(i, change)
           \/ i < Len(list) /\ Merge(i)
           \/ \E s \in State : SetState(i, s)
    \/ ClearSpent

Spec == Init /\ [][Next]_list
===============================================================================
