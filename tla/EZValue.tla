------------------------------- MODULE EZValue -------------------------------
(***************************************************************************)
(* Values (EZ_Value/Value.py): an interval of units, given by its first    *)
(* unit and its length.  The code writes the first and the last unit as    *)
(* hexadecimal strings; here they are the numbers.  is_same_value compares *)
(* the strings: IsSameValue is exact for values whose first unit is        *)
(* written as hex() writes it, which all values are that the code itself   *)
(* makes.  (0x0A and 0xa, given by a caller, would count as different.)    *)
(* The state of a value belongs to the account that holds it (Wallet).     *)
(***************************************************************************)
EXTENDS Integers, Sequences

Interval == [begin : Nat, num : Nat \ {0}]

\* get_end_index: the last unit is part of the value.
EndIndex(v) == v.begin + v.num - 1

UnitsOf(v) == v.begin..EndIndex(v)

\* The value of the units from first to last.
Between(first, last) == [begin |-> first, num |-> last - first + 1]

-----------------------------------------------------------------------------
\* Mutant: the change starts on the last unit of the part that is paid.
SplitValue_Overlap(v, change) ==
    <<[begin |-> v.begin, num |-> v.num - change],
      [begin |-> v.begin + v.num - change - 1, num |-> change]>>

\* split_value, called with 0 < change < num: the change is the tail.
SplitValue(v, change) ==
    LET paid == [begin |-> v.begin, num |-> v.num - change]
    IN  <<paid, [begin |-> EndIndex(paid) + 1, num |-> change]>>

IsIntersectValue(v, target) ==
    /\ EndIndex(v) >= target.begin
    /\ EndIndex(target) >= v.begin

IsInValue(v, target) ==
    /\ target.begin >= v.begin
    /\ EndIndex(target) <= EndIndex(v)

IsSameValue(v, target) == target = v

\* get_intersect_value of two values that intersect: the common part, and
\* what is left of v on either side of it.
IntersectBegin(v, target) ==
    IF target.begin >= v.begin THEN target.begin ELSE v.begin

IntersectEnd(v, target) ==
    IF EndIndex(target) <= EndIndex(v) THEN EndIndex(target) ELSE EndIndex(v)

IntersectValue(v, target) ==
    Between(IntersectBegin(v, target), IntersectEnd(v, target))

RestValues(v, target) ==
    (IF v.begin < IntersectBegin(v, target)
     THEN <<Between(v.begin, IntersectBegin(v, target) - 1)>> ELSE <<>>)
    \o
    (IF IntersectEnd(v, target) < EndIndex(v)
     THEN <<Between(IntersectEnd(v, target) + 1, EndIndex(v))>> ELSE <<>>)
=============================================================================
