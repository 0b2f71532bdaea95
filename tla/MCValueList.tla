------------------------------ MODULE MCValueList ------------------------------
(* Instances of ValueList for TLC. *)
EXTENDS ValueList

\* Two values that follow one another.  Overlaps come from adding one of them
\* twice, whole or in parts, and from merging them in the wrong order.
Coins == {[begin |-> 0, num |-> 2], [begin |-> 2, num |-> 1]}
===============================================================================
