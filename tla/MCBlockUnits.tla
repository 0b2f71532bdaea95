------------------------------ MODULE MCBlockUnits ------------------------------
(* Instances of BlockUnits for TLC. *)
EXTENDS BlockUnits

CONSTANTS b1, b2, b3, b4, b5, b6, b7, b8, alice, bob

Senders == [b \in {b1, b3, b5, b7} |-> alice] @@ [b \in {b2, b4, b6, b8} |-> bob]

\* No batches, an even and several odd numbers of them, two in the other order;
\* one batch is in no package.
Packages ==
    {SubSeq(<<b1, b2, b3, b4, b5, b6, b7>>, 1, n) : n \in {0, 1, 2, 5, 7}}
    \cup {<<b2, b1>>}

\* The items share a position.
Bits == (alice :> {0, 1}) @@ (bob :> {1, 2})
===============================================================================
