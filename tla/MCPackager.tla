------------------------------ MODULE MCPackager ------------------------------
(* Instances of Packager for TLC. *)
EXTENDS Packager

CONSTANTS d1, d2, d3, s1, s2

\* Well-formed batches of two senders, the one of d2 the largest.
Batches == [d \in Digest |->
    LET s == IF d = d3 THEN s2 ELSE s1
    IN  [sender |-> s, txnSenders |-> {s},
         signature |-> "good", txnSignature |-> "good"]]

Sizes == [d \in Digest |-> IF d = d2 THEN 2 ELSE 1]
===============================================================================
