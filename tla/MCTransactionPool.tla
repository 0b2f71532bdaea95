-------------------------- MODULE MCTransactionPool --------------------------
(* Instances of TransactionPool for TLC. *)
EXTENDS TransactionPool

CONSTANTS d1, d2, d3, s1, s2

good(s) == [sender |-> s, txnSenders |-> {s},
            signature |-> "good", txnSignature |-> "good"]

\* Two well-formed batches of one sender, and one of another sender whose
\* signature does not verify: it is admitted only by callers that give no
\* public key.
Batches == [d \in Digest |-> IF d = d3
                             THEN [good(s2) EXCEPT !.signature = "bad"]
                             ELSE good(s1)]

\* A host one unit west of Greenwich (a .cfg has no negative numbers).
West == -1

Symmetry == Permutations(Client)
=============================================================================
