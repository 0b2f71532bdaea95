---------------------------- MODULE SecureSignature ----------------------------
(***************************************************************************)
(* EZ_Tool_Box/SecureSignature.py, with the cryptography taken as perfect: *)
(* a hash is its argument under a constructor, a signature is the key and  *)
(* the data it was made over.  A private key and its public key are one    *)
(* name; what ECDSA draws at random is left out, so that a signature       *)
(* verifies for its own data under its own key and for nothing else.       *)
(* Signing may raise; the callers' modules have a failure action for that. *)
(***************************************************************************)

Hash(data) == [sha256 |-> data]

\* TransactionSigner.
SignTransactionData(data, key) == [by |-> key, over |-> data]

VerifySignature(data, signature, key) == signature = SignTransactionData(data, key)

\* SecureTransactionSignature: what is signed is the hash of a serialization.
SignTransaction(transaction, key) == SignTransactionData(Hash(transaction), key)

VerifyTransactionSignature(transaction, signature, key) ==
    VerifySignature(Hash(transaction), signature, key)

\* The type field keeps a batch apart from a transaction.
MultiTransactionData(transactions) ==
    [type |-> "multi_transaction", transactions |-> transactions]

SignMultiTransaction(transactions, key) ==
    SignTransactionData(Hash(MultiTransactionData(transactions)), key)

VerifyMultiTransactionSignature(transactions, signature, key) ==
    VerifySignature(Hash(MultiTransactionData(transactions)), signature, key)
===============================================================================
