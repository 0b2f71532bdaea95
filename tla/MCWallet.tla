------------------------------- MODULE MCWallet -------------------------------
(* Instances of Wallet for TLC: all intervals over a few units. *)
EXTENDS Wallet

CONSTANT LastUnit

Coins == {v \in [begin : 0..LastUnit, num : 1..LastUnit + 1] : EndIndex(v) <= LastUnit}
===============================================================================
