------------------------------- MODULE PoolSpec -------------------------------
(***************************************************************************)
(* What a transaction pool promises its callers: a set of waiting batches  *)
(* that changes in single steps.  There is no list, no index, no lock, no  *)
(* table and no crash in it: a batch enters or leaves at one moment, the   *)
(* batches that are too old leave together, and a restart is not seen at   *)
(* all.  Once the storage has failed nothing is promised any more.         *)
(***************************************************************************)
EXTENDS Integers

CONSTANTS Digest,   \* the batches
          MaxAge    \* how old a waiting batch may grow

VARIABLES waiting,  \* the batches in the pool
          now,      \* the clock
          born,     \* when each batch was built; negative if it was not yet
          sound     \* the storage has not failed

vars == <<waiting, now, born, sound>>

Init ==
    /\ waiting = {}
    /\ now = 0
    /\ born \in [Digest -> {-1}]
    /\ sound = TRUE

Build(d) ==
    /\ born[d] < 0
    /\ born' = [born EXCEPT ![d] = now]
    /\ UNCHANGED <<waiting, now, sound>>

Tick ==
    /\ now' = now + 1
    /\ UNCHANGED <<waiting, born, sound>>

\* A built batch joins, once.
Admit(d) ==
    /\ born[d] >= 0
    /\ d \notin waiting
    /\ waiting' = waiting \cup {d}
    /\ UNCHANGED <<now, born, sound>>

Take(d) ==
    /\ d \in waiting
    /\ waiting' = waiting \ {d}
    /\ UNCHANGED <<now, born, sound>>

\* Every batch that was too old at some moment up to now leaves, no other.
Expire ==
    /\ \E t \in 0..now : waiting' = {d \in waiting : t - born[d] <= MaxAge}
    /\ UNCHANGED <<now, born, sound>>

Empty ==
    /\ waiting' = {}
    /\ UNCHANGED <<now, born, sound>>

\* The storage fails, or has failed.
Broken ==
    /\ sound' = FALSE
    /\ waiting' \in SUBSET Digest
    /\ UNCHANGED <<now, born>>

Next ==
    \/ \E d \in Digest : Build(d) \/ Admit(d) \/ Take(d)
    \/ Tick
    \/ Expire
    \/ Empty
    \/ Broken

Spec == Init /\ [][Next]_vars
===============================================================================
