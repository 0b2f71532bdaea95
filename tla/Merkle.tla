-------------------------------- MODULE Merkle --------------------------------
(***************************************************************************)
(* The Merkle tree over the digests of a block's batches and the proofs    *)
(* that a batch is in it (EZ_Block_Units/MerkleTree.py, MerkleProof.py).   *)
(* Hashes are the terms of module SecureSignature.  A leaf keeps the place *)
(* of its batch, so that two nodes are equal only if they are one node.    *)
(***************************************************************************)
EXTENDS Integers, SequencesExt, SecureSignature

Leaf(digest, i) == [value |-> Hash(digest), leaf_index |-> i]

Inner(l, r) == [value |-> Hash(<<l.value, r.value>>), left |-> l, right |-> r]

IsInner(n) == "left" \in DOMAIN n

-----------------------------------------------------------------------------
(* build_tree.                                                             *)

\* The nodes are taken in pairs from the front, their fathers are appended.
Paired(q) ==
    LET half == Len(q) \div 2
    IN  SubSeq(q, 2 * half + 1, Len(q))
        \o [i \in 1..half |-> Inner(q[2 * i - 1], q[2 * i])]

\* A node left over goes from the front to the end.
NextLevel(q) ==
    IF Len(q) % 2 = 1 THEN Append(Tail(Paired(q)), Head(Paired(q))) ELSE Paired(q)

Leaves(digests) == [i \in 1..Len(digests) |-> Leaf(digests[i], i)]

\* The list at the start and after each pass of the loop.
Levels(digests) ==
    FoldLeft(LAMBDA levels, k :
                 IF Len(Last(levels)) = 1 THEN levels
                 ELSE Append(levels, NextLevel(Last(levels))),
             <<Leaves(digests)>>, [k \in 1..Len(digests) |-> k])

RootOf(levels) == Last(levels)[1]

RootHash(digests) == RootOf(Levels(digests)).value

NodesOf(levels) == UNION {ToSet(levels[k]) : k \in 1..Len(levels)}

\* Mutant: the sibling is always taken to be the right one.
Sibling_Right(father, n) == father.right

Sibling(father, n) == IF father.right = n THEN father.left ELSE father.right

\* prf_list: for each leaf its hash, then sibling and father on the way up.
PrfList(digests) ==
    LET levels == Levels(digests)
        inner == {n \in NodesOf(levels) : IsInner(n)}
        Father(n) == CHOOSE f \in inner : n \in {f.left, f.right}
        Climb(at, k) ==
            IF at.node = RootOf(levels) THEN at
            ELSE LET father == Father(at.node)
                 IN  [node |-> father,
                      prf |-> at.prf \o <<Sibling(father, at.node).value, father.value>>]
    IN  [i \in 1..Len(digests) |->
            FoldLeft(Climb, [node |-> Leaf(digests[i], i), prf |-> <<Hash(digests[i])>>],
                     [k \in 1..Len(levels) |-> k]).prf]

-----------------------------------------------------------------------------
\* Mutant: the last element of the proof is not compared with the root.
CheckPrf_AnyRoot(prf, digest, root) ==
    /\ Len(prf) % 2 = 1
    /\ prf[1] = Hash(digest)
    /\ \A i \in 1..Len(prf) \div 2 :
           prf[2 * i + 1] \in {Hash(<<prf[2 * i - 1], prf[2 * i]>>),
                               Hash(<<prf[2 * i], prf[2 * i - 1]>>)}

\* check_prf: the pairs after the leaf may be combined in either order.
CheckPrf(prf, digest, root) ==
    /\ Len(prf) % 2 = 1
    /\ prf[1] = Hash(digest)
    /\ prf[Len(prf)] = root
    /\ \A i \in 1..Len(prf) \div 2 :
           prf[2 * i + 1] \in {Hash(<<prf[2 * i - 1], prf[2 * i]>>),
                               Hash(<<prf[2 * i], prf[2 * i - 1]>>)}
===============================================================================
