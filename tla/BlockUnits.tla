------------------------------ MODULE BlockUnits ------------------------------
(***************************************************************************)
(* Blocks (EZ_Main_Chain/Block.py) as the packager makes them from batches *)
(* (EZ_Transaction_Pool/PackTransactions.py): linked by hashes, with the   *)
(* Merkle root of the batches' digests and the Bloom filter of their       *)
(* senders.  A block is an object that its holders go on using: items are  *)
(* added to its filter and looked up, statistics are taken, it is written  *)
(* and its filter read back, in any order and while later blocks are made  *)
(* on it.                                                                  *)
(*                                                                         *)
(* Nonce and version have their defaults; the time, which only makes more  *)
(* blocks different, is left out, and so is the signature: it is made from *)
(* the miner's name alone and no operation changes either.                 *)
(***************************************************************************)
EXTENDS Integers, FiniteSets, Merkle, Bloom

CONSTANTS
    Sender,     \* the sender of each batch
    Package,    \* the sequences of batches that may be packaged
    Miner,
    MaxBlocks   \* bound on the blocks made on the genesis block

ASSUME BlockAssumption == /\ Package \subseteq Seq(DOMAIN Sender)
                          /\ <<>> \in Package
                          /\ \A b \in DOMAIN Sender : Sender[b] \in Item
                          /\ MaxBlocks \in Nat

VARIABLES
    blocks,    \* the blocks, in the order they were made; the first is genesis
    made       \* history: for each block the place of its parent, its batches
               \* and the items added to its filter

vars == <<blocks, made>>

NoHash == Hash(0)

\* The Merkle root of a block without batches is the empty string.
NoRoot == [none |-> 0]

-----------------------------------------------------------------------------
\* Mutant: the filter's bits are part of what is hashed.
GetHash_Bits(b) == Hash(b)

\* Mutant: the Merkle root is left out.
GetHash_NoRoot(b) == Hash([b EXCEPT !.bloom = "BloomFilter()", !.m_tree_root = NoRoot])

\* get_hash of block_to_str.  The filter is a set that is always empty, with
\* the bits in an attribute, so that str(self.bloom) is the same for every block.
GetHash(b) == Hash([b EXCEPT !.bloom = "BloomFilter()"])

IsValidNextBlock(b, next) == b.index + 1 = next.index /\ GetHash(b) = next.pre_hash

\* _build_merkle_tree, from the digests of the batches.
BuildMerkleTree(batches) == IF batches = <<>> THEN NoRoot ELSE RootHash(batches)

\* The roots and the proofs of all packages.
Root == [p \in Package |-> BuildMerkleTree(p)]
Proofs == [p \in Package |-> IF p = <<>> THEN <<>> ELSE PrfList(p)]

ExtractSenderAddresses(batches) == {Sender[b] : b \in ToSet(batches)}

\* Block, with add_item_to_bloom for each of the senders.
NewBlock(index, batches, miner, pre_hash) ==
    [index |-> index,
     m_tree_root |-> Root[batches],
     miner |-> miner,
     pre_hash |-> pre_hash,
     bloom |-> AddToFilter(NewFilter, ExtractSenderAddresses(batches))]

-----------------------------------------------------------------------------
\* create_block_from_package, on the hash and the index of block k.
CreateBlock(k, batches, miner) ==
    /\ Len(blocks) <= MaxBlocks
    /\ blocks' = Append(blocks, NewBlock(blocks[k].index + 1, batches, miner,
                                         GetHash(blocks[k])))
    /\ made' = Append(made, [parent |-> k, batches |-> batches,
                             items |-> ExtractSenderAddresses(batches)])

AddItemToBloom(k, item) ==
    /\ blocks' = [blocks EXCEPT ![k].bloom = AddToFilter(@, {item})]
    /\ made' = [made EXCEPT ![k].items = @ \cup {item}]

IsInBloom(k) ==
    /\ blocks' = [blocks EXCEPT ![k].bloom = Decompress(@)]
    /\ UNCHANGED made

GetStatistics(k) ==
    /\ blocks' = [blocks EXCEPT ![k].bloom = AfterStatistics(@)]
    /\ UNCHANGED made

BlockToJson(k) ==
    /\ blocks' = [blocks EXCEPT ![k].bloom = Compress(@)]
    /\ UNCHANGED made

\* A holder reads the filter back from the JSON.
ReadBack(k) ==
    /\ blocks' = [blocks EXCEPT ![k].bloom = Decoded(@)]
    /\ UNCHANGED made

Init ==
    /\ \E miner \in Miner : blocks = <<NewBlock(0, <<>>, miner, NoHash)>>
    /\ made = <<[parent |-> 0, batches |-> <<>>, items |-> {}]>>

Next ==
    \E k \in 1..Len(blocks) :
        \/ \E batches \in Package : \E miner \in Miner : CreateBlock(k, batches, miner)
        \/ \E item \in Item : AddItemToBloom(k, item)
        \/ IsInBloom(k)
        \/ GetStatistics(k)
        \/ BlockToJson(k)
        \/ ReadBack(k)

Spec == Init /\ [][Next]_vars

-----------------------------------------------------------------------------
(* Properties.                                                             *)

\* A filter has its bits in exactly one of the two forms, the one its flag says
\* ("either bit_array or compressed_bit_array, not both"), however operations
\* that want the one and the other follow one another.
OneForm ==
    \A k \in 1..Len(blocks) : LET f == blocks[k].bloom IN
        /\ Cardinality(f.bit_array) = IF f.compressed THEN 0 ELSE 1
        /\ Cardinality(f.compressed_bit_array) = IF f.compressed THEN 1 ELSE 0

\* The filter never denies an item: every sender of a block, and every item
\* added later, is found after any sequence of additions, look-ups, statistics,
\* compressions and JSON round trips.
NoFalseNegative ==
    \A k \in 1..Len(blocks) : \A item \in made[k].items :
        InFilter(blocks[k].bloom, item)

\* The ancestors of each block, generation by generation; genesis is its own.
Ancestors ==
    LET after[d \in 0..Len(blocks)] ==
            [k \in 1..Len(blocks) |->
                IF d = 0 \/ k = 1 THEN k ELSE after[d - 1][made[k].parent]]
    IN  after

SameHistory(i, j) ==
    \A d \in 0..Len(blocks) :
        LET m == Ancestors[d][i]
            n == Ancestors[d][j]
        IN  /\ made[m].batches = made[n].batches
            /\ blocks[m].miner = blocks[n].miner
            /\ blocks[m].index = blocks[n].index

\* A block stays a valid next block of the one it was made on, whatever is done
\* to either afterwards.  What its pre_hash pins down of that block is its
\* place, its miner and its batches in their order, and so on back to genesis:
\* a block with another history is no valid predecessor.  (The header's time is
\* left out: blocks that differ in it alone count as one here, while the code's
\* hashes tell them apart.)
ParentPinned ==
    \A j \in 1..Len(blocks) : \A k \in 2..Len(blocks) :
        IsValidNextBlock(blocks[j], blocks[k]) <=> SameHistory(j, made[k].parent)

\* For every number of batches, odd levels of the tree included, the proof of
\* each batch of a block is accepted for the Merkle root in the block.
MembersProve ==
    \A k \in 1..Len(blocks) : LET batches == made[k].batches IN
        \A i \in 1..Len(batches) :
            CheckPrf(Proofs[batches][i], batches[i], blocks[k].m_tree_root)

\* What might be offered as a proof for a root: a proof of one of the batches,
\* with an element replaced by another hash of the tree or of a leaf, or a part
\* of one.
Candidates(p) ==
    LET proofs == ToSet(Proofs[p])
        hashes == (UNION {ToSet(prf) : prf \in proofs}) \cup {Hash(b) : b \in DOMAIN Sender}
        altered == UNION {{ReplaceAt(prf, i, h) : i \in 1..Len(prf), h \in hashes} : prf \in proofs}
        parts == UNION {{SubSeq(prf, i, j) : i, j \in 1..Len(prf)} : prf \in proofs}
    IN  altered \cup parts

Accepted == [p \in Package |->
    {b \in DOMAIN Sender : \E prf \in Candidates(p) : CheckPrf(prf, b, Root[p])}]

\* No proof is accepted for a batch that is not in the block.
OnlyMembersProve ==
    \A k \in 1..Len(blocks) : Accepted[made[k].batches] \subseteq ToSet(made[k].batches)
===============================================================================
