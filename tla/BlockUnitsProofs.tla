--------------------------- MODULE BlockUnitsProofs ---------------------------
(***************************************************************************)
(* Filters: the filter of every block is in one form and denies nothing    *)
(* that was added to it.  The two go together: an operation that read a    *)
(* form that is not there would lose the items.                            *)
(*                                                                         *)
(* Trees: the loops of build_tree and of the search for proofs, written as *)
(* iterates of one pass, give a tree in which every hash is that of a      *)
(* range of the digests and every node but the root has a father.  Equal   *)
(* roots therefore have equal digests, the proofs of all batches are       *)
(* accepted, and nothing else is.                                          *)
(*                                                                         *)
(* Chain: what the pre_hash of a block covers pins down its whole history. *)
(*                                                                         *)
(* All this for any items, positions, digests, packages and number of      *)
(* blocks.  Induction is by the least counterexample.                      *)
(***************************************************************************)
EXTENDS BlockUnits, FiniteSetTheorems, SequenceTheorems, WellFoundedInduction, TLAPS

\* A filter whose bits are in the form that its flag says.
Plain(bits) == [compressed |-> FALSE, bit_array |-> {bits}, compressed_bit_array |-> {}]

Packed(bits) == [compressed |-> TRUE, bit_array |-> {},
                 compressed_bit_array |-> {[zlib |-> bits]}]

\* The filter holds the positions of the items, and perhaps more.
Holds(f, items) ==
    \E bits \in SUBSET Nat :
        /\ f = Plain(bits) \/ f = Packed(bits)
        /\ \A item \in items : Positions[item] \subseteq bits

\* The two forms are one another's inverse.
LEMMA FormsChange ==
    ASSUME NEW bits
    PROVE  /\ Compress(Plain(bits)) = Packed(bits)
           /\ Compress(Packed(bits)) = Packed(bits)
           /\ Decompress(Plain(bits)) = Plain(bits)
           /\ Decompress(Packed(bits)) = Plain(bits)
<1>1. Compress(Plain(bits)) = Packed(bits)
  BY DEF Compress, Plain, Packed
<1>2. Compress(Packed(bits)) = Packed(bits)
  BY DEF Compress, Packed
<1>3. Decompress(Plain(bits)) = Plain(bits)
  BY DEF Decompress, Plain
<1>4. Decompress(Packed(bits)) = Plain(bits)
  <2> DEFINE data == [zlib |-> bits]
  <2>1. data.zlib = bits
    OBVIOUS
  <2>2. {d.zlib : d \in {data}} = {bits}
    BY <2>1
  <2> HIDE DEF data
  <2>3. {data} # {}
    OBVIOUS
  <2> QED  BY <2>2, <2>3 DEF Decompress, Plain, Packed, data
<1> QED  BY <1>1, <1>2, <1>3, <1>4

\* The operations that change the form keep what the filter holds.
LEMMA FormsHold ==
    ASSUME NEW f, NEW items, Holds(f, items)
    PROVE  /\ Holds(Compress(f), items)
           /\ Holds(Decompress(f), items)
           /\ Holds(AfterStatistics(f), items)
           /\ Holds(Decoded(f), items)
<1>1. PICK bits \in SUBSET Nat :
          /\ f = Plain(bits) \/ f = Packed(bits)
          /\ \A item \in items : Positions[item] \subseteq bits
  BY DEF Holds
<1>2. Compress(f) = Packed(bits) /\ Decompress(f) = Plain(bits)
  BY <1>1, FormsChange
<1>3. AfterStatistics(f) = Packed(bits)
  BY <1>2, FormsChange DEF AfterStatistics
<1>4. Decoded(f) = Packed(bits)
  BY <1>2 DEF Decoded, Packed
<1> QED  BY <1>1, <1>2, <1>3, <1>4 DEF Holds

\* Adding items keeps what the filter holds and adds the items.
LEMMA AddHolds ==
    ASSUME NEW f, NEW items, Holds(f, items), NEW new \in SUBSET Item
    PROVE  Holds(AddToFilter(f, new), items \cup new)
<1>1. PICK bits \in SUBSET Nat :
          /\ f = Plain(bits) \/ f = Packed(bits)
          /\ \A item \in items : Positions[item] \subseteq bits
  BY DEF Holds
<1>2. PositionsOf(new) \in SUBSET Nat
  BY PositionsAssumption DEF PositionsOf
<1>3. \A item \in new : Positions[item] \subseteq PositionsOf(new)
  BY DEF PositionsOf
<1>4. AddToFilter(f, new) = Plain(bits \cup PositionsOf(new))
  <2>1. Decompress(f) = Plain(bits)
    BY <1>1, FormsChange
  <2>2. {b \cup PositionsOf(new) : b \in {bits}} = {bits \cup PositionsOf(new)}
    OBVIOUS
  <2>3. AddToFilter(f, new) = [Plain(bits) EXCEPT !.bit_array =
                                  {b \cup PositionsOf(new) : b \in Plain(bits).bit_array}]
    BY <2>1 DEF AddToFilter
  <2>4. Plain(bits).bit_array = {bits}
    BY DEF Plain
  <2>5. ASSUME NEW c
        PROVE  [Plain(bits) EXCEPT !.bit_array = {c}] = Plain(c)
    <3> DEFINE r == [Plain(bits) EXCEPT !.bit_array = {c}]
    <3>1. DOMAIN r = {"compressed", "bit_array", "compressed_bit_array"}
      BY DEF Plain
    <3>2. /\ r.compressed = Plain(c).compressed
          /\ r.bit_array = Plain(c).bit_array
          /\ r.compressed_bit_array = Plain(c).compressed_bit_array
      BY DEF Plain
    <3>3. r = [field \in DOMAIN r |-> r[field]]
      OBVIOUS
    <3>4. /\ DOMAIN Plain(c) = {"compressed", "bit_array", "compressed_bit_array"}
          /\ Plain(c) = [field \in DOMAIN Plain(c) |-> Plain(c)[field]]
      BY DEF Plain
    <3> HIDE DEF r
    <3>5. r = Plain(c)
      BY <3>1, <3>2, <3>3, <3>4
    <3> QED  BY <3>5 DEF r
  <2> QED  BY <2>2, <2>3, <2>4, <2>5
<1>5. bits \cup PositionsOf(new) \in SUBSET Nat
  BY <1>2
<1> QED  BY <1>1, <1>3, <1>4, <1>5 DEF Holds

\* A new filter holds nothing.
LEMMA NewHolds == Holds(NewFilter, {})
BY DEF Holds, NewFilter, Plain

-----------------------------------------------------------------------------
(* The inductive invariant.                                                *)

Listed(s) == \E S : s \in Seq(S)

HasField(r, field) == field \in DOMAIN r /\ r = [x \in DOMAIN r |-> r[x]]

FilterInv ==
    /\ Listed(blocks) /\ Listed(made) /\ Len(blocks) = Len(made)
    /\ \A k \in 1..Len(blocks) :
           /\ HasField(blocks[k], "bloom") /\ HasField(made[k], "items")
           /\ Holds(blocks[k].bloom, made[k].items)

\* A sequence of one entry.
LEMMA ListedOne ==
    ASSUME NEW e
    PROVE  Listed(<<e>>) /\ Len(<<e>>) = 1 /\ <<e>>[1] = e
<1>1. <<e>> \in Seq({e}) /\ Len(<<e>>) = 1 /\ <<e>>[1] = e
  OBVIOUS
<1> QED  BY <1>1 DEF Listed

\* One block's record and what was added to its filter change.
LEMMA ChangeStep ==
    ASSUME FilterInv, NEW k \in 1..Len(blocks), NEW f, NEW items, Holds(f, items),
           blocks' = [blocks EXCEPT ![k].bloom = f],
           made' = [made EXCEPT ![k].items = items]
    PROVE  FilterInv'
<1> DEFINE b == [blocks[k] EXCEPT !.bloom = f]
           m == [made[k] EXCEPT !.items = items]
<1>a. k \in 1..Len(made)
  BY DEF FilterInv
<1>b. blocks' = [blocks EXCEPT ![k] = b] /\ made' = [made EXCEPT ![k] = m]
  OBVIOUS
<1>c. /\ HasField(b, "bloom") /\ b.bloom = f
      /\ HasField(m, "items") /\ m.items = items
  BY DEF FilterInv, HasField
<1> HIDE DEF b, m
<1>1. /\ Listed(blocks') /\ Len(blocks') = Len(blocks)
      /\ \A j \in 1..Len(blocks) : blocks'[j] = IF j = k THEN b ELSE blocks[j]
  <2>1. PICK S : blocks \in Seq(S)
    BY DEF FilterInv, Listed
  <2>2. blocks \in Seq(S \cup {b}) /\ b \in S \cup {b}
    BY <2>1
  <2>3. /\ blocks' \in Seq(S \cup {b}) /\ Len(blocks') = Len(blocks)
        /\ \A j \in 1..Len(blocks) : blocks'[j] = IF j = k THEN b ELSE blocks[j]
    BY <1>b, <2>2, ExceptSeq
  <2> QED  BY <2>3 DEF Listed
<1>2. /\ Listed(made') /\ Len(made') = Len(made)
      /\ \A j \in 1..Len(made) : made'[j] = IF j = k THEN m ELSE made[j]
  <2>1. PICK S : made \in Seq(S)
    BY DEF FilterInv, Listed
  <2>2. made \in Seq(S \cup {m}) /\ m \in S \cup {m}
    BY <2>1
  <2>3. /\ made' \in Seq(S \cup {m}) /\ Len(made') = Len(made)
        /\ \A j \in 1..Len(made) : made'[j] = IF j = k THEN m ELSE made[j]
    <3>1. /\ [made EXCEPT ![k] = m] \in Seq(S \cup {m})
          /\ Len([made EXCEPT ![k] = m]) = Len(made)
      BY <1>a, <2>2, ExceptSeq
    <3>2. \A j \in 1..Len(made) :
              [made EXCEPT ![k] = m][j] = IF j = k THEN m ELSE made[j]
      BY <2>2
    <3> QED  BY <1>b, <3>1, <3>2
  <2> QED  BY <2>3 DEF Listed
<1>3. /\ HasField(blocks'[k], "bloom") /\ blocks'[k].bloom = f
      /\ HasField(made'[k], "items") /\ made'[k].items = items
  BY <1>a, <1>c, <1>1, <1>2
<1>4. \A j \in 1..Len(blocks') :
          /\ HasField(blocks'[j], "bloom") /\ HasField(made'[j], "items")
          /\ Holds(blocks'[j].bloom, made'[j].items)
  <2> TAKE j \in 1..Len(blocks')
  <2>1. j \in 1..Len(blocks) /\ j \in 1..Len(made)
    BY <1>1 DEF FilterInv
  <2>2. CASE j = k
    BY <1>3, <2>2
  <2>3. CASE j # k
    <3>1. blocks'[j] = blocks[j] /\ made'[j] = made[j]
      BY <1>1, <1>2, <2>1, <2>3
    <3>2. /\ HasField(blocks[j], "bloom") /\ HasField(made[j], "items")
          /\ Holds(blocks[j].bloom, made[j].items)
      BY <2>1 DEF FilterInv
    <3> QED  BY <3>1, <3>2
  <2> QED  BY <2>2, <2>3
<1> QED  BY <1>1, <1>2, <1>4 DEF FilterInv

\* A block's filter changes and nothing is added to it.
LEMMA FormStep ==
    ASSUME FilterInv, NEW k \in 1..Len(blocks), NEW f, Holds(f, made[k].items),
           blocks' = [blocks EXCEPT ![k].bloom = f], UNCHANGED made
    PROVE  FilterInv'
<1>1. made' = [made EXCEPT ![k].items = made[k].items]
  <2>1. /\ k \in DOMAIN made /\ made = [j \in DOMAIN made |-> made[j]]
        /\ HasField(made[k], "items")
    BY DEF FilterInv, Listed
  <2>2. [made[k] EXCEPT !.items = made[k].items] = made[k]
    BY <2>1 DEF HasField
  <2>3. [made EXCEPT ![k] = made[k]] = made
    BY <2>1
  <2> QED  BY <2>2, <2>3
<1> QED  BY <1>1, ChangeStep

\* A block is made, with its senders in the filter.
LEMMA CreateStep ==
    ASSUME FilterInv, NEW k \in 1..Len(blocks), NEW batches \in Package,
           NEW miner \in Miner, CreateBlock(k, batches, miner)
    PROVE  FilterInv'
<1> DEFINE new == NewBlock(blocks[k].index + 1, batches, miner, GetHash(blocks[k]))
           entry == [parent |-> k, batches |-> batches,
                     items |-> ExtractSenderAddresses(batches)]
<1>1. HasField(new, "bloom") /\ HasField(entry, "items")
  BY DEF HasField, NewBlock
<1>2. Holds(new.bloom, entry.items)
  <2>a. ToSet(batches) \subseteq DOMAIN Sender
    <3>1. batches \in Seq(DOMAIN Sender)
      BY BlockAssumption
    <3> QED  BY <3>1, ElementOfSeq, LenProperties DEF ToSet
  <2>1. ExtractSenderAddresses(batches) \in SUBSET Item
    BY <2>a, BlockAssumption DEF ExtractSenderAddresses
  <2> QED  BY <2>1, NewHolds, AddHolds DEF NewBlock
<1>3. blocks' = Append(blocks, new) /\ made' = Append(made, entry)
  BY DEF CreateBlock
<1> HIDE DEF new, entry
<1>4. ASSUME NEW s, Listed(s), NEW e
      PROVE  /\ Listed(Append(s, e)) /\ Len(Append(s, e)) = Len(s) + 1
             /\ \A j \in 1..Len(s) : Append(s, e)[j] = s[j]
             /\ Append(s, e)[Len(s) + 1] = e
  <2>1. PICK S : s \in Seq(S)
    BY <1>4 DEF Listed
  <2>2. s \in Seq(S \cup {e}) /\ e \in S \cup {e}
    BY <2>1
  <2>3. /\ Len(Append(s, e)) = Len(s) + 1 /\ Append(s, e) \in Seq(S \cup {e})
        /\ \A j \in 1..Len(s) : Append(s, e)[j] = s[j]
        /\ Append(s, e)[Len(s) + 1] = e
    BY <2>2
  <2> QED  BY <2>3 DEF Listed
<1>5. Len(blocks) \in Nat /\ Len(made) \in Nat
  BY DEF FilterInv, Listed
<1>6. /\ Listed(blocks') /\ Len(blocks') = Len(blocks) + 1
      /\ \A j \in 1..Len(blocks) : blocks'[j] = blocks[j]
      /\ blocks'[Len(blocks) + 1] = new
  BY <1>3, <1>4 DEF FilterInv
<1>7. /\ Listed(made') /\ Len(made') = Len(made) + 1
      /\ \A j \in 1..Len(made) : made'[j] = made[j]
      /\ made'[Len(made) + 1] = entry
  BY <1>3, <1>4 DEF FilterInv
<1>8. Len(blocks) = Len(made)
  BY DEF FilterInv
<1>9. ASSUME NEW j \in 1..Len(blocks')
      PROVE  /\ HasField(blocks'[j], "bloom") /\ HasField(made'[j], "items")
             /\ Holds(blocks'[j].bloom, made'[j].items)
  <2>1. CASE j \in 1..Len(blocks)
    <3>1. blocks'[j] = blocks[j] /\ made'[j] = made[j]
      BY <1>6, <1>7, <1>8, <2>1
    <3> QED  BY <2>1, <3>1 DEF FilterInv
  <2>2. CASE j = Len(blocks) + 1
    BY <1>1, <1>2, <1>6, <1>7, <1>8, <2>2
  <2> QED  BY <1>5, <1>6, <2>1, <2>2
<1> QED  BY <1>6, <1>7, <1>8, <1>9 DEF FilterInv

\* The genesis block.
LEMMA FilterInit ==
    ASSUME Init
    PROVE  FilterInv
<1>1. PICK miner \in Miner : blocks = <<NewBlock(0, <<>>, miner, NoHash)>>
  BY DEF Init
<1>2. ExtractSenderAddresses(<<>>) = {}
  BY DEF ExtractSenderAddresses, ToSet
<1>3. Holds(blocks[1].bloom, {})
  BY <1>1, <1>2, NewHolds, AddHolds DEF NewBlock
<1>4. HasField(blocks[1], "bloom")
  BY <1>1 DEF NewBlock, HasField
<1>5. HasField(made[1], "items") /\ made[1].items = {}
  BY DEF Init, HasField
<1>6. /\ Listed(blocks) /\ Len(blocks) = 1
      /\ Listed(made) /\ Len(made) = 1
  BY <1>1, ListedOne DEF Init
<1> QED  BY <1>3, <1>4, <1>5, <1>6 DEF FilterInv

\* Every step preserves the invariant.
LEMMA FilterStep ==
    ASSUME FilterInv, [Next]_vars
    PROVE  FilterInv'
<1>1. CASE UNCHANGED vars
  BY <1>1 DEF vars, FilterInv
<1>2. ASSUME NEW k \in 1..Len(blocks), NEW batches \in Package, NEW miner \in Miner,
             CreateBlock(k, batches, miner)
      PROVE  FilterInv'
  BY <1>2, CreateStep
<1>3. ASSUME NEW k \in 1..Len(blocks), NEW item \in Item, AddItemToBloom(k, item)
      PROVE  FilterInv'
  <2>1. Holds(AddToFilter(blocks[k].bloom, {item}), made[k].items \cup {item})
    BY AddHolds DEF FilterInv
  <2>2. /\ blocks' = [blocks EXCEPT ![k].bloom = AddToFilter(blocks[k].bloom, {item})]
        /\ made' = [made EXCEPT ![k].items = made[k].items \cup {item}]
    BY <1>3 DEF AddItemToBloom, FilterInv, Listed
  <2> QED  BY <2>1, <2>2, ChangeStep
<1>4. ASSUME NEW k \in 1..Len(blocks),
             IsInBloom(k) \/ GetStatistics(k) \/ BlockToJson(k) \/ ReadBack(k)
      PROVE  FilterInv'
  <2> DEFINE f == blocks[k].bloom
  <2>1. PICK g \in {Decompress(f), AfterStatistics(f), Compress(f), Decoded(f)} :
            blocks' = [blocks EXCEPT ![k].bloom = g] /\ UNCHANGED made
    BY <1>4 DEF IsInBloom, GetStatistics, BlockToJson, ReadBack
  <2>2. Holds(f, made[k].items)
    BY DEF FilterInv
  <2> HIDE DEF f
  <2>3. Holds(g, made[k].items)
    BY <2>1, <2>2, FormsHold
  <2> QED  BY <2>1, <2>3, FormStep
<1> QED  BY <1>1, <1>2, <1>3, <1>4 DEF Next

\* What is held is in one form, and is found.
LEMMA HoldsFinds ==
    ASSUME NEW f, NEW items, Holds(f, items)
    PROVE  /\ f.compressed \in BOOLEAN
           /\ Cardinality(f.bit_array) = IF f.compressed THEN 0 ELSE 1
           /\ Cardinality(f.compressed_bit_array) = IF f.compressed THEN 1 ELSE 0
           /\ \A item \in items : InFilter(f, item)
<1>1. PICK bits \in SUBSET Nat :
          /\ f = Plain(bits) \/ f = Packed(bits)
          /\ \A item \in items : Positions[item] \subseteq bits
  BY DEF Holds
<1>2. \A item \in items : InFilter(f, item)
  <2>1. Decompress(f) = Plain(bits)
    BY <1>1, FormsChange
  <2>2. Decompress(f).bit_array = {bits}
    BY <2>1 DEF Plain
  <2> QED  BY <1>1, <2>2 DEF InFilter
<1>3. Cardinality({}) = 0 /\ \A x : Cardinality({x}) = 1
  BY FS_EmptySet, FS_Singleton
<1>4. /\ f.compressed \in BOOLEAN
      /\ f.bit_array = IF f.compressed THEN {} ELSE {bits}
      /\ f.compressed_bit_array = IF f.compressed THEN {[zlib |-> bits]} ELSE {}
  <2>1. CASE f = Plain(bits)
    BY <2>1 DEF Plain
  <2>2. CASE f = Packed(bits)
    BY <2>2 DEF Packed
  <2> QED  BY <1>1, <2>1, <2>2
<1> QED  BY <1>2, <1>3, <1>4

\* Init establishes the invariant and every step keeps it.
LEMMA FilterInvariant == Spec => []FilterInv
<1>1. Init => FilterInv
  BY FilterInit
<1>2. FilterInv /\ [Next]_vars => FilterInv'
  BY FilterStep
<1> QED  BY <1>1, <1>2, PTL DEF Spec

\* Every filter has its bits in exactly one form, the one that its flag says.
THEOREM FiltersInOneForm == Spec => []OneForm
<1>1. FilterInv => OneForm
  BY HoldsFinds DEF FilterInv, OneForm
<1> QED  BY <1>1, FilterInvariant, PTL

\* A look-up never denies a sender of the block or an item added to its filter,
\* whatever was done to the filter in between.
THEOREM FiltersNeverDeny == Spec => []NoFalseNegative
<1>1. FilterInv => NoFalseNegative
  BY HoldsFinds DEF FilterInv, NoFalseNegative
<1> QED  BY <1>1, FilterInvariant, PTL

-----------------------------------------------------------------------------
(* Numbers.                                                                *)

\* A set of numbers that is not empty has a least one.
LEMMA LeastNumber ==
    ASSUME NEW T, T \subseteq Nat, T # {}
    PROVE  \E x \in T : \A y \in T : x <= y
<1> DEFINE less == {ss \in Nat \X Nat : ss[1] < ss[2]}
<1>1. IsWellFoundedOn(less, Nat)
  BY NatLessThanWellFounded, Zenon DEF OpToRel
<1>2. PICK x \in T : \A y \in T : ~(<<y, x>> \in less)
  <2> HIDE DEF less
  <2> QED  BY <1>1, WFMin
<1>3. \A y \in T : x <= y
  <2> TAKE y \in T
  <2>1. x \in Nat /\ y \in Nat /\ ~(<<y, x>> \in less)
    BY <1>2
  <2> QED  BY <2>1
<1> QED  BY <1>3

\* Induction up to a bound, for a property given as a set.
LEMMA UpTo ==
    ASSUME NEW n \in Nat, NEW T, 0 \in T,
           \A k \in 1..n : k - 1 \in T => k \in T
    PROVE  \A k \in 0..n : k \in T
<1> SUFFICES ASSUME \E k \in 0..n : k \notin T
             PROVE  FALSE
  OBVIOUS
<1> DEFINE bad == {k \in 0..n : k \notin T}
<1>1. bad \subseteq Nat /\ bad # {}
  OBVIOUS
<1>2. PICK x \in bad : \A y \in bad : x <= y
  <2> HIDE DEF bad
  <2> QED  BY <1>1, LeastNumber
<1>3. x \in 1..n /\ x - 1 \in 0..n /\ x - 1 \notin bad
  BY <1>2
<1> QED  BY <1>2, <1>3

\* A fold over 1..n takes the greatest number last.
LEMMA GreatestOfInterval ==
    ASSUME NEW n \in Nat, NEW k \in 1..n
    PROVE  /\ Max(1..k) = k
           /\ (1..k) \ {k} = 1..k - 1
           /\ 1..k \in SUBSET (1..n) /\ 1..k # {}
<1>1. k \in 1..k /\ \A y \in 1..k : k >= y
  OBVIOUS
<1>2. \A x \in 1..k : (\A y \in 1..k : x >= y) => x = k
  BY <1>1
<1>3. Max(1..k) = k
  BY <1>1, <1>2 DEF Max
<1>4. (1..k) \ {k} = 1..k - 1
  OBVIOUS
<1> QED  BY <1>3, <1>4

\* The greatest element of a part of 1..n is in it.
LEMMA GreatestIn ==
    ASSUME NEW n \in Nat, NEW s \in SUBSET (1..n), s # {}
    PROVE  Max(s) \in s
<1> DEFINE above == {n - x : x \in s}
<1>1. above \subseteq Nat /\ above # {}
  <2>1. \A x \in s : n - x \in Nat
    OBVIOUS
  <2>2. PICK x \in s : TRUE
    OBVIOUS
  <2>3. n - x \in above
    OBVIOUS
  <2> QED  BY <2>1, <2>3
<1>2. PICK z \in above : \A y \in above : z <= y
  <2> HIDE DEF above
  <2> QED  BY <1>1, LeastNumber
<1>3. PICK x \in s : z = n - x
  OBVIOUS
<1>4. \A y \in s : x >= y
  <2> TAKE y \in s
  <2>1. n - y \in above
    OBVIOUS
  <2>2. n - x <= n - y
    BY <1>2, <1>3, <2>1
  <2> QED  BY <2>2
<1> QED  BY <1>4 DEF Max

\* What is left of a part of 1..n without its greatest element.
LEMMA GreatestLeft ==
    ASSUME NEW n \in Nat, NEW s \in SUBSET (1..n), s # {}
    PROVE  /\ Cardinality(s) \in 1..n
           /\ Cardinality(s \ {Max(s)}) = Cardinality(s) - 1
<1>1. Max(s) \in s
  BY GreatestIn
<1>2. IsFiniteSet(1..n) /\ Cardinality(1..n) = n
  BY FS_Interval
<1>3. IsFiniteSet(s) /\ Cardinality(s) <= n /\ Cardinality(s) \in Nat
  BY <1>2, FS_Subset, FS_CardinalityType
<1>4. Cardinality(s \ {Max(s)}) = Cardinality(s) - 1
  BY <1>1, <1>3, FS_RemoveElement
<1>5. Cardinality(s) # 0
  BY <1>3, FS_EmptySet
<1>6. Cardinality(s) \in 1..n
  BY <1>3, <1>5
<1> QED  BY <1>4, <1>6

-----------------------------------------------------------------------------
(* The levels of the tree.                                                 *)

\* A pass of the loop of build_tree.
Grow(levels) ==
    IF Len(Last(levels)) = 1 THEN levels
    ELSE Append(levels, NextLevel(Last(levels)))

\* The states of the loop from the start on.
Runs(a, base, n) == a[0] = base /\ \A k \in 1..n : a[k] = Grow(a[k - 1])

\* They can be listed.
LEMMA PassesExist ==
    ASSUME NEW base, NEW n \in Nat
    PROVE  \E a : Runs(a, base, n)
<1> DEFINE T == {m \in 0..n : \E a : Runs(a, base, m)}
<1>1. 0 \in T
  <2> DEFINE b == [k \in {0} |-> base]
  <2>1. b[0] = base
    OBVIOUS
  <2>2. \A k \in 1..0 : b[k] = Grow(b[k - 1])
    OBVIOUS
  <2> HIDE DEF b
  <2>3. Runs(b, base, 0)
    BY <2>1, <2>2 DEF Runs
  <2> QED  BY <2>3
<1>2. ASSUME NEW m \in 1..n, m - 1 \in T
      PROVE  m \in T
  <2>1. PICK a : a[0] = base /\ \A k \in 1..m - 1 : a[k] = Grow(a[k - 1])
    BY <1>2 DEF Runs
  <2> DEFINE b == [k \in 0..m |-> IF k = m THEN Grow(a[m - 1]) ELSE a[k]]
  <2>2. b[0] = base
    BY <2>1
  <2>3. \A k \in 1..m : b[k] = Grow(b[k - 1])
    <3> TAKE k \in 1..m
    <3>1. b[k - 1] = a[k - 1]
      OBVIOUS
    <3>2. b[k] = IF k = m THEN Grow(a[m - 1]) ELSE a[k]
      OBVIOUS
    <3> HIDE DEF b
    <3>3. CASE k = m
      BY <3>1, <3>2, <3>3
    <3>4. CASE k # m
      BY <2>1, <3>1, <3>2, <3>4
    <3> QED  BY <3>3, <3>4
  <2> HIDE DEF b
  <2>4. Runs(b, base, m)
    BY <2>2, <2>3 DEF Runs
  <2> QED  BY <2>4
<1> HIDE DEF T
<1>3. n \in T
  BY <1>1, <1>2, UpTo
<1> QED  BY <1>3 DEF T

\* The unfolding of the fold in Levels.
Passes(base, n, h) ==
    [s \in SUBSET (1..n) |-> IF s = {} THEN base ELSE Grow(h[s \ {Max(s)}])]

\* Levels is the last state of the loop.
LEMMA LevelsByPasses ==
    ASSUME NEW S, NEW p \in Seq(S)
    PROVE  \E a : Runs(a, <<Leaves(p)>>, Len(p)) /\ Levels(p) = a[Len(p)]
<1>0. PICK n \in Nat : n = Len(p)
  OBVIOUS
<1> DEFINE base == <<Leaves(p)>>
           iter == CHOOSE h : h = Passes(base, n, h)
<1>1. Levels(p) = iter[1..n]
  <2>1. DOMAIN [k \in 1..Len(p) |-> k] = 1..n
    BY <1>0
  <2> QED  BY <2>1 DEF Levels, FoldLeft, MapThenFoldSet, Passes, Grow
<1> HIDE DEF base, iter
<1>2. \E h : h = Passes(base, n, h)
  <2>0. PICK a : Runs(a, base, n)
    BY PassesExist
  <2>1. a[0] = base /\ \A k \in 1..n : a[k] = Grow(a[k - 1])
    BY <2>0 DEF Runs
  <2> DEFINE g == [s \in SUBSET (1..n) |-> a[Cardinality(s)]]
  <2>2. ASSUME NEW s \in SUBSET (1..n)
        PROVE  g[s] = IF s = {} THEN base ELSE Grow(g[s \ {Max(s)}])
    <3>1. g[{}] = base
      BY <2>1, FS_EmptySet
    <3>2. ASSUME s # {}
          PROVE  g[s] = Grow(g[s \ {Max(s)}])
      <4>1. /\ Cardinality(s) \in 1..n
            /\ Cardinality(s \ {Max(s)}) = Cardinality(s) - 1
        BY <3>2, GreatestLeft
      <4>2. g[s] = a[Cardinality(s)] /\ g[s \ {Max(s)}] = a[Cardinality(s) - 1]
        BY <4>1
      <4> HIDE DEF g
      <4> QED  BY <2>1, <4>1, <4>2
    <3> HIDE DEF g
    <3> QED  BY <3>1, <3>2
  <2>3. g = [s \in SUBSET (1..n) |-> g[s]]
    OBVIOUS
  <2> HIDE DEF g
  <2>4. g = Passes(base, n, g)
    BY <2>2, <2>3 DEF Passes
  <2> QED  BY <2>4
<1>3. iter = Passes(base, n, iter)
  BY <1>2 DEF iter
<1> DEFINE a == [k \in 0..n |-> iter[1..k]]
<1>4. a[0] = base
  <2>1. 1..0 = {} /\ {} \in SUBSET (1..n)
    OBVIOUS
  <2>2. iter[{}] = base
    BY <1>3, <2>1 DEF Passes
  <2> QED  BY <2>1, <2>2
<1>5. \A k \in 1..n : a[k] = Grow(a[k - 1])
  <2> TAKE k \in 1..n
  <2>1. iter[1..k] = Grow(iter[(1..k) \ {Max(1..k)}])
    BY <1>3, GreatestOfInterval DEF Passes
  <2>2. iter[1..k] = Grow(iter[1..k - 1])
    BY <2>1, GreatestOfInterval
  <2> QED  BY <2>2
<1>6. a[n] = iter[1..n]
  OBVIOUS
<1> HIDE DEF a
<1>7. Runs(a, base, n)
  BY <1>4, <1>5 DEF Runs
<1> QED  BY <1>0, <1>1, <1>6, <1>7 DEF base

\* What build_tree puts at place i of the next level.
Above(q, i) == IF 2 * i <= Len(q) THEN Inner(q[2 * i - 1], q[2 * i]) ELSE q[Len(q)]

\* The next level has half the nodes, rounded up: the pairs' fathers in order,
\* and after them the node left over.
LEMMA NextLevelIs ==
    ASSUME NEW S, NEW q \in Seq(S), Len(q) >= 1
    PROVE  \E m \in Nat :
               /\ 2 * m = Len(q) \/ 2 * m = Len(q) + 1
               /\ Listed(NextLevel(q)) /\ Len(NextLevel(q)) = m
               /\ \A i \in 1..m : NextLevel(q)[i] = Above(q, i)
<1>1. PICK n \in Nat : n = Len(q) /\ n >= 1
  BY LenProperties
<1>2. PICK half \in Nat : half = n \div 2
  BY <1>1
<1>3. n = 2 * half \/ n = 2 * half + 1
  BY <1>1, <1>2
<1>4. n % 2 = 1 <=> n = 2 * half + 1
  BY <1>1, <1>2
<1> DEFINE f == [i \in 1..half |-> Inner(q[2 * i - 1], q[2 * i])]
           rest == SubSeq(q, 2 * half + 1, n)
<1>5. PICK U : q \in Seq(U) /\ f \in Seq(U)
  <2> DEFINE W == S \cup {f[i] : i \in 1..half}
  <2>1. q \in Seq(W)
    BY SeqMonotonic
  <2>2. \A i \in 1..half : f[i] \in W
    OBVIOUS
  <2>3. f = [i \in 1..half |-> f[i]]
    OBVIOUS
  <2> HIDE DEF f, W
  <2>4. f \in Seq(W)
    BY <2>2, <2>3
  <2> QED  BY <2>1, <2>4
<1>6. Len(f) = half /\ \A i \in 1..half : f[i] = Inner(q[2 * i - 1], q[2 * i])
  OBVIOUS
<1>7. Paired(q) = rest \o f
  BY <1>1, <1>2 DEF Paired
<1> HIDE DEF f
<1>8. CASE n = 2 * half
  <2>1. rest = <<>>
    BY <1>1, <1>8, SubSeqEmpty
  <2>2. Paired(q) = f
    BY <1>5, <1>7, <2>1, ConcatEmptySeq
  <2>3. NextLevel(q) = f
    BY <1>1, <1>4, <1>8, <2>2 DEF NextLevel
  <2>4. \A i \in 1..half : f[i] = Above(q, i)
    BY <1>1, <1>6, <1>8 DEF Above
  <2> QED  BY <1>1, <1>5, <1>6, <1>8, <2>3, <2>4 DEF Listed
<1>9. CASE n = 2 * half + 1
  <2>1. /\ rest \in Seq(U) /\ Len(rest) = 1 /\ rest[1] = q[n]
    <3>1. \A i \in 2 * half + 1 .. n : q[i] \in U
      BY <1>1, <1>5, ElementOfSeq
    <3>2. 2 * half + 1 \in Int /\ n \in Int
      BY <1>1
    <3>3. /\ rest \in Seq(U)
          /\ Len(rest) = IF 2 * half + 1 <= n THEN n - (2 * half + 1) + 1 ELSE 0
          /\ \A i \in 1..n - (2 * half + 1) + 1 : rest[i] = q[2 * half + 1 + i - 1]
      BY <3>1, <3>2, SubSeqProperties
    <3> HIDE DEF rest
    <3> QED  BY <1>9, <3>3
  <2> HIDE DEF rest
  <2>2. /\ Paired(q) \in Seq(U) /\ Len(Paired(q)) = half + 1
        /\ \A i \in 1..half + 1 : Paired(q)[i] = IF i <= 1 THEN rest[i] ELSE f[i - 1]
    <3>1. PICK x : x = rest
      OBVIOUS
    <3>2. PICK y : y = f
      OBVIOUS
    <3>3. /\ x \o y \in Seq(U) /\ Len(x \o y) = Len(x) + Len(y)
          /\ \A i \in 1..Len(x) + Len(y) :
                 (x \o y)[i] = IF i <= Len(x) THEN x[i] ELSE y[i - Len(x)]
      BY <1>5, <2>1, <3>1, <3>2, ConcatProperties
    <3>4. Len(x) = 1 /\ Len(y) = half /\ Len(x) + Len(y) = half + 1
      <4>1. Len(x) = 1
        BY <2>1, <3>1, Zenon
      <4>2. Len(y) = half
        BY <1>6, <3>2, Zenon
      <4>3. 1 + half = half + 1
        OBVIOUS
      <4> QED  BY <4>1, <4>2, <4>3
    <3>5. Paired(q) = x \o y
      BY <1>7, <3>1, <3>2
    <3>6. \A i \in 1..half + 1 : (x \o y)[i] = IF i <= 1 THEN x[i] ELSE y[i - 1]
      BY <3>3, <3>4
    <3> QED  BY <3>1, <3>2, <3>3, <3>4, <3>5, <3>6
  <2>3. PICK w : w = Paired(q)
    OBVIOUS
  <2>4. PICK t : t = Tail(w)
    OBVIOUS
  <2>5. w # <<>> /\ Head(w) = q[n]
    BY <2>1, <2>2, <2>3
  <2>6. /\ t \in Seq(U) /\ Len(t) = half /\ q[n] \in U
        /\ \A i \in 1..half : t[i] = f[i]
    <3>1. /\ t \in Seq(U) /\ Len(t) = Len(w) - 1
          /\ \A i \in 1..Len(t) : t[i] = w[i + 1]
      BY <2>2, <2>3, <2>4, <2>5, HeadTailProperties
    <3>2. Len(t) = half
      BY <2>2, <2>3, <3>1
    <3>3. \A i \in 1..half : t[i] = f[i]
      <4> TAKE i \in 1..half
      <4>1. t[i] = w[i + 1] /\ i + 1 \in 1..half + 1
        BY <3>1, <3>2
      <4>2. w[i + 1] = f[i]
        BY <2>2, <2>3, <4>1
      <4> QED  BY <4>1, <4>2
    <3>4. q[n] \in U
      BY <1>1, <1>5, ElementOfSeq
    <3> QED  BY <3>1, <3>2, <3>3, <3>4
  <2>7. NextLevel(q) = Append(t, q[n])
    BY <1>1, <1>4, <1>9, <2>3, <2>4, <2>5 DEF NextLevel
  <2>8. /\ NextLevel(q) \in Seq(U) /\ Len(NextLevel(q)) = half + 1
        /\ \A i \in 1..half : NextLevel(q)[i] = t[i]
        /\ NextLevel(q)[half + 1] = q[n]
    BY <2>6, <2>7, AppendProperties
  <2>9. \A i \in 1..half + 1 : NextLevel(q)[i] = Above(q, i)
    <3> TAKE i \in 1..half + 1
    <3>1. CASE i \in 1..half
      BY <1>1, <1>6, <1>9, <2>6, <2>8, <3>1 DEF Above
    <3>2. CASE i = half + 1
      BY <1>1, <1>9, <2>8, <3>2 DEF Above
    <3> QED  BY <3>1, <3>2
  <2>10. 2 * (half + 1) = Len(q) + 1 /\ half + 1 \in Nat
    BY <1>1, <1>9
  <2> QED  BY <2>8, <2>9, <2>10 DEF Listed
<1> QED  BY <1>3, <1>8, <1>9

\* A tree in construction: each level is made of the one before it.
Stacked(levels, p) ==
    /\ Listed(levels) /\ Len(levels) >= 1
    /\ levels[1] = Leaves(p)
    /\ \A k \in 1..Len(levels) : Listed(levels[k]) /\ Len(levels[k]) >= 1
    /\ \A k \in 2..Len(levels) :
           /\ 2 * Len(levels[k]) \in {Len(levels[k - 1]), Len(levels[k - 1]) + 1}
           /\ \A i \in 1..Len(levels[k]) : levels[k][i] = Above(levels[k - 1], i)

\* A pass of the loop adds a level, which is shorter, or the tree is complete.
LEMMA GrowStacks ==
    ASSUME NEW levels, NEW p, Stacked(levels, p)
    PROVE  /\ Stacked(Grow(levels), p)
           /\ \/ Len(Last(Grow(levels))) = 1
              \/ Len(Last(Grow(levels))) < Len(Last(levels))
<1>1. CASE Len(Last(levels)) = 1
  BY <1>1 DEF Grow
<1>2. CASE Len(Last(levels)) # 1
  <2>1. PICK n \in Nat : n = Len(levels) /\ n >= 1
    BY DEF Stacked, Listed
  <2>2. PICK q : q = levels[n]
    OBVIOUS
  <2>3. Last(levels) = q
    BY <2>1, <2>2 DEF Last
  <2>4. Listed(q) /\ Len(q) \in Nat /\ Len(q) > 1
    <3>1. Listed(q) /\ Len(q) >= 1 /\ Len(q) # 1
      BY <1>2, <2>1, <2>2, <2>3 DEF Stacked
    <3>2. PICK S : q \in Seq(S)
      BY <3>1 DEF Listed
    <3>3. PICK l \in Nat : l = Len(q)
      BY <3>2, LenProperties
    <3>4. l > 1
      BY <3>1, <3>3
    <3> QED  BY <3>1, <3>3, <3>4
  <2>5. PICK r : r = NextLevel(q)
    OBVIOUS
  <2>6. PICK m \in Nat :
            /\ 2 * m = Len(q) \/ 2 * m = Len(q) + 1
            /\ Listed(r) /\ Len(r) = m
            /\ \A i \in 1..m : r[i] = Above(q, i)
    BY <2>4, <2>5, NextLevelIs DEF Listed
  <2>7. m >= 1 /\ m < Len(q)
    BY <2>4, <2>6
  <2>8. PICK new : new = Append(levels, r)
    OBVIOUS
  <2>9. /\ Listed(new) /\ Len(new) = n + 1
        /\ \A k \in 1..n : new[k] = levels[k]
        /\ new[n + 1] = r
    <3>1. PICK S : levels \in Seq(S)
      BY DEF Stacked, Listed
    <3>2. levels \in Seq(S \cup {r}) /\ r \in S \cup {r}
      BY <3>1, SeqMonotonic
    <3>3. /\ new \in Seq(S \cup {r}) /\ Len(new) = n + 1
          /\ \A k \in 1..n : new[k] = levels[k]
          /\ new[n + 1] = r
      BY <2>1, <2>8, <3>2, AppendProperties
    <3> QED  BY <3>3 DEF Listed
  <2>10. Grow(levels) = new
    BY <1>2, <2>3, <2>5, <2>8 DEF Grow
  <2>11. Last(new) = r
    BY <2>9 DEF Last
  <2>12. new[1] = Leaves(p)
    BY <2>1, <2>9 DEF Stacked
  <2>13. \A k \in 1..Len(new) : Listed(new[k]) /\ Len(new[k]) >= 1
    BY <2>1, <2>6, <2>7, <2>9 DEF Stacked
  <2>14. ASSUME NEW k \in 2..Len(new)
         PROVE  /\ 2 * Len(new[k]) \in {Len(new[k - 1]), Len(new[k - 1]) + 1}
                /\ \A i \in 1..Len(new[k]) : new[k][i] = Above(new[k - 1], i)
    <3>1. CASE k = n + 1
      <4>1. new[k] = r /\ new[k - 1] = q
        BY <2>1, <2>2, <2>9, <3>1
      <4> QED  BY <2>6, <4>1
    <3>2. CASE k # n + 1
      <4>1. k \in 2..n
        BY <2>1, <2>9, <3>2
      <4>2. new[k] = levels[k] /\ new[k - 1] = levels[k - 1]
        BY <2>1, <2>9, <4>1
      <4> QED  BY <2>1, <4>1, <4>2 DEF Stacked
    <3> QED  BY <3>1, <3>2
  <2>15. Len(new) >= 1
    BY <2>1, <2>9
  <2>16. Stacked(new, p)
    BY <2>9, <2>12, <2>13, <2>14, <2>15 DEF Stacked
  <2> QED  BY <2>3, <2>6, <2>7, <2>10, <2>11, <2>16
<1> QED  BY <1>1, <1>2

\* The leaves alone are a tree in construction.
LEMMA LeavesStack ==
    ASSUME NEW S, NEW p \in Seq(S), Len(p) >= 1
    PROVE  /\ Stacked(<<Leaves(p)>>, p)
           /\ Last(<<Leaves(p)>>) = Leaves(p)
           /\ Len(Leaves(p)) = Len(p) /\ \A i \in 1..Len(p) : Leaves(p)[i] = Leaf(p[i], i)
<1>1. PICK n \in Nat : n = Len(p) /\ n >= 1
  BY LenProperties
<1>2. PICK q : q = Leaves(p)
  OBVIOUS
<1>3. q = [i \in 1..n |-> Leaf(p[i], i)]
  BY <1>1, <1>2 DEF Leaves
<1>4. q \in Seq({Leaf(p[i], i) : i \in 1..n})
  BY <1>3
<1>5. Len(q) = n /\ \A i \in 1..n : q[i] = Leaf(p[i], i)
  BY <1>3
<1>6. PICK w : w = <<q>>
  OBVIOUS
<1>7. w \in Seq({q}) /\ Len(w) = 1 /\ w[1] = q
  BY <1>6
<1>8. Stacked(w, p)
  BY <1>1, <1>2, <1>4, <1>5, <1>7 DEF Stacked, Listed
<1>9. Last(w) = q
  BY <1>7 DEF Last
<1> QED  BY <1>1, <1>2, <1>5, <1>6, <1>8, <1>9

\* The levels of a tree, up to the one of its root.
LEMMA LevelsAre ==
    ASSUME NEW S, NEW p \in Seq(S), Len(p) >= 1
    PROVE  Stacked(Levels(p), p) /\ Len(Last(Levels(p))) = 1
<1>1. PICK n \in Nat : n = Len(p) /\ n >= 1
  BY LenProperties
<1>2. PICK base : base = <<Leaves(p)>>
  OBVIOUS
<1>3. PICK a : Runs(a, base, n) /\ Levels(p) = a[n]
  BY <1>1, <1>2, LevelsByPasses
<1> DEFINE T == {k \in 0..n :
                    /\ Stacked(a[k], p)
                    /\ Len(Last(a[k])) = 1 \/ Len(Last(a[k])) + k <= n}
<1>4. 0 \in T
  <2>1. a[0] = base
    BY <1>3 DEF Runs
  <2>2. Stacked(base, p) /\ Len(Last(base)) = n
    BY <1>1, <1>2, LeavesStack
  <2> QED  BY <1>1, <2>1, <2>2
<1>5. ASSUME NEW k \in 1..n, k - 1 \in T
      PROVE  k \in T
  <2>1. PICK old : old = a[k - 1]
    OBVIOUS
  <2>2. a[k] = Grow(old)
    BY <1>3, <2>1 DEF Runs
  <2>3. Stacked(old, p) /\ (Len(Last(old)) = 1 \/ Len(Last(old)) + (k - 1) <= n)
    BY <1>5, <2>1
  <2>4. PICK new : new = Grow(old)
    OBVIOUS
  <2>5. /\ Stacked(new, p)
        /\ Len(Last(new)) = 1 \/ Len(Last(new)) < Len(Last(old))
    BY <2>3, <2>4, GrowStacks
  <2>6. ASSUME NEW levels, Stacked(levels, p)
        PROVE  Len(Last(levels)) \in Nat /\ Len(Last(levels)) >= 1
    <3>1. Len(levels) \in 1..Len(levels)
      BY <2>6 DEF Stacked, Listed
    <3>2. Listed(levels[Len(levels)]) /\ Len(levels[Len(levels)]) >= 1
      BY <2>6, <3>1 DEF Stacked
    <3> QED  BY <3>2 DEF Listed, Last
  <2>7. Len(Last(old)) \in Nat /\ Len(Last(new)) \in Nat /\ Len(Last(new)) >= 1
    BY <2>3, <2>5, <2>6
  <2>8. Len(Last(new)) = 1 \/ Len(Last(new)) + k <= n
    <3>1. PICK x \in Nat : x = Len(Last(old))
      BY <2>7
    <3>2. PICK y \in Nat : y = Len(Last(new)) /\ y >= 1
      BY <2>7
    <3>3. x = 1 \/ x + (k - 1) <= n
      BY <2>3, <3>1
    <3>4. y = 1 \/ y < x
      BY <2>5, <3>1, <3>2
    <3> HIDE DEF T
    <3>5. y = 1 \/ y + k <= n
      BY <3>3, <3>4
    <3> QED  BY <3>2, <3>5
  <2> QED  BY <2>2, <2>4, <2>5, <2>8
<1>6. \A k \in 0..n : k \in T
  <2> HIDE DEF T
  <2> QED  BY <1>4, <1>5, UpTo
<1>7. Stacked(a[n], p) /\ (Len(Last(a[n])) = 1 \/ Len(Last(a[n])) + n <= n)
  BY <1>6
<1>8. Len(Last(a[n])) \in Nat /\ Len(Last(a[n])) >= 1
  <2>1. PICK levels : levels = a[n]
    OBVIOUS
  <2>2. Len(levels) \in 1..Len(levels)
    BY <1>7, <2>1 DEF Stacked, Listed
  <2>3. Listed(levels[Len(levels)]) /\ Len(levels[Len(levels)]) >= 1
    BY <1>7, <2>1, <2>2 DEF Stacked
  <2> QED  BY <2>1, <2>3 DEF Listed, Last
<1> HIDE DEF T
<1> QED  BY <1>3, <1>7, <1>8

-----------------------------------------------------------------------------
(* The hashes in a tree.                                                   *)

\* v is the hash of the digests from place i to place j of p: of one digest, or
\* of two hashes in T that between them are of these digests.
Grounds(T, p, v, i, j) ==
    /\ i \in Nat /\ j \in Nat /\ 1 <= i /\ i <= j /\ j <= Len(p)
    /\ \/ i = j /\ v = Hash(p[i])
       \/ \E l, r, m : /\ m \in Nat /\ i <= m /\ m < j
                       /\ v = Hash(<<l, r>>)
                       /\ <<l, i, m>> \in T /\ <<r, m + 1, j>> \in T

\* Each hash in T is such a hash of the digests that T says.
Grounded(T, p) == \A v, i, j : <<v, i, j>> \in T => Grounds(T, p, v, i, j)

\* The nodes of a level share the digests out among them, in their order: node
\* i has those after ends[i - 1] up to ends[i].
Tiled(T, ends, q, p) ==
    /\ ends[0] = 0 /\ ends[Len(q)] = Len(p)
    /\ \A i \in 0..Len(q) : ends[i] \in Nat
    /\ \A i \in 1..Len(q) : /\ ends[i - 1] < ends[i]
                            /\ <<q[i].value, ends[i - 1] + 1, ends[i]>> \in T

\* The leaves have one digest each.
LEMMA LeavesTiled ==
    ASSUME NEW S, NEW p \in Seq(S), Len(p) >= 1
    PROVE  \E T, ends : Grounded(T, p) /\ Tiled(T, ends, Leaves(p), p)
<1>1. PICK n \in Nat : n = Len(p) /\ n >= 1
  BY LenProperties
<1>2. PICK q : q = Leaves(p)
  OBVIOUS
<1>3. Len(q) = n /\ \A i \in 1..n : q[i].value = Hash(p[i])
  <2>1. Len(q) = n /\ \A i \in 1..n : q[i] = Leaf(p[i], i)
    BY <1>1, <1>2, LeavesStack
  <2> QED  BY <2>1 DEF Leaf
<1> DEFINE T == {<<Hash(p[i]), i, i>> : i \in 1..n}
           ends == [i \in 0..n |-> i]
<1>4. Grounded(T, p)
  <2> SUFFICES ASSUME NEW v, NEW i, NEW j, <<v, i, j>> \in T
               PROVE  /\ i \in Nat /\ j \in Nat /\ 1 <= i /\ i <= j /\ j <= Len(p)
                      /\ i = j /\ v = Hash(p[i])
    <3> HIDE DEF T
    <3> QED  BY DEF Grounded, Grounds
  <2>1. PICK k \in 1..n : <<v, i, j>> = <<Hash(p[k]), k, k>>
    OBVIOUS
  <2>2. v = Hash(p[k]) /\ i = k /\ j = k
    BY <2>1
  <2> QED  BY <1>1, <2>2
<1>5. Tiled(T, ends, q, p)
  <2>1. \A i \in 0..n : ends[i] = i
    OBVIOUS
  <2>2. \A i \in 1..n : <<Hash(p[i]), i, i>> \in T
    OBVIOUS
  <2> HIDE DEF T, ends
  <2>3. \A i \in 1..n : /\ ends[i - 1] < ends[i]
                        /\ <<q[i].value, ends[i - 1] + 1, ends[i]>> \in T
    <3> TAKE i \in 1..n
    <3>1. ends[i] = i /\ ends[i - 1] = i - 1 /\ (i - 1) + 1 = i
      BY <2>1
    <3>2. <<q[i].value, ends[i - 1] + 1, ends[i]>> = <<Hash(p[i]), i, i>>
      BY <1>3, <3>1
    <3> QED  BY <2>2, <3>1, <3>2
  <2>4. ends[0] = 0 /\ ends[n] = n
    BY <1>1, <2>1
  <2>5. \A i \in 0..n : ends[i] \in Nat
    BY <2>1
  <2> QED  BY <1>1, <1>3, <2>3, <2>4, <2>5 DEF Tiled
<1> HIDE DEF T, ends
<1> QED  BY <1>2, <1>4, <1>5

\* So does the next level, when its fathers' hashes are added.
LEMMA AboveTiled ==
    ASSUME NEW p, NEW q, NEW r, NEW T, NEW ends,
           Len(q) \in Nat, Len(q) >= 1, Len(r) \in Nat,
           2 * Len(r) \in {Len(q), Len(q) + 1},
           \A i \in 1..Len(r) : r[i] = Above(q, i),
           Grounded(T, p), Tiled(T, ends, q, p)
    PROVE  \E U, e : Grounded(U, p) /\ Tiled(U, e, r, p)
<1>1. PICK n \in Nat : n = Len(q) /\ n >= 1
  OBVIOUS
<1>2. PICK m \in Nat : m = Len(r)
  OBVIOUS
<1>3. 2 * m = n \/ 2 * m = n + 1
  BY <1>1, <1>2
<1> DEFINE at(i) == IF 2 * i <= n THEN 2 * i ELSE n
           e == [i \in 0..m |-> ends[at(i)]]
           U == T \cup {<<r[i].value, e[i - 1] + 1, e[i]>> : i \in 1..m}
<1>4. /\ ends[0] = 0 /\ ends[n] = Len(p)
      /\ \A i \in 0..n : ends[i] \in Nat
      /\ \A i \in 1..n : /\ ends[i - 1] < ends[i]
                         /\ <<q[i].value, ends[i - 1] + 1, ends[i]>> \in T
  BY <1>1 DEF Tiled
<1>5. /\ \A i \in 0..m : e[i] = ends[at(i)]
      /\ \A i \in 1..m : <<r[i].value, e[i - 1] + 1, e[i]>> \in U
      /\ T \subseteq U
      /\ \A t \in U : t \in T \/ \E i \in 1..m : t = <<r[i].value, e[i - 1] + 1, e[i]>>
  OBVIOUS
<1>6. \A i \in 0..m : at(i) \in 0..n
  BY <1>3
<1>7. \A i \in 1..m : IF 2 * i <= n THEN /\ at(i) = 2 * i /\ at(i - 1) = 2 * i - 2
                                           /\ 2 * i \in 1..n /\ 2 * i - 1 \in 1..n
                      ELSE /\ at(i) = n /\ at(i - 1) = n - 1 /\ n \in 1..n /\ i = m
  BY <1>1, <1>3
<1>8. at(0) = 0 /\ at(m) = n
  BY <1>1, <1>3
<1>9. \A i \in 0..m : e[i] \in Nat
  BY <1>4, <1>5, <1>6
<1> HIDE DEF at, e, U
<1>10. e[0] = 0 /\ e[m] = Len(p)
  <2>1. 0 \in 0..m /\ m \in 0..m
    OBVIOUS
  <2>2. e[0] = ends[at(0)] /\ e[m] = ends[at(m)]
    BY <1>5, <2>1
  <2> QED  BY <1>4, <1>8, <2>2
\* A pair's father has the digests of both.
<1>11. ASSUME NEW i \in 1..m, 2 * i <= n
       PROVE  LET mid == ends[2 * i - 1]
                  left == q[2 * i - 1].value
                  right == q[2 * i].value
              IN  /\ mid \in Nat /\ e[i - 1] < mid /\ mid < e[i]
                  /\ r[i].value = Hash(<<left, right>>)
                  /\ <<left, e[i - 1] + 1, mid>> \in T
                  /\ <<right, mid + 1, e[i]>> \in T
  <2>1. /\ at(i) = 2 * i /\ at(i - 1) = 2 * i - 2
        /\ 2 * i \in 1..n /\ 2 * i - 1 \in 1..n
    BY <1>7, <1>11
  <2>2. /\ e[i] = ends[2 * i] /\ e[i - 1] = ends[2 * i - 2]
    BY <1>5, <2>1
  <2>3. r[i] = Inner(q[2 * i - 1], q[2 * i])
    BY <1>1, <1>2, <1>11 DEF Above
  <2>4. r[i].value = Hash(<<q[2 * i - 1].value, q[2 * i].value>>)
    BY <2>3 DEF Inner
  <2>5. /\ ends[(2 * i - 1) - 1] < ends[2 * i - 1]
        /\ <<q[2 * i - 1].value, ends[(2 * i - 1) - 1] + 1, ends[2 * i - 1]>> \in T
    BY <1>4, <2>1
  <2>6. (2 * i - 1) - 1 = 2 * i - 2
    OBVIOUS
  <2>7. /\ ends[2 * i - 1] < ends[2 * i]
        /\ <<q[2 * i].value, ends[2 * i - 1] + 1, ends[2 * i]>> \in T
    BY <1>4, <2>1
  <2>8. ends[2 * i - 1] \in Nat
    BY <1>4, <2>1
  <2> QED  BY <2>2, <2>4, <2>5, <2>6, <2>7, <2>8
\* A node left over has its own.
<1>12. ASSUME NEW i \in 1..m, ~(2 * i <= n)
       PROVE  e[i - 1] < e[i] /\ <<r[i].value, e[i - 1] + 1, e[i]>> \in T
  <2>1. at(i) = n /\ at(i - 1) = n - 1 /\ n \in 1..n
    BY <1>7, <1>12
  <2>2. e[i] = ends[n] /\ e[i - 1] = ends[n - 1]
    BY <1>5, <2>1
  <2>3. r[i] = q[n]
    BY <1>1, <1>2, <1>12 DEF Above
  <2> QED  BY <1>4, <2>1, <2>2, <2>3
<1>13. Tiled(U, e, r, p)
  <2>1. \A i \in 1..m : e[i - 1] < e[i]
    <3> TAKE i \in 1..m
    <3>1. e[i] \in Nat /\ e[i - 1] \in Nat
      BY <1>9
    <3>2. CASE 2 * i <= n
      <4>1. PICK mid \in Nat : e[i - 1] < mid /\ mid < e[i]
        BY <1>11, <3>2
      <4> QED  BY <3>1, <4>1
    <3>3. CASE ~(2 * i <= n)
      BY <1>12, <3>3
    <3> QED  BY <3>2, <3>3
  <2> QED  BY <1>2, <1>5, <1>9, <1>10, <2>1 DEF Tiled
<1>14. Grounded(U, p)
  <2> SUFFICES ASSUME NEW v, NEW i, NEW j, <<v, i, j>> \in U
               PROVE  Grounds(U, p, v, i, j)
    BY DEF Grounded
  <2>1. CASE <<v, i, j>> \in T
    <3>1. Grounds(T, p, v, i, j)
      BY <2>1 DEF Grounded
    <3> QED  BY <1>5, <3>1 DEF Grounds
  <2>2. CASE \E k \in 1..m : <<v, i, j>> = <<r[k].value, e[k - 1] + 1, e[k]>>
    <3>1. PICK k \in 1..m : <<v, i, j>> = <<r[k].value, e[k - 1] + 1, e[k]>>
      BY <2>2
    <3>2. v = r[k].value /\ i = e[k - 1] + 1 /\ j = e[k]
      BY <3>1
    <3>3. CASE ~(2 * k <= n)
      BY <1>12, <2>1, <3>1, <3>3
    <3>4. CASE 2 * k <= n
      <4>1. PICK mid, left, right :
                /\ mid \in Nat /\ e[k - 1] < mid /\ mid < e[k]
                /\ v = Hash(<<left, right>>)
                /\ <<left, i, mid>> \in T
                /\ <<right, mid + 1, j>> \in T
        BY <1>11, <3>2, <3>4
      <4>2. i \in Nat /\ 1 <= i /\ mid + 1 <= j /\ j <= Len(p) /\ j \in Nat
        <5>1. i \in Nat /\ 1 <= i
          BY <4>1 DEF Grounded, Grounds
        <5>2. j \in Nat /\ mid + 1 <= j /\ j <= Len(p)
          BY <4>1 DEF Grounded, Grounds
        <5> QED  BY <5>1, <5>2
      <4>3. e[k - 1] \in Nat
        BY <1>9
      <4>4. i <= mid /\ mid < j
        BY <3>2, <4>1, <4>2, <4>3
      <4>5. i <= j
        BY <4>1, <4>2, <4>4
      <4> QED  BY <1>5, <4>1, <4>2, <4>4, <4>5 DEF Grounds
    <3> QED  BY <3>3, <3>4
  <2> QED  BY <1>5, <2>1, <2>2
<1> QED  BY <1>13, <1>14

\* The root's hash is that of all digests.
LEMMA RootGrounded ==
    ASSUME NEW S, NEW p \in Seq(S), Len(p) >= 1
    PROVE  \E T : Grounded(T, p) /\ <<RootHash(p), 1, Len(p)>> \in T
<1>1. PICK levels : levels = Levels(p)
  OBVIOUS
<1>2. Stacked(levels, p) /\ Len(Last(levels)) = 1
  BY <1>1, LevelsAre
<1>3. PICK n \in Nat : n = Len(levels) /\ n >= 1
  BY <1>2 DEF Stacked, Listed
<1> DEFINE M == {k \in 0..n - 1 : \E T, ends : /\ Grounded(T, p)
                                               /\ Tiled(T, ends, levels[k + 1], p)}
<1>4. 0 \in M
  <2>1. levels[0 + 1] = Leaves(p)
    BY <1>2 DEF Stacked
  <2>2. \E T, ends : Grounded(T, p) /\ Tiled(T, ends, levels[0 + 1], p)
    BY <2>1, LeavesTiled
  <2> QED  BY <1>3, <2>2
<1>5. ASSUME NEW k \in 1..n - 1, k - 1 \in M
      PROVE  k \in M
  <2>1. PICK q : q = levels[k]
    OBVIOUS
  <2>2. PICK r : r = levels[k + 1]
    OBVIOUS
  <2>3. (k - 1) + 1 = k /\ k \in 1..n /\ k + 1 \in 2..n /\ (k + 1) - 1 = k
    BY <1>3
  <2>4. PICK T, ends : Grounded(T, p) /\ Tiled(T, ends, q, p)
    BY <1>5, <2>1, <2>3
  <2>5. Listed(q) /\ Len(q) >= 1 /\ Listed(r)
    BY <1>2, <1>3, <2>1, <2>2, <2>3 DEF Stacked
  <2>6. /\ 2 * Len(r) \in {Len(q), Len(q) + 1}
        /\ \A i \in 1..Len(r) : r[i] = Above(q, i)
    <3>1. /\ 2 * Len(levels[k + 1]) \in {Len(levels[(k + 1) - 1]), Len(levels[(k + 1) - 1]) + 1}
          /\ \A i \in 1..Len(levels[k + 1]) : levels[k + 1][i] = Above(levels[(k + 1) - 1], i)
      BY <1>2, <1>3, <2>3 DEF Stacked
    <3> QED  BY <2>1, <2>2, <2>3, <3>1
  <2>7. Len(q) \in Nat /\ Len(r) \in Nat
    BY <2>5 DEF Listed
  <2>8. \E U, e : Grounded(U, p) /\ Tiled(U, e, r, p)
    BY <2>4, <2>5, <2>6, <2>7, AboveTiled
  <2> QED  BY <2>2, <2>8
<1>6. n - 1 \in M
  <2> HIDE DEF M
  <2>1. n - 1 \in Nat
    BY <1>3
  <2> QED  BY <1>4, <1>5, <2>1, UpTo
<1>7. PICK T, ends : Grounded(T, p) /\ Tiled(T, ends, levels[(n - 1) + 1], p)
  BY <1>6
<1>8. PICK q : q = levels[n]
  OBVIOUS
<1>9. Last(levels) = q /\ Len(q) = 1 /\ RootHash(p) = q[1].value
  BY <1>1, <1>2, <1>3, <1>8 DEF Last, RootOf, RootHash
<1>10. Tiled(T, ends, q, p)
  <2>1. (n - 1) + 1 = n
    OBVIOUS
  <2> QED  BY <1>7, <1>8, <2>1
<1>11. /\ ends[0] = 0 /\ ends[1] = Len(p)
       /\ <<q[1].value, ends[1 - 1] + 1, ends[1]>> \in T
  BY <1>9, <1>10 DEF Tiled
<1>12. ends[1 - 1] + 1 = 1
  BY <1>11
<1> QED  BY <1>7, <1>9, <1>11, <1>12

-----------------------------------------------------------------------------
(* A root has one sequence of digests.                                     *)

\* No digest is what an inner node hashes.
Atomic(p) == \A k \in 1..Len(p) : \A x, y : p[k] # <<x, y>>

\* Places i to j of p hold what places k to l of q hold.
Alike(p, i, j, q, k, l) ==
    /\ j - i = l - k
    /\ \A x \in 0..j - i : p[i + x] = q[k + x]

\* Two parts that are alike, one after the other.
LEMMA AlikeJoin ==
    ASSUME NEW p, NEW q,
           NEW i \in Nat, NEW m \in Nat, NEW j \in Nat, i <= m, m < j,
           NEW k \in Nat, NEW o \in Nat, NEW l \in Nat, k <= o, o < l,
           Alike(p, i, m, q, k, o), Alike(p, m + 1, j, q, o + 1, l)
    PROVE  Alike(p, i, j, q, k, l)
<1>1. m - i = o - k /\ j - (m + 1) = l - (o + 1)
  BY DEF Alike
<1>2. j - i = l - k
  BY <1>1
<1>3. ASSUME NEW x \in 0..j - i
      PROVE  p[i + x] = q[k + x]
  <2>1. CASE x <= m - i
    <3>1. x \in 0..m - i
      BY <2>1
    <3> QED  BY <3>1 DEF Alike
  <2>2. CASE x > m - i
    <3>1. PICK y \in Int : y = x - (m + 1 - i)
      OBVIOUS
    <3>2. y \in 0..j - (m + 1)
      BY <2>2, <3>1
    <3>3. p[m + 1 + y] = q[o + 1 + y]
      BY <3>2 DEF Alike
    <3>4. m + 1 + y = i + x /\ o + 1 + y = k + x
      BY <1>1, <3>1
    <3> QED  BY <3>3, <3>4
  <2> QED  BY <2>1, <2>2
<1> QED  BY <1>2, <1>3 DEF Alike

\* Hashes of different data are different.
LEMMA HashInjective ==
    ASSUME NEW x, NEW y, Hash(x) = Hash(y)
    PROVE  x = y
<1>1. Hash(x).sha256 = x /\ Hash(y).sha256 = y
  BY DEF Hash
<1> QED  BY <1>1

\* One hash in two trees is the hash of the same digests.
LEMMA OneHashOneList ==
    ASSUME NEW p, NEW q, NEW T, NEW U,
           Grounded(T, p), Grounded(U, q), Atomic(p), Atomic(q),
           Len(p) \in Nat, Len(q) \in Nat
    PROVE  \A v, i, j, k, l : <<v, i, j>> \in T /\ <<v, k, l>> \in U =>
                                  Alike(p, i, j, q, k, l)
<1> DEFINE Differ(v, i, j, k, l) ==
               <<v, i, j>> \in T /\ <<v, k, l>> \in U /\ ~Alike(p, i, j, q, k, l)
           bad == {n \in Nat : \E v, i, j, k, l : Differ(v, i, j, k, l) /\ n = j - i}
<1> SUFFICES ASSUME \E v, i, j, k, l : Differ(v, i, j, k, l)
             PROVE  FALSE
  OBVIOUS
<1>1. ASSUME NEW v, NEW i, NEW j, NEW k, NEW l, Differ(v, i, j, k, l)
      PROVE  j - i \in bad
  <2>1. i \in Nat /\ j \in Nat /\ i <= j
    BY <1>1 DEF Grounded, Grounds
  <2>2. j - i \in Nat
    BY <2>1
  <2> QED  BY <1>1, <2>2
<1>2. bad # {} /\ bad \subseteq Nat
  <2>1. \E v, i, j, k, l : j - i \in bad
    BY <1>1
  <2>2. bad # {}
    BY <2>1
  <2> QED  BY <2>2
<1>3. PICK n \in bad : \A y \in bad : n <= y
  <2> HIDE DEF bad
  <2> QED  BY <1>2, LeastNumber
<1>4. PICK v, i, j, k, l : Differ(v, i, j, k, l) /\ n = j - i
  OBVIOUS
<1>5. <<v, i, j>> \in T /\ <<v, k, l>> \in U /\ ~Alike(p, i, j, q, k, l)
  BY <1>4
<1>6. ASSUME NEW w, NEW a, NEW b, NEW c, NEW d,
             <<w, a, b>> \in T, <<w, c, d>> \in U, b - a < n
      PROVE  Alike(p, a, b, q, c, d)
  <2> SUFFICES ASSUME ~Alike(p, a, b, q, c, d) PROVE FALSE
    OBVIOUS
  <2>1. Differ(w, a, b, c, d)
    BY <1>6
  <2>2. b - a \in bad
    BY <1>1, <2>1
  <2>3. n <= b - a /\ n \in Nat /\ b - a \in Nat
    BY <1>2, <1>3, <2>2
  <2> QED  BY <1>6, <2>3
<1> HIDE DEF Differ, bad
<1>7. Grounds(T, p, v, i, j) /\ Grounds(U, q, v, k, l)
  BY <1>5 DEF Grounded
<1>8. /\ i \in Nat /\ j \in Nat /\ 1 <= i /\ i <= j /\ j <= Len(p)
      /\ k \in Nat /\ l \in Nat /\ 1 <= k /\ k <= l /\ l <= Len(q)
  BY <1>7 DEF Grounds
<1>a. /\ \A x, y : p[i] # <<x, y>>
      /\ \A x, y : q[k] # <<x, y>>
  BY <1>8 DEF Atomic
<1>9. CASE i = j /\ v = Hash(p[i])
  <2>1. CASE k = l /\ v = Hash(q[k])
    <3>1. p[i] = q[k]
      BY <1>9, <2>1, HashInjective
    <3>2. \A x \in 0..j - i : x = 0
      BY <1>8, <1>9
    <3>3. p[i + 0] = q[k + 0] /\ j - i = l - k
      BY <1>8, <1>9, <2>1, <3>1
    <3> QED  BY <1>5, <3>2, <3>3 DEF Alike
  <2>2. CASE \E x, y : v = Hash(<<x, y>>)
    <3>1. PICK x, y : v = Hash(<<x, y>>)
      BY <2>2
    <3>2. p[i] = <<x, y>>
      BY <1>9, <3>1, HashInjective
    <3> QED  BY <1>a, <3>2
  <2> QED  BY <1>7, <2>1, <2>2 DEF Grounds
<1>10. ASSUME NEW x, NEW y, NEW m \in Nat, i <= m, m < j, v = Hash(<<x, y>>),
              <<x, i, m>> \in T, <<y, m + 1, j>> \in T
       PROVE  FALSE
  <2>1. CASE k = l /\ v = Hash(q[k])
    <3>1. q[k] = <<x, y>>
      BY <1>10, <2>1, HashInjective
    <3> QED  BY <1>a, <3>1
  <2>2. ASSUME NEW s, NEW t, NEW o \in Nat, k <= o, o < l, v = Hash(<<s, t>>),
               <<s, k, o>> \in U, <<t, o + 1, l>> \in U
        PROVE  FALSE
    <3>1. <<x, y>> = <<s, t>>
      BY <1>10, <2>2, HashInjective
    <3>2. x = s /\ y = t
      BY <3>1
    <3>3. n \in Nat /\ m - i < n /\ j - (m + 1) < n
      BY <1>4, <1>8, <1>10
    <3>4. Alike(p, i, m, q, k, o)
      BY <1>6, <1>10, <2>2, <3>2, <3>3
    <3>5. Alike(p, m + 1, j, q, o + 1, l)
      BY <1>6, <1>10, <2>2, <3>2, <3>3
    <3>6. Alike(p, i, j, q, k, l)
      BY <1>8, <1>10, <2>2, <3>4, <3>5, AlikeJoin
    <3> QED  BY <1>5, <3>6
  <2> QED  BY <1>7, <2>1, <2>2 DEF Grounds
<1> QED  BY <1>7, <1>9, <1>10 DEF Grounds

\* Equal roots are roots over equal sequences of digests.
LEMMA RootInjective ==
    ASSUME NEW S, NEW p \in Seq(S), NEW q \in Seq(S), Len(p) >= 1, Len(q) >= 1,
           Atomic(p), Atomic(q), RootHash(p) = RootHash(q)
    PROVE  p = q
<1>1. PICK n \in Nat : n = Len(p) /\ n >= 1
  BY LenProperties
<1>2. PICK m \in Nat : m = Len(q) /\ m >= 1
  BY LenProperties
<1>3. PICK v : v = RootHash(p)
  OBVIOUS
<1>4. PICK T : Grounded(T, p) /\ <<v, 1, n>> \in T
  BY <1>1, <1>3, RootGrounded
<1>5. PICK U : Grounded(U, q) /\ <<v, 1, m>> \in U
  BY <1>2, <1>3, RootGrounded
<1>6. Alike(p, 1, n, q, 1, m)
  BY <1>1, <1>2, <1>4, <1>5, OneHashOneList
<1>7. n - 1 = m - 1 /\ \A x \in 0..n - 1 : p[1 + x] = q[1 + x]
  BY <1>6 DEF Alike
<1>8. n = m
  BY <1>7
<1>9. \A i \in 1..n : p[i] = q[i]
  <2> TAKE i \in 1..n
  <2>1. i - 1 \in 0..n - 1 /\ 1 + (i - 1) = i
    OBVIOUS
  <2> QED  BY <1>7, <2>1
<1> QED  BY <1>1, <1>2, <1>8, <1>9, SeqEqual

-----------------------------------------------------------------------------
(* The proofs.                                                             *)

\* n is a node of level k.
InLevel(levels, k, n) == \E i \in 1..Len(levels[k]) : n = levels[k][i]

\* The nodes are those of the levels.
LEMMA NodesAre ==
    ASSUME NEW levels, NEW p, Stacked(levels, p)
    PROVE  \A n : n \in NodesOf(levels) <=> \E k \in 1..Len(levels) : InLevel(levels, k, n)
<1>1. ASSUME NEW k \in 1..Len(levels)
      PROVE  ToSet(levels[k]) = {levels[k][i] : i \in 1..Len(levels[k])}
  <2>1. Listed(levels[k])
    BY DEF Stacked
  <2>2. DOMAIN levels[k] = 1..Len(levels[k])
    BY <2>1 DEF Listed
  <2> QED  BY <2>2 DEF ToSet
<1>2. \A k \in 1..Len(levels) : \A n : n \in ToSet(levels[k]) <=> InLevel(levels, k, n)
  BY <1>1 DEF InLevel
<1> QED  BY <1>2 DEF NodesOf

\* An inner node was made, at the first level that has it, of two nodes of the
\* level before.
LEMMA InnerMade ==
    ASSUME NEW levels, NEW p, Stacked(levels, p),
           NEW f, f \in NodesOf(levels), IsInner(f)
    PROVE  \E k, l, r :
               /\ k \in 2..Len(levels) /\ f = Inner(l, r)
               /\ InLevel(levels, k - 1, l) /\ InLevel(levels, k - 1, r)
               /\ \A j \in 1..k - 1 : ~InLevel(levels, j, f)
<1>1. PICK n \in Nat : n = Len(levels) /\ n >= 1
  BY DEF Stacked, Listed
<1> DEFINE T == {k \in 1..n : InLevel(levels, k, f)}
<1>2. T \subseteq Nat /\ T # {}
  BY <1>1, NodesAre
<1>3. PICK k \in T : \A j \in T : k <= j
  <2> HIDE DEF T
  <2> QED  BY <1>2, LeastNumber
<1>4. k \in 1..n /\ InLevel(levels, k, f) /\ \A j \in 1..k - 1 : ~InLevel(levels, j, f)
  BY <1>3
<1> HIDE DEF T
<1>5. PICK i \in 1..Len(levels[k]) : f = levels[k][i]
  BY <1>4 DEF InLevel
<1>6. k # 1
  <2> SUFFICES ASSUME k = 1 PROVE FALSE
    OBVIOUS
  <2>1. levels[1] = Leaves(p)
    BY DEF Stacked
  <2>2. f = Leaves(p)[i] /\ i \in 1..Len(Leaves(p))
    BY <1>5, <2>1
  <2>3. Leaves(p) = [x \in 1..Len(p) |-> Leaf(p[x], x)]
    BY DEF Leaves
  <2>4. Listed(Leaves(p))
    BY <1>1, <2>1 DEF Stacked
  <2>5. DOMAIN Leaves(p) = 1..Len(Leaves(p))
    BY <2>4 DEF Listed
  <2>6. i \in 1..Len(p)
    BY <2>2, <2>3, <2>5
  <2>7. f = Leaf(p[i], i)
    BY <2>2, <2>3, <2>6
  <2> QED  BY <2>7 DEF IsInner, Leaf
<1>7. k \in 2..n /\ k - 1 \in 1..n
  BY <1>4, <1>6
<1>8. PICK q : q = levels[k - 1]
  OBVIOUS
<1>9. PICK m \in Nat : m = Len(q) /\ m >= 1
  <2>1. Listed(q) /\ Len(q) >= 1
    BY <1>1, <1>7, <1>8 DEF Stacked
  <2> QED  BY <2>1 DEF Listed
<1>10. /\ 2 * Len(levels[k]) \in {m, m + 1}
       /\ levels[k][i] = Above(q, i)
  BY <1>1, <1>5, <1>7, <1>8, <1>9 DEF Stacked
<1>11. PICK l \in Nat : l = Len(levels[k])
  <2>1. Listed(levels[k])
    BY <1>1, <1>4 DEF Stacked
  <2> QED  BY <2>1 DEF Listed
<1>12. k - 1 \in 1..k - 1
  BY <1>7
<1>13. CASE 2 * i <= m
  <2>1. f = Inner(q[2 * i - 1], q[2 * i])
    BY <1>5, <1>9, <1>10, <1>13 DEF Above
  <2>2. 2 * i - 1 \in 1..m /\ 2 * i \in 1..m
    BY <1>5, <1>11, <1>13
  <2>3. InLevel(levels, k - 1, q[2 * i - 1]) /\ InLevel(levels, k - 1, q[2 * i])
    BY <1>8, <1>9, <2>2 DEF InLevel
  <2> QED  BY <1>1, <1>4, <1>7, <2>1, <2>3
<1>14. CASE ~(2 * i <= m)
  <2>1. f = q[m]
    BY <1>5, <1>9, <1>10, <1>14 DEF Above
  <2>2. InLevel(levels, k - 1, f)
    BY <1>8, <1>9, <2>1 DEF InLevel
  <2> QED  BY <1>4, <1>12, <2>2
<1> QED  BY <1>13, <1>14

\* A node below the root has a father.
LEMMA FatherExists ==
    ASSUME NEW levels, NEW p, Stacked(levels, p), Len(Last(levels)) = 1,
           NEW c, c \in NodesOf(levels), c # RootOf(levels)
    PROVE  \E f \in NodesOf(levels) : IsInner(f) /\ c \in {f.left, f.right}
<1>1. PICK n \in Nat : n = Len(levels) /\ n >= 1
  BY DEF Stacked, Listed
<1> DEFINE T == {n - k : k \in {j \in 1..n : InLevel(levels, j, c)}}
<1>2. T \subseteq Nat /\ T # {}
  <2>1. PICK k \in 1..n : InLevel(levels, k, c)
    BY <1>1, NodesAre
  <2>2. n - k \in T
    BY <2>1
  <2> QED  BY <2>2
<1>3. PICK z \in T : \A y \in T : z <= y
  <2> HIDE DEF T
  <2> QED  BY <1>2, LeastNumber
<1>4. PICK k \in 1..n : InLevel(levels, k, c) /\ z = n - k
  BY <1>3
<1>5. k # n
  <2> SUFFICES ASSUME k = n PROVE FALSE
    OBVIOUS
  <2>1. PICK i \in 1..Len(levels[n]) : c = levels[n][i]
    BY <1>4 DEF InLevel
  <2>2. Last(levels) = levels[n]
    BY <1>1 DEF Last
  <2>3. i = 1
    BY <2>1, <2>2
  <2> QED  BY <2>1, <2>2, <2>3 DEF RootOf
<1>6. ~InLevel(levels, k + 1, c)
  <2> SUFFICES ASSUME InLevel(levels, k + 1, c) PROVE FALSE
    OBVIOUS
  <2>1. k + 1 \in 1..n
    BY <1>5
  <2>2. n - (k + 1) \in T
    BY <2>1
  <2>3. n - k <= n - (k + 1)
    BY <1>3, <1>4, <2>2
  <2> QED  BY <2>3
<1> HIDE DEF T
<1>7. k + 1 \in 2..n /\ k + 1 \in 1..n /\ (k + 1) - 1 = k
  BY <1>4, <1>5
<1>8. PICK q : q = levels[k]
  OBVIOUS
<1>9. PICK r : r = levels[k + 1]
  OBVIOUS
<1>10. PICK m \in Nat : m = Len(q) /\ m >= 1
  <2>1. Listed(q) /\ Len(q) >= 1
    BY <1>1, <1>4, <1>8 DEF Stacked
  <2> QED  BY <2>1 DEF Listed
<1>11. PICK o \in Nat : o = Len(r)
  <2>1. Listed(r)
    BY <1>1, <1>7, <1>9 DEF Stacked
  <2> QED  BY <2>1 DEF Listed
<1>12. /\ 2 * o = m \/ 2 * o = m + 1
       /\ \A j \in 1..o : r[j] = Above(q, j)
  <2>1. /\ 2 * Len(levels[k + 1]) \in {Len(levels[(k + 1) - 1]), Len(levels[(k + 1) - 1]) + 1}
        /\ \A j \in 1..Len(levels[k + 1]) : levels[k + 1][j] = Above(levels[(k + 1) - 1], j)
    BY <1>1, <1>7 DEF Stacked
  <2> QED  BY <1>7, <1>8, <1>9, <1>10, <1>11, <2>1
<1>13. PICK i \in 1..m : c = q[i]
  BY <1>4, <1>8, <1>10 DEF InLevel
<1>14. PICK j \in 1..o : i = 2 * j - 1 \/ i = 2 * j
  <2>1. CASE i % 2 = 0
    <3>1. i \div 2 \in 1..o /\ i = 2 * (i \div 2)
      BY <1>12, <2>1
    <3> QED  BY <3>1
  <2>2. CASE i % 2 = 1
    <3>1. (i + 1) \div 2 \in 1..o /\ i = 2 * ((i + 1) \div 2) - 1
      BY <1>12, <2>2
    <3> QED  BY <3>1
  <2> QED  BY <2>1, <2>2
<1>15. InLevel(levels, k + 1, r[j])
  BY <1>9, <1>11 DEF InLevel
<1>16. 2 * j <= m
  <2> SUFFICES ASSUME ~(2 * j <= m) PROVE FALSE
    OBVIOUS
  <2>1. i = m
    BY <1>12, <1>13, <1>14
  <2>2. r[j] = q[m]
    BY <1>10, <1>12 DEF Above
  <2> QED  BY <1>6, <1>13, <1>15, <2>1, <2>2
<1>17. r[j] = Inner(q[2 * j - 1], q[2 * j])
  BY <1>10, <1>12, <1>16 DEF Above
<1>18. IsInner(r[j]) /\ c \in {r[j].left, r[j].right}
  BY <1>13, <1>14, <1>17 DEF IsInner, Inner
<1>19. r[j] \in NodesOf(levels)
  BY <1>1, <1>7, <1>15, NodesAre
<1> QED  BY <1>18, <1>19

\* The father that a climb finds.
Father(levels, c) ==
    CHOOSE f \in {n \in NodesOf(levels) : IsInner(n)} : c \in {f.left, f.right}

\* A pass of the loop of PrfList.
Climb(levels, at) ==
    IF at.node = RootOf(levels) THEN at
    ELSE LET father == Father(levels, at.node)
         IN  [node |-> father,
              prf |-> at.prf \o <<Sibling(father, at.node).value, father.value>>]

\* The hash at an odd place comes from the two before it.
Linked(prf, x) == prf[2 * x + 1] \in {Hash(<<prf[2 * x - 1], prf[2 * x]>>),
                                      Hash(<<prf[2 * x], prf[2 * x - 1]>>)}

\* A proof in construction, from the digest to the value reached.
Reaches(prf, digest, value) ==
    \E j \in Nat : /\ Listed(prf) /\ Len(prf) = 2 * j + 1
                   /\ prf[1] = Hash(digest) /\ prf[2 * j + 1] = value
                   /\ \A x \in 1..j : Linked(prf, x)

\* Such a proof is accepted for the value.
LEMMA ReachesChecks ==
    ASSUME NEW prf, NEW digest, NEW value, Reaches(prf, digest, value)
    PROVE  Listed(prf) /\ CheckPrf(prf, digest, value)
<1>1. PICK j \in Nat : /\ Listed(prf) /\ Len(prf) = 2 * j + 1
                       /\ prf[1] = Hash(digest) /\ prf[2 * j + 1] = value
                       /\ \A x \in 1..j : Linked(prf, x)
  BY DEF Reaches
<1>2. (2 * j + 1) % 2 = 1 /\ (2 * j + 1) \div 2 = j
  OBVIOUS
<1>3. Len(prf) % 2 = 1 /\ Len(prf) \div 2 = j /\ prf[Len(prf)] = value
  BY <1>1, <1>2
<1> QED  BY <1>1, <1>3 DEF CheckPrf, Linked

\* The start of a proof.
LEMMA ProofStarts ==
    ASSUME NEW digest
    PROVE  Reaches(<<Hash(digest)>>, digest, Hash(digest))
<1>1. PICK w : w = <<Hash(digest)>>
  OBVIOUS
<1>2. w \in Seq({Hash(digest)}) /\ Len(w) = 2 * 0 + 1 /\ w[1] = Hash(digest)
      /\ w[2 * 0 + 1] = Hash(digest)
  BY <1>1
<1>3. Reaches(w, digest, Hash(digest))
  <2>1. 0 \in Nat /\ Listed(w) /\ \A x \in 1..0 : Linked(w, x)
    BY <1>2 DEF Listed
  <2> QED  BY <1>2, <2>1 DEF Reaches
<1> QED  BY <1>1, <1>3

\* A proof goes on with a sibling and the father of the two.
LEMMA ProofGrows ==
    ASSUME NEW prf, NEW digest, NEW value, Reaches(prf, digest, value),
           NEW s, NEW v, v \in {Hash(<<value, s>>), Hash(<<s, value>>)}
    PROVE  Reaches(prf \o <<s, v>>, digest, v)
<1>1. PICK j \in Nat : /\ Listed(prf) /\ Len(prf) = 2 * j + 1
                       /\ prf[1] = Hash(digest) /\ prf[2 * j + 1] = value
                       /\ \A x \in 1..j : Linked(prf, x)
  BY DEF Reaches
<1>2. PICK S : prf \in Seq(S)
  BY <1>1 DEF Listed
<1>3. PICK w : w = <<s, v>>
  OBVIOUS
<1>4. w \in Seq({s, v}) /\ Len(w) = 2 /\ w[1] = s /\ w[2] = v
  BY <1>3
<1>5. prf \in Seq(S \cup {s, v}) /\ w \in Seq(S \cup {s, v})
  BY <1>2, <1>4, SeqMonotonic
<1>6. PICK new : new = prf \o w
  OBVIOUS
<1>7. /\ new \in Seq(S \cup {s, v}) /\ Len(new) = Len(prf) + Len(w)
      /\ \A i \in 1..Len(prf) + Len(w) :
             new[i] = IF i <= Len(prf) THEN prf[i] ELSE w[i - Len(prf)]
  BY <1>5, <1>6, ConcatProperties
<1>8. PICK n \in Nat : n = Len(prf) /\ n = 2 * j + 1
  BY <1>1
<1>9. Len(prf) + Len(w) = n + 2
  BY <1>4, <1>8
<1>10. /\ Len(new) = n + 2
       /\ \A i \in 1..n : new[i] = prf[i]
       /\ new[n + 1] = s /\ new[n + 2] = v
  <2>1. \A i \in 1..n + 2 : new[i] = IF i <= n THEN prf[i] ELSE w[i - n]
    BY <1>7, <1>8, <1>9
  <2>2. /\ \A i \in 1..n : new[i] = prf[i]
        /\ new[n + 1] = w[(n + 1) - n] /\ new[n + 2] = w[(n + 2) - n]
    BY <2>1
  <2>3. (n + 1) - n = 1 /\ (n + 2) - n = 2
    OBVIOUS
  <2>4. new[n + 1] = s /\ new[n + 2] = v
    BY <1>4, <2>2, <2>3
  <2> QED  BY <1>7, <1>9, <2>2, <2>4
<1>11. \A x \in 1..j + 1 : Linked(new, x)
  <2> TAKE x \in 1..j + 1
  <2>1. CASE x \in 1..j
    <3>1. 2 * x + 1 \in 1..n /\ 2 * x - 1 \in 1..n /\ 2 * x \in 1..n
      BY <1>8, <2>1
    <3>2. /\ new[2 * x + 1] = prf[2 * x + 1]
          /\ new[2 * x - 1] = prf[2 * x - 1]
          /\ new[2 * x] = prf[2 * x]
      BY <1>10, <3>1
    <3> QED  BY <1>1, <2>1, <3>2 DEF Linked
  <2>2. CASE x = j + 1
    <3>1. 2 * x + 1 = n + 2 /\ 2 * x - 1 = n /\ 2 * x = n + 1 /\ n \in 1..n
      BY <1>8, <2>2
    <3>2. /\ new[2 * x + 1] = v /\ new[2 * x - 1] = value /\ new[2 * x] = s
      BY <1>1, <1>8, <1>10, <3>1
    <3> QED  BY <3>2 DEF Linked
  <2> QED  BY <2>1, <2>2
<1>12. /\ Listed(new) /\ Len(new) = 2 * (j + 1) + 1 /\ j + 1 \in Nat
       /\ new[1] = Hash(digest) /\ new[2 * (j + 1) + 1] = v
  <2>1. 2 * (j + 1) + 1 = n + 2 /\ 1 \in 1..n /\ j + 1 \in Nat
    BY <1>8
  <2>2. new[1] = prf[1]
    BY <1>10, <2>1
  <2> QED  BY <1>1, <1>7, <1>10, <2>1, <2>2 DEF Listed
<1>13. Reaches(new, digest, v)
  BY <1>11, <1>12 DEF Reaches
<1> QED  BY <1>3, <1>6, <1>13

\* A climb of k steps: it is at the root, or above the first k levels.
Climbed(levels, at, digest, k) ==
    /\ at.node \in NodesOf(levels)
    /\ \/ at.node = RootOf(levels)
       \/ \A j \in 1..k : ~InLevel(levels, j, at.node)
    /\ Reaches(at.prf, digest, at.node.value)

\* The next step.
LEMMA ClimbStep ==
    ASSUME NEW levels, NEW p, Stacked(levels, p), Len(Last(levels)) = 1,
           NEW at, NEW digest, NEW k \in Nat, Climbed(levels, at, digest, k)
    PROVE  Climbed(levels, Climb(levels, at), digest, k + 1)
<1>1. CASE at.node = RootOf(levels)
  BY <1>1 DEF Climb, Climbed
<1>2. CASE at.node # RootOf(levels)
  <2>1. PICK c : c = at.node
    OBVIOUS
  <2>2. PICK f : f = Father(levels, c)
    OBVIOUS
  <2>3. c \in NodesOf(levels) /\ \A j \in 1..k : ~InLevel(levels, j, c)
    BY <1>2, <2>1 DEF Climbed
  <2>4. f \in NodesOf(levels) /\ IsInner(f) /\ c \in {f.left, f.right}
    <3>1. \E g \in {n \in NodesOf(levels) : IsInner(n)} : c \in {g.left, g.right}
      BY <1>2, <2>1, <2>3, FatherExists
    <3>2. f \in {n \in NodesOf(levels) : IsInner(n)} /\ c \in {f.left, f.right}
      BY <2>2, <3>1 DEF Father
    <3> QED  BY <3>2
  <2>5. PICK d, l, r :
            /\ d \in 2..Len(levels) /\ f = Inner(l, r)
            /\ InLevel(levels, d - 1, l) /\ InLevel(levels, d - 1, r)
            /\ \A j \in 1..d - 1 : ~InLevel(levels, j, f)
    BY <2>4, InnerMade
  <2>6. Len(levels) \in Nat
    BY DEF Stacked, Listed
  <2>7. f.left = l /\ f.right = r /\ f.value = Hash(<<l.value, r.value>>)
    BY <2>5 DEF Inner
  <2>8. InLevel(levels, d - 1, c)
    BY <2>4, <2>5, <2>7
  <2>9. d \in Nat /\ d - 1 >= k + 1
    BY <2>3, <2>5, <2>6, <2>8
  <2>10. \A j \in 1..k + 1 : ~InLevel(levels, j, f)
    BY <2>5, <2>6, <2>9
  <2>11. PICK s : s = Sibling(f, c).value
    OBVIOUS
  <2>12. f.value \in {Hash(<<c.value, s>>), Hash(<<s, c.value>>)}
    BY <2>4, <2>7, <2>11 DEF Sibling
  <2>13. PICK new : new = Climb(levels, at)
    OBVIOUS
  <2>14. new = [node |-> f, prf |-> at.prf \o <<s, f.value>>]
    BY <1>2, <2>1, <2>2, <2>11, <2>13 DEF Climb
  <2>15. new.node = f /\ new.prf = at.prf \o <<s, f.value>>
    BY <2>14
  <2>16. Reaches(at.prf, digest, c.value)
    BY <2>1 DEF Climbed
  <2>17. Reaches(at.prf \o <<s, f.value>>, digest, f.value)
    BY <2>12, <2>16, ProofGrows
  <2>18. Climbed(levels, new, digest, k + 1)
    BY <2>4, <2>10, <2>15, <2>17 DEF Climbed
  <2> QED  BY <2>13, <2>18
<1> QED  BY <1>1, <1>2

\* A climb with a step for every level is at the root.
LEMMA ClimbEnds ==
    ASSUME NEW levels, NEW p, Stacked(levels, p),
           NEW at, NEW digest, Climbed(levels, at, digest, Len(levels))
    PROVE  Reaches(at.prf, digest, RootOf(levels).value)
<1>1. \E k \in 1..Len(levels) : InLevel(levels, k, at.node)
  BY NodesAre DEF Climbed
<1>2. at.node = RootOf(levels)
  BY <1>1 DEF Climbed
<1> QED  BY <1>2 DEF Climbed

\* The states of a climb from the start on.
Climbs(a, levels, base, n) ==
    a[0] = base /\ \A k \in 1..n : a[k] = Climb(levels, a[k - 1])

\* They can be listed.
LEMMA ClimbsExist ==
    ASSUME NEW levels, NEW base, NEW n \in Nat
    PROVE  \E a : Climbs(a, levels, base, n)
<1> DEFINE T == {m \in 0..n : \E a : Climbs(a, levels, base, m)}
<1>1. 0 \in T
  <2> DEFINE b == [k \in {0} |-> base]
  <2>1. b[0] = base
    OBVIOUS
  <2>2. \A k \in 1..0 : b[k] = Climb(levels, b[k - 1])
    OBVIOUS
  <2> HIDE DEF b
  <2>3. Climbs(b, levels, base, 0)
    BY <2>1, <2>2 DEF Climbs
  <2> QED  BY <2>3
<1>2. ASSUME NEW m \in 1..n, m - 1 \in T
      PROVE  m \in T
  <2>1. PICK a : a[0] = base /\ \A k \in 1..m - 1 : a[k] = Climb(levels, a[k - 1])
    BY <1>2 DEF Climbs
  <2>a. PICK top : top = Climb(levels, a[m - 1])
    OBVIOUS
  <2> DEFINE b == [k \in 0..m |-> IF k = m THEN top ELSE a[k]]
  <2>2. b[0] = base
    BY <2>1
  <2>3. \A k \in 1..m : b[k] = Climb(levels, b[k - 1])
    <3> TAKE k \in 1..m
    <3>1. b[k - 1] = a[k - 1]
      OBVIOUS
    <3>2. b[k] = IF k = m THEN top ELSE a[k]
      OBVIOUS
    <3> HIDE DEF b
    <3>3. CASE k = m
      BY <2>a, <3>1, <3>2, <3>3
    <3>4. CASE k # m
      BY <2>1, <3>1, <3>2, <3>4
    <3> QED  BY <3>3, <3>4
  <2> HIDE DEF b
  <2>4. Climbs(b, levels, base, m)
    BY <2>2, <2>3 DEF Climbs
  <2> QED  BY <2>4
<1> HIDE DEF T
<1>3. n \in T
  BY <1>1, <1>2, UpTo
<1> QED  BY <1>3 DEF T

\* The unfolding of the fold in PrfList.
Ascents(levels, base, n, h) ==
    [s \in SUBSET (1..n) |-> IF s = {} THEN base ELSE Climb(levels, h[s \ {Max(s)}])]

\* The start of the climb from leaf i.
AtLeaf(p, i) == [node |-> Leaf(p[i], i), prf |-> <<Hash(p[i])>>]

\* PrfList has the last state of each climb.
LEMMA PrfListByClimbs ==
    ASSUME NEW S, NEW p \in Seq(S), NEW n \in Nat, n = Len(Levels(p)), NEW i \in 1..Len(p)
    PROVE  \E a : Climbs(a, Levels(p), AtLeaf(p, i), n) /\ PrfList(p)[i] = a[n].prf
<1> DEFINE levels == Levels(p)
           base == AtLeaf(p, i)
           iter == CHOOSE h : h = Ascents(levels, base, n, h)
<1>1. PrfList(p)[i] = iter[1..n].prf
  <2>1. DOMAIN [k \in 1..Len(Levels(p)) |-> k] = 1..n
    OBVIOUS
  <2> QED  BY <2>1 DEF PrfList, FoldLeft, MapThenFoldSet, Ascents, Climb, Father, AtLeaf
<1> HIDE DEF levels, base, iter
<1>2. \E h : h = Ascents(levels, base, n, h)
  <2>0. PICK a : Climbs(a, levels, base, n)
    BY ClimbsExist
  <2>1. a[0] = base /\ \A k \in 1..n : a[k] = Climb(levels, a[k - 1])
    BY <2>0 DEF Climbs
  <2> DEFINE g == [s \in SUBSET (1..n) |-> a[Cardinality(s)]]
  <2>2. ASSUME NEW s \in SUBSET (1..n)
        PROVE  g[s] = IF s = {} THEN base ELSE Climb(levels, g[s \ {Max(s)}])
    <3>1. g[{}] = base
      BY <2>1, FS_EmptySet
    <3>2. ASSUME s # {}
          PROVE  g[s] = Climb(levels, g[s \ {Max(s)}])
      <4>1. /\ Cardinality(s) \in 1..n
            /\ Cardinality(s \ {Max(s)}) = Cardinality(s) - 1
        BY <3>2, GreatestLeft
      <4>2. g[s] = a[Cardinality(s)] /\ g[s \ {Max(s)}] = a[Cardinality(s) - 1]
        BY <4>1
      <4> HIDE DEF g
      <4> QED  BY <2>1, <4>1, <4>2
    <3> HIDE DEF g
    <3> QED  BY <3>1, <3>2
  <2>3. g = [s \in SUBSET (1..n) |-> g[s]]
    OBVIOUS
  <2> HIDE DEF g
  <2>4. g = Ascents(levels, base, n, g)
    BY <2>2, <2>3 DEF Ascents
  <2> QED  BY <2>4
<1>3. iter = Ascents(levels, base, n, iter)
  BY <1>2 DEF iter
<1> DEFINE a == [k \in 0..n |-> iter[1..k]]
<1>4. a[0] = base
  <2>1. 1..0 = {} /\ {} \in SUBSET (1..n)
    OBVIOUS
  <2>2. iter[{}] = base
    BY <1>3, <2>1 DEF Ascents
  <2> QED  BY <2>1, <2>2
<1>5. \A k \in 1..n : a[k] = Climb(levels, a[k - 1])
  <2> TAKE k \in 1..n
  <2>1. iter[1..k] = Climb(levels, iter[(1..k) \ {Max(1..k)}])
    BY <1>3, GreatestOfInterval DEF Ascents
  <2>2. iter[1..k] = Climb(levels, iter[1..k - 1])
    BY <2>1, GreatestOfInterval
  <2> QED  BY <2>2
<1>6. a[n] = iter[1..n]
  OBVIOUS
<1> HIDE DEF a
<1>7. Climbs(a, levels, base, n)
  BY <1>4, <1>5 DEF Climbs
<1> QED  BY <1>1, <1>6, <1>7 DEF base, levels

\* Every proof of the list leads from its digest to the root.
LEMMA PrfListReaches ==
    ASSUME NEW S, NEW p \in Seq(S), Len(p) >= 1
    PROVE  /\ DOMAIN PrfList(p) = 1..Len(p)
           /\ \A i \in 1..Len(p) : Reaches(PrfList(p)[i], p[i], RootHash(p))
<1>1. PICK levels : levels = Levels(p)
  OBVIOUS
<1>2. Stacked(levels, p) /\ Len(Last(levels)) = 1
  BY <1>1, LevelsAre
<1>3. PICK n \in Nat : n = Len(levels) /\ n >= 1
  BY <1>2 DEF Stacked, Listed
<1>4. DOMAIN PrfList(p) = 1..Len(p)
  BY DEF PrfList
<1>5. ASSUME NEW i \in 1..Len(p)
      PROVE  Reaches(PrfList(p)[i], p[i], RootHash(p))
  <2>1. PICK base : base = AtLeaf(p, i)
    OBVIOUS
  <2>2. PICK a : Climbs(a, levels, base, n) /\ PrfList(p)[i] = a[n].prf
    BY <1>1, <1>3, <2>1, PrfListByClimbs
  <2> DEFINE T == {k \in 0..n : Climbed(levels, a[k], p[i], k)}
  <2>3. 0 \in T
    <3>1. a[0] = base
      BY <2>2 DEF Climbs
    <3>2. base.node = Leaf(p[i], i) /\ base.prf = <<Hash(p[i])>>
          /\ base.node.value = Hash(p[i])
      BY <2>1 DEF AtLeaf, Leaf
    <3>3. InLevel(levels, 1, base.node)
      <4>1. levels[1] = Leaves(p)
        BY <1>2 DEF Stacked
      <4>2. Len(Leaves(p)) = Len(p) /\ Leaves(p)[i] = Leaf(p[i], i)
        BY LeavesStack
      <4> QED  BY <3>2, <4>1, <4>2 DEF InLevel
    <3>4. base.node \in NodesOf(levels)
      BY <1>2, <1>3, <3>3, NodesAre
    <3>5. Reaches(base.prf, p[i], base.node.value)
      BY <3>2, ProofStarts
    <3>6. \A j \in 1..0 : ~InLevel(levels, j, base.node)
      OBVIOUS
    <3>7. Climbed(levels, base, p[i], 0)
      BY <3>4, <3>5, <3>6 DEF Climbed
    <3> QED  BY <3>1, <3>7
  <2>4. ASSUME NEW k \in 1..n, k - 1 \in T
        PROVE  k \in T
    <3>1. PICK old : old = a[k - 1]
      OBVIOUS
    <3>2. Climbed(levels, old, p[i], k - 1)
      BY <2>4, <3>1
    <3>3. PICK d : d = p[i]
      OBVIOUS
    <3>4. PICK j \in Nat : j = k - 1
      OBVIOUS
    <3>5. Climbed(levels, Climb(levels, old), d, j + 1)
      BY <1>2, <3>2, <3>3, <3>4, ClimbStep
    <3>6. a[k] = Climb(levels, old) /\ j + 1 = k
      BY <2>2, <3>1, <3>4 DEF Climbs
    <3> QED  BY <3>3, <3>5, <3>6
  <2>5. n \in T
    <3> HIDE DEF T
    <3>1. \A k \in 1..n : k - 1 \in T => k \in T
      BY <2>4
    <3>2. \A k \in 0..n : k \in T
      BY <2>3, <3>1, UpTo
    <3> QED  BY <3>2
  <2>6. PICK at : at = a[n]
    OBVIOUS
  <2>7. PICK d : d = p[i]
    OBVIOUS
  <2>8. Climbed(levels, at, d, Len(levels))
    BY <1>3, <2>5, <2>6, <2>7
  <2>9. Reaches(at.prf, d, RootOf(levels).value)
    BY <1>2, <2>8, ClimbEnds
  <2> QED  BY <1>1, <2>2, <2>6, <2>7, <2>9 DEF RootHash
<1> QED  BY <1>4, <1>5

\* v is a hash of the tree.
HashOf(T, v) == \E i, j : <<v, i, j>> \in T

\* v is the hash of a digest, or of two hashes of the tree.
Composed(T, p, v) ==
    \/ \E i \in 1..Len(p) : v = Hash(p[i])
    \/ \E l, r : v = Hash(<<l, r>>) /\ HashOf(T, l) /\ HashOf(T, r)

\* Every hash of the tree is.
LEMMA HashOfTree ==
    ASSUME NEW p, NEW T, Grounded(T, p), Len(p) \in Nat, NEW v, HashOf(T, v)
    PROVE  Composed(T, p, v)
<1>1. PICK i, j : <<v, i, j>> \in T
  BY DEF HashOf
<1>2. Grounds(T, p, v, i, j)
  BY <1>1 DEF Grounded
<1>3. CASE i = j /\ v = Hash(p[i])
  <2>1. i \in 1..Len(p)
    BY <1>2 DEF Grounds
  <2> QED  BY <1>3, <2>1 DEF Composed
<1>4. ASSUME NEW l, NEW r, NEW m, v = Hash(<<l, r>>),
             <<l, i, m>> \in T, <<r, m + 1, j>> \in T
      PROVE  HashOf(T, l) /\ HashOf(T, r)
  BY <1>4 DEF HashOf
<1> QED  BY <1>2, <1>3, <1>4 DEF Grounds, Composed

\* An accepted proof has hashes of the tree only, and so is for one of its digests.
LEMMA AcceptedIsMember ==
    ASSUME NEW p, NEW T, NEW root, NEW prf, NEW digest,
           Len(p) \in Nat, Grounded(T, p), Atomic(p), \A x, y : digest # <<x, y>>,
           HashOf(T, root), Listed(prf), CheckPrf(prf, digest, root)
    PROVE  \E i \in 1..Len(p) : digest = p[i]
<1>1. PICK n \in Nat : n = Len(prf)
  BY DEF Listed
<1>2. PICK h \in Nat : n = 2 * h + 1
  <2>1. n % 2 = 1
    BY <1>1 DEF CheckPrf
  <2>2. n \div 2 \in Nat /\ n = 2 * (n \div 2) + 1
    BY <2>1
  <2> QED  BY <2>2
<1>3. n \div 2 = h
  BY <1>2
<1>4. /\ prf[1] = Hash(digest) /\ prf[n] = root
      /\ \A i \in 1..h : prf[2 * i + 1] \in {Hash(<<prf[2 * i - 1], prf[2 * i]>>),
                                             Hash(<<prf[2 * i], prf[2 * i - 1]>>)}
  BY <1>1, <1>3 DEF CheckPrf
\* The hashes at odd places, from the root down.
<1> DEFINE M == {k \in 0..h : HashOf(T, prf[2 * (h - k) + 1])}
<1>5. 0 \in M
  <2>1. 2 * (h - 0) + 1 = n
    BY <1>2
  <2> QED  BY <1>4, <2>1
<1>6. ASSUME NEW k \in 1..h, k - 1 \in M
      PROVE  k \in M
  <2>1. PICK x \in Nat : x = h - (k - 1) /\ x \in 1..h
    OBVIOUS
  <2>2. PICK low : low = prf[2 * x - 1]
    OBVIOUS
  <2>3. PICK side : side = prf[2 * x]
    OBVIOUS
  <2>4. PICK v : v = prf[2 * x + 1]
    OBVIOUS
  <2>5. HashOf(T, v)
    BY <1>6, <2>1, <2>4
  <2>6. v = Hash(<<low, side>>) \/ v = Hash(<<side, low>>)
    BY <1>4, <2>1, <2>2, <2>3, <2>4
  <2>7. \A i \in 1..Len(p) : v # Hash(p[i])
    <3> TAKE i \in 1..Len(p)
    <3> SUFFICES ASSUME v = Hash(p[i]) PROVE FALSE
      OBVIOUS
    <3>1. p[i] = <<low, side>> \/ p[i] = <<side, low>>
      BY <2>6, HashInjective
    <3> QED  BY <3>1 DEF Atomic
  <2>8. PICK l, r : v = Hash(<<l, r>>) /\ HashOf(T, l) /\ HashOf(T, r)
    <3>1. Composed(T, p, v)
      BY <2>5, HashOfTree
    <3> QED  BY <2>7, <3>1 DEF Composed
  <2>9. <<l, r>> = <<low, side>> \/ <<l, r>> = <<side, low>>
    BY <2>6, <2>8, HashInjective
  <2>10. low = l \/ low = r
    BY <2>9
  <2>11. HashOf(T, low)
    BY <2>8, <2>10
  <2>12. 2 * (h - k) + 1 = 2 * x - 1
    BY <2>1
  <2> QED  BY <2>2, <2>11, <2>12
<1>7. h \in M
  <2> HIDE DEF M
  <2> QED  BY <1>5, <1>6, UpTo
<1>8. HashOf(T, prf[1])
  <2>1. 2 * (h - h) + 1 = 1
    OBVIOUS
  <2> QED  BY <1>7, <2>1
<1> HIDE DEF M
<1>9. \A l, r : prf[1] # Hash(<<l, r>>)
  BY <1>4, HashInjective
<1>10. PICK i \in 1..Len(p) : prf[1] = Hash(p[i])
  <2>1. PICK v : v = prf[1]
    OBVIOUS
  <2>2. HashOf(T, v)
    BY <1>8, <2>1
  <2>3. Composed(T, p, v)
    BY <2>2, HashOfTree
  <2> QED  BY <1>9, <2>1, <2>3 DEF Composed
<1>11. digest = p[i]
  BY <1>4, <1>10, HashInjective
<1> QED  BY <1>11

-----------------------------------------------------------------------------
(* The chain.                                                              *)

\* A digest is one value and no pair: what a leaf hashes, a digest of 64
\* characters, is never what an inner node hashes, two of them in a row.
DigestsAtomic == \A b \in DOMAIN Sender : \A x, y : b # <<x, y>>

Fields == {"index", "m_tree_root", "miner", "pre_hash", "bloom"}

IsBlock(b) == DOMAIN b = Fields /\ b = [x \in Fields |-> b[x]]

\* What get_hash covers.
SameHeader(b, c) == /\ b.index = c.index /\ b.m_tree_root = c.m_tree_root
                    /\ b.miner = c.miner /\ b.pre_hash = c.pre_hash

\* Two blocks have one hash if they differ in their filters only.
LEMMA HashIsHeader ==
    ASSUME NEW b, NEW c, IsBlock(b), IsBlock(c)
    PROVE  GetHash(b) = GetHash(c) <=> SameHeader(b, c)
<1> DEFINE f == [b EXCEPT !.bloom = "BloomFilter()"]
           g == [c EXCEPT !.bloom = "BloomFilter()"]
<1>1. /\ DOMAIN f = Fields /\ f = [x \in Fields |-> f[x]]
      /\ f.index = b.index /\ f.m_tree_root = b.m_tree_root
      /\ f.miner = b.miner /\ f.pre_hash = b.pre_hash /\ f.bloom = "BloomFilter()"
  BY DEF IsBlock, Fields
<1>2. /\ DOMAIN g = Fields /\ g = [x \in Fields |-> g[x]]
      /\ g.index = c.index /\ g.m_tree_root = c.m_tree_root
      /\ g.miner = c.miner /\ g.pre_hash = c.pre_hash /\ g.bloom = "BloomFilter()"
  BY DEF IsBlock, Fields
<1>3. GetHash(b) = Hash(f) /\ GetHash(c) = Hash(g)
  BY DEF GetHash
<1> HIDE DEF f, g
<1>4. Hash(f) = Hash(g) <=> f = g
  BY HashInjective
<1>5. f = g => SameHeader(b, c)
  BY <1>1, <1>2 DEF SameHeader
<1>6. SameHeader(b, c) => f = g
  <2> SUFFICES ASSUME SameHeader(b, c) PROVE f = g
    OBVIOUS
  <2>1. \A x \in Fields : f[x] = g[x]
    BY <1>1, <1>2 DEF SameHeader, Fields
  <2> QED  BY <1>1, <1>2, <2>1
<1> QED  BY <1>3, <1>4, <1>5, <1>6

\* The root of a block without batches is no hash.
LEMMA HashIsRoot == \A x : Hash(x) # NoRoot
<1> TAKE x
<1>1. DOMAIN Hash(x) = {"sha256"} /\ DOMAIN NoRoot = {"none"}
  BY DEF Hash, NoRoot
<1>2. "sha256" # "none"
  OBVIOUS
<1> QED  BY <1>1, <1>2

\* Packages with equal roots are equal.
LEMMA RootPins ==
    ASSUME DigestsAtomic, NEW p \in Package, NEW q \in Package, Root[p] = Root[q]
    PROVE  p = q
<1>1. p \in Seq(DOMAIN Sender) /\ q \in Seq(DOMAIN Sender)
  BY BlockAssumption
<1>2. Root[p] = BuildMerkleTree(p) /\ Root[q] = BuildMerkleTree(q)
  BY DEF Root
<1>3. ASSUME NEW s \in Seq(DOMAIN Sender), s # <<>>
      PROVE  /\ Len(s) >= 1 /\ Atomic(s) /\ BuildMerkleTree(s) = RootHash(s)
             /\ BuildMerkleTree(s) # NoRoot
  <2>1. Len(s) >= 1
    <3>1. PICK n \in Nat \ {0} : n = Len(s)
      BY <1>3, EmptySeq
    <3> QED  BY <3>1
  <2>2. Atomic(s)
    BY ElementOfSeq DEF Atomic, DigestsAtomic
  <2>3. BuildMerkleTree(s) = RootHash(s)
    BY <1>3 DEF BuildMerkleTree
  <2>4. \E x : RootHash(s) = Hash(x)
    <3>1. PICK T : Grounded(T, s) /\ <<RootHash(s), 1, Len(s)>> \in T
      BY <2>1, RootGrounded
    <3>2. Grounds(T, s, RootHash(s), 1, Len(s))
      BY <3>1 DEF Grounded
    <3> QED  BY <3>2 DEF Grounds
  <2>5. \A x : Hash(x) # NoRoot
    BY HashIsRoot
  <2> QED  BY <2>1, <2>2, <2>3, <2>4, <2>5
<1>4. BuildMerkleTree(<<>>) = NoRoot
  BY DEF BuildMerkleTree
<1>5. CASE p = <<>> \/ q = <<>>
  BY <1>1, <1>2, <1>3, <1>4, <1>5
<1>6. CASE p # <<>> /\ q # <<>>
  <2>1. RootHash(p) = RootHash(q) /\ Len(p) >= 1 /\ Len(q) >= 1 /\ Atomic(p) /\ Atomic(q)
    BY <1>1, <1>2, <1>3, <1>6
  <2> QED  BY <1>1, <2>1, RootInjective
<1> QED  BY <1>5, <1>6

\* Block k, made on the block before it in the chain.
Linkage(k) ==
    /\ IsBlock(blocks[k]) /\ DOMAIN made[k] = {"parent", "batches", "items"}
    /\ made[k].batches \in Package
    /\ blocks[k].m_tree_root = Root[made[k].batches]
    /\ blocks[k].index \in 0..k - 1
    /\ IF k = 1 THEN blocks[k].index = 0
       ELSE /\ made[k].parent \in 1..k - 1
            /\ blocks[k].index = blocks[made[k].parent].index + 1
            /\ blocks[k].pre_hash = GetHash(blocks[made[k].parent])

ChainInv ==
    /\ Listed(blocks) /\ Listed(made) /\ Len(blocks) = Len(made) /\ Len(blocks) >= 1
    /\ \A k \in 1..Len(blocks) : Linkage(k)

\* A record with a field changed.
LEMMA OtherFields ==
    ASSUME NEW b, IsBlock(b), NEW f
    PROVE  /\ IsBlock([b EXCEPT !.bloom = f])
           /\ SameHeader([b EXCEPT !.bloom = f], b)
BY DEF IsBlock, SameHeader, Fields

\* Steps that change filters only keep the chain.
LEMMA KeepChain ==
    ASSUME ChainInv,
           Listed(blocks'), Listed(made'), Len(blocks') = Len(blocks), Len(made') = Len(made),
           \A k \in 1..Len(blocks) : /\ IsBlock(blocks'[k]) /\ SameHeader(blocks'[k], blocks[k])
                                     /\ DOMAIN made'[k] = DOMAIN made[k]
                                     /\ made'[k].parent = made[k].parent
                                     /\ made'[k].batches = made[k].batches
    PROVE  ChainInv'
<1>1. ASSUME NEW k \in 1..Len(blocks)
      PROVE  Linkage(k)'
  <2>1. Linkage(k)
    BY DEF ChainInv
  <2>2. /\ IsBlock(blocks'[k]) /\ SameHeader(blocks'[k], blocks[k])
        /\ DOMAIN made'[k] = DOMAIN made[k]
        /\ made'[k].parent = made[k].parent
        /\ made'[k].batches = made[k].batches
    OBVIOUS
  <2>3. CASE k = 1
    BY <2>1, <2>2, <2>3 DEF Linkage, SameHeader, Root
  <2>4. CASE k # 1
    <3>1. PICK j : j = made[k].parent
      OBVIOUS
    <3>2. Len(blocks) \in Nat
      BY DEF ChainInv, Listed
    <3>3. j \in 1..k - 1 /\ j \in 1..Len(blocks)
      BY <2>1, <2>4, <3>1, <3>2 DEF Linkage
    <3>4. GetHash(blocks'[j]) = GetHash(blocks[j])
      <4>1. IsBlock(blocks[j])
        BY <3>3 DEF ChainInv, Linkage
      <4> QED  BY <3>3, <4>1, HashIsHeader
    <3>5. blocks'[j].index = blocks[j].index
      BY <3>3 DEF SameHeader
    <3> QED  BY <2>1, <2>2, <2>4, <3>1, <3>3, <3>4, <3>5 DEF Linkage, SameHeader, Root, GetHash
  <2> QED  BY <2>3, <2>4
<1> QED  BY <1>1 DEF ChainInv

\* A sequence with an entry changed.
Changed(s, k, e) == [s EXCEPT ![k] = e]

\* It has the other entries.
LEMMA ListedChange ==
    ASSUME NEW s, Listed(s), NEW k \in 1..Len(s), NEW e, NEW t, t = Changed(s, k, e)
    PROVE  /\ Listed(t) /\ Len(t) = Len(s)
           /\ \A j \in 1..Len(s) : t[j] = IF j = k THEN e ELSE s[j]
<1>1. PICK S : s \in Seq(S)
  BY DEF Listed
<1>2. PICK U : s \in Seq(U) /\ e \in U
  <2>1. s \in Seq(S \cup {e}) /\ e \in S \cup {e}
    BY <1>1, SeqMonotonic
  <2> QED  BY <2>1
<1>3. /\ t \in Seq(U) /\ Len(t) = Len(s)
      /\ \A j \in 1..Len(s) : t[j] = IF j = k THEN e ELSE s[j]
  BY <1>2, ExceptSeq DEF Changed
<1> QED  BY <1>3 DEF Listed

\* A sequence with an entry added.
LEMMA ListedMore ==
    ASSUME NEW s, Listed(s), NEW e
    PROVE  /\ Listed(Append(s, e)) /\ Len(Append(s, e)) = Len(s) + 1
           /\ \A j \in 1..Len(s) : Append(s, e)[j] = s[j]
           /\ Append(s, e)[Len(s) + 1] = e
<1>1. PICK S : s \in Seq(S)
  BY DEF Listed
<1>2. s \in Seq(S \cup {e}) /\ e \in S \cup {e}
  BY <1>1, SeqMonotonic
<1>3. /\ Append(s, e) \in Seq(S \cup {e}) /\ Len(Append(s, e)) = Len(s) + 1
      /\ \A j \in 1..Len(s) : Append(s, e)[j] = s[j]
      /\ Append(s, e)[Len(s) + 1] = e
  BY <1>2, AppendProperties
<1> QED  BY <1>3 DEF Listed

\* A filter changes, and perhaps the list of what was added to it.
LEMMA FilterChangeKeepsChain ==
    ASSUME ChainInv, NEW k \in 1..Len(blocks), NEW f,
           blocks' = [blocks EXCEPT ![k].bloom = f],
           \/ UNCHANGED made
           \/ \E items : made' = [made EXCEPT ![k].items = items]
    PROVE  ChainInv'
<1> DEFINE b == [blocks[k] EXCEPT !.bloom = f]
<1>1. PICK n \in Nat : n = Len(blocks) /\ n = Len(made) /\ k \in 1..n
  BY DEF ChainInv, Listed
<1>2. blocks' = [blocks EXCEPT ![k] = b]
  OBVIOUS
<1>3. IsBlock(b) /\ SameHeader(b, blocks[k])
  BY OtherFields DEF ChainInv, Linkage
<1> HIDE DEF b
<1>4. /\ Listed(blocks') /\ Len(blocks') = n
      /\ \A j \in 1..n : blocks'[j] = IF j = k THEN b ELSE blocks[j]
  <2>1. PICK s : s = blocks
    OBVIOUS
  <2>2. PICK e : e = b
    OBVIOUS
  <2>3. Listed(s) /\ Len(s) = n
    BY <1>1, <2>1 DEF ChainInv
  <2>4. PICK t : t = Changed(s, k, e)
    OBVIOUS
  <2>5. /\ Listed(t) /\ Len(t) = n
        /\ \A j \in 1..n : t[j] = IF j = k THEN e ELSE s[j]
    BY <1>1, <2>3, <2>4, ListedChange
  <2>6. blocks' = t
    BY <1>2, <2>1, <2>2, <2>4 DEF Changed
  <2> QED  BY <2>1, <2>2, <2>5, <2>6
<1>5. \A j \in 1..n : IsBlock(blocks'[j]) /\ SameHeader(blocks'[j], blocks[j])
  <2> TAKE j \in 1..n
  <2>1. IsBlock(blocks[j]) /\ SameHeader(blocks[j], blocks[j])
    BY <1>1 DEF ChainInv, Linkage, SameHeader
  <2> QED  BY <1>3, <1>4, <2>1
<1>6. /\ Listed(made') /\ Len(made') = n
      /\ \A j \in 1..n : /\ DOMAIN made'[j] = DOMAIN made[j]
                         /\ made'[j].parent = made[j].parent
                         /\ made'[j].batches = made[j].batches
  <2>1. CASE UNCHANGED made
    BY <1>1, <2>1 DEF ChainInv
  <2>2. ASSUME NEW items, made' = [made EXCEPT ![k].items = items]
        PROVE  /\ Listed(made') /\ Len(made') = n
               /\ \A j \in 1..n : /\ DOMAIN made'[j] = DOMAIN made[j]
                                  /\ made'[j].parent = made[j].parent
                                  /\ made'[j].batches = made[j].batches
    <3> DEFINE m == [made[k] EXCEPT !.items = items]
    <3>1. made' = [made EXCEPT ![k] = m]
      BY <2>2
    <3>2. /\ DOMAIN m = DOMAIN made[k] /\ m.parent = made[k].parent
          /\ m.batches = made[k].batches
      <4>1. DOMAIN made[k] = {"parent", "batches", "items"}
        BY DEF ChainInv, Linkage
      <4> QED  BY <4>1
    <3> HIDE DEF m
    <3>3. PICK s : s = made
      OBVIOUS
    <3>4. PICK e : e = m
      OBVIOUS
    <3>5. Listed(s) /\ Len(s) = n
      BY <1>1, <3>3 DEF ChainInv
    <3>a. PICK t : t = Changed(s, k, e)
      OBVIOUS
    <3>6. /\ Listed(t) /\ Len(t) = n
          /\ \A j \in 1..n : t[j] = IF j = k THEN e ELSE s[j]
      BY <1>1, <3>5, <3>a, ListedChange
    <3>b. made' = t
      BY <3>1, <3>3, <3>4, <3>a DEF Changed
    <3>7. /\ Listed(made') /\ Len(made') = n
          /\ \A j \in 1..n : made'[j] = IF j = k THEN m ELSE made[j]
      BY <3>3, <3>4, <3>6, <3>b
    <3> QED  BY <3>2, <3>7
  <2> QED  BY <2>1, <2>2
<1> QED  BY <1>1, <1>4, <1>5, <1>6, KeepChain

\* A block is made on a block.
LEMMA CreateKeepsChain ==
    ASSUME ChainInv, NEW k \in 1..Len(blocks), NEW batches \in Package,
           NEW miner \in Miner, CreateBlock(k, batches, miner)
    PROVE  ChainInv'
<1> DEFINE new == NewBlock(blocks[k].index + 1, batches, miner, GetHash(blocks[k]))
           entry == [parent |-> k, batches |-> batches,
                     items |-> ExtractSenderAddresses(batches)]
<1>1. PICK n \in Nat : n = Len(blocks) /\ n = Len(made) /\ k \in 1..n
  BY DEF ChainInv, Listed
<1>2. blocks' = Append(blocks, new) /\ made' = Append(made, entry)
  BY DEF CreateBlock
<1>3. /\ IsBlock(new) /\ new.index = blocks[k].index + 1
      /\ new.m_tree_root = Root[batches] /\ new.pre_hash = GetHash(blocks[k])
  BY DEF NewBlock, IsBlock, Fields
<1>4. /\ DOMAIN entry = {"parent", "batches", "items"}
      /\ entry.parent = k /\ entry.batches = batches
  OBVIOUS
<1> HIDE DEF new, entry
<1>5. /\ Listed(blocks') /\ Len(blocks') = n + 1
      /\ \A j \in 1..n : blocks'[j] = blocks[j]
      /\ blocks'[n + 1] = new
  <2>1. PICK s : s = blocks
    OBVIOUS
  <2>2. PICK e : e = new
    OBVIOUS
  <2>3. Listed(s) /\ Len(s) = n
    BY <1>1, <2>1 DEF ChainInv
  <2>4. /\ Listed(Append(s, e)) /\ Len(Append(s, e)) = n + 1
        /\ \A j \in 1..n : Append(s, e)[j] = s[j]
        /\ Append(s, e)[n + 1] = e
    BY <2>3, ListedMore
  <2> QED  BY <1>2, <2>1, <2>2, <2>4
<1>6. /\ Listed(made') /\ Len(made') = n + 1
      /\ \A j \in 1..n : made'[j] = made[j]
      /\ made'[n + 1] = entry
  <2>1. PICK s : s = made
    OBVIOUS
  <2>2. PICK e : e = entry
    OBVIOUS
  <2>3. Listed(s) /\ Len(s) = n
    BY <1>1, <2>1 DEF ChainInv
  <2>4. /\ Listed(Append(s, e)) /\ Len(Append(s, e)) = n + 1
        /\ \A j \in 1..n : Append(s, e)[j] = s[j]
        /\ Append(s, e)[n + 1] = e
    BY <2>3, ListedMore
  <2> QED  BY <1>2, <2>1, <2>2, <2>4
<1>7. ASSUME NEW j \in 1..n
      PROVE  Linkage(j)'
  <2>1. Linkage(j)
    BY <1>1 DEF ChainInv
  <2>2. blocks'[j] = blocks[j] /\ made'[j] = made[j]
    BY <1>5, <1>6
  <2>3. CASE j = 1
    BY <2>1, <2>2, <2>3 DEF Linkage, Root
  <2>4. CASE j # 1
    <3>1. PICK i : i = made[j].parent
      OBVIOUS
    <3>2. i \in 1..j - 1 /\ i \in 1..n
      BY <2>1, <2>4, <3>1 DEF Linkage
    <3>3. blocks'[i] = blocks[i]
      BY <1>5, <3>2
    <3>4. GetHash(blocks'[i]) = GetHash(blocks[i])
      BY <3>3
    <3> QED  BY <2>1, <2>2, <2>4, <3>1, <3>2, <3>3, <3>4 DEF Linkage, Root, GetHash
  <2> QED  BY <2>3, <2>4
<1>8. Linkage(n + 1)'
  <2>1. n + 1 # 1 /\ k \in 1..(n + 1) - 1
    BY <1>1
  <2>2. blocks[k].index \in 0..k - 1
    BY DEF ChainInv, Linkage
  <2>3. blocks'[k] = blocks[k]
    BY <1>1, <1>5
  <2>4. PICK x : x = blocks[k].index
    OBVIOUS
  <2>5. x + 1 \in 0..(n + 1) - 1
    BY <1>1, <2>2, <2>4
  <2>6. PICK b : b = blocks'[n + 1]
    OBVIOUS
  <2>7. PICK m : m = made'[n + 1]
    OBVIOUS
  <2>8. /\ IsBlock(b) /\ b.index = x + 1
        /\ b.m_tree_root = Root[batches] /\ b.pre_hash = GetHash(blocks[k])
    BY <1>3, <1>5, <2>4, <2>6
  <2>9. /\ DOMAIN m = {"parent", "batches", "items"}
        /\ m.parent = k /\ m.batches = batches
    BY <1>4, <1>6, <2>7
  <2>10. b.pre_hash = GetHash(blocks'[k]) /\ blocks'[k].index = x
    BY <2>3, <2>4, <2>8
  <2> QED  BY <2>1, <2>5, <2>6, <2>7, <2>8, <2>9, <2>10 DEF Linkage, Root, GetHash
<1>9. \A j \in 1..n + 1 : Linkage(j)'
  <2> TAKE j \in 1..n + 1
  <2>1. j \in 1..n \/ j = n + 1
    BY <1>1
  <2> QED  BY <1>7, <1>8, <2>1
<1>10. n + 1 >= 1
  OBVIOUS
<1> QED  BY <1>5, <1>6, <1>9, <1>10 DEF ChainInv

\* The chain at the start.
LEMMA ChainInit ==
    ASSUME Init
    PROVE  ChainInv
<1>1. PICK miner \in Miner : blocks = <<NewBlock(0, <<>>, miner, NoHash)>>
  BY DEF Init
<1>2. PICK b : b = NewBlock(0, <<>>, miner, NoHash)
  OBVIOUS
<1>3. IsBlock(b) /\ b.index = 0 /\ b.m_tree_root = Root[<<>>]
  BY <1>2 DEF NewBlock, IsBlock, Fields
<1>4. PICK m : m = [parent |-> 0, batches |-> <<>>, items |-> {}]
  OBVIOUS
<1>5. DOMAIN m = {"parent", "batches", "items"} /\ m.batches = <<>>
  BY <1>4
<1>6. blocks = <<b>> /\ made = <<m>>
  BY <1>1, <1>2, <1>4 DEF Init
<1>7. /\ Listed(blocks) /\ Len(blocks) = 1 /\ blocks[1] = b
      /\ Listed(made) /\ Len(made) = 1 /\ made[1] = m
  BY <1>6, ListedOne
<1>8. Linkage(1)
  BY <1>3, <1>5, <1>7, BlockAssumption DEF Linkage
<1>9. \A k \in 1..1 : Linkage(k)
  BY <1>8
<1> QED  BY <1>7, <1>9 DEF ChainInv

\* Every step keeps the chain.
LEMMA ChainStep ==
    ASSUME ChainInv, [Next]_vars
    PROVE  ChainInv'
<1>1. CASE UNCHANGED vars
  BY <1>1 DEF vars, ChainInv, Linkage, Root, GetHash
<1>2. ASSUME NEW k \in 1..Len(blocks), NEW batches \in Package, NEW miner \in Miner,
             CreateBlock(k, batches, miner)
      PROVE  ChainInv'
  BY <1>2, CreateKeepsChain
<1>3. ASSUME NEW k \in 1..Len(blocks),
             \/ \E item \in Item : AddItemToBloom(k, item)
             \/ IsInBloom(k) \/ GetStatistics(k) \/ BlockToJson(k) \/ ReadBack(k)
      PROVE  ChainInv'
  <2>1. /\ \E f : blocks' = [blocks EXCEPT ![k].bloom = f]
        /\ UNCHANGED made \/ \E items : made' = [made EXCEPT ![k].items = items]
    BY <1>3 DEF AddItemToBloom, IsInBloom, GetStatistics, BlockToJson, ReadBack
  <2> QED  BY <2>1, FilterChangeKeepsChain
<1> QED  BY <1>1, <1>2, <1>3 DEF Next

\* Init establishes it and every step keeps it.
LEMMA ChainInvariant == Spec => []ChainInv
<1>1. Init => ChainInv
  BY ChainInit
<1>2. ChainInv /\ [Next]_vars => ChainInv'
  BY ChainStep
<1> QED  BY <1>1, <1>2, PTL DEF Spec

-----------------------------------------------------------------------------
(* Proofs for the batches of a block.                                      *)

\* The root and the proofs of a package with batches.
LEMMA PackageIs ==
    ASSUME NEW p \in Package, p # <<>>
    PROVE  /\ p \in Seq(DOMAIN Sender) /\ Len(p) >= 1
           /\ Root[p] = RootHash(p) /\ Proofs[p] = PrfList(p)
           /\ DigestsAtomic => Atomic(p)
<1>1. p \in Seq(DOMAIN Sender)
  BY BlockAssumption
<1>2. Len(p) >= 1
  <2>1. PICK n \in Nat \ {0} : n = Len(p)
    BY <1>1, EmptySeq
  <2> QED  BY <2>1
<1>3. Root[p] = RootHash(p)
  BY DEF Root, BuildMerkleTree
<1>4. Proofs[p] = PrfList(p)
  BY DEF Proofs
<1>5. DigestsAtomic => Atomic(p)
  BY <1>1, ElementOfSeq DEF Atomic, DigestsAtomic
<1> QED  BY <1>1, <1>2, <1>3, <1>4, <1>5

\* The proof of each batch of each block is accepted for the block's root, for
\* every number of batches.
THEOREM MembersAccepted == Spec => []MembersProve
<1>1. ASSUME ChainInv, NEW k \in 1..Len(blocks), NEW i \in 1..Len(made[k].batches)
      PROVE  CheckPrf(Proofs[made[k].batches][i], made[k].batches[i], blocks[k].m_tree_root)
  <2>1. PICK p : p = made[k].batches
    OBVIOUS
  <2>2. p \in Package /\ blocks[k].m_tree_root = Root[p] /\ i \in 1..Len(p)
    BY <1>1, <2>1 DEF ChainInv, Linkage
  <2>3. p # <<>>
    <3>1. ASSUME p = <<>> PROVE FALSE
      BY <2>2, <3>1, EmptySeq
    <3> QED  BY <3>1
  <2>4. /\ p \in Seq(DOMAIN Sender) /\ Len(p) >= 1
        /\ Root[p] = RootHash(p) /\ Proofs[p] = PrfList(p)
    BY <2>2, <2>3, PackageIs
  <2>5. PICK prf : prf = PrfList(p)[i]
    OBVIOUS
  <2>6. PICK d : d = p[i]
    OBVIOUS
  <2>7. PICK root : root = RootHash(p)
    OBVIOUS
  <2>8. Reaches(prf, d, root)
    BY <2>2, <2>4, <2>5, <2>6, <2>7, PrfListReaches
  <2>9. CheckPrf(prf, d, root)
    BY <2>8, ReachesChecks
  <2> QED  BY <2>1, <2>2, <2>4, <2>5, <2>6, <2>7, <2>9
<1>2. ChainInv => MembersProve
  BY <1>1 DEF MembersProve
<1> QED  BY <1>2, ChainInvariant, PTL

\* What may be offered as a proof is a sequence.
LEMMA CandidateIsListed ==
    ASSUME NEW p \in Package, p # <<>>, NEW prf \in Candidates(p)
    PROVE  Listed(prf)
<1>1. /\ p \in Seq(DOMAIN Sender) /\ Len(p) >= 1
      /\ Proofs[p] = PrfList(p)
  BY PackageIs
<1>2. ASSUME NEW real \in ToSet(Proofs[p])
      PROVE  Listed(real)
  <2>1. PICK q : q = PrfList(p)
    OBVIOUS
  <2>2. PICK i \in 1..Len(p) : real = q[i]
    BY <1>1, <2>1, PrfListReaches DEF ToSet
  <2>3. Reaches(real, p[i], RootHash(p))
    BY <1>1, <2>1, <2>2, PrfListReaches
  <2> QED  BY <2>3 DEF Reaches
<1>3. ASSUME NEW real \in ToSet(Proofs[p]), NEW i \in 1..Len(real), NEW h
      PROVE  Listed(ReplaceAt(real, i, h))
  <2>1. Listed(real)
    BY <1>2
  <2>2. PICK t : t = Changed(real, i, h)
    OBVIOUS
  <2>3. Listed(t)
    BY <2>1, <2>2, ListedChange
  <2> QED  BY <2>2, <2>3 DEF Changed, ReplaceAt
<1>4. ASSUME NEW real \in ToSet(Proofs[p]), NEW i \in 1..Len(real), NEW j \in 1..Len(real)
      PROVE  Listed(SubSeq(real, i, j))
  <2>1. PICK S : real \in Seq(S)
    BY <1>2 DEF Listed
  <2>2. Len(real) \in Nat
    BY <2>1, LenProperties
  <2>3. i \in Int /\ j \in Int /\ \A x \in i..j : x \in 1..Len(real)
    BY <2>2
  <2>4. \A x \in i..j : real[x] \in S
    BY <2>1, <2>3, ElementOfSeq
  <2>5. SubSeq(real, i, j) \in Seq(S)
    BY <2>3, <2>4, SubSeqProperties
  <2> QED  BY <2>5 DEF Listed
<1> DEFINE proofs == ToSet(Proofs[p])
           hashes == (UNION {ToSet(r) : r \in proofs}) \cup {Hash(b) : b \in DOMAIN Sender}
           altered(r) == {ReplaceAt(r, i, h) : i \in 1..Len(r), h \in hashes}
           part(r) == {SubSeq(r, i, j) : i, j \in 1..Len(r)}
<1>5. Candidates(p) = (UNION {altered(r) : r \in proofs}) \cup UNION {part(r) : r \in proofs}
  BY DEF Candidates
<1>6. PICK real \in ToSet(Proofs[p]) : prf \in altered(real) \/ prf \in part(real)
  <2> HIDE DEF proofs, altered, part
  <2>1. PICK real \in proofs : prf \in altered(real) \/ prf \in part(real)
    BY <1>5
  <2> QED  BY <2>1 DEF proofs
<1>7. CASE prf \in altered(real)
  <2> HIDE DEF hashes
  <2>1. PICK i \in 1..Len(real), h \in hashes : prf = ReplaceAt(real, i, h)
    BY <1>7
  <2> QED  BY <1>3, <1>6, <2>1
<1>8. CASE prf \in part(real)
  <2>1. PICK i \in 1..Len(real), j \in 1..Len(real) : prf = SubSeq(real, i, j)
    BY <1>8
  <2> QED  BY <1>4, <1>6, <2>1
<1> QED  BY <1>6, <1>7, <1>8

\* No sequence is accepted as the proof of a digest for the root of a package
\* that the digest is not in.
LEMMA ForgeryFails ==
    ASSUME DigestsAtomic, NEW p \in Package, NEW prf, Listed(prf),
           NEW b, \A x, y : b # <<x, y>>, CheckPrf(prf, b, Root[p])
    PROVE  b \in ToSet(p)
<1>1. PICK root : root = Root[p]
  OBVIOUS
<1>2. CheckPrf(prf, b, root)
  BY <1>1
<1>3. CASE p = <<>>
  <2>1. root = NoRoot
    BY <1>1, <1>3 DEF Root, BuildMerkleTree
  <2>2. \A x : Hash(x) # root
    BY <2>1, HashIsRoot
  <2>3. PICK n \in Nat : n = Len(prf)
    BY DEF Listed
  <2>4. PICK h \in Nat : n = 2 * h + 1 /\ n \div 2 = h
    <3>1. n % 2 = 1
      BY <1>2, <2>3 DEF CheckPrf
    <3> QED  BY <3>1
  <2>5. CASE h = 0
    <3>1. prf[1] = Hash(b) /\ prf[1] = root
      BY <1>2, <2>3, <2>4, <2>5 DEF CheckPrf
    <3> QED  BY <2>2, <3>1
  <2>6. CASE h # 0
    <3>1. h \in 1..Len(prf) \div 2 /\ prf[2 * h + 1] = root
      BY <1>2, <2>3, <2>4, <2>6 DEF CheckPrf
    <3>2. \E x : root = Hash(x)
      BY <1>2, <3>1 DEF CheckPrf
    <3> QED  BY <2>2, <3>2
  <2> QED  BY <2>5, <2>6
<1>4. CASE p # <<>>
  <2>1. /\ p \in Seq(DOMAIN Sender) /\ Len(p) >= 1
        /\ Root[p] = RootHash(p) /\ Atomic(p)
    BY <1>4, PackageIs
  <2>2. PICK T : Grounded(T, p) /\ HashOf(T, root)
    BY <1>1, <2>1, RootGrounded DEF HashOf
  <2>3. Len(p) \in Nat
    BY <2>1, LenProperties
  <2>4. \E i \in 1..Len(p) : b = p[i]
    BY <1>2, <2>1, <2>2, <2>3, AcceptedIsMember
  <2> QED  BY <2>1, <2>4, LenProperties DEF ToSet
<1> QED  BY <1>3, <1>4

\* Only batches of a package have an accepted proof.
LEMMA AcceptedInPackage ==
    ASSUME DigestsAtomic, NEW p \in Package
    PROVE  Accepted[p] \subseteq ToSet(p)
<1>1. Accepted[p] = {b \in DOMAIN Sender : \E prf \in Candidates(p) : CheckPrf(prf, b, Root[p])}
  BY DEF Accepted
<1>2. CASE p = <<>>
  <2>1. Proofs[p] = <<>>
    BY <1>2 DEF Proofs
  <2>2. ToSet(Proofs[p]) = {}
    BY <2>1 DEF ToSet
  <2>3. Candidates(p) = {}
    BY <2>2 DEF Candidates
  <2> QED  BY <1>1, <2>3
<1>3. CASE p # <<>>
  <2> SUFFICES ASSUME NEW b \in DOMAIN Sender, NEW prf \in Candidates(p),
                      CheckPrf(prf, b, Root[p])
               PROVE  b \in ToSet(p)
    BY <1>1
  <2>1. Listed(prf)
    BY <1>3, CandidateIsListed
  <2>2. \A x, y : b # <<x, y>>
    BY DEF DigestsAtomic
  <2> QED  BY <2>1, <2>2, ForgeryFails
<1> QED  BY <1>2, <1>3

\* No part and no one-element alteration of the proofs of a block is accepted
\* for a batch that is not in it.
THEOREM OnlyMembersAccepted ==
    ASSUME DigestsAtomic
    PROVE  Spec => []OnlyMembersProve
<1>1. ChainInv => OnlyMembersProve
  <2> SUFFICES ASSUME ChainInv, NEW k \in 1..Len(blocks)
               PROVE  Accepted[made[k].batches] \subseteq ToSet(made[k].batches)
    BY DEF OnlyMembersProve
  <2>1. PICK p : p = made[k].batches
    OBVIOUS
  <2>2. p \in Package
    BY <2>1 DEF ChainInv, Linkage
  <2> QED  BY <2>1, <2>2, AcceptedInPackage
<1> QED  BY <1>1, ChainInvariant, PTL

\* The same of every sequence that could be offered, and of every digest.
Unforgeable ==
    \A k \in 1..Len(blocks) : \A prf, b :
        Listed(prf) /\ (\A x, y : b # <<x, y>>) /\ CheckPrf(prf, b, blocks[k].m_tree_root)
            => b \in ToSet(made[k].batches)

\* Whatever sequence is offered as a proof, it is accepted for a batch of the
\* block or not at all; for a block without batches none is.
THEOREM NobodyElseProves ==
    ASSUME DigestsAtomic
    PROVE  Spec => []Unforgeable
<1>1. ChainInv => Unforgeable
  <2> SUFFICES ASSUME ChainInv, NEW k \in 1..Len(blocks), NEW prf, NEW b,
                      Listed(prf), \A x, y : b # <<x, y>>,
                      CheckPrf(prf, b, blocks[k].m_tree_root)
               PROVE  b \in ToSet(made[k].batches)
    BY DEF Unforgeable
  <2>1. PICK p : p = made[k].batches
    OBVIOUS
  <2>2. p \in Package /\ blocks[k].m_tree_root = Root[p]
    BY <2>1 DEF ChainInv, Linkage
  <2> QED  BY <2>1, <2>2, ForgeryFails
<1> QED  BY <1>1, ChainInvariant, PTL

-----------------------------------------------------------------------------
(* The history of a block.                                                 *)

\* The ancestors of generation d, from those of the generation before.
Generation(h, d) ==
    [k \in 1..Len(blocks) |->
        IF d = 0 \/ k = 1 THEN k ELSE h[d - 1][made[k].parent]]

Descends(h, m) == \A d \in 0..m : h[d] = Generation(h, d)

\* The generations can be listed.
LEMMA GenerationsExist ==
    ASSUME NEW n \in Nat
    PROVE  \E h : Descends(h, n)
<1> DEFINE T == {m \in 0..n : \E h : Descends(h, m)}
<1>1. 0 \in T
  <2> DEFINE first == [k \in 1..Len(blocks) |-> k]
             h == [d \in {0} |-> first]
  <2>1. h[0] = first /\ first = Generation(h, 0)
    BY DEF Generation
  <2> HIDE DEF h, first
  <2>2. Descends(h, 0)
    BY <2>1 DEF Descends
  <2> QED  BY <2>2
<1>2. ASSUME NEW m \in 1..n, m - 1 \in T
      PROVE  m \in T
  <2>1. PICK g : Descends(g, m - 1)
    BY <1>2
  <2>2. PICK new : new = Generation(g, m)
    OBVIOUS
  <2> DEFINE h == [d \in 0..m |-> IF d = m THEN new ELSE g[d]]
  <2>3. \A d \in 0..m : h[d] = Generation(h, d)
    <3> TAKE d \in 0..m
    <3>1. d = 0 \/ h[d - 1] = g[d - 1]
      OBVIOUS
    <3>2. h[d] = IF d = m THEN new ELSE g[d]
      OBVIOUS
    <3> HIDE DEF h
    <3>3. Generation(h, d) = Generation(g, d)
      BY <3>1 DEF Generation
    <3>4. CASE d = m
      BY <2>2, <3>2, <3>3, <3>4
    <3>5. CASE d # m
      <4>1. d \in 0..m - 1
        BY <3>5
      <4> QED  BY <2>1, <3>2, <3>3, <3>5, <4>1 DEF Descends
    <3> QED  BY <3>4, <3>5
  <2> HIDE DEF h
  <2>4. Descends(h, m)
    BY <2>3 DEF Descends
  <2> QED  BY <2>4
<1> HIDE DEF T
<1>3. n \in T
  BY <1>1, <1>2, UpTo
<1> QED  BY <1>3 DEF T

\* The unfolding of the recursion in Ancestors.
Generations(h) ==
    [d \in 0..Len(blocks) |->
        [k \in 1..Len(blocks) |->
            IF d = 0 \/ k = 1 THEN k ELSE h[d - 1][made[k].parent]]]

\* The recursion has a solution, so that Ancestors is one.
LEMMA AncestorsUnfold ==
    ASSUME ChainInv
    PROVE  Ancestors = Generations(Ancestors)
<1>1. PICK n \in Nat : n = Len(blocks)
  BY DEF ChainInv, Listed
<1>2. Ancestors = CHOOSE h : h = Generations(h)
  BY DEF Ancestors, Generations
<1>3. \E h : h = Generations(h)
  <2>1. PICK g : Descends(g, n)
    BY GenerationsExist
  <2> DEFINE h == [d \in 0..n |-> g[d]]
  <2>2. \A d \in 0..n : h[d] = [k \in 1..n |->
            IF d = 0 \/ k = 1 THEN k ELSE h[d - 1][made[k].parent]]
    <3> TAKE d \in 0..n
    <3>1. d = 0 \/ h[d - 1] = g[d - 1]
      OBVIOUS
    <3>2. h[d] = g[d]
      OBVIOUS
    <3> HIDE DEF h
    <3> QED  BY <1>1, <2>1, <3>1, <3>2 DEF Descends, Generation
  <2>3. h = [d \in 0..n |-> h[d]]
    OBVIOUS
  <2> HIDE DEF h
  <2>4. h = Generations(h)
    BY <1>1, <2>2, <2>3 DEF Generations
  <2> QED  BY <2>4
<1> QED  BY <1>2, <1>3

\* The ancestors, generation by generation; genesis is its own.
Lineage(A, n) ==
    /\ \A k \in 1..n : A[0][k] = k
    /\ \A d \in 0..n : A[d][1] = 1
    /\ \A d \in 1..n, k \in 2..n : A[d][k] = A[d - 1][made[k].parent]

\* Ancestors is the history of each block back to genesis.
LEMMA AncestorsAre ==
    ASSUME ChainInv, NEW n \in Nat, n = Len(blocks)
    PROVE  Lineage(Ancestors, n)
<1>1. PICK A : A = Ancestors
  OBVIOUS
<1>2. \A d \in 0..n : A[d] = Generation(A, d)
  <2>1. A = Generations(A)
    BY <1>1, AncestorsUnfold
  <2> QED  BY <2>1 DEF Generations, Generation
<1>3. ASSUME NEW d \in 0..n, NEW k \in 1..n
      PROVE  A[d][k] = IF d = 0 \/ k = 1 THEN k ELSE A[d - 1][made[k].parent]
  <2>1. PICK row : row = A[d]
    OBVIOUS
  <2>2. row = Generation(A, d)
    BY <1>2, <2>1
  <2>3. row[k] = IF d = 0 \/ k = 1 THEN k ELSE A[d - 1][made[k].parent]
    BY <2>2 DEF Generation
  <2> QED  BY <2>1, <2>3
<1>4. \A k \in 1..n : A[0][k] = k
  <2> TAKE k \in 1..n
  <2>1. 0 \in 0..n
    OBVIOUS
  <2> QED  BY <1>3, <2>1
<1>5. \A d \in 0..n : A[d][1] = 1
  <2> TAKE d \in 0..n
  <2>1. 1 \in 1..n
    BY DEF ChainInv
  <2> QED  BY <1>3, <2>1
<1>6. \A d \in 1..n, k \in 2..n : A[d][k] = A[d - 1][made[k].parent]
  <2> TAKE d \in 1..n, k \in 2..n
  <2>1. d \in 0..n /\ d # 0 /\ k \in 1..n /\ k # 1
    OBVIOUS
  <2> QED  BY <1>3, <2>1
<1> QED  BY <1>1, <1>4, <1>5, <1>6 DEF Lineage

\* Blocks 1..n as ChainInv has them.
LEMMA ChainIs ==
    ASSUME ChainInv, NEW n \in Nat, n = Len(blocks), NEW k \in 1..n
    PROVE  /\ IsBlock(blocks[k]) /\ made[k].batches \in Package
           /\ blocks[k].m_tree_root = Root[made[k].batches]
           /\ blocks[k].index \in 0..n
           /\ blocks[k].index = 0 <=> k = 1
           /\ k # 1 => /\ k \in 2..n /\ made[k].parent \in 1..n
                       /\ blocks[k].index = blocks[made[k].parent].index + 1
                       /\ blocks[k].pre_hash = GetHash(blocks[made[k].parent])
<1>1. Linkage(k)
  BY DEF ChainInv
<1>2. CASE k = 1
  BY <1>1, <1>2 DEF Linkage
<1>3. CASE k # 1
  <2>1. PICK j : j = made[k].parent
    OBVIOUS
  <2>2. /\ j \in 1..k - 1 /\ blocks[k].index = blocks[j].index + 1
        /\ blocks[k].pre_hash = GetHash(blocks[j])
        /\ blocks[k].index \in 0..k - 1
    BY <1>1, <1>3, <2>1 DEF Linkage
  <2>3. j \in 1..n
    BY <2>2
  <2>4. Linkage(j)
    BY <2>3 DEF ChainInv
  <2>5. blocks[j].index \in Nat
    BY <2>4, <2>2 DEF Linkage
  <2>6. blocks[k].index # 0 /\ blocks[k].index \in 0..n
    BY <2>2, <2>5
  <2> QED  BY <1>1, <1>3, <2>1, <2>2, <2>3, <2>6 DEF Linkage
<1> QED  BY <1>2, <1>3

\* Blocks with one header have parents with one header.
LEMMA SameParents ==
    ASSUME ChainInv, NEW n \in Nat, n = Len(blocks), NEW i \in 1..n, NEW j \in 1..n,
           SameHeader(blocks[i], blocks[j])
    PROVE  \/ i = 1 /\ j = 1
           \/ /\ i \in 2..n /\ j \in 2..n
              /\ made[i].parent \in 1..n /\ made[j].parent \in 1..n
              /\ SameHeader(blocks[made[i].parent], blocks[made[j].parent])
<1>1. i = 1 <=> j = 1
  BY ChainIs DEF SameHeader
<1>2. ASSUME i # 1, j # 1
      PROVE  /\ i \in 2..n /\ j \in 2..n
             /\ made[i].parent \in 1..n /\ made[j].parent \in 1..n
             /\ SameHeader(blocks[made[i].parent], blocks[made[j].parent])
  <2>1. PICK x : x = made[i].parent
    OBVIOUS
  <2>2. PICK y : y = made[j].parent
    OBVIOUS
  <2>3. /\ i \in 2..n /\ x \in 1..n /\ blocks[i].pre_hash = GetHash(blocks[x])
    BY <1>2, <2>1, ChainIs
  <2>4. /\ j \in 2..n /\ y \in 1..n /\ blocks[j].pre_hash = GetHash(blocks[y])
    BY <1>2, <2>2, ChainIs
  <2>5. GetHash(blocks[x]) = GetHash(blocks[y])
    BY <2>3, <2>4 DEF SameHeader
  <2>6. IsBlock(blocks[x]) /\ IsBlock(blocks[y])
    BY <2>3, <2>4, ChainIs
  <2>7. SameHeader(blocks[x], blocks[y])
    BY <2>5, <2>6, HashIsHeader
  <2> QED  BY <2>1, <2>2, <2>3, <2>4, <2>7
<1> QED  BY <1>1, <1>2

\* And so on back to genesis.
Alongside(A, n, d) ==
    \A i, j \in 1..n : SameHeader(blocks[i], blocks[j]) =>
        /\ A[d][i] \in 1..n /\ A[d][j] \in 1..n
        /\ SameHeader(blocks[A[d][i]], blocks[A[d][j]])

\* By induction on the generation.
LEMMA SameAncestors ==
    ASSUME ChainInv, NEW n \in Nat, n = Len(blocks), NEW A, Lineage(A, n)
    PROVE  \A d \in 0..n : Alongside(A, n, d)
<1> DEFINE T == {d \in 0..n : Alongside(A, n, d)}
<1>1. 0 \in T
  <2>1. Alongside(A, n, 0)
    BY DEF Lineage, Alongside
  <2> QED  BY <2>1
<1>2. ASSUME NEW d \in 1..n, d - 1 \in T
      PROVE  d \in T
  <2>1. ASSUME NEW i \in 1..n, NEW j \in 1..n, SameHeader(blocks[i], blocks[j])
        PROVE  /\ A[d][i] \in 1..n /\ A[d][j] \in 1..n
               /\ SameHeader(blocks[A[d][i]], blocks[A[d][j]])
    <3>1. CASE i = 1 /\ j = 1
      <4>1. A[d][1] = 1
        BY DEF Lineage
      <4> QED  BY <3>1, <4>1 DEF SameHeader
    <3>2. CASE ~(i = 1 /\ j = 1)
      <4>1. /\ i \in 2..n /\ j \in 2..n
            /\ made[i].parent \in 1..n /\ made[j].parent \in 1..n
            /\ SameHeader(blocks[made[i].parent], blocks[made[j].parent])
        BY <2>1, <3>2, SameParents
      <4>2. PICK x : x = made[i].parent
        OBVIOUS
      <4>3. PICK y : y = made[j].parent
        OBVIOUS
      <4>4. A[d][i] = A[d - 1][x] /\ A[d][j] = A[d - 1][y]
        BY <4>1, <4>2, <4>3 DEF Lineage
      <4>5. Alongside(A, n, d - 1)
        BY <1>2
      <4>6. x \in 1..n /\ y \in 1..n /\ SameHeader(blocks[x], blocks[y])
        BY <4>1, <4>2, <4>3
      <4>7. /\ A[d - 1][x] \in 1..n /\ A[d - 1][y] \in 1..n
            /\ SameHeader(blocks[A[d - 1][x]], blocks[A[d - 1][y]])
        BY <4>5, <4>6 DEF Alongside
      <4> QED  BY <4>4, <4>7
    <3> QED  BY <3>1, <3>2
  <2>2. Alongside(A, n, d)
    BY <2>1 DEF Alongside
  <2> QED  BY <2>2
<1> HIDE DEF T
<1>3. \A d \in 0..n : d \in T
  BY <1>1, <1>2, UpTo
<1> QED  BY <1>3 DEF T

\* What SameHistory compares in each generation.
SameContents(m, n) ==
    /\ made[m].batches = made[n].batches
    /\ blocks[m].miner = blocks[n].miner
    /\ blocks[m].index = blocks[n].index

\* Blocks whose histories agree have one header.
Agreeing(A, n, x) ==
    \A i, j \in 1..n :
        /\ blocks[i].index = x
        /\ \A d \in 0..x : SameContents(A[d][i], A[d][j])
        => SameHeader(blocks[i], blocks[j])

\* By induction on the place in the chain.
LEMMA HistoryPins ==
    ASSUME ChainInv, NEW n \in Nat, n = Len(blocks), NEW A, Lineage(A, n)
    PROVE  \A x \in 0..n : Agreeing(A, n, x)
<1> DEFINE T == {x \in 0..n : Agreeing(A, n, x)}
<1>1. 0 \in T
  <2>1. ASSUME NEW i \in 1..n, NEW j \in 1..n, blocks[i].index = 0,
               \A d \in 0..0 : SameContents(A[d][i], A[d][j])
        PROVE  SameHeader(blocks[i], blocks[j])
    <3>1. A[0][i] = i /\ A[0][j] = j
      BY DEF Lineage
    <3>2. SameContents(i, j)
      BY <2>1, <3>1
    <3>3. i = 1 /\ j = 1
      BY <2>1, <3>2, ChainIs DEF SameContents
    <3> QED  BY <3>3 DEF SameHeader
  <2>2. Agreeing(A, n, 0)
    BY <2>1 DEF Agreeing
  <2> QED  BY <2>2
<1>2. ASSUME NEW x \in 1..n, x - 1 \in T
      PROVE  x \in T
  <2>1. ASSUME NEW i \in 1..n, NEW j \in 1..n, blocks[i].index = x,
               \A d \in 0..x : SameContents(A[d][i], A[d][j])
        PROVE  SameHeader(blocks[i], blocks[j])
    <3>1. A[0][i] = i /\ A[0][j] = j
      BY DEF Lineage
    <3>2. SameContents(i, j)
      BY <2>1, <3>1
    <3>3. blocks[j].index = x
      BY <2>1, <3>2 DEF SameContents
    <3>4. i # 1 /\ j # 1
      BY <2>1, <3>3, ChainIs
    <3>5. PICK u : u = made[i].parent
      OBVIOUS
    <3>6. PICK v : v = made[j].parent
      OBVIOUS
    <3>7. /\ i \in 2..n /\ u \in 1..n /\ blocks[i].index = blocks[u].index + 1
          /\ blocks[i].pre_hash = GetHash(blocks[u])
          /\ IsBlock(blocks[u]) /\ blocks[u].index \in 0..n
      BY <3>4, <3>5, ChainIs
    <3>8. /\ j \in 2..n /\ v \in 1..n
          /\ blocks[j].pre_hash = GetHash(blocks[v])
          /\ IsBlock(blocks[v])
      BY <3>4, <3>6, ChainIs
    <3>9. \A d \in 0..x - 1 : SameContents(A[d][u], A[d][v])
      <4> TAKE d \in 0..x - 1
      <4>1. d + 1 \in 1..n /\ d + 1 \in 0..x /\ (d + 1) - 1 = d
        OBVIOUS
      <4>2. A[d + 1][i] = A[(d + 1) - 1][u] /\ A[d + 1][j] = A[(d + 1) - 1][v]
        BY <3>5, <3>6, <3>7, <3>8, <4>1 DEF Lineage
      <4>3. SameContents(A[d + 1][i], A[d + 1][j])
        BY <2>1, <4>1
      <4> QED  BY <4>1, <4>2, <4>3
    <3>10. blocks[u].index = x - 1
      BY <2>1, <3>7
    <3>11. SameHeader(blocks[u], blocks[v])
      BY <1>2, <3>7, <3>8, <3>9, <3>10 DEF Agreeing
    <3>12. blocks[i].pre_hash = blocks[j].pre_hash
      BY <3>7, <3>8, <3>11, HashIsHeader
    <3>13. blocks[i].m_tree_root = blocks[j].m_tree_root
      BY <3>2, ChainIs DEF SameContents
    <3> QED  BY <3>2, <3>12, <3>13 DEF SameHeader, SameContents
  <2>2. Agreeing(A, n, x)
    BY <2>1 DEF Agreeing
  <2> QED  BY <2>2
<1> HIDE DEF T
<1>3. \A x \in 0..n : x \in T
  BY <1>1, <1>2, UpTo
<1> QED  BY <1>3 DEF T

\* Blocks have one header exactly when they have one history.
LEMMA HeaderIsHistory ==
    ASSUME DigestsAtomic, ChainInv, NEW i \in 1..Len(blocks), NEW j \in 1..Len(blocks)
    PROVE  SameHeader(blocks[i], blocks[j]) <=> SameHistory(i, j)
<1>1. PICK n \in Nat : n = Len(blocks)
  BY DEF ChainInv, Listed
<1>2. PICK A : A = Ancestors
  OBVIOUS
<1>3. Lineage(A, n)
  BY <1>1, <1>2, AncestorsAre
<1>4. SameHistory(i, j) <=> \A d \in 0..n : SameContents(A[d][i], A[d][j])
  BY <1>1, <1>2 DEF SameHistory, SameContents
<1>5. ASSUME SameHeader(blocks[i], blocks[j]), NEW d \in 0..n
      PROVE  SameContents(A[d][i], A[d][j])
  <2>1. Alongside(A, n, d)
    BY <1>1, <1>3, SameAncestors
  <2>2. PICK u : u = A[d][i]
    OBVIOUS
  <2>3. PICK v : v = A[d][j]
    OBVIOUS
  <2>4. u \in 1..n /\ v \in 1..n /\ SameHeader(blocks[u], blocks[v])
    BY <1>1, <1>5, <2>1, <2>2, <2>3 DEF Alongside
  <2>5. PICK p : p = made[u].batches
    OBVIOUS
  <2>6. PICK q : q = made[v].batches
    OBVIOUS
  <2>7. /\ p \in Package /\ q \in Package
        /\ blocks[u].m_tree_root = Root[p] /\ blocks[v].m_tree_root = Root[q]
    BY <1>1, <2>4, <2>5, <2>6, ChainIs
  <2>8. Root[p] = Root[q]
    BY <2>4, <2>7 DEF SameHeader
  <2>9. p = q
    BY <2>7, <2>8, RootPins
  <2>10. SameContents(u, v)
    BY <2>4, <2>5, <2>6, <2>9 DEF SameContents, SameHeader
  <2> QED  BY <2>2, <2>3, <2>10
<1>6. ASSUME \A d \in 0..n : SameContents(A[d][i], A[d][j])
      PROVE  SameHeader(blocks[i], blocks[j])
  <2>1. PICK x \in 0..n : x = blocks[i].index
    BY <1>1, ChainIs
  <2>2. \A d \in 0..x : SameContents(A[d][i], A[d][j])
    BY <1>6
  <2>3. Agreeing(A, n, x)
    BY <1>1, <1>3, HistoryPins
  <2> QED  BY <1>1, <2>1, <2>2, <2>3 DEF Agreeing
<1> QED  BY <1>4, <1>5, <1>6

\* A block is a valid next block of the one it was made on, whatever happens to
\* either, and of no block with another history: the pre_hash pins down the
\* place, the miner and the batches of every block back to genesis.
THEOREM LinksPinHistory ==
    ASSUME DigestsAtomic
    PROVE  Spec => []ParentPinned
<1>1. ASSUME ChainInv, NEW j \in 1..Len(blocks), NEW k \in 2..Len(blocks)
      PROVE  IsValidNextBlock(blocks[j], blocks[k]) <=> SameHistory(j, made[k].parent)
  <2>1. PICK n \in Nat : n = Len(blocks)
    BY <1>1 DEF ChainInv, Listed
  <2>2. PICK i : i = made[k].parent
    OBVIOUS
  <2>3. k \in 1..n /\ k # 1
    BY <2>1
  <2>4. /\ i \in 1..n /\ blocks[k].index = blocks[i].index + 1
        /\ blocks[k].pre_hash = GetHash(blocks[i])
    BY <1>1, <2>1, <2>2, <2>3, ChainIs
  <2>5. GetHash(blocks[j]) = GetHash(blocks[i]) <=> SameHeader(blocks[j], blocks[i])
    <3>1. IsBlock(blocks[i]) /\ IsBlock(blocks[j])
      BY <1>1, <2>1, <2>4, ChainIs
    <3> QED  BY <3>1, HashIsHeader
  <2>6. IsValidNextBlock(blocks[j], blocks[k]) <=> SameHeader(blocks[j], blocks[i])
    BY <2>4, <2>5 DEF IsValidNextBlock, SameHeader
  <2>7. SameHeader(blocks[j], blocks[i]) <=> SameHistory(j, i)
    BY <1>1, <2>1, <2>4, HeaderIsHistory
  <2> QED  BY <2>2, <2>6, <2>7
<1>2. ChainInv => ParentPinned
  BY <1>1 DEF ParentPinned
<1> QED  BY <1>2, ChainInvariant, PTL
===============================================================================
