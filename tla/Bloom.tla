--------------------------------- MODULE Bloom ---------------------------------
(***************************************************************************)
(* A block's Bloom filter (EZ_Block_Units/Bloom.py).  It holds its bits    *)
(* plain or compressed and changes between the two under the operations    *)
(* that need the other form, the reading ones included.                    *)
(*                                                                         *)
(* A field that may be None is a set with at most one element.  The bits   *)
(* are the positions that are set; what zlib and base64 make of them is a  *)
(* term that only decompressing takes apart.                               *)
(***************************************************************************)
EXTENDS Integers

CONSTANTS Item,      \* what may be added and looked up
          Positions  \* the positions mmh3 gives for each item

ASSUME PositionsAssumption == Positions \in [Item -> SUBSET Nat]

NewFilter == [compressed |-> FALSE, bit_array |-> {{}}, compressed_bit_array |-> {}]

\* Mutant: the plain bits are kept beside the compressed ones.
Compress_Both(f) ==
    IF f.compressed \/ f.bit_array = {} THEN f
    ELSE [f EXCEPT !.compressed = TRUE,
                   !.compressed_bit_array = {[zlib |-> bits] : bits \in f.bit_array}]

Compress(f) ==
    IF f.compressed \/ f.bit_array = {} THEN f
    ELSE [compressed |-> TRUE,
          bit_array |-> {},
          compressed_bit_array |-> {[zlib |-> bits] : bits \in f.bit_array}]

Decompress(f) ==
    IF ~f.compressed \/ f.compressed_bit_array = {} THEN f
    ELSE [compressed |-> FALSE,
          bit_array |-> {data.zlib : data \in f.compressed_bit_array},
          compressed_bit_array |-> {}]

PositionsOf(items) == UNION {Positions[item] : item \in items}

\* Mutant: a compressed filter is replaced by a fresh one.
AddToFilter_Fresh(f, items) ==
    IF f.compressed THEN [NewFilter EXCEPT !.bit_array = {PositionsOf(items)}]
    ELSE [f EXCEPT !.bit_array = {bits \cup PositionsOf(items) : bits \in @}]

\* add of each of the items, which the order does not matter to.
AddToFilter(f, items) ==
    [Decompress(f) EXCEPT !.bit_array = {bits \cup PositionsOf(items) : bits \in @}]

\* __contains__: the answer, after the filter has been decompressed.
InFilter(f, item) == \E bits \in Decompress(f).bit_array : Positions[item] \subseteq bits

\* get_statistics: the ratio is taken of the compressed form, in which the
\* filter is left whatever form it had.
AfterStatistics(f) == Compress(Decompress(f))

\* BloomFilterEncoder compresses the filter it writes; bloom_decoder makes a
\* compressed filter with the data.
Decoded(f) ==
    [compressed |-> TRUE,
     bit_array |-> {},
     compressed_bit_array |-> Compress(f).compressed_bit_array]
===============================================================================
