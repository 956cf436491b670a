------------------------------ MODULE HandleCodec ------------------------------
(***************************************************************************)
(* How dcx_handle_table.h (and its copies) packs a generation and a slot   *)
(* index into one int, at the code's own widths: 15 bits of generation     *)
(* above 16 bits of index, in a uint32 converted to int.  The theorems of  *)
(* HandleLifetimesProofs about it are why the other modules may take a     *)
(* handle to be the pair itself.                                           *)
(***************************************************************************)
EXTENDS Integers

Uint32 == 65536 * 65536
PositiveInts == {h \in Nat : 1 <= h /\ h <= 2147483647}

\* (gen << SLOT_BITS) | (idx & SLOT_MASK): the two fields do not overlap.
ShiftGen(gen) == (gen * 65536) % Uint32
encode(gen, idx) == ShiftGen(gen) + (idx % 65536)

\* (h >> SLOT_BITS) & GEN_MAX and h & SLOT_MASK
decode_gen(h) == (h \div 65536) % 32768
decode_idx(h) == h % 65536

RealGens == {gen \in Nat : 1 <= gen /\ gen <= 32767}
RealSlots == {idx \in Nat : idx <= 65535}
================================================================================
