------------------------------ MODULE HandleTable ------------------------------
(***************************************************************************)
(* The generation-tagged handle table every native member of the suite     *)
(* carries (datachannelxt/src/dcx_handle_table.h and its copies): its data *)
(* and its operations, as operators on a table value.  A handle is the     *)
(* pair (generation, slot index) that the code packs into one positive     *)
(* int; HandleCodec shows that the packing loses nothing.                  *)
(*                                                                         *)
(* A table is a record:                                                    *)
(*   gen  - the generation of each slot, 0 until the slot is first used    *)
(*   obj  - the object each slot stores, Null when the slot is not live    *)
(*   size - slots_.size(): slots 0 .. size-1 have been created             *)
(*   free - the free list, a stack whose top is the last element           *)
(*   live - liveCount_                                                     *)
(*                                                                         *)
(* A definition marked "Planted bug" is not part of the model: it is a     *)
(* variant of the next definition that a property must refute.             *)
(***************************************************************************)
EXTENDS Integers, Sequences

CONSTANTS
    SLOT_MASK,   \* the largest slot index (0xFFFF in the code)
    GEN_MAX,     \* the largest generation (0x7FFF in the code)
    Null         \* no object

ASSUME HandleTableAssumption ==
    /\ SLOT_MASK \in Nat
    /\ GEN_MAX \in Nat \ {0}

Slots == 0 .. SLOT_MASK

Handles == [gen : 1 .. GEN_MAX, idx : Slots]

\* The int 0 the code returns when it has no handle to give.
NoHandle == [gen |-> 0, idx |-> 0]

EmptyTable ==
    [gen  |-> [i \in Slots |-> 0],
     obj  |-> [i \in Slots |-> Null],
     size |-> 0,
     free |-> <<>>,
     live |-> 0]

\* alloc() has a slot to give: a recycled one, or room to create one.
CanAlloc(t) == t.free # <<>> \/ t.size <= SLOT_MASK

AllocIdx(t) == IF t.free # <<>> THEN t.free[Len(t.free)] ELSE t.size

\* Planted bug: the generation of a slot never used stays 0.
AllocGenRaw(t) == t.gen[AllocIdx(t)]

\* A slot that was never used has generation 0, which alloc() turns into 1.
AllocGen(t) ==
    LET g == t.gen[AllocIdx(t)] IN IF g = 0 THEN 1 ELSE g

\* Planted bug: the free list is read and not popped.
Unpopped(t) == t.free
Popped(t) == IF t.free # <<>> THEN SubSeq(t.free, 1, Len(t.free) - 1) ELSE <<>>

\* The handle alloc() returns, and the table it leaves.
AllocHandle(t) ==
    IF CanAlloc(t) THEN [gen |-> AllocGen(t), idx |-> AllocIdx(t)] ELSE NoHandle

Alloc(t, o) ==
    IF ~CanAlloc(t) THEN t
    ELSE LET i == AllocIdx(t) IN
         [gen  |-> [t.gen EXCEPT ![i] = AllocGen(t)],
          obj  |-> [t.obj EXCEPT ![i] = o],
          size |-> IF t.free # <<>> THEN t.size ELSE t.size + 1,
          free |-> Popped(t),
          live |-> t.live + 1]

\* slot_of(): the handle names a created, live slot of the same generation.
IsLive(t, h) ==
    /\ h \in Handles
    /\ h.idx < t.size
    /\ t.obj[h.idx] # Null
    /\ t.gen[h.idx] = h.gen

\* get(): the stored object, or Null for a handle that is not live.
Get(t, h) == IF IsLive(t, h) THEN t.obj[h.idx] ELSE Null

\* Writing through the pointer get() returned.
Put(t, h, o) == [t EXCEPT !.obj[h.idx] = o]

\* Planted bug: a freed slot keeps its generation.
SameGen(g) == g
BumpGen(g) == IF g >= GEN_MAX THEN 1 ELSE g + 1

\* free(): a no-op unless the handle is live.
Free(t, h) ==
    IF ~IsLive(t, h) THEN t
    ELSE [gen  |-> [t.gen EXCEPT ![h.idx] = BumpGen(@)],
          obj  |-> [t.obj EXCEPT ![h.idx] = Null],
          size |-> t.size,
          free |-> Append(t.free, h.idx),
          live |-> t.live - 1]

\* collect_live(), as a set: nothing depends on the slot order it lists them in.
LiveHandles(t) ==
    {[gen |-> t.gen[i], idx |-> i] : i \in {j \in Slots : j < t.size /\ t.obj[j] # Null}}

\* A table of such objects, whose live slots have a generation other than 0.
TableOK(t, Objects) ==
    /\ t \in [gen  : [Slots -> 0 .. GEN_MAX],
              obj  : [Slots -> Objects \cup {Null}],
              size : 0 .. SLOT_MASK + 1,
              free : Seq(Slots),
              live : Int]
    /\ \A i \in Slots : t.obj[i] # Null => t.gen[i] # 0

\* The free list holds each created slot that is not live, once.
FreeListOK(t) ==
    /\ \A k \in DOMAIN t.free : t.free[k] < t.size /\ t.obj[t.free[k]] = Null
    /\ \A i \in Slots : i < t.size /\ t.obj[i] = Null => \E k \in DOMAIN t.free : t.free[k] = i
    /\ \A j, k \in DOMAIN t.free : t.free[j] = t.free[k] => j = k
    /\ \A i \in Slots : i >= t.size => t.obj[i] = Null
    /\ t.live + Len(t.free) = t.size
================================================================================
