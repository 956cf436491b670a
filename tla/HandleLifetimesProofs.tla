------------------------- MODULE HandleLifetimesProofs -------------------------
(***************************************************************************)
(* For a table of any size and any generation range: the table stays well- *)
(* typed, its free list stays exact, and a freed handle stays dead for as  *)
(* long as HandleLifetimes says.  And the ints that name a slot and a      *)
(* generation (HandleCodec) do so without loss and without alias.          *)
(***************************************************************************)
EXTENDS HandleLifetimes, HandleTableLemmas, HandleCodec

\* Every step keeps the table and its histories well-typed.
LEMMA TypeStep ==
    ASSUME TypeOK, [Next]_vars
    PROVE  TypeOK'
  <1>1. ASSUME NEW o \in Objects, AllocObject(o)
        PROVE  TypeOK'
    BY <1>1, AllocTyped DEF AllocObject, TypeOK
  <1>2. ASSUME NEW h \in Handles, FreeHandle(h)
        PROVE  TypeOK'
    <2>1. TableOK(table', Objects)
      BY <1>2, FreeTyped DEF FreeHandle, TypeOK
    <2>2. h.idx \in Slots
      BY DEF Handles
    <2>3. frees' \in [Slots -> Nat] /\ retired' \in [Handles -> Nat \cup {Never}]
      BY <1>2, <2>2 DEF FreeHandle, TypeOK
    <2> QED
      BY <2>1, <2>3 DEF TypeOK
  <1>3. CASE UNCHANGED vars
    BY <1>3 DEF vars, TypeOK
  <1> QED
    BY <1>1, <1>2, <1>3 DEF Next

\* HandleTable's type invariant, for every size and generation range.
THEOREM TypeCorrect == Spec => []TypeOK
  <1>1. Init => TypeOK
    BY EmptyTableOK DEF Init, TypeOK, Never
  <1>2. TypeOK /\ [Next]_vars => TypeOK'
    BY TypeStep
  <1> QED
    BY <1>1, <1>2, PTL DEF Spec

\* No slot is ever given out twice or lost.
THEOREM FreeListCorrect == Spec => []FreeListExact
  <1>1. Init => FreeListExact
    BY EmptyTableOK DEF Init, FreeListExact
  <1>2. TypeOK /\ FreeListExact /\ [Next]_vars => FreeListExact'
    <2> SUFFICES ASSUME TypeOK, FreeListExact, [Next]_vars
                 PROVE  FreeListExact'
      OBVIOUS
    <2>1. ASSUME NEW o \in Objects, AllocObject(o)
          PROVE  FreeListExact'
      BY <2>1, AllocExact, LifetimesAssumption DEF AllocObject, TypeOK, FreeListExact
    <2>2. ASSUME NEW h \in Handles, FreeHandle(h)
          PROVE  FreeListExact'
      BY <2>2, FreeExact DEF FreeHandle, TypeOK, FreeListExact
    <2>3. CASE UNCHANGED vars
      BY <2>3 DEF vars, FreeListExact
    <2> QED
      BY <2>1, <2>2, <2>3 DEF Next
  <1> QED
    BY <1>1, <1>2, TypeCorrect, PTL DEF Spec

\* ------------------------------------------------- how long a handle stays dead

\* The generation g has become after d more bumps, for d below one full cycle.
After(g, d) == IF g + d <= GEN_MAX THEN g + d ELSE g + d - GEN_MAX

\* The strengthening: until its slot has gone through a whole cycle, the slot's
\* generation is ahead of the retired handle's by one for every free since.
GenerationAhead ==
    \A h \in Handles : retired[h] # Never =>
        /\ retired[h] <= frees[h.idx]
        /\ frees[h.idx] - retired[h] < GEN_MAX - 1 =>
              table.gen[h.idx] = After(h.gen, frees[h.idx] - retired[h] + 1)

\* One more bump moves After one further, within the cycle.
LEMMA BumpAfter ==
    ASSUME NEW g \in 1 .. GEN_MAX, NEW d \in Nat, d + 1 <= GEN_MAX
    PROVE  BumpGen(After(g, d)) = After(g, d + 1)
  BY HandleTableAssumption DEF BumpGen, After

\* Within the cycle, a generation that moved on is a different one.
LEMMA AfterDiffers ==
    ASSUME NEW g \in 1 .. GEN_MAX, NEW d \in 1 .. GEN_MAX - 1
    PROVE  After(g, d) # g /\ After(g, d) \in 1 .. GEN_MAX
  BY HandleTableAssumption DEF After

LEMMA AheadStep ==
    ASSUME TypeOK, GenerationAhead, [Next]_vars
    PROVE  GenerationAhead'
  <1>1. ASSUME NEW o \in Objects, AllocObject(o)
        PROVE  GenerationAhead'
    <2> SUFFICES ASSUME NEW h \in Handles, retired[h] # Never
                 PROVE  /\ retired[h] <= frees[h.idx]
                        /\ frees[h.idx] - retired[h] < GEN_MAX - 1 =>
                              table'.gen[h.idx] = After(h.gen, frees[h.idx] - retired[h] + 1)
      BY <1>1 DEF AllocObject, GenerationAhead
    <2>1. retired[h] <= frees[h.idx]
      BY DEF GenerationAhead
    <2>2. ASSUME frees[h.idx] - retired[h] < GEN_MAX - 1
          PROVE  table'.gen[h.idx] = After(h.gen, frees[h.idx] - retired[h] + 1)
      <3> DEFINE d == frees[h.idx] - retired[h] + 1
      <3>1. h.idx \in Slots /\ h.gen \in 1 .. GEN_MAX
        BY DEF Handles
      <3>2. d \in 1 .. GEN_MAX - 1
        BY <2>1, <2>2, <3>1, HandleTableAssumption DEF TypeOK
      <3>3. table.gen[h.idx] = After(h.gen, d)
        BY <2>2 DEF GenerationAhead
      <3>4. table.gen[h.idx] # 0
        BY <3>1, <3>2, <3>3, AfterDiffers
      <3>5. table.gen \in [Slots -> 0 .. GEN_MAX]
        BY DEF TypeOK, TableOK
      <3>6. table'.gen[h.idx] = table.gen[h.idx]
        BY <1>1, <3>1, <3>4, <3>5 DEF AllocObject, Alloc, AllocGen
      <3> QED
        BY <3>3, <3>6
    <2> QED
      BY <2>1, <2>2
  <1>2. ASSUME NEW f \in Handles, FreeHandle(f), IsLive(table, f)
        PROVE  GenerationAhead'
    <2>1. /\ table.gen \in [Slots -> 0 .. GEN_MAX] /\ frees \in [Slots -> Nat]
          /\ retired \in [Handles -> Nat \cup {Never}]
      BY DEF TypeOK, TableOK
    <2>2. f.idx \in Slots /\ f.gen \in 1 .. GEN_MAX /\ table.gen[f.idx] = f.gen
      BY <1>2 DEF Handles, IsLive
    <2>3. /\ frees' = [frees EXCEPT ![f.idx] = @ + 1]
          /\ retired' = [retired EXCEPT ![f] = frees[f.idx] + 1]
          /\ table'.gen = [table.gen EXCEPT ![f.idx] = BumpGen(@)]
      BY <1>2 DEF FreeHandle, Free
    <2> SUFFICES ASSUME NEW h \in Handles, retired'[h] # Never
                 PROVE  /\ retired'[h] <= frees'[h.idx]
                        /\ frees'[h.idx] - retired'[h] < GEN_MAX - 1 =>
                              table'.gen[h.idx] = After(h.gen, frees'[h.idx] - retired'[h] + 1)
      BY DEF GenerationAhead
    <2>4. h.idx \in Slots /\ h.gen \in 1 .. GEN_MAX
      BY DEF Handles
    <2>5. CASE h = f
      <3>1. frees'[h.idx] = frees[h.idx] + 1 /\ retired'[h] = frees[h.idx] + 1
            /\ table'.gen[h.idx] = BumpGen(h.gen)
        BY <2>1, <2>2, <2>3, <2>5
      <3>2. After(h.gen, 0) = h.gen
        BY <2>4, HandleTableAssumption DEF After
      <3>3. BumpGen(h.gen) = After(h.gen, 1)
        BY <2>4, <3>2, BumpAfter, HandleTableAssumption
      <3>4. frees[h.idx] \in Nat
        BY <2>1, <2>4
      <3> QED
        BY <3>1, <3>3, <3>4
    <2>6. CASE h # f /\ h.idx # f.idx
      <3>1. frees'[h.idx] = frees[h.idx] /\ retired'[h] = retired[h]
            /\ table'.gen[h.idx] = table.gen[h.idx]
        BY <2>1, <2>2, <2>3, <2>4, <2>6
      <3> QED
        BY <3>1 DEF GenerationAhead
    <2>7. CASE h # f /\ h.idx = f.idx
      <3> DEFINE d == frees[h.idx] - retired[h]
      <3>1. frees'[h.idx] = frees[h.idx] + 1 /\ retired'[h] = retired[h]
            /\ table'.gen[h.idx] = BumpGen(table.gen[h.idx])
        BY <2>1, <2>2, <2>3, <2>4, <2>7
      <3>2. retired[h] <= frees[h.idx] /\ retired[h] \in Nat /\ frees[h.idx] \in Nat
        BY <2>1, <2>4, <3>1, HandleTableAssumption DEF GenerationAhead, Never
      <3>3. d \in Nat
        BY <3>2
      <3>4. ASSUME d + 1 < GEN_MAX - 1
            PROVE  table'.gen[h.idx] = After(h.gen, d + 2)
        <4>1. table.gen[h.idx] = After(h.gen, d + 1)
          BY <3>1, <3>2, <3>4, HandleTableAssumption DEF GenerationAhead
        <4>2. BumpGen(After(h.gen, d + 1)) = After(h.gen, d + 1 + 1)
          BY <2>4, <3>3, <3>4, BumpAfter, HandleTableAssumption
        <4> QED
          BY <3>1, <3>3, <4>1, <4>2
      <3>5. frees'[h.idx] - retired'[h] = d + 1
        BY <3>1, <3>2
      <3> QED
        BY <3>1, <3>2, <3>3, <3>4, <3>5
    <2> QED
      BY <2>5, <2>6, <2>7
  <1>3. ASSUME NEW f \in Handles, FreeHandle(f), ~IsLive(table, f)
        PROVE  GenerationAhead'
    BY <1>3 DEF FreeHandle, Free, GenerationAhead
  <1>4. CASE UNCHANGED vars
    BY <1>4 DEF vars, GenerationAhead
  <1> QED
    BY <1>1, <1>2, <1>3, <1>4 DEF Next

\* A freed handle stays dead until its slot has been freed GEN_MAX - 1 more
\* times: with the real GEN_MAX, 32766 further uses of the same slot.
THEOREM StaleHandlesStayDead == Spec => []StaleWithinCycle
  <1>1. Init => GenerationAhead
    BY DEF Init, GenerationAhead
  <1>2. TypeOK /\ GenerationAhead /\ [Next]_vars => GenerationAhead'
    BY AheadStep
  <1>3. TypeOK /\ GenerationAhead => StaleWithinCycle
    <2> SUFFICES ASSUME TypeOK, GenerationAhead, NEW h \in Handles, retired[h] # Never,
                        frees[h.idx] - retired[h] < GEN_MAX - 1
                 PROVE  ~IsLive(table, h)
      BY DEF StaleWithinCycle
    <2> DEFINE d == frees[h.idx] - retired[h] + 1
    <2>1. h.idx \in Slots /\ h.gen \in 1 .. GEN_MAX
      BY DEF Handles
    <2>2. d \in 1 .. GEN_MAX - 1
      BY <2>1, HandleTableAssumption DEF GenerationAhead, TypeOK, Never
    <2>3. table.gen[h.idx] = After(h.gen, d) /\ After(h.gen, d) # h.gen
      BY <2>1, <2>2, AfterDiffers DEF GenerationAhead
    <2> QED
      BY <2>3 DEF IsLive
  <1> QED
    BY <1>1, <1>2, <1>3, TypeCorrect, PTL DEF Spec

\* ------------------------------------------------- the int that is the handle

\* A value below the modulus is its own remainder.
LEMMA SmallRemainder ==
    ASSUME NEW m \in Nat, m > 0, NEW a \in Nat, a < m
    PROVE  a % m = a
  BY SMT

\* Neither the shift nor the mask loses a bit of a real generation and slot.
LEMMA EncodeExact ==
    ASSUME NEW gen \in Nat, gen <= 32767, NEW idx \in Nat, idx <= 65535
    PROVE  encode(gen, idx) = gen * 65536 + idx
  <1>1. Uint32 \in Nat /\ Uint32 > 0 /\ gen * 65536 \in Nat /\ gen * 65536 < Uint32
    BY SMT DEF Uint32
  <1>2. (gen * 65536) % Uint32 = gen * 65536
    BY <1>1, SmallRemainder
  <1>3. idx % 65536 = idx
    BY SMT
  <1> QED
    BY <1>2, <1>3 DEF encode, ShiftGen

\* A handle is a positive int, so slot_of() never takes it for "no handle" and
\* nothing is lost when the uint32 becomes an int.
THEOREM HandlesArePositive ==
    ASSUME NEW gen \in RealGens, NEW idx \in RealSlots
    PROVE  encode(gen, idx) \in PositiveInts
  <1>1. gen \in Nat /\ 1 <= gen /\ gen <= 32767 /\ idx \in Nat /\ idx <= 65535
    BY SMT DEF RealGens, RealSlots
  <1>2. encode(gen, idx) = gen * 65536 + idx
    BY <1>1, EncodeExact
  <1> QED
    BY <1>1, <1>2, SMT DEF PositiveInts

\* Decoding gives back the generation and the index.
THEOREM RoundTrip ==
    ASSUME NEW gen \in RealGens, NEW idx \in RealSlots
    PROVE  /\ decode_gen(encode(gen, idx)) = gen
           /\ decode_idx(encode(gen, idx)) = idx
  <1>1. gen \in Nat /\ gen <= 32767 /\ idx \in Nat /\ idx <= 65535
    BY SMT DEF RealGens, RealSlots
  <1>2. encode(gen, idx) = gen * 65536 + idx
    BY <1>1, EncodeExact
  <1>3. (gen * 65536 + idx) \div 65536 = gen
    BY <1>1, SMT
  <1>4. (gen * 65536 + idx) % 65536 = idx
    BY <1>1, SMT
  <1>5. gen % 32768 = gen
    BY <1>1, SMT
  <1> QED
    BY <1>2, <1>3, <1>4, <1>5 DEF decode_gen, decode_idx

\* Any positive int decodes to fields that encode back to it: two ints the
\* script passes in never name one slot and one generation.
THEOREM NoAliases ==
    ASSUME NEW h \in PositiveInts
    PROVE  /\ decode_gen(h) \in RealGens \cup {0}
           /\ decode_idx(h) \in RealSlots
           /\ encode(decode_gen(h), decode_idx(h)) = h
  <1> DEFINE g == h \div 65536
             i == h % 65536
  <1>1. h \in Nat /\ h <= 2147483647
    BY SMT DEF PositiveInts
  <1>2. i \in Nat /\ i <= 65535 /\ h = g * 65536 + i
    BY <1>1, SMT
  <1>3. g \in Nat /\ g <= 32767
    BY <1>1, SMT
  <1>4. g % 32768 = g
    BY <1>3, SMT
  <1>5. decode_gen(h) = g /\ decode_idx(h) = i
    BY <1>4 DEF decode_gen, decode_idx
  <1>6. encode(g, i) = g * 65536 + i
    BY <1>2, <1>3, EncodeExact
  <1>7. g \in RealGens \cup {0} /\ i \in RealSlots
    BY <1>2, <1>3, SMT DEF RealGens, RealSlots
  <1> QED
    BY <1>2, <1>5, <1>6, <1>7
================================================================================
