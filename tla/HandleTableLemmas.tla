--------------------------- MODULE HandleTableLemmas ---------------------------
(***************************************************************************)
(* What the operations of a handle table preserve, for a table of any      *)
(* size.                                                                   *)
(***************************************************************************)
EXTENDS HandleTable, TLAPS

\* A new table is well-typed and its free list is exact.
LEMMA EmptyTableOK ==
    ASSUME NEW Objects
    PROVE  TableOK(EmptyTable, Objects) /\ FreeListOK(EmptyTable)
  BY HandleTableAssumption DEF TableOK, FreeListOK, EmptyTable, Slots

\* The slot alloc() picks exists, is not live, and gets a positive generation.
LEMMA AllocSlot ==
    ASSUME NEW Objects, NEW t, TableOK(t, Objects), CanAlloc(t)
    PROVE  /\ AllocIdx(t) \in Slots
           /\ AllocGen(t) \in 1 .. GEN_MAX
           /\ AllocHandle(t) \in Handles
  <1>1. AllocIdx(t) \in Slots
    BY HandleTableAssumption DEF TableOK, CanAlloc, AllocIdx, Slots
  <1>2. AllocGen(t) \in 1 .. GEN_MAX
    BY <1>1, HandleTableAssumption DEF TableOK, AllocGen
  <1> QED
    BY <1>1, <1>2 DEF AllocHandle, Handles

\* alloc() keeps the table well-typed.
LEMMA AllocTyped ==
    ASSUME NEW Objects, NEW t, TableOK(t, Objects), NEW o \in Objects
    PROVE  TableOK(Alloc(t, o), Objects)
  <1>1. CASE ~CanAlloc(t)
    BY <1>1 DEF Alloc
  <1>2. CASE CanAlloc(t)
    <2> DEFINE i == AllocIdx(t)
    <2>1. i \in Slots /\ AllocGen(t) \in 1 .. GEN_MAX
      BY <1>2, AllocSlot
    <2>2. Popped(t) \in Seq(Slots)
      BY DEF Popped, TableOK
    <2>4. (IF t.free # <<>> THEN t.size ELSE t.size + 1) \in 0 .. SLOT_MASK + 1
      BY <1>2, HandleTableAssumption DEF TableOK, CanAlloc
    <2> QED
      BY <1>2, <2>1, <2>2, <2>4, HandleTableAssumption DEF Alloc, TableOK
  <1> QED
    BY <1>1, <1>2

\* free() keeps the table well-typed.
LEMMA FreeTyped ==
    ASSUME NEW Objects, NEW t, TableOK(t, Objects), NEW h
    PROVE  TableOK(Free(t, h), Objects)
  <1>1. CASE ~IsLive(t, h)
    BY <1>1 DEF Free
  <1>2. CASE IsLive(t, h)
    <2>1. h.idx \in Slots
      BY <1>2 DEF IsLive, Handles
    <2>2. BumpGen(t.gen[h.idx]) \in 1 .. GEN_MAX
      BY <2>1, HandleTableAssumption DEF BumpGen, TableOK
    <2> QED
      BY <1>2, <2>1, <2>2, HandleTableAssumption DEF Free, TableOK
  <1> QED
    BY <1>1, <1>2

\* Writing an object through a live handle keeps the table well-typed.
LEMMA PutTyped ==
    ASSUME NEW Objects, NEW t, TableOK(t, Objects), NEW h, IsLive(t, h), NEW o \in Objects
    PROVE  TableOK(Put(t, h, o), Objects)
  BY DEF Put, TableOK, IsLive, Handles

\* What get() returns is an object or Null, and an object only for a handle.
LEMMA GetTyped ==
    ASSUME NEW Objects, NEW t, TableOK(t, Objects), NEW h, Get(t, h) # Null
    PROVE  h \in Handles /\ IsLive(t, h) /\ Get(t, h) \in Objects
  BY DEF Get, IsLive, Handles, TableOK

\* FreeListOK with the free list's domain spelled out.
LEMMA FreeListFacts ==
    ASSUME NEW Objects, NEW t, TableOK(t, Objects), FreeListOK(t)
    PROVE  /\ t.free \in Seq(Slots) /\ Len(t.free) \in Nat /\ DOMAIN t.free = 1 .. Len(t.free)
           /\ t.size \in 0 .. SLOT_MASK + 1 /\ t.live \in Int
           /\ t.obj \in [Slots -> Objects \cup {Null}]
           /\ \A k \in 1 .. Len(t.free) :
                 t.free[k] \in Slots /\ t.free[k] < t.size /\ t.obj[t.free[k]] = Null
           /\ \A j \in Slots : j < t.size /\ t.obj[j] = Null =>
                 \E k \in 1 .. Len(t.free) : t.free[k] = j
           /\ \A j, k \in 1 .. Len(t.free) : t.free[j] = t.free[k] => j = k
           /\ \A j \in Slots : j >= t.size => t.obj[j] = Null
           /\ t.live + Len(t.free) = t.size
  <1>1. t.free \in Seq(Slots) /\ t.size \in 0 .. SLOT_MASK + 1 /\ t.live \in Int
        /\ t.obj \in [Slots -> Objects \cup {Null}]
    BY DEF TableOK
  <1>2. Len(t.free) \in Nat /\ DOMAIN t.free = 1 .. Len(t.free)
    BY <1>1
  <1>3. \A k \in 1 .. Len(t.free) : t.free[k] \in Slots
    BY <1>1
  <1> QED
    BY <1>1, <1>2, <1>3 DEF FreeListOK

\* alloc() keeps the free list exact: the slot it pops was on it once, and a
\* slot it creates was not on it.
LEMMA AllocExact ==
    ASSUME NEW Objects, NEW t, TableOK(t, Objects), FreeListOK(t), NEW o, o # Null
    PROVE  FreeListOK(Alloc(t, o))
  <1> DEFINE i == AllocIdx(t)
             u == Alloc(t, o)
             n == Len(t.free)
  <1>0. /\ t.free \in Seq(Slots) /\ n \in Nat
        /\ t.size \in 0 .. SLOT_MASK + 1 /\ t.live \in Int
        /\ t.obj \in [Slots -> Objects \cup {Null}]
        /\ \A k \in 1 .. n : t.free[k] \in Slots /\ t.free[k] < t.size /\ t.obj[t.free[k]] = Null
        /\ \A j \in Slots : j < t.size /\ t.obj[j] = Null => \E k \in 1 .. n : t.free[k] = j
        /\ \A j, k \in 1 .. n : t.free[j] = t.free[k] => j = k
        /\ \A j \in Slots : j >= t.size => t.obj[j] = Null
        /\ t.live + n = t.size
    BY FreeListFacts
  <1>1. CASE ~CanAlloc(t)
    BY <1>1 DEF Alloc
  <1>2. CASE CanAlloc(t) /\ t.free # <<>>
    <2>1. n \in Nat \ {0} /\ i = t.free[n]
      BY <1>2, <1>0 DEF AllocIdx
    <2>2. i \in Slots /\ i < t.size /\ t.obj[i] = Null
      BY <1>0, <2>1
    <2>3. /\ u.free = SubSeq(t.free, 1, n - 1) /\ u.size = t.size /\ u.live = t.live + 1
          /\ u.obj = [t.obj EXCEPT ![i] = o]
      BY <1>2 DEF Alloc, Popped
    <2>4. Len(u.free) = n - 1 /\ DOMAIN u.free = 1 .. n - 1
      BY <1>0, <2>1, <2>3
    <2>5. \A k \in 1 .. n - 1 : u.free[k] = t.free[k] /\ u.free[k] # i
      BY <1>0, <2>1, <2>3, SMTT(30)
    <2> HIDE DEF u, i, n
    <2>6. \A k \in DOMAIN u.free : u.free[k] < u.size /\ u.obj[u.free[k]] = Null
      BY <1>0, <2>1, <2>2, <2>3, <2>4, <2>5
    <2>7. \A j \in Slots : j < u.size /\ u.obj[j] = Null => \E k \in DOMAIN u.free : u.free[k] = j
      <3> SUFFICES ASSUME NEW j \in Slots, j < u.size, u.obj[j] = Null
                   PROVE  \E k \in DOMAIN u.free : u.free[k] = j
        OBVIOUS
      <3>1. j # i /\ t.obj[j] = Null
        BY <1>0, <2>2, <2>3
      <3>2. PICK k \in 1 .. n : t.free[k] = j
        BY <1>0, <2>3, <3>1
      <3>3. k \in 1 .. n - 1
        BY <1>0, <2>1, <3>1, <3>2
      <3>4. u.free[k] = j
        BY <2>5, <3>2, <3>3
      <3> QED
        BY <2>4, <3>3, <3>4
    <2>8. \A j, k \in DOMAIN u.free : u.free[j] = u.free[k] => j = k
      BY <1>0, <2>1, <2>4, <2>5
    <2>9. \A j \in Slots : j >= u.size => u.obj[j] = Null
      BY <1>0, <2>2, <2>3 DEF Slots
    <2>10. u.live + Len(u.free) = u.size
      BY <1>0, <2>1, <2>3, <2>4
    <2> QED
      BY <2>6, <2>7, <2>8, <2>9, <2>10 DEF FreeListOK, u
  <1>3. CASE CanAlloc(t) /\ t.free = <<>>
    <2>1. /\ i = t.size /\ i \in Slots /\ u.free = <<>> /\ u.size = t.size + 1
          /\ u.live = t.live + 1 /\ u.obj = [t.obj EXCEPT ![i] = o]
      BY <1>3, <1>0, HandleTableAssumption DEF Alloc, Popped, AllocIdx, CanAlloc, Slots
    <2>2. n = 0
      BY <1>3
    <2> HIDE DEF u, i, n
    <2>3. \A j \in Slots : j < t.size => t.obj[j] # Null
      BY <1>0, <2>2
    <2>4. ASSUME NEW j \in Slots, j < u.size
          PROVE  u.obj[j] # Null
      <3>1. j < t.size \/ j = i
        BY <1>0, <2>1, <2>4 DEF Slots
      <3>2. u.obj[j] = IF j = i THEN o ELSE t.obj[j]
        BY <1>0, <2>1
      <3> QED
        BY <2>3, <3>1, <3>2
    <2>5. \A j \in Slots : j >= u.size => u.obj[j] = Null
      BY <1>0, <2>1 DEF Slots
    <2>6. Len(u.free) = 0 /\ DOMAIN u.free = {}
      BY <2>1
    <2>7. u.live + Len(u.free) = u.size
      BY <1>0, <2>1, <2>2, <2>6
    <2>8. FreeListOK(u)
      BY <2>4, <2>5, <2>6, <2>7 DEF FreeListOK
    <2> QED
      BY <2>8 DEF u
  <1> QED
    BY <1>1, <1>2, <1>3

\* free() keeps the free list exact: the slot it pushes was live, so not on it.
LEMMA FreeExact ==
    ASSUME NEW Objects, NEW t, TableOK(t, Objects), FreeListOK(t), NEW h
    PROVE  FreeListOK(Free(t, h))
  <1> DEFINE u == Free(t, h)
             n == Len(t.free)
  <1>0. /\ t.free \in Seq(Slots) /\ n \in Nat
        /\ t.size \in 0 .. SLOT_MASK + 1 /\ t.live \in Int
        /\ t.obj \in [Slots -> Objects \cup {Null}]
        /\ \A k \in 1 .. n : t.free[k] \in Slots /\ t.free[k] < t.size /\ t.obj[t.free[k]] = Null
        /\ \A j \in Slots : j < t.size /\ t.obj[j] = Null => \E k \in 1 .. n : t.free[k] = j
        /\ \A j, k \in 1 .. n : t.free[j] = t.free[k] => j = k
        /\ \A j \in Slots : j >= t.size => t.obj[j] = Null
        /\ t.live + n = t.size
    BY FreeListFacts
  <1>1. CASE ~IsLive(t, h)
    BY <1>1 DEF Free
  <1>2. CASE IsLive(t, h)
    <2>1. h.idx \in Slots /\ h.idx < t.size /\ t.obj[h.idx] # Null
      BY <1>2 DEF IsLive, Handles
    <2>2. /\ u.free = Append(t.free, h.idx) /\ u.size = t.size /\ u.live = t.live - 1
          /\ u.obj = [t.obj EXCEPT ![h.idx] = Null]
      BY <1>2 DEF Free
    <2>3. Len(u.free) = n + 1 /\ DOMAIN u.free = 1 .. n + 1 /\ u.free[n + 1] = h.idx
      BY <1>0, <2>1, <2>2
    <2>4. \A k \in 1 .. n : u.free[k] = t.free[k] /\ u.free[k] # h.idx
      BY <1>0, <2>1, <2>2
    <2> HIDE DEF u, n
    <2>5. \A k \in DOMAIN u.free : u.free[k] < u.size /\ u.obj[u.free[k]] = Null
      BY <1>0, <2>1, <2>2, <2>3, <2>4
    <2>6. \A j \in Slots : j < u.size /\ u.obj[j] = Null => \E k \in DOMAIN u.free : u.free[k] = j
      <3> SUFFICES ASSUME NEW j \in Slots, j < u.size, u.obj[j] = Null
                   PROVE  \E k \in DOMAIN u.free : u.free[k] = j
        OBVIOUS
      <3>1. CASE j = h.idx
        BY <1>0, <2>3, <3>1
      <3>2. CASE j # h.idx
        <4>1. PICK k \in 1 .. n : t.free[k] = j
          BY <1>0, <2>1, <2>2, <3>2
        <4>2. k \in DOMAIN u.free /\ u.free[k] = j
          BY <1>0, <2>3, <2>4, <4>1
        <4> QED
          BY <4>2
      <3> QED
        BY <3>1, <3>2
    <2>7. \A j, k \in DOMAIN u.free : u.free[j] = u.free[k] => j = k
      BY <1>0, <2>3, <2>4
    <2>8. \A j \in Slots : j >= u.size => u.obj[j] = Null
      BY <1>0, <2>1, <2>2 DEF Slots
    <2>9. u.live + Len(u.free) = u.size
      BY <1>0, <2>2, <2>3
    <2> QED
      BY <2>5, <2>6, <2>7, <2>8, <2>9 DEF FreeListOK, u
  <1> QED
    BY <1>1, <1>2

\* A table read through get(): a partial map from handles to objects.
LEMMA GetFacts ==
    ASSUME NEW Objects, Null \notin Objects, NEW t, TableOK(t, Objects), NEW h
    PROVE  /\ Get(t, h) # Null <=> IsLive(t, h)
           /\ Get(t, h) # Null => h \in Handles /\ Get(t, h) \in Objects
           /\ h \in LiveHandles(t) <=> Get(t, h) # Null
  <1>1. Get(t, h) # Null <=> IsLive(t, h)
    BY DEF Get, IsLive
  <1>2. Get(t, h) # Null => h \in Handles /\ Get(t, h) \in Objects
    BY DEF Get, IsLive, Handles, TableOK
  <1>3. ASSUME h \in LiveHandles(t) PROVE IsLive(t, h)
    <2>1. PICK i \in Slots : h = [gen |-> t.gen[i], idx |-> i] /\ i < t.size /\ t.obj[i] # Null
      BY <1>3 DEF LiveHandles
    <2>2. t.gen[i] \in 1 .. GEN_MAX
      BY <2>1, HandleTableAssumption DEF TableOK
    <2> QED
      BY <2>1, <2>2 DEF IsLive, Handles
  <1>4. ASSUME IsLive(t, h) PROVE h \in LiveHandles(t)
    <2>1. h.idx \in Slots /\ h.idx < t.size /\ t.obj[h.idx] # Null
      BY <1>4 DEF IsLive, Handles
    <2>2. h = [gen |-> t.gen[h.idx], idx |-> h.idx]
      BY <1>4 DEF IsLive, Handles
    <2> QED
      BY <2>1, <2>2 DEF LiveHandles
  <1> QED
    BY <1>1, <1>2, <1>3, <1>4

\* alloc() adds one handle and touches no other.
LEMMA GetAlloc ==
    ASSUME NEW Objects, NEW t, TableOK(t, Objects), FreeListOK(t), CanAlloc(t),
           NEW o, o # Null, NEW h
    PROVE  /\ Get(Alloc(t, o), h) = IF h = AllocHandle(t) THEN o ELSE Get(t, h)
           /\ Get(t, AllocHandle(t)) = Null
           /\ AllocHandle(t) \in Handles
  <1> DEFINE i == AllocIdx(t)
             u == Alloc(t, o)
             a == AllocHandle(t)
  <1>1. i \in Slots /\ AllocGen(t) \in 1 .. GEN_MAX /\ a \in Handles
    BY AllocSlot
  <1>2. a.gen = AllocGen(t) /\ a.idx = i
    BY DEF AllocHandle
  <1>3. /\ u.gen = [t.gen EXCEPT ![i] = AllocGen(t)]
        /\ u.obj = [t.obj EXCEPT ![i] = o]
        /\ u.size = IF t.free # <<>> THEN t.size ELSE t.size + 1
    BY DEF Alloc
  <1>4. t.gen \in [Slots -> 0 .. GEN_MAX] /\ t.obj \in [Slots -> Objects \cup {Null}]
        /\ t.size \in Nat /\ Slots \subseteq Nat
    BY HandleTableAssumption DEF TableOK, Slots
  <1>5. t.obj[i] = Null /\ i < u.size
    <2>1. CASE t.free = <<>>
      BY <2>1, <1>1, <1>3, <1>4 DEF AllocIdx, FreeListOK
    <2>2. CASE t.free # <<>>
      <3>1. Len(t.free) \in 1 .. Len(t.free) /\ i = t.free[Len(t.free)]
        BY <2>2, FreeListFacts DEF AllocIdx
      <3> QED
        BY <2>2, <3>1, <1>3, FreeListFacts
    <2> QED
      BY <2>1, <2>2
  <1>6. t.size <= u.size /\ (u.size = t.size \/ (u.size = t.size + 1 /\ i = t.size))
    BY <1>3, <1>4 DEF AllocIdx
  <1> HIDE DEF u, i, a
  <1>7. Get(t, a) = Null
    BY <1>2, <1>5 DEF Get, IsLive
  <1>8. Get(u, a) = o
    BY <1>1, <1>2, <1>3, <1>4, <1>5 DEF Get, IsLive
  <1>9. ASSUME h # a PROVE Get(u, h) = Get(t, h)
    <2>1. CASE h \in Handles /\ h.idx # i
      <3>1. u.gen[h.idx] = t.gen[h.idx] /\ u.obj[h.idx] = t.obj[h.idx]
        BY <2>1, <1>3, <1>4 DEF Handles
      <3>2. h.idx < u.size <=> h.idx < t.size
        <4>1. h.idx \in Nat
          BY <2>1, <1>4 DEF Handles
        <4> QED
          BY <2>1, <4>1, <1>4, <1>6
      <3> QED
        BY <3>1, <3>2 DEF Get, IsLive
    <2>2. CASE h \in Handles /\ h.idx = i
      <3>1. h.gen # a.gen
        BY <2>2, <1>1, <1>2, <1>9 DEF Handles
      <3>2. ~IsLive(u, h)
        BY <2>2, <3>1, <1>1, <1>2, <1>3, <1>4 DEF IsLive
      <3>3. ~IsLive(t, h)
        BY <2>2, <1>5 DEF IsLive
      <3> QED
        BY <3>2, <3>3 DEF Get
    <2>3. CASE h \notin Handles
      BY <2>3 DEF Get, IsLive
    <2> QED
      BY <2>1, <2>2, <2>3
  <1> QED
    BY <1>1, <1>7, <1>8, <1>9 DEF u, i, a

\* free() removes one handle and touches no other.
LEMMA GetFree ==
    ASSUME NEW Objects, NEW t, TableOK(t, Objects), NEW g, NEW h
    PROVE  Get(Free(t, g), h) = IF h = g THEN Null ELSE Get(t, h)
  <1> DEFINE u == Free(t, g)
  <1>1. CASE ~IsLive(t, g)
    BY <1>1 DEF Free, Get
  <1>2. CASE IsLive(t, g)
    <2>1. g.idx \in Slots /\ g \in Handles /\ t.gen[g.idx] = g.gen
      BY <1>2 DEF IsLive, Handles
    <2>2. /\ u.gen = [t.gen EXCEPT ![g.idx] = BumpGen(@)]
          /\ u.obj = [t.obj EXCEPT ![g.idx] = Null]
          /\ u.size = t.size
      BY <1>2 DEF Free
    <2>3. t.gen \in [Slots -> 0 .. GEN_MAX] /\ t.obj \in [Slots -> Objects \cup {Null}]
      BY DEF TableOK
    <2> HIDE DEF u
    <2>4. ASSUME h \in Handles /\ h.idx # g.idx
         PROVE  Get(u, h) = IF h = g THEN Null ELSE Get(t, h)
      <3>1. u.gen[h.idx] = t.gen[h.idx] /\ u.obj[h.idx] = t.obj[h.idx] /\ h # g
        BY <2>4, <2>1, <2>2, <2>3 DEF Handles
      <3> QED
        BY <3>1, <2>2 DEF Get, IsLive
    <2>5. ASSUME h \in Handles /\ h.idx = g.idx
         PROVE  Get(u, h) = IF h = g THEN Null ELSE Get(t, h)
      <3>1. ~IsLive(u, h)
        BY <2>5, <2>1, <2>2, <2>3 DEF IsLive
      <3>2. h # g => ~IsLive(t, h)
        BY <2>5, <2>1 DEF IsLive, Handles
      <3> QED
        BY <3>1, <3>2 DEF Get
    <2>6. ASSUME h \notin Handles
         PROVE  Get(u, h) = IF h = g THEN Null ELSE Get(t, h)
      BY <2>6, <2>1 DEF Get, IsLive
    <2>7. Get(u, h) = IF h = g THEN Null ELSE Get(t, h)
      BY <2>4, <2>5, <2>6
    <2> QED
      BY <2>7, Zenon DEF u
  <1> QED
    BY <1>1, <1>2

\* Writing through a live handle touches no other.
LEMMA GetPut ==
    ASSUME NEW Objects, NEW t, TableOK(t, Objects), NEW g, IsLive(t, g), NEW o, o # Null, NEW h
    PROVE  Get(Put(t, g, o), h) = IF h = g THEN o ELSE Get(t, h)
  <1> DEFINE u == Put(t, g, o)
  <1>1. g.idx \in Slots /\ g \in Handles /\ t.gen[g.idx] = g.gen /\ g.idx < t.size
        /\ t.obj[g.idx] # Null
    BY DEF IsLive, Handles
  <1>2. t.gen \in [Slots -> 0 .. GEN_MAX] /\ t.obj \in [Slots -> Objects \cup {Null}]
    BY DEF TableOK
  <1>3. u.gen = t.gen /\ u.size = t.size /\ u.obj = [t.obj EXCEPT ![g.idx] = o]
    BY <1>1, <1>2 DEF Put, TableOK
  <1> HIDE DEF u
  <1>4. ASSUME h \in Handles /\ h.idx # g.idx
        PROVE  Get(u, h) = IF h = g THEN o ELSE Get(t, h)
    BY <1>1, <1>2, <1>3, <1>4 DEF Get, IsLive, Handles
  <1>5. ASSUME h \in Handles /\ h.idx = g.idx
        PROVE  Get(u, h) = IF h = g THEN o ELSE Get(t, h)
    <2>1. u.obj[h.idx] = o
      BY <1>1, <1>2, <1>3, <1>5
    <2>2. h # g => ~IsLive(t, h) /\ ~IsLive(u, h)
      BY <1>1, <1>3, <1>5 DEF IsLive, Handles
    <2>3. IsLive(u, g)
      BY <1>1, <1>3, <1>5, <2>1 DEF IsLive
    <2> QED
      BY <2>1, <2>2, <2>3, <1>5 DEF Get
  <1>6. ASSUME h \notin Handles
        PROVE  Get(u, h) = IF h = g THEN o ELSE Get(t, h)
    BY <1>1, <1>6 DEF Get, IsLive
  <1>7. Get(u, h) = IF h = g THEN o ELSE Get(t, h)
    BY <1>4, <1>5, <1>6
  <1> QED
    BY <1>7, Zenon DEF u

\* Writing through a live handle keeps the free list exact.
LEMMA PutExact ==
    ASSUME NEW Objects, NEW t, TableOK(t, Objects), FreeListOK(t), NEW g, IsLive(t, g), NEW o, o # Null
    PROVE  FreeListOK(Put(t, g, o))
  <1> DEFINE u == Put(t, g, o)
  <1>1. g.idx \in Slots /\ t.obj[g.idx] # Null /\ g.idx < t.size
    BY DEF IsLive, Handles
  <1>2. t.obj \in [Slots -> Objects \cup {Null}]
    BY DEF TableOK
  <1>3. u.free = t.free /\ u.size = t.size /\ u.live = t.live /\ u.obj = [t.obj EXCEPT ![g.idx] = o]
    BY <1>1, <1>2 DEF Put, TableOK
  <1>4. \A i \in Slots : u.obj[i] = Null <=> t.obj[i] = Null
    BY <1>1, <1>2, <1>3
  <1>5. \A k \in DOMAIN t.free : t.free[k] \in Slots
    BY FreeListFacts
  <1> HIDE DEF u
  <1> QED
    BY <1>3, <1>4, <1>5 DEF FreeListOK, u

\* ------------------------------------------------- handles of earlier lives

\* A handle whose slot has moved on to a later generation.
Dead(t, h) == h \in Handles /\ h.gen < t.gen[h.idx]

\* No live slot is at the last generation: the next free() does not wrap.
Unwrapped(t) == \A i \in Slots : t.obj[i] # Null => t.gen[i] < GEN_MAX

\* free(), or a write through a live handle, or nothing.
Shrinks(t, u, Objects) ==
    \/ u = t
    \/ \E h : u = Free(t, h)
    \/ \E h : \E o \in Objects : IsLive(t, h) /\ u = Put(t, h, o)

\* One operation of the table.
Evolves(t, u, Objects) ==
    \/ Shrinks(t, u, Objects)
    \/ \E o \in Objects : CanAlloc(t) /\ u = Alloc(t, o)

\* No slot's generation passes n, or n + 1 once it was freed.
GenBound(t, n) == \A i \in Slots : t.gen[i] <= IF t.obj[i] # Null THEN n ELSE n + 1

LEMMA GenTypes ==
    ASSUME NEW Objects, NEW t, TableOK(t, Objects)
    PROVE  /\ t.gen \in [Slots -> 0 .. GEN_MAX] /\ t.obj \in [Slots -> Objects \cup {Null}]
           /\ t.size \in Nat /\ Slots \subseteq Nat
  BY HandleTableAssumption DEF TableOK, Slots

\* get() finds nothing for a dead handle.
LEMMA DeadNull ==
    ASSUME NEW Objects, NEW t, TableOK(t, Objects), NEW h, Dead(t, h)
    PROVE  Get(t, h) = Null
  BY GenTypes DEF Dead, Get, IsLive, Handles

\* What alloc() in slot i, free() and a write do to objects and generations.
AllocatedAt(t, u, o, i) ==
    /\ u.obj = [t.obj EXCEPT ![i] = o]
    /\ u.gen = [t.gen EXCEPT ![i] = IF t.gen[i] = 0 THEN 1 ELSE t.gen[i]]

FreedAt(t, u, h) ==
    /\ h.idx \in Slots /\ t.obj[h.idx] # Null /\ t.gen[h.idx] = h.gen
    /\ u.obj = [t.obj EXCEPT ![h.idx] = Null]
    /\ u.gen = [t.gen EXCEPT ![h.idx] = IF h.gen >= GEN_MAX THEN 1 ELSE h.gen + 1]

WrittenAt(t, u, h, o) ==
    /\ h.idx \in Slots /\ t.obj[h.idx] # Null
    /\ u.obj = [t.obj EXCEPT ![h.idx] = o]
    /\ u.gen = t.gen

LEMMA AllocGens ==
    ASSUME NEW Objects, NEW t, TableOK(t, Objects), CanAlloc(t), NEW o
    PROVE  \E i \in Slots : AllocatedAt(t, Alloc(t, o), o, i)
  <1>1. AllocIdx(t) \in Slots
    BY AllocSlot
  <1>2. AllocatedAt(t, Alloc(t, o), o, AllocIdx(t))
    BY DEF Alloc, AllocGen, AllocatedAt
  <1> QED
    BY <1>1, <1>2

LEMMA FreeGens ==
    ASSUME NEW Objects, NEW t, TableOK(t, Objects), NEW h, IsLive(t, h)
    PROVE  FreedAt(t, Free(t, h), h)
  BY GenTypes DEF Free, IsLive, Handles, BumpGen, FreedAt

LEMMA PutGens ==
    ASSUME NEW Objects, NEW t, TableOK(t, Objects), NEW h, IsLive(t, h), NEW o
    PROVE  WrittenAt(t, Put(t, h, o), h, o)
  BY GenTypes DEF Put, IsLive, Handles, TableOK, WrittenAt

\* A dead handle stays dead as long as no generation wraps.
LEMMA DeadStays ==
    ASSUME NEW Objects, NEW t, TableOK(t, Objects), Unwrapped(t), NEW u, Evolves(t, u, Objects),
           NEW h, Dead(t, h)
    PROVE  Dead(u, h)
  <1>1. h \in Handles /\ h.idx \in Slots /\ h.gen \in Nat /\ h.gen < t.gen[h.idx]
    BY HandleTableAssumption DEF Dead, Handles
  <1>2. ASSUME NEW g, u = Free(t, g), IsLive(t, g) PROVE h.gen < u.gen[h.idx]
    <2>0. FreedAt(t, u, g)
      BY <1>2, FreeGens
    <2>1. g.gen < GEN_MAX
      BY <2>0 DEF Unwrapped, FreedAt
    <2>2. u.gen[h.idx] >= t.gen[h.idx] /\ u.gen[h.idx] \in Nat /\ t.gen[h.idx] \in Nat
      BY <1>1, <2>0, <2>1, GenTypes, HandleTableAssumption DEF FreedAt
    <2> QED
      BY <1>1, <2>2
  <1>3. ASSUME NEW o \in Objects, CanAlloc(t), u = Alloc(t, o) PROVE h.gen < u.gen[h.idx]
    <2>1. PICK i \in Slots : AllocatedAt(t, u, o, i)
      BY <1>3, AllocGens
    <2>2. u.gen[h.idx] >= t.gen[h.idx] /\ u.gen[h.idx] \in Nat /\ t.gen[h.idx] \in Nat
      BY <1>1, <2>1, GenTypes, HandleTableAssumption DEF AllocatedAt
    <2> QED
      BY <1>1, <2>2
  <1>4. ASSUME NEW g, NEW o \in Objects, IsLive(t, g), u = Put(t, g, o) PROVE h.gen < u.gen[h.idx]
    <2>1. WrittenAt(t, u, g, o)
      BY <1>4, PutGens
    <2> QED
      BY <1>1, <2>1 DEF WrittenAt
  <1>5. ASSUME NEW g, u = Free(t, g), ~IsLive(t, g) PROVE h.gen < u.gen[h.idx]
    BY <1>1, <1>5 DEF Free
  <1> QED
    BY <1>1, <1>2, <1>3, <1>4, <1>5 DEF Evolves, Shrinks, Dead

\* A freed handle is dead.
LEMMA FreedDead ==
    ASSUME NEW Objects, NEW t, TableOK(t, Objects), Unwrapped(t), NEW h, IsLive(t, h)
    PROVE  Dead(Free(t, h), h)
  <1>0. FreedAt(t, Free(t, h), h) /\ h \in Handles
    BY FreeGens DEF IsLive
  <1>1. h.idx \in Slots /\ h.gen < GEN_MAX /\ h \in Handles
        /\ Free(t, h).gen = [t.gen EXCEPT ![h.idx] = IF h.gen >= GEN_MAX THEN 1 ELSE h.gen + 1]
    BY <1>0 DEF Unwrapped, FreedAt
  <1>2. h.gen \in Nat
    BY <1>1 DEF Handles
  <1>3. Free(t, h).gen[h.idx] = h.gen + 1
    BY <1>1, <1>2, GenTypes, HandleTableAssumption
  <1> QED
    BY <1>1, <1>2, <1>3 DEF Dead

\* Only alloc() raises the bound on the generations.
LEMMA BoundShrinks ==
    ASSUME NEW Objects, Null \notin Objects, NEW t, TableOK(t, Objects), NEW n \in Nat, GenBound(t, n),
           NEW u, Shrinks(t, u, Objects)
    PROVE  GenBound(u, n)
  <1>1. ASSUME NEW g, u = Free(t, g), IsLive(t, g), NEW i \in Slots
        PROVE  u.gen[i] <= IF u.obj[i] # Null THEN n ELSE n + 1
    <2>0. FreedAt(t, u, g)
      BY <1>1, FreeGens
    <2>1. g.idx \in Slots /\ t.obj[g.idx] # Null /\ t.gen[g.idx] = g.gen
          /\ u.obj = [t.obj EXCEPT ![g.idx] = Null]
          /\ u.gen = [t.gen EXCEPT ![g.idx] = IF g.gen >= GEN_MAX THEN 1 ELSE g.gen + 1]
      BY <2>0 DEF FreedAt
    <2>2. CASE i = g.idx
      <3>1. g.gen \in Nat /\ g.gen <= n
        BY <2>1, GenTypes DEF GenBound
      <3>2. u.gen[i] = (IF g.gen >= GEN_MAX THEN 1 ELSE g.gen + 1) /\ u.obj[i] = Null
        BY <2>1, <2>2, GenTypes
      <3> QED
        BY <3>1, <3>2, HandleTableAssumption
    <2>3. CASE i # g.idx
      BY <2>1, <2>3, GenTypes DEF GenBound
    <2> QED
      BY <2>2, <2>3
  <1>2. ASSUME NEW g, u = Free(t, g), ~IsLive(t, g), NEW i \in Slots
        PROVE  u.gen[i] <= IF u.obj[i] # Null THEN n ELSE n + 1
    BY <1>2 DEF Free, GenBound
  <1>3. ASSUME NEW g, NEW o \in Objects, IsLive(t, g), u = Put(t, g, o), NEW i \in Slots
        PROVE  u.gen[i] <= IF u.obj[i] # Null THEN n ELSE n + 1
    <2>1. WrittenAt(t, u, g, o)
      BY <1>3, PutGens
    <2>2. u.gen[i] = t.gen[i] /\ (u.obj[i] # Null => t.obj[i] # Null)
      BY <2>1, GenTypes DEF WrittenAt
    <2>3. t.gen[i] \in Nat /\ t.gen[i] <= IF t.obj[i] # Null THEN n ELSE n + 1
      BY GenTypes DEF GenBound
    <2> QED
      BY <2>2, <2>3
  <1> QED
    BY <1>1, <1>2, <1>3 DEF Shrinks, GenBound

LEMMA BoundAlloc ==
    ASSUME NEW Objects, NEW t, TableOK(t, Objects), FreeListOK(t), NEW n \in Nat, GenBound(t, n),
           CanAlloc(t), NEW o, o # Null
    PROVE  GenBound(Alloc(t, o), n + 1)
  <1>1. PICK i \in Slots : AllocatedAt(t, Alloc(t, o), o, i)
    BY AllocGens
  <1> SUFFICES ASSUME NEW j \in Slots
               PROVE  Alloc(t, o).gen[j] <= IF Alloc(t, o).obj[j] # Null THEN n + 1 ELSE n + 1 + 1
    BY DEF GenBound
  <1>2. t.gen[j] \in Nat /\ t.gen[j] <= n + 1
    BY GenTypes DEF GenBound
  <1>3. Alloc(t, o).gen[j] <= n + 1 /\ Alloc(t, o).gen[j] \in Nat
    BY <1>1, <1>2, GenTypes DEF AllocatedAt
  <1> QED
    BY <1>3

LEMMA BoundWeaker ==
    ASSUME NEW Objects, NEW t, TableOK(t, Objects), NEW n \in Nat, NEW m \in Nat, n <= m, GenBound(t, n)
    PROVE  GenBound(t, m)
  <1> SUFFICES ASSUME NEW i \in Slots
               PROVE  t.gen[i] <= IF t.obj[i] # Null THEN m ELSE m + 1
    BY DEF GenBound
  <1>1. t.gen[i] \in Nat /\ t.gen[i] <= IF t.obj[i] # Null THEN n ELSE n + 1
    BY GenTypes DEF GenBound
  <1> QED
    BY <1>1

LEMMA BoundUnwrapped ==
    ASSUME NEW Objects, NEW t, TableOK(t, Objects), NEW n \in Nat, n < GEN_MAX, GenBound(t, n)
    PROVE  Unwrapped(t)
  <1> SUFFICES ASSUME NEW i \in Slots, t.obj[i] # Null
               PROVE  t.gen[i] < GEN_MAX
    BY DEF Unwrapped
  <1>1. t.gen[i] \in Nat /\ t.gen[i] <= n
    BY GenTypes DEF GenBound
  <1> QED
    BY <1>1, HandleTableAssumption

\* A handle once given out names something or is dead.
Issued(t, h) == Get(t, h) # Null \/ Dead(t, h)

LEMMA IssuedStays ==
    ASSUME NEW Objects, Null \notin Objects, NEW t, TableOK(t, Objects), FreeListOK(t), Unwrapped(t),
           NEW u, Evolves(t, u, Objects), NEW h, Issued(t, h)
    PROVE  Issued(u, h)
  <1>1. CASE Dead(t, h)
    BY <1>1, DeadStays DEF Issued
  <1>2. CASE Get(t, h) # Null
    <2>1. IsLive(t, h)
      BY <1>2, GetFacts
    <2>2. ASSUME NEW g, u = Free(t, g) PROVE Issued(u, h)
      <3>1. CASE g = h
        BY <2>1, <2>2, <3>1, FreedDead DEF Issued
      <3>2. CASE g # h
        BY <1>2, <2>2, <3>2, GetFree DEF Issued
      <3> QED
        BY <3>1, <3>2
    <2>3. ASSUME NEW g, NEW o \in Objects, IsLive(t, g), u = Put(t, g, o) PROVE Issued(u, h)
      <3>1. Get(u, h) = IF h = g THEN o ELSE Get(t, h)
        BY <2>3, GetPut
      <3> QED
        BY <1>2, <3>1 DEF Issued
    <2>4. ASSUME NEW o \in Objects, CanAlloc(t), u = Alloc(t, o) PROVE Issued(u, h)
      <3>1. Get(u, h) = IF h = AllocHandle(t) THEN o ELSE Get(t, h)
        BY <2>4, GetAlloc
      <3> QED
        BY <1>2, <3>1 DEF Issued
    <2> QED
      BY <1>2, <2>2, <2>3, <2>4 DEF Evolves, Shrinks, Issued
  <1> QED
    BY <1>1, <1>2 DEF Issued
================================================================================
