----------------------------- MODULE EnetPumpProofs -----------------------------
(***************************************************************************)
(* What EnetPump's invariants rest on, for every number of hosts, peer     *)
(* slots, sizes, calls and events.  Four inductive invariants, each one    *)
(* using those before it:                                                  *)
(*                                                                         *)
(*   CoreInv     the tables, the ENet slots and their backlinks            *)
(*   LineInv     what an enPoll collects while it runs                     *)
(*   NumberInv   the numbers of the events of each host not heard yet      *)
(*   StoryInv    what was told of each peer, and what is still to be told  *)
(*                                                                         *)
(* The steps of Next are first told apart by what they do to the tables    *)
(* (the ...Core lemmas), and then, for the later invariants, by what they  *)
(* do to the events and the stories (QuietStep .. HearStep).  The last two *)
(* suppose that no generation wraps: a handle given out twice would belong *)
(* to two hosts, or to two peers.                                          *)
(***************************************************************************)
EXTENDS EnetPump, HandleTableLemmas, FiniteSetTheorems, TLAPS

\* ------------------------------------------------------ lists of live slots

\* The number of slots of S below i.
RankIn(S, i) == Cardinality({j \in S : j < i})

\* A set of slots is listed once each: Nth finds its k-th, for every k.
LEMMA NthFacts ==
    ASSUME NEW S \in SUBSET Slots
    PROVE  /\ Cardinality(S) \in Nat
           /\ \A k \in 1 .. Cardinality(S) : Nth(S, k) \in S /\ RankIn(S, Nth(S, k)) = k - 1
           /\ \A i \in S : \E k \in 1 .. Cardinality(S) : Nth(S, k) = i
  <1>1. IsFiniteSet(Slots) /\ Slots \subseteq Nat
    <2>1. 0 \in Int /\ SLOT_MASK \in Int
      BY HandleTableAssumption
    <2> QED
      BY <2>1, FS_Interval, HandleTableAssumption DEF Slots
  <1>2. IsFiniteSet(S) /\ \A T \in SUBSET S : IsFiniteSet(T) /\ Cardinality(T) <= Cardinality(S)
                                              /\ (Cardinality(T) = Cardinality(S) => T = S)
    <2>1. IsFiniteSet(S)
      BY <1>1, FS_Subset
    <2> QED
      BY <2>1, FS_Subset
  <1>3. Cardinality(S) \in Nat /\ \A T \in SUBSET S : Cardinality(T) \in Nat
    BY <1>2, FS_CardinalityType
  <1> DEFINE n == Cardinality(S)
             Below(i) == {j \in S : j < i}
             rank == [i \in S |-> RankIn(S, i)]
  <1>4. \A i \in S : RankIn(S, i) \in 0 .. n - 1
    <2> SUFFICES ASSUME NEW i \in S
                 PROVE  RankIn(S, i) \in 0 .. n - 1
      OBVIOUS
    <2>1. Below(i) \in SUBSET S /\ i \notin Below(i)
      BY <1>1
    <2>2. Cardinality(Below(i)) <= n /\ Cardinality(Below(i)) # n /\ Cardinality(Below(i)) \in Nat
      BY <1>2, <1>3, <2>1
    <2>3. RankIn(S, i) = Cardinality(Below(i))
      BY DEF RankIn
    <2> QED
      BY <1>3, <2>2, <2>3
  <1>5. \A i, j \in S : i < j => RankIn(S, i) < RankIn(S, j)
    <2> SUFFICES ASSUME NEW i \in S, NEW j \in S, i < j
                 PROVE  RankIn(S, i) < RankIn(S, j)
      OBVIOUS
    <2>0. i \in Int /\ j \in Int /\ \A k \in S : k \in Int
      BY <1>1
    <2>6. \A k \in S : k < i => k < j
      BY <2>0
    <2>7. i \in Below(j) /\ i \notin Below(i)
      BY <2>0
    <2>1. Below(i) \in SUBSET Below(j) /\ i \in Below(j) /\ i \notin Below(i)
      BY <2>6, <2>7
    <2>2. Below(j) \in SUBSET S
      OBVIOUS
    <2>3. IsFiniteSet(Below(j))
      BY <1>2, <2>2
    <2>4. Cardinality(Below(i)) <= Cardinality(Below(j)) /\ Cardinality(Below(i)) # Cardinality(Below(j))
      BY <2>1, <2>3, FS_Subset
    <2>5. Cardinality(Below(i)) \in Nat /\ Cardinality(Below(j)) \in Nat
      BY <1>3, <2>1, <2>2
    <2> QED
      BY <2>4, <2>5 DEF RankIn
  <1>6. \A i, j \in S : RankIn(S, i) = RankIn(S, j) => i = j
    <2> SUFFICES ASSUME NEW i \in S, NEW j \in S, RankIn(S, i) = RankIn(S, j), i # j
                 PROVE  FALSE
      OBVIOUS
    <2>1. i < j \/ j < i
      BY <1>1
    <2>2. RankIn(S, i) \in Nat
      BY <1>4
    <2> QED
      BY <1>5, <2>1, <2>2
  <1>7. \A r \in 0 .. n - 1 : \E i \in S : RankIn(S, i) = r
    <2>1. rank \in Injection(S, 0 .. n - 1)
      BY <1>4, <1>6 DEF Injection, IsInjective
    <2>2. IsFiniteSet(0 .. n - 1) /\ Cardinality(0 .. n - 1) = n
      <3>1. n - 1 \in Int /\ (0 > n - 1 => n = 0) /\ (n - 1) - 0 + 1 = n
        BY <1>3
      <3> QED
        BY <3>1, <1>3, FS_Interval
    <2>3. rank \in Surjection(S, 0 .. n - 1)
      BY <2>1, <2>2, FS_Injection
    <2> QED
      BY <2>3 DEF Surjection
  <1>8. \A k \in 1 .. n : Nth(S, k) \in S /\ RankIn(S, Nth(S, k)) = k - 1
    <2> SUFFICES ASSUME NEW k \in 1 .. n
                 PROVE  Nth(S, k) \in S /\ RankIn(S, Nth(S, k)) = k - 1
      OBVIOUS
    <2>1. k - 1 \in 0 .. n - 1
      BY <1>3
    <2>2. \E i \in S : Cardinality({j \in S : j < i}) = k - 1
      BY <1>7, <2>1 DEF RankIn
    <2> QED
      BY <2>2 DEF Nth, RankIn
  <1>9. \A i \in S : \E k \in 1 .. n : Nth(S, k) = i
    <2> SUFFICES ASSUME NEW i \in S
                 PROVE  \E k \in 1 .. n : Nth(S, k) = i
      OBVIOUS
    <2>1. RankIn(S, i) + 1 \in 1 .. n /\ (RankIn(S, i) + 1) - 1 = RankIn(S, i)
      BY <1>3, <1>4
    <2>2. Nth(S, RankIn(S, i) + 1) \in S /\ RankIn(S, Nth(S, RankIn(S, i) + 1)) = RankIn(S, i)
      BY <1>8, <2>1
    <2>3. Nth(S, RankIn(S, i) + 1) = i
      BY <1>6, <2>2
    <2> QED
      BY <2>1, <2>3
  <1> QED
    BY <1>3, <1>8, <1>9

\* The slots of these handles.
IdxOf(hs) == {h.idx : h \in hs}

\* s lists the slots of S, each of them once.
Lists(s, S) ==
    /\ s \in Seq(Slots) /\ Len(s) = Cardinality(S) /\ Cardinality(S) \in Nat
    /\ DOMAIN s = 1 .. Cardinality(S)
    /\ \A k \in DOMAIN s : s[k] \in S
    /\ \A i \in S : \E k \in DOMAIN s : s[k] = i
    /\ \A j, k \in DOMAIN s : s[j] = s[k] => j = k

NthOnes(S) == [k \in 1 .. Cardinality(S) |-> Nth(S, k)]

LEMMA NthListed ==
    ASSUME NEW S \in SUBSET Slots
    PROVE  Lists(NthOnes(S), S)
  <1> PICK s : s = NthOnes(S)
    OBVIOUS
  <1>0. s = [k \in 1 .. Cardinality(S) |-> Nth(S, k)]
    BY DEF NthOnes
  <1>1. /\ Cardinality(S) \in Nat
        /\ \A k \in 1 .. Cardinality(S) : Nth(S, k) \in S /\ RankIn(S, Nth(S, k)) = k - 1
        /\ \A i \in S : \E k \in 1 .. Cardinality(S) : Nth(S, k) = i
    BY NthFacts
  <1>2. \A k \in 1 .. Cardinality(S) : s[k] = Nth(S, k) /\ s[k] \in Slots
    BY <1>0, <1>1
  <1>3. s \in Seq(Slots) /\ Len(s) = Cardinality(S) /\ DOMAIN s = 1 .. Cardinality(S)
    BY <1>0, <1>1, <1>2
  <1>4. ASSUME NEW j \in DOMAIN s, NEW k \in DOMAIN s, s[j] = s[k] PROVE j = k
    <2>1. j - 1 = k - 1 /\ j \in Int /\ k \in Int
      BY <1>1, <1>2, <1>3, <1>4
    <2> QED
      BY <2>1
  <1>5. \A k \in DOMAIN s : s[k] \in S
    BY <1>1, <1>2, <1>3
  <1>6. \A i \in S : \E k \in DOMAIN s : s[k] = i
    BY <1>1, <1>2, <1>3
  <1> QED
    BY <1>1, <1>3, <1>4, <1>5, <1>6 DEF Lists

\* One sequence after another, element by element.
Joins(c, a, b) ==
    /\ Len(a) \in Nat /\ Len(b) \in Nat
    /\ Len(c) = Len(a) + Len(b) /\ DOMAIN c = 1 .. Len(a) + Len(b)
    /\ DOMAIN a = 1 .. Len(a) /\ DOMAIN b = 1 .. Len(b)
    /\ \A k \in 1 .. Len(a) : c[k] = a[k]
    /\ \A k \in 1 .. Len(b) : c[Len(a) + k] = b[k]
    /\ \A k \in 1 .. Len(a) + Len(b) :
          k \in 1 .. Len(a) \/ \E x \in 1 .. Len(b) : k = Len(a) + x

LEMMA ConcatFacts ==
    ASSUME NEW R, NEW a \in Seq(R), NEW b \in Seq(R)
    PROVE  a \o b \in Seq(R) /\ Joins(a \o b, a, b)
  <1>1. /\ a \o b \in Seq(R) /\ Len(a) \in Nat /\ Len(b) \in Nat
        /\ Len(a \o b) = Len(a) + Len(b) /\ DOMAIN (a \o b) = 1 .. Len(a) + Len(b)
        /\ DOMAIN a = 1 .. Len(a) /\ DOMAIN b = 1 .. Len(b)
    OBVIOUS
  <1>2. \A k \in 1 .. Len(a) : (a \o b)[k] = a[k]
    OBVIOUS
  <1>3. \A k \in 1 .. Len(b) : (a \o b)[Len(a) + k] = b[k]
    OBVIOUS
  <1>4. \A k \in 1 .. Len(a) + Len(b) :
           k \in 1 .. Len(a) \/ \E x \in 1 .. Len(b) : k = Len(a) + x
    <2> SUFFICES ASSUME NEW k \in 1 .. Len(a) + Len(b), k \notin 1 .. Len(a)
                 PROVE  \E x \in 1 .. Len(b) : k = Len(a) + x
      OBVIOUS
    <2>1. k - Len(a) \in 1 .. Len(b) /\ k = Len(a) + (k - Len(a))
      BY <1>1
    <2> QED
      BY <2>1
  <1> QED
    BY <1>1, <1>2, <1>3, <1>4 DEF Joins

\* Freeing some of the live handles at once.
LEMMA FreeAllFacts ==
    ASSUME NEW Objects, Null \notin Objects, NEW t, TableOK(t, Objects), FreeListOK(t),
           NEW hs, hs \subseteq LiveHandles(t)
    PROVE  /\ TableOK(FreeAll(t, hs), Objects)
           /\ FreeListOK(FreeAll(t, hs))
           /\ \A h : Get(FreeAll(t, hs), h) = IF h \in hs THEN Null ELSE Get(t, h)
  <1> PICK S : S = IdxOf(hs)
    OBVIOUS
  <1> PICK u : u = FreeAll(t, hs)
    OBVIOUS
  <1> PICK s : s = NthOnes(S)
    OBVIOUS
  <1>1. \A h \in hs : h \in Handles /\ h.idx \in Slots /\ t.obj[h.idx] # Null /\ t.gen[h.idx] = h.gen
                      /\ h.idx < t.size /\ IsLive(t, h)
    <2> SUFFICES ASSUME NEW h \in hs
                 PROVE  h \in Handles /\ h.idx \in Slots /\ t.obj[h.idx] # Null /\ t.gen[h.idx] = h.gen
                        /\ h.idx < t.size /\ IsLive(t, h)
      OBVIOUS
    <2>1. IsLive(t, h)
      BY GetFacts
    <2> QED
      BY <2>1 DEF IsLive, Handles
  <1>2. S \in SUBSET Slots
    BY <1>1 DEF IdxOf
  <1>3. /\ u.gen = [i \in Slots |-> IF i \in S THEN BumpGen(t.gen[i]) ELSE t.gen[i]]
        /\ u.obj = [i \in Slots |-> IF i \in S THEN Null ELSE t.obj[i]]
        /\ u.size = t.size /\ u.free = t.free \o s /\ u.live = t.live - Cardinality(S)
        /\ u = [gen |-> u.gen, obj |-> u.obj, size |-> u.size, free |-> u.free, live |-> u.live]
    BY DEF FreeAll, IdxOf, NthOnes
  <1>4. /\ s \in Seq(Slots) /\ Len(s) = Cardinality(S) /\ Cardinality(S) \in Nat
        /\ DOMAIN s = 1 .. Cardinality(S)
        /\ \A k \in DOMAIN s : s[k] \in S
        /\ \A i \in S : \E k \in DOMAIN s : s[k] = i
        /\ \A j, k \in DOMAIN s : s[j] = s[k] => j = k
    BY <1>2, NthListed DEF Lists
  <1>5. /\ t.free \in Seq(Slots) /\ Len(t.free) \in Nat /\ DOMAIN t.free = 1 .. Len(t.free)
        /\ t.size \in 0 .. SLOT_MASK + 1 /\ t.live \in Int
        /\ t.obj \in [Slots -> Objects \cup {Null}]
        /\ t.gen \in [Slots -> 0 .. GEN_MAX]
        /\ \A i \in Slots : t.obj[i] # Null => t.gen[i] # 0
    BY DEF TableOK
  <1>6. TableOK(u, Objects)
    <2>1. u.gen \in [Slots -> 0 .. GEN_MAX]
      BY <1>3, <1>5, HandleTableAssumption DEF BumpGen
    <2>2. u.obj \in [Slots -> Objects \cup {Null}]
      BY <1>3, <1>5
    <2>3. u.free \in Seq(Slots)
      BY <1>3, <1>4, <1>5
    <2>4. u.live \in Int
      BY <1>3, <1>4, <1>5
    <2>5. \A i \in Slots : u.obj[i] # Null => u.gen[i] # 0
      BY <1>3, <1>5
    <2> QED
      BY <1>3, <1>5, <2>1, <2>2, <2>3, <2>4, <2>5 DEF TableOK
  <1>7. FreeListOK(u)
    <2> PICK a : a = t.free
      OBVIOUS
    <2> PICK c : c = u.free
      OBVIOUS
    <2> PICK n : n = Len(a)
      OBVIOUS
    <2> PICK m : m = Len(s)
      OBVIOUS
    <2>1. /\ n \in Nat /\ m \in Nat /\ m = Cardinality(S)
          /\ DOMAIN c = 1 .. n + m /\ Len(c) = n + m /\ DOMAIN s = 1 .. m
          /\ \A k \in 1 .. n : c[k] = a[k]
          /\ \A k \in 1 .. m : c[n + k] = s[k]
          /\ \A k \in 1 .. n + m : k \in 1 .. n \/ \E x \in 1 .. m : k = n + x
      <3>1. c = a \o s /\ a \in Seq(Slots) /\ s \in Seq(Slots) /\ m = Cardinality(S)
        BY <1>3, <1>4, <1>5
      <3>2. Joins(c, a, s)
        BY <3>1, ConcatFacts
      <3> QED
        BY <3>1, <3>2 DEF Joins
    <2>2. \A k \in 1 .. n : k \in 1 .. n + m
      BY <2>1
    <2>3. \A k \in 1 .. m : n + k \in 1 .. n + m
      BY <2>1
    <2>4. /\ \A k \in 1 .. n : a[k] < t.size /\ t.obj[a[k]] = Null /\ a[k] \in Slots
          /\ \A i \in Slots : i < t.size /\ t.obj[i] = Null => \E k \in 1 .. n : a[k] = i
          /\ \A j, k \in 1 .. n : a[j] = a[k] => j = k
          /\ \A i \in Slots : i >= t.size => t.obj[i] = Null
          /\ t.live + n = t.size
      BY FreeListFacts
    <2>5. \A k \in 1 .. m : s[k] \in Slots /\ s[k] < t.size /\ t.obj[s[k]] # Null /\ u.obj[s[k]] = Null
      <3>1. \A i \in S : i \in Slots /\ i < t.size /\ t.obj[i] # Null /\ u.obj[i] = Null
        BY <1>1, <1>3, <1>2 DEF IdxOf
      <3>2. \A k \in 1 .. m : s[k] \in S
        BY <1>4, <2>1
      <3> QED
        BY <3>1, <3>2
    <2>6. \A k \in 1 .. n : u.obj[a[k]] = Null
      BY <1>3, <2>4
    <2>7. ASSUME NEW k \in DOMAIN c PROVE c[k] < u.size /\ u.obj[c[k]] = Null
      <3>1. CASE k \in 1 .. n
        BY <1>3, <2>1, <2>4, <2>6, <3>1
      <3>2. ASSUME NEW x \in 1 .. m, k = n + x PROVE c[k] < u.size /\ u.obj[c[k]] = Null
        <4>1. c[k] = s[x]
          BY <2>1, <3>2
        <4> QED
          BY <1>3, <2>5, <4>1
      <3>3. k \in 1 .. n \/ \E x \in 1 .. m : k = n + x
        BY <2>1, <2>7
      <3> QED
        BY <3>1, <3>2, <3>3
    <2>8. ASSUME NEW i \in Slots, i < u.size, u.obj[i] = Null PROVE \E k \in DOMAIN c : c[k] = i
      <3>1. CASE i \in S
        <4>1. PICK k \in 1 .. m : s[k] = i
          BY <1>4, <2>1, <3>1
        <4>2. n + k \in DOMAIN c /\ c[n + k] = i
          BY <2>1, <2>3, <4>1
        <4> QED
          BY <4>2
      <3>2. CASE i \notin S
        <4>1. t.obj[i] = Null /\ i < t.size
          BY <1>3, <2>8, <3>2
        <4>2. PICK k \in 1 .. n : a[k] = i
          BY <2>4, <4>1
        <4> QED
          BY <2>1, <2>2, <4>2
      <3> QED
        BY <3>1, <3>2
    <2>9. ASSUME NEW j \in DOMAIN c, NEW k \in DOMAIN c, c[j] = c[k] PROVE j = k
      <3>1. CASE j \in 1 .. n /\ k \in 1 .. n
        BY <2>1, <2>4, <2>9, <3>1
      <3>2. ASSUME NEW y \in 1 .. n, NEW x \in 1 .. m, c[n + x] = c[y] PROVE FALSE
        <4>1. s[x] = a[y]
          BY <2>1, <3>2
        <4> QED
          BY <2>4, <2>5, <4>1
      <3>3. ASSUME NEW x \in 1 .. m, NEW y \in 1 .. m, c[n + x] = c[n + y] PROVE x = y
        <4>1. s[x] = s[y] /\ x \in DOMAIN s /\ y \in DOMAIN s
          BY <2>1, <3>3
        <4> QED
          BY <1>4, <4>1
      <3>4. j \in 1 .. n \/ \E x \in 1 .. m : j = n + x
        BY <2>1, <2>9
      <3>5. k \in 1 .. n \/ \E x \in 1 .. m : k = n + x
        BY <2>1, <2>9
      <3>6. ASSUME NEW x \in 1 .. m, j = n + x PROVE j = k
        <4>1. k \notin 1 .. n
          BY <2>9, <3>2, <3>6
        <4>2. PICK y \in 1 .. m : k = n + y
          BY <3>5, <4>1
        <4> QED
          BY <2>9, <3>3, <3>6, <4>2
      <3>7. ASSUME j \in 1 .. n PROVE j = k
        <4>1. ASSUME NEW x \in 1 .. m, k = n + x PROVE FALSE
          BY <2>9, <3>2, <3>7, <4>1
        <4> QED
          BY <3>1, <3>5, <3>7, <4>1
      <3> QED
        BY <3>4, <3>6, <3>7
    <2>10. \A i \in Slots : i >= u.size => u.obj[i] = Null
      BY <1>3, <2>4
    <2>11. u.live + Len(c) = u.size
      BY <1>3, <1>4, <1>5, <2>1, <2>4
    <2> QED
      BY <2>7, <2>8, <2>9, <2>10, <2>11 DEF FreeListOK
  <1>8. ASSUME NEW h PROVE Get(u, h) = IF h \in hs THEN Null ELSE Get(t, h)
    <2>1. CASE h \in hs
      <3>1. h.idx \in S /\ h.idx \in Slots
        BY <1>1, <2>1 DEF IdxOf
      <3>2. u.obj[h.idx] = Null
        BY <1>3, <3>1
      <3> QED
        BY <2>1, <3>2 DEF Get, IsLive
    <2>2. CASE h \notin hs /\ h \in Handles /\ h.idx \notin S
      <3>1. h.idx \in Slots
        BY <2>2 DEF Handles
      <3>2. u.obj[h.idx] = t.obj[h.idx] /\ u.gen[h.idx] = t.gen[h.idx]
        BY <1>3, <2>2, <3>1
      <3> QED
        BY <1>3, <2>2, <3>2 DEF Get, IsLive
    <2>3. CASE h \notin hs /\ h \in Handles /\ h.idx \in S
      <3>1. PICK g \in hs : g.idx = h.idx
        BY <2>3 DEF IdxOf
      <3>2. h.idx \in Slots /\ u.obj[h.idx] = Null
        BY <1>2, <1>3, <2>3
      <3>3. ~IsLive(t, h)
        <4> SUFFICES ASSUME IsLive(t, h)
                     PROVE  FALSE
          OBVIOUS
        <4>1. h.gen = g.gen
          BY <1>1, <3>1 DEF IsLive
        <4>2. h = g
          BY <1>1, <2>3, <3>1, <4>1 DEF Handles
        <4> QED
          BY <2>3, <4>2
      <3> QED
        BY <2>3, <3>2, <3>3 DEF Get, IsLive
    <2>4. CASE h \notin Handles
      BY <1>1, <2>4 DEF Get, IsLive
    <2> QED
      BY <2>1, <2>2, <2>3, <2>4
  <1> QED
    BY <1>6, <1>7, <1>8

SlotStates == {"disconnected", "connecting", "connected", "disconnecting", "leaving"}
Slot == [st : SlotStates, data : Handles \cup {NoHandle}]
Polls == [pc : {"off", "pump", "grow", "full"}, host : Handles \cup {NoHandle}, used : Nat,
          need : Nat, tries : 0 .. MaxTries, out : Seq(Events)]

\* The two tables and ENet's slots.
TablesInv ==
    /\ TableOK(hosts, HostObjects) /\ FreeListOK(hosts)
    /\ TableOK(peers, PeerObjects) /\ FreeListOK(peers)
    /\ enet \in [HostIds -> [PeerSlots -> Slot]]

\* Each ENet host has one owner, and was created.
OwnersInv ==
    /\ \A i \in up : i \in HostIds /\ i <= made
    /\ \A h : Get(hosts, h) # Null => Get(hosts, h).id \in up
    /\ \A g, h : Get(hosts, g) # Null /\ Get(hosts, h) # Null /\ Get(hosts, g).id = Get(hosts, h).id => g = h
    /\ \A i \in up : \E h : Get(hosts, h) # Null /\ Get(hosts, h).id = i
    /\ inits = 0 => \A h : Get(hosts, h) = Null

\* Backlinks, in terms of what get() returns.
LinksInv ==
    /\ \A p : Get(peers, p) # Null =>
         /\ Get(hosts, Get(peers, p).host) # Null
         /\ Get(hosts, Get(peers, p).host).id = Get(peers, p).id
         /\ enet[Get(peers, p).id][Get(peers, p).slot].data = p
         /\ enet[Get(peers, p).id][Get(peers, p).slot].st # "disconnected"
    /\ \A i \in HostIds : \A s \in PeerSlots :
         enet[i][s].data # NoHandle =>
            /\ Get(peers, enet[i][s].data) # Null
            /\ Get(peers, enet[i][s].data).id = i
            /\ Get(peers, enet[i][s].data).slot = s

RestInv ==
    /\ inits \in 0 .. MaxInits /\ made \in Nat /\ conns \in 0 .. MaxConns
    /\ poll \in Polls /\ drainCap \in Nat /\ list \in Seq(Events)
    /\ serviced \in [Handles -> Nat]
    /\ at \in {"idle", "pass", "handler"} /\ polling \in BOOLEAN
    /\ poll.pc \in {"pump", "grow"} => Get(hosts, poll.host) # Null
    /\ \A h : Get(hosts, h) # Null => Len(Get(hosts, h).stash) <= 1

CoreInv == TablesInv /\ OwnersInv /\ LinksInv /\ RestInv

LEMMA NoHandleNotOne == NoHandle \notin Handles
  BY HandleTableAssumption DEF NoHandle, Handles

LEMMA HostFacts ==
    ASSUME TablesInv, NEW h
    PROVE  /\ h \in LiveHandles(hosts) <=> Get(hosts, h) # Null
           /\ IsLive(hosts, h) <=> Get(hosts, h) # Null
           /\ Get(hosts, h) # Null => h \in Handles /\ Get(hosts, h) \in HostObjects
  <1>1. Null \notin HostObjects /\ TableOK(hosts, HostObjects)
    BY EnetAssumption DEF TablesInv
  <1> QED
    BY <1>1, GetFacts

LEMMA PeerFacts ==
    ASSUME TablesInv, NEW p
    PROVE  /\ p \in LiveHandles(peers) <=> Get(peers, p) # Null
           /\ IsLive(peers, p) <=> Get(peers, p) # Null
           /\ Get(peers, p) # Null => p \in Handles /\ Get(peers, p) \in PeerObjects
           /\ Get(peers, NoHandle) = Null
  <1>1. Null \notin PeerObjects /\ TableOK(peers, PeerObjects)
    BY EnetAssumption DEF TablesInv
  <1> QED
    BY <1>1, GetFacts, NoHandleNotOne

\* ------------------------------------------------------ changes of a table

HostsFreed(hs) ==
    /\ TableOK(hosts, HostObjects)' /\ FreeListOK(hosts)'
    /\ \A h : Get(hosts', h) = IF h \in hs THEN Null ELSE Get(hosts, h)

HostsPut(g, o) ==
    /\ TableOK(hosts, HostObjects)' /\ FreeListOK(hosts)'
    /\ \A h : Get(hosts', h) = IF h = g THEN o ELSE Get(hosts, h)

PeersFreed(ps) ==
    /\ TableOK(peers, PeerObjects)' /\ FreeListOK(peers)'
    /\ \A p : Get(peers', p) = IF p \in ps THEN Null ELSE Get(peers, p)

PeersPut(g, o) ==
    /\ TableOK(peers, PeerObjects)' /\ FreeListOK(peers)'
    /\ \A p : Get(peers', p) = IF p = g THEN o ELSE Get(peers, p)

LEMMA HostFreeAll ==
    ASSUME TablesInv, NEW hs, hs \subseteq LiveHandles(hosts), hosts' = FreeAll(hosts, hs)
    PROVE  HostsFreed(hs)
  <1>1. Null \notin HostObjects /\ TableOK(hosts, HostObjects) /\ FreeListOK(hosts)
    BY EnetAssumption DEF TablesInv
  <1>2. PICK u : u = FreeAll(hosts, hs)
    OBVIOUS
  <1>3. /\ TableOK(u, HostObjects) /\ FreeListOK(u)
        /\ \A h : Get(u, h) = IF h \in hs THEN Null ELSE Get(hosts, h)
    BY <1>1, <1>2, FreeAllFacts
  <1>4. hosts' = u
    BY <1>2
  <1> QED
    BY <1>3, <1>4 DEF HostsFreed, TableOK, FreeListOK, Get, IsLive

LEMMA PeerFreeAll ==
    ASSUME TablesInv, NEW ps, ps \subseteq LiveHandles(peers), peers' = FreeAll(peers, ps)
    PROVE  PeersFreed(ps)
  <1>1. Null \notin PeerObjects /\ TableOK(peers, PeerObjects) /\ FreeListOK(peers)
    BY EnetAssumption DEF TablesInv
  <1>2. PICK u : u = FreeAll(peers, ps)
    OBVIOUS
  <1>3. /\ TableOK(u, PeerObjects) /\ FreeListOK(u)
        /\ \A h : Get(u, h) = IF h \in ps THEN Null ELSE Get(peers, h)
    BY <1>1, <1>2, FreeAllFacts
  <1>4. peers' = u
    BY <1>2
  <1> QED
    BY <1>3, <1>4 DEF PeersFreed, TableOK, FreeListOK, Get, IsLive

LEMMA HostAlloc ==
    ASSUME TablesInv, NEW o \in HostObjects, CanAlloc(hosts), hosts' = Alloc(hosts, o)
    PROVE  /\ HostsPut(AllocHandle(hosts), o)
           /\ Get(hosts, AllocHandle(hosts)) = Null /\ AllocHandle(hosts) \in Handles
  <1>1. Null \notin HostObjects /\ o # Null /\ TableOK(hosts, HostObjects) /\ FreeListOK(hosts)
    BY EnetAssumption DEF TablesInv
  <1>2. PICK u : u = Alloc(hosts, o)
    OBVIOUS
  <1>3. TableOK(u, HostObjects) /\ FreeListOK(u)
    BY <1>1, <1>2, AllocTyped, AllocExact
  <1>4. \A h : /\ Get(u, h) = IF h = AllocHandle(hosts) THEN o ELSE Get(hosts, h)
               /\ Get(hosts, AllocHandle(hosts)) = Null
               /\ AllocHandle(hosts) \in Handles
    BY <1>1, <1>2, GetAlloc
  <1>5. hosts' = u
    BY <1>2
  <1> QED
    BY <1>3, <1>4, <1>5 DEF HostsPut, TableOK, FreeListOK, Get, IsLive

LEMMA HostPut ==
    ASSUME TablesInv, NEW g, Get(hosts, g) # Null, NEW o \in HostObjects, hosts' = Put(hosts, g, o)
    PROVE  HostsPut(g, o)
  <1>1. /\ Null \notin HostObjects /\ o # Null /\ TableOK(hosts, HostObjects) /\ FreeListOK(hosts)
        /\ IsLive(hosts, g)
    BY EnetAssumption, HostFacts DEF TablesInv
  <1>2. PICK u : u = Put(hosts, g, o)
    OBVIOUS
  <1>3. TableOK(u, HostObjects) /\ FreeListOK(u)
    BY <1>1, <1>2, PutTyped, PutExact
  <1>4. \A h : Get(u, h) = IF h = g THEN o ELSE Get(hosts, h)
    BY <1>1, <1>2, GetPut
  <1>5. hosts' = u
    BY <1>2
  <1> QED
    BY <1>3, <1>4, <1>5 DEF HostsPut, TableOK, FreeListOK, Get, IsLive

LEMMA PeerAlloc ==
    ASSUME TablesInv, NEW o \in PeerObjects, CanAlloc(peers), peers' = Alloc(peers, o)
    PROVE  /\ PeersPut(AllocHandle(peers), o)
           /\ Get(peers, AllocHandle(peers)) = Null /\ AllocHandle(peers) \in Handles
  <1>1. Null \notin PeerObjects /\ o # Null /\ TableOK(peers, PeerObjects) /\ FreeListOK(peers)
    BY EnetAssumption DEF TablesInv
  <1>2. PICK u : u = Alloc(peers, o)
    OBVIOUS
  <1>3. TableOK(u, PeerObjects) /\ FreeListOK(u)
    BY <1>1, <1>2, AllocTyped, AllocExact
  <1>4. \A h : /\ Get(u, h) = IF h = AllocHandle(peers) THEN o ELSE Get(peers, h)
               /\ Get(peers, AllocHandle(peers)) = Null
               /\ AllocHandle(peers) \in Handles
    BY <1>1, <1>2, GetAlloc
  <1>5. peers' = u
    BY <1>2
  <1> QED
    BY <1>3, <1>4, <1>5 DEF PeersPut, TableOK, FreeListOK, Get, IsLive

LEMMA PeerFree ==
    ASSUME TablesInv, NEW p, peers' = Free(peers, p)
    PROVE  PeersFreed({p})
  <1>1. Null \notin PeerObjects /\ TableOK(peers, PeerObjects) /\ FreeListOK(peers)
    BY EnetAssumption DEF TablesInv
  <1>2. PICK u : u = Free(peers, p)
    OBVIOUS
  <1>3. TableOK(u, PeerObjects) /\ FreeListOK(u)
    BY <1>1, <1>2, FreeTyped, FreeExact
  <1>4. \A h : Get(u, h) = IF h = p THEN Null ELSE Get(peers, h)
    BY <1>1, <1>2, GetFree
  <1>5. peers' = u
    BY <1>2
  <1> QED
    BY <1>3, <1>4, <1>5 DEF PeersFreed, TableOK, FreeListOK, Get, IsLive

LEMMA PeersStay ==
    ASSUME TablesInv, peers' = peers
    PROVE  /\ TableOK(peers, PeerObjects)' /\ FreeListOK(peers)'
           /\ \A p : Get(peers', p) = Get(peers, p)
  BY DEF TablesInv, TableOK, FreeListOK

LEMMA HostsStay ==
    ASSUME TablesInv, hosts' = hosts
    PROVE  /\ TableOK(hosts, HostObjects)' /\ FreeListOK(hosts)'
           /\ \A h : Get(hosts', h) = Get(hosts, h)
  BY DEF TablesInv, TableOK, FreeListOK

\* Only slot s of host i changes, and becomes r.
SlotIs(i, s, r) ==
    /\ enet' \in [HostIds -> [PeerSlots -> Slot]]
    /\ enet'[i][s] = r
    /\ \A j \in HostIds : \A t \in PeerSlots : j # i \/ t # s => enet'[j][t] = enet[j][t]

LEMMA SlotSet ==
    ASSUME TablesInv, NEW i \in HostIds, NEW s \in PeerSlots, NEW r \in Slot,
           enet' = [enet EXCEPT ![i][s] = r]
    PROVE  SlotIs(i, s, r)
  BY DEF TablesInv, SlotIs

\* No host is born, dies or changes its ENet host.
HostsKeep ==
    \A h : /\ Get(hosts', h) # Null <=> Get(hosts, h) # Null
           /\ Get(hosts, h) # Null => Get(hosts', h).id = Get(hosts, h).id

LEMMA OwnersKeep ==
    ASSUME OwnersInv, HostsKeep, UNCHANGED <<up, made, inits>>
    PROVE  OwnersInv'
  BY DEF OwnersInv, HostsKeep

LEMMA LinksKeep ==
    ASSUME LinksInv, TablesInv, HostsKeep, UNCHANGED <<peers, enet>>
    PROVE  LinksInv'
  <1>1. \A p : Get(peers', p) = Get(peers, p)
    BY PeersStay
  <1> QED
    BY <1>1 DEF LinksInv, HostsKeep

LEMMA LinksBorn ==
    ASSUME CoreInv, HostsKeep, NEW h, Get(hosts, h) # Null, NEW i \in HostIds, i = Get(hosts, h).id,
           NEW s \in PeerSlots, enet[i][s].st = "disconnected", NEW p \in Handles, Get(peers, p) = Null,
           NEW o, o = [id |-> i, slot |-> s, host |-> h], PeersPut(p, o), o # Null,
           NEW st, st # "disconnected", SlotIs(i, s, [st |-> st, data |-> p])
    PROVE  LinksInv'
  <1>1. \A q : Get(peers', q) = IF q = p THEN o ELSE Get(peers, q)
    BY DEF PeersPut
  <1>2. enet[i][s].data = NoHandle
    BY DEF CoreInv, LinksInv
  <1>3. ASSUME NEW q, Get(peers, q) # Null
        PROVE  Get(peers, q).id # i \/ Get(peers, q).slot # s
    <2>1. enet[Get(peers, q).id][Get(peers, q).slot].st # "disconnected"
      BY <1>3 DEF CoreInv, LinksInv
    <2> QED
      BY <2>1
  <1>4. ASSUME NEW q, Get(peers', q) # Null
        PROVE  /\ Get(hosts', Get(peers', q).host) # Null
               /\ Get(hosts', Get(peers', q).host).id = Get(peers', q).id
               /\ enet'[Get(peers', q).id][Get(peers', q).slot].data = q
               /\ enet'[Get(peers', q).id][Get(peers', q).slot].st # "disconnected"
    <2>1. CASE q = p
      BY <1>1, <2>1 DEF HostsKeep, SlotIs
    <2>2. CASE q # p
      <3>1. Get(peers, q) # Null /\ Get(peers', q) = Get(peers, q)
        BY <1>1, <1>4, <2>2
      <3>2. Get(peers, q).id \in HostIds /\ Get(peers, q).slot \in PeerSlots
        BY <3>1, PeerFacts DEF CoreInv, PeerObjects
      <3>3. /\ Get(hosts, Get(peers, q).host) # Null
            /\ Get(hosts, Get(peers, q).host).id = Get(peers, q).id
            /\ enet[Get(peers, q).id][Get(peers, q).slot].data = q
            /\ enet[Get(peers, q).id][Get(peers, q).slot].st # "disconnected"
        BY <3>1 DEF CoreInv, LinksInv
      <3>4. enet'[Get(peers, q).id][Get(peers, q).slot] = enet[Get(peers, q).id][Get(peers, q).slot]
        BY <1>3, <3>1, <3>2 DEF SlotIs
      <3> QED
        BY <3>1, <3>3, <3>4 DEF HostsKeep
    <2> QED
      BY <2>1, <2>2
  <1>5. ASSUME NEW j \in HostIds, NEW t \in PeerSlots, enet'[j][t].data # NoHandle
        PROVE  /\ Get(peers', enet'[j][t].data) # Null
               /\ Get(peers', enet'[j][t].data).id = j
               /\ Get(peers', enet'[j][t].data).slot = t
    <2>1. CASE j = i /\ t = s
      BY <1>1, <2>1 DEF SlotIs
    <2>2. CASE j # i \/ t # s
      <3>1. enet'[j][t] = enet[j][t]
        BY <2>2 DEF SlotIs
      <3>2. /\ Get(peers, enet[j][t].data) # Null
            /\ Get(peers, enet[j][t].data).id = j
            /\ Get(peers, enet[j][t].data).slot = t
        BY <1>5, <3>1 DEF CoreInv, LinksInv
      <3> QED
        BY <1>1, <3>1, <3>2
    <2> QED
      BY <2>1, <2>2
  <1> QED
    BY <1>4, <1>5 DEF LinksInv

\* A slot moves on and keeps its handle, which may be none.
LEMMA LinksMove ==
    ASSUME CoreInv, HostsKeep, peers' = peers, NEW i \in HostIds, NEW s \in PeerSlots,
           NEW r, r.data = enet[i][s].data, r.st # "disconnected", SlotIs(i, s, r)
    PROVE  LinksInv'
  <1>1. \A q : Get(peers', q) = Get(peers, q)
    BY PeersStay DEF CoreInv
  <1>2. ASSUME NEW q, Get(peers, q) # Null
        PROVE  /\ Get(hosts', Get(peers, q).host) # Null
               /\ Get(hosts', Get(peers, q).host).id = Get(peers, q).id
               /\ enet'[Get(peers, q).id][Get(peers, q).slot].data = q
               /\ enet'[Get(peers, q).id][Get(peers, q).slot].st # "disconnected"
    <2>1. Get(peers, q).id \in HostIds /\ Get(peers, q).slot \in PeerSlots
      BY <1>2, PeerFacts DEF CoreInv, PeerObjects
    <2>2. /\ Get(hosts, Get(peers, q).host) # Null
          /\ Get(hosts, Get(peers, q).host).id = Get(peers, q).id
          /\ enet[Get(peers, q).id][Get(peers, q).slot].data = q
          /\ enet[Get(peers, q).id][Get(peers, q).slot].st # "disconnected"
      BY <1>2 DEF CoreInv, LinksInv
    <2> QED
      BY <2>1, <2>2 DEF HostsKeep, SlotIs
  <1>3. ASSUME NEW j \in HostIds, NEW t \in PeerSlots
        PROVE  enet'[j][t].data = enet[j][t].data
    BY DEF SlotIs
  <1> QED
    BY <1>1, <1>2, <1>3 DEF LinksInv, CoreInv

\* A slot lets go of its handle, if it has one, and the handle retires.
LEMMA LinksRetire ==
    ASSUME CoreInv, HostsKeep, NEW i \in HostIds, NEW s \in PeerSlots, NEW p, p = enet[i][s].data,
           PeersFreed({p}), NEW st, SlotIs(i, s, [st |-> st, data |-> NoHandle])
    PROVE  LinksInv'
  <1>1. \A q : Get(peers', q) = IF q = p THEN Null ELSE Get(peers, q)
    BY DEF PeersFreed
  <1>2. ASSUME NEW q, Get(peers, q) # Null, q # p
        PROVE  /\ Get(hosts', Get(peers, q).host) # Null
               /\ Get(hosts', Get(peers, q).host).id = Get(peers, q).id
               /\ enet'[Get(peers, q).id][Get(peers, q).slot].data = q
               /\ enet'[Get(peers, q).id][Get(peers, q).slot].st # "disconnected"
    <2>1. Get(peers, q).id \in HostIds /\ Get(peers, q).slot \in PeerSlots
      BY <1>2, PeerFacts DEF CoreInv, PeerObjects
    <2>2. /\ Get(hosts, Get(peers, q).host) # Null
          /\ Get(hosts, Get(peers, q).host).id = Get(peers, q).id
          /\ enet[Get(peers, q).id][Get(peers, q).slot].data = q
          /\ enet[Get(peers, q).id][Get(peers, q).slot].st # "disconnected"
      BY <1>2 DEF CoreInv, LinksInv
    <2>3. enet'[Get(peers, q).id][Get(peers, q).slot] = enet[Get(peers, q).id][Get(peers, q).slot]
      BY <1>2, <2>1, <2>2 DEF SlotIs
    <2> QED
      BY <2>2, <2>3 DEF HostsKeep
  <1>3. ASSUME NEW j \in HostIds, NEW t \in PeerSlots, enet'[j][t].data # NoHandle
        PROVE  /\ Get(peers', enet'[j][t].data) # Null
               /\ Get(peers', enet'[j][t].data).id = j
               /\ Get(peers', enet'[j][t].data).slot = t
    <2>1. (j # i \/ t # s) /\ enet'[j][t] = enet[j][t]
      BY <1>3 DEF SlotIs
    <2>2. /\ Get(peers, enet[j][t].data) # Null
          /\ Get(peers, enet[j][t].data).id = j
          /\ Get(peers, enet[j][t].data).slot = t
      BY <1>3, <2>1 DEF CoreInv, LinksInv
    <2>3. enet[j][t].data # p
      <3>1. ASSUME enet[j][t].data = p PROVE FALSE
        <4>1. p # NoHandle
          BY <1>3, <2>1, <3>1
        <4>2. Get(peers, p).id = i /\ Get(peers, p).slot = s
          BY <4>1 DEF CoreInv, LinksInv
        <4> QED
          BY <2>1, <2>2, <3>1, <4>2
      <3> QED
        BY <3>1
    <2> QED
      BY <1>1, <2>1, <2>2, <2>3
  <1>4. ASSUME NEW q, Get(peers', q) # Null
        PROVE  q # p /\ Get(peers', q) = Get(peers, q) /\ Get(peers, q) # Null
    BY <1>1, <1>4
  <1> QED
    BY <1>2, <1>3, <1>4 DEF LinksInv

\* ---------------------------------------------------------------- teardown

\* The ENet hosts these handles own.
IdsOf(hs) == {Get(hosts, h).id : h \in hs}

LEMMA TeardownTables ==
    ASSUME CoreInv, NEW hs, hs \subseteq LiveHandles(hosts), Teardown(hs)
    PROVE  /\ HostsFreed(hs) /\ PeersFreed(Riding(hs)) /\ TablesInv'
           /\ up' = up \ IdsOf(hs)
           /\ \A i \in HostIds : enet'[i] = IF i \in IdsOf(hs) THEN AllSlotsFree ELSE enet[i]
           /\ \A h : h \in hs => Get(hosts, h) # Null
           /\ \A p : p \in Riding(hs) <=> Get(peers, p) # Null /\ Get(peers, p).host \in hs
  <1>1. hosts' = FreeAll(hosts, hs) /\ peers' = FreeAll(peers, Riding(hs))
    BY DEF Teardown
  <1>2. Riding(hs) \subseteq LiveHandles(peers)
    BY DEF Riding
  <1>3. HostsFreed(hs) /\ PeersFreed(Riding(hs))
    BY <1>1, <1>2, HostFreeAll, PeerFreeAll DEF CoreInv
  <1>4. /\ up' = up \ IdsOf(hs)
        /\ enet' = [i \in HostIds |-> IF i \in IdsOf(hs) THEN AllSlotsFree ELSE enet[i]]
    BY DEF Teardown, IdsOf
  <1>5. AllSlotsFree \in [PeerSlots -> Slot]
    BY DEF AllSlotsFree, SlotFree, Slot, SlotStates
  <1>6. enet' \in [HostIds -> [PeerSlots -> Slot]]
    BY <1>4, <1>5 DEF CoreInv, TablesInv
  <1>7. TablesInv'
    BY <1>3, <1>6 DEF TablesInv, HostsFreed, PeersFreed
  <1>8. \A h : h \in hs => Get(hosts, h) # Null
    BY HostFacts DEF CoreInv
  <1>9. \A p : p \in Riding(hs) <=> Get(peers, p) # Null /\ Get(peers, p).host \in hs
    BY PeerFacts DEF Riding, CoreInv
  <1>10. \A i \in HostIds : enet'[i] = IF i \in IdsOf(hs) THEN AllSlotsFree ELSE enet[i]
    BY <1>4
  <1> QED
    BY <1>3, <1>4, <1>7, <1>8, <1>9, <1>10

LEMMA TeardownStep ==
    ASSUME CoreInv, NEW hs, hs \subseteq LiveHandles(hosts), Teardown(hs), made' = made,
           inits' = inits \/ hs = LiveHandles(hosts)
    PROVE  TablesInv' /\ OwnersInv' /\ LinksInv'
  <1>1. /\ HostsFreed(hs) /\ PeersFreed(Riding(hs)) /\ TablesInv'
        /\ up' = up \ IdsOf(hs)
        /\ \A i \in HostIds : enet'[i] = IF i \in IdsOf(hs) THEN AllSlotsFree ELSE enet[i]
        /\ \A h : h \in hs => Get(hosts, h) # Null
        /\ \A p : p \in Riding(hs) <=> Get(peers, p) # Null /\ Get(peers, p).host \in hs
    BY TeardownTables
  <1>2. \A h : Get(hosts', h) = IF h \in hs THEN Null ELSE Get(hosts, h)
    BY <1>1 DEF HostsFreed
  <1>3. \A p : Get(peers', p) = IF p \in Riding(hs) THEN Null ELSE Get(peers, p)
    BY <1>1 DEF PeersFreed
  <1>4. ASSUME NEW h, Get(hosts', h) # Null
        PROVE  h \notin hs /\ Get(hosts', h) = Get(hosts, h) /\ Get(hosts, h) # Null
               /\ Get(hosts, h).id \notin IdsOf(hs)
    <2>1. h \notin hs /\ Get(hosts', h) = Get(hosts, h) /\ Get(hosts, h) # Null
      BY <1>2, <1>4
    <2>2. Get(hosts, h).id \notin IdsOf(hs)
      <3> SUFFICES ASSUME Get(hosts, h).id \in IdsOf(hs)
                   PROVE  FALSE
        OBVIOUS
      <3>1. PICK g \in hs : Get(hosts, h).id = Get(hosts, g).id
        BY DEF IdsOf
      <3>2. g = h
        BY <1>1, <2>1, <3>1 DEF CoreInv, OwnersInv
      <3> QED
        BY <2>1, <3>2
    <2> QED
      BY <2>1, <2>2
  <1>5. ASSUME NEW h, Get(hosts, h) # Null, Get(hosts, h).id \notin IdsOf(hs)
        PROVE  Get(hosts', h) = Get(hosts, h) /\ h \notin hs
    BY <1>2, <1>5 DEF IdsOf
  <1>6. OwnersInv'
    <2>1. \A i \in up' : i \in HostIds /\ i <= made'
      BY <1>1 DEF CoreInv, OwnersInv
    <2>2. \A h : Get(hosts', h) # Null => Get(hosts', h).id \in up'
      BY <1>1, <1>4 DEF CoreInv, OwnersInv
    <2>3. \A g, h : Get(hosts', g) # Null /\ Get(hosts', h) # Null /\ Get(hosts', g).id = Get(hosts', h).id => g = h
      BY <1>4 DEF CoreInv, OwnersInv
    <2>4. \A i \in up' : \E h : Get(hosts', h) # Null /\ Get(hosts', h).id = i
      <3> SUFFICES ASSUME NEW i \in up'
                   PROVE  \E h : Get(hosts', h) # Null /\ Get(hosts', h).id = i
        OBVIOUS
      <3>1. i \in up /\ i \notin IdsOf(hs)
        BY <1>1
      <3>2. PICK h : Get(hosts, h) # Null /\ Get(hosts, h).id = i
        BY <3>1 DEF CoreInv, OwnersInv
      <3>3. Get(hosts', h) = Get(hosts, h)
        BY <1>5, <3>1, <3>2
      <3> QED
        BY <3>2, <3>3
    <2>5. inits' = 0 => \A h : Get(hosts', h) = Null
      <3>1. CASE inits' = inits
        BY <1>2, <3>1 DEF CoreInv, OwnersInv
      <3>2. CASE hs = LiveHandles(hosts)
        <4>1. \A h : Get(hosts, h) # Null => h \in hs
          BY <3>2, HostFacts DEF CoreInv
        <4> QED
          BY <1>2, <4>1
      <3> QED
        BY <3>1, <3>2
    <2> QED
      BY <2>1, <2>2, <2>3, <2>4, <2>5 DEF OwnersInv
  <1>7. ASSUME NEW p, Get(peers', p) # Null
        PROVE  /\ Get(peers', p) = Get(peers, p) /\ Get(peers, p) # Null
               /\ Get(hosts', Get(peers, p).host) # Null
               /\ Get(hosts', Get(peers, p).host).id = Get(peers, p).id
               /\ enet'[Get(peers, p).id][Get(peers, p).slot].data = p
               /\ enet'[Get(peers, p).id][Get(peers, p).slot].st # "disconnected"
    <2>1. p \notin Riding(hs) /\ Get(peers', p) = Get(peers, p) /\ Get(peers, p) # Null
      BY <1>3, <1>7
    <2>2. Get(peers, p).host \notin hs
      BY <1>1, <2>1
    <2>3. /\ Get(hosts, Get(peers, p).host) # Null
          /\ Get(hosts, Get(peers, p).host).id = Get(peers, p).id
          /\ enet[Get(peers, p).id][Get(peers, p).slot].data = p
          /\ enet[Get(peers, p).id][Get(peers, p).slot].st # "disconnected"
      BY <2>1 DEF CoreInv, LinksInv
    <2>4. Get(hosts', Get(peers, p).host) = Get(hosts, Get(peers, p).host)
      BY <1>2, <2>2
    <2>5. Get(peers, p).id \notin IdsOf(hs)
      BY <1>4, <2>3, <2>4
    <2>6. Get(peers, p).id \in HostIds
      BY <2>1, PeerFacts DEF CoreInv, PeerObjects
    <2>7. enet'[Get(peers, p).id] = enet[Get(peers, p).id]
      BY <1>1, <2>5, <2>6
    <2> QED
      BY <2>1, <2>3, <2>4, <2>7
  <1>8. ASSUME NEW i \in HostIds, NEW s \in PeerSlots, enet'[i][s].data # NoHandle
        PROVE  /\ Get(peers', enet'[i][s].data) # Null
               /\ Get(peers', enet'[i][s].data).id = i
               /\ Get(peers', enet'[i][s].data).slot = s
    <2>1. i \notin IdsOf(hs) /\ enet'[i] = enet[i]
      BY <1>1, <1>8 DEF AllSlotsFree, SlotFree
    <2>2. PICK p : p = enet[i][s].data
      OBVIOUS
    <2>3. Get(peers, p) # Null /\ Get(peers, p).id = i /\ Get(peers, p).slot = s
      BY <1>8, <2>1, <2>2 DEF CoreInv, LinksInv
    <2>4. Get(hosts, Get(peers, p).host) # Null /\ Get(hosts, Get(peers, p).host).id = i
      BY <2>3 DEF CoreInv, LinksInv
    <2>5. Get(peers, p).host \notin hs
      BY <1>5, <2>1, <2>4
    <2>6. Get(peers', p) = Get(peers, p)
      BY <1>1, <1>3, <2>5
    <2> QED
      BY <2>1, <2>2, <2>3, <2>6
  <1>9. LinksInv'
    BY <1>7, <1>8 DEF LinksInv
  <1> QED
    BY <1>1, <1>6, <1>9

\* --------------------------------------------------------- enPoll's steps

HostsOK ==
    /\ HostsKeep
    /\ TableOK(hosts, HostObjects)' /\ FreeListOK(hosts)'
    /\ \A h : Get(hosts', h) # Null => Len(Get(hosts', h).stash) <= 1

LEMMA HostsOKSame ==
    ASSUME CoreInv, hosts' = hosts
    PROVE  HostsOK
  BY HostsStay DEF CoreInv, RestInv, HostsOK, HostsKeep

\* The stash of g becomes x.
StashIs(g, x) ==
    \A h : /\ h # g => Get(hosts', h) = Get(hosts, h)
           /\ h = g => Get(hosts', h) # Null /\ Get(hosts', h).stash = x

LEMMA HostsOKPut ==
    ASSUME CoreInv, NEW g, Get(hosts, g) # Null, NEW x \in Seq(Events), Len(x) <= 1,
           hosts' = Put(hosts, g, [Get(hosts, g) EXCEPT !.stash = x])
    PROVE  HostsOK /\ StashIs(g, x)
  <1>1. PICK o : o = [Get(hosts, g) EXCEPT !.stash = x]
    OBVIOUS
  <1>2. Get(hosts, g) \in HostObjects
    BY HostFacts DEF CoreInv
  <1>3. o \in HostObjects /\ o.id = Get(hosts, g).id /\ o.stash = x
    BY <1>1, <1>2 DEF HostObjects
  <1>4. o # Null
    BY <1>3, EnetAssumption
  <1>5. HostsPut(g, o)
    BY <1>1, <1>3, HostPut DEF CoreInv
  <1> QED
    BY <1>3, <1>4, <1>5 DEF HostsOK, HostsKeep, HostsPut, CoreInv, RestInv, StashIs

LEMMA PollTypes ==
    /\ PollOff \in Polls
    /\ \A h \in Handles : \A n \in 0 .. MaxTries : \A a, b \in Nat : \A q \in Seq(Events) :
         \A pc \in {"off", "pump", "grow", "full"} :
           [pc |-> pc, host |-> h, used |-> a, need |-> b, tries |-> n, out |-> q] \in Polls
  BY EnetAssumption DEF PollOff, Polls

LEMMA PollMade ==
    ASSUME NEW h \in Handles, NEW n \in 0 .. MaxTries, NEW z \in Nat, NEW q \in Seq(Events), NEW r,
           \/ r = [pc |-> "pump", host |-> h, used |-> 0, need |-> 0, tries |-> n, out |-> << >>]
           \/ r = [pc |-> "pump", host |-> h, used |-> z, need |-> 0, tries |-> n, out |-> q]
           \/ r = [pc |-> "grow", host |-> h, used |-> 0, need |-> z, tries |-> n, out |-> << >>]
    PROVE  r \in Polls
  <1>1. << >> \in Seq(Events) /\ 0 \in Nat
    OBVIOUS
  <1>2. [pc |-> "pump", host |-> h, used |-> 0, need |-> 0, tries |-> n, out |-> << >>] \in Polls
    BY <1>1, PollTypes
  <1>3. [pc |-> "pump", host |-> h, used |-> z, need |-> 0, tries |-> n, out |-> q] \in Polls
    BY <1>1, PollTypes
  <1>4. [pc |-> "grow", host |-> h, used |-> 0, need |-> z, tries |-> n, out |-> << >>] \in Polls
    BY <1>1, PollTypes
  <1> QED
    BY <1>2, <1>3, <1>4

\* What entering enx_poll leaves: pumping, with what was stashed written; a
\* stash too big; or a host that is gone.
EnterFacts(h, cap, n) ==
    \/ /\ Get(hosts, h) = Null /\ hosts' = hosts
       /\ poll' = [pc |-> "full", host |-> NoHandle, used |-> 0, need |-> 0, tries |-> 0, out |-> << >>]
    \/ /\ Get(hosts, h) # Null /\ Get(hosts, h).stash = << >> /\ hosts' = hosts
       /\ poll' = [pc |-> "pump", host |-> h, used |-> 0, need |-> 0, tries |-> n, out |-> << >>]
    \/ /\ Get(hosts, h) # Null /\ Get(hosts, h).stash # << >> /\ Get(hosts, h).stash[1].size <= cap
       /\ hosts' = Put(hosts, h, [Get(hosts, h) EXCEPT !.stash = << >>])
       /\ poll' = [pc |-> "pump", host |-> h, used |-> Get(hosts, h).stash[1].size, need |-> 0,
                   tries |-> n, out |-> Get(hosts, h).stash]
    \/ /\ Get(hosts, h) # Null /\ Get(hosts, h).stash # << >> /\ ~(Get(hosts, h).stash[1].size <= cap)
       /\ hosts' = hosts
       /\ poll' = [pc |-> "grow", host |-> h, used |-> 0, need |-> Get(hosts, h).stash[1].size,
                   tries |-> n, out |-> << >>]

LEMMA EnterCases ==
    ASSUME CoreInv, NEW h, NEW cap, NEW n, EnterWith(h, cap, n)
    PROVE  EnterFacts(h, cap, n)
  <1>0. IsLive(hosts, h) <=> Get(hosts, h) # Null
    BY HostFacts DEF CoreInv
  <1>1. CASE ~IsLive(hosts, h)
    BY <1>0, <1>1 DEF EnterWith, EnterFacts, PollOff
  <1>2. CASE IsLive(hosts, h) /\ Get(hosts, h).stash = << >>
    BY <1>0, <1>2 DEF EnterWith, EnterFacts, PollOff
  <1>3. CASE IsLive(hosts, h) /\ Get(hosts, h).stash # << >> /\ Get(hosts, h).stash[1].size <= cap
    BY <1>0, <1>3 DEF EnterWith, EnterFacts, PollOff
  <1>4. CASE IsLive(hosts, h) /\ Get(hosts, h).stash # << >> /\ ~(Get(hosts, h).stash[1].size <= cap)
    BY <1>0, <1>4 DEF EnterWith, EnterFacts, PollOff
  <1> QED
    BY <1>1, <1>2, <1>3, <1>4

LEMMA StashTyped ==
    ASSUME CoreInv, NEW h, Get(hosts, h) # Null
    PROVE  /\ h \in Handles /\ Get(hosts, h).stash \in Seq(Events) /\ Len(Get(hosts, h).stash) <= 1
           /\ Len(Get(hosts, h).stash) \in Nat
           /\ Get(hosts, h).id \in HostIds
           /\ Get(hosts, h).stash # << >> =>
                 /\ Get(hosts, h).stash[1] \in Events /\ Get(hosts, h).stash[1].size \in Nat
                 /\ Len(Get(hosts, h).stash) = 1 /\ 1 \in DOMAIN Get(hosts, h).stash
                 /\ Get(hosts, h).stash = <<Get(hosts, h).stash[1]>>
  <1>1. h \in Handles /\ Get(hosts, h) \in HostObjects
    BY HostFacts DEF CoreInv
  <1>2. PICK q : q = Get(hosts, h).stash
    OBVIOUS
  <1>3. q \in Seq(Events) /\ Len(q) <= 1 /\ Get(hosts, h).id \in HostIds
    BY <1>1, <1>2 DEF HostObjects, CoreInv, RestInv
  <1>4. ASSUME q # << >>
        PROVE  Len(q) = 1 /\ q[1] \in Events /\ 1 \in DOMAIN q /\ q = <<q[1]>>
    <2>1. Len(q) \in Nat /\ DOMAIN q = 1 .. Len(q) /\ q \in [1 .. Len(q) -> Events]
      BY <1>3
    <2>2. Len(q) # 0
      BY <1>3, <1>4
    <2>3. Len(q) = 1
      BY <1>3, <2>1, <2>2
    <2>4. 1 \in DOMAIN q /\ q[1] \in Events
      BY <2>1, <2>3
    <2> QED
      BY <1>3, <2>3, <2>4
  <1>5. \A e \in Events : e.size \in Nat
    BY EnetAssumption DEF Events
  <1> QED
    BY <1>1, <1>2, <1>3, <1>4, <1>5

EnterRest ==
    /\ HostsOK
    /\ poll' \in Polls
    /\ poll'.pc \in {"pump", "grow"} => Get(hosts', poll'.host) # Null

LEMMA EnterStep ==
    ASSUME CoreInv, NEW h, NEW cap, NEW n \in 0 .. MaxTries, EnterWith(h, cap, n)
    PROVE  EnterRest
  <1>0. EnterFacts(h, cap, n)
    BY EnterCases
  <1>1. CASE Get(hosts, h) = Null
    <2>1. hosts' = hosts /\ poll' = [pc |-> "full", host |-> NoHandle, used |-> 0, need |-> 0, tries |-> 0, out |-> << >>]
      BY <1>0, <1>1 DEF EnterFacts
    <2>2. poll' \in Polls /\ poll'.pc = "full"
      BY <2>1, EnetAssumption DEF Polls
    <2> QED
      BY <2>1, <2>2, HostsOKSame DEF EnterRest
  <1>2. CASE Get(hosts, h) # Null
    <2>1. /\ h \in Handles /\ Get(hosts, h).stash \in Seq(Events)
          /\ Get(hosts, h).stash # << >> => Get(hosts, h).stash[1].size \in Nat
      BY <1>2, StashTyped
    <2>2. HostsOK
      <3>1. CASE hosts' = hosts
        BY <3>1, HostsOKSame
      <3>2. CASE hosts' = Put(hosts, h, [Get(hosts, h) EXCEPT !.stash = << >>])
        <4>1. << >> \in Seq(Events) /\ Len(<< >>) <= 1
          OBVIOUS
        <4> QED
          BY <1>2, <3>2, <4>1, HostsOKPut
      <3> QED
        BY <1>0, <3>1, <3>2 DEF EnterFacts
    <2>3. poll'.host = h
      BY <1>0, <1>2 DEF EnterFacts
    <2>4. poll' \in Polls
      <3>0. Get(hosts, h).stash = << >> \/ Get(hosts, h).stash[1].size \in Nat
        BY <2>1
      <3>2. PICK q : q = Get(hosts, h).stash
        OBVIOUS
      <3>3. PICK z : z = Get(hosts, h).stash[1].size
        OBVIOUS
      <3>4. PICK r : r = poll'
        OBVIOUS
      <3>5. CASE r = [pc |-> "pump", host |-> h, used |-> 0, need |-> 0, tries |-> n, out |-> << >>]
        <4>1. 0 \in Nat /\ q \in Seq(Events)
          BY <2>1, <3>2
        <4> QED
          BY <2>1, <3>4, <3>5, <4>1, PollMade
      <3>6. CASE z \in Nat /\ r = [pc |-> "pump", host |-> h, used |-> z, need |-> 0, tries |-> n, out |-> q]
        BY <2>1, <3>2, <3>4, <3>6, PollMade
      <3>7. CASE z \in Nat /\ r = [pc |-> "grow", host |-> h, used |-> 0, need |-> z, tries |-> n, out |-> << >>]
        BY <2>1, <3>2, <3>4, <3>7, PollMade
      <3> QED
        BY <1>0, <1>2, <3>0, <3>2, <3>3, <3>4, <3>5, <3>6, <3>7 DEF EnterFacts
    <2> QED
      BY <1>2, <2>2, <2>3, <2>4 DEF EnterRest, HostsOK, HostsKeep
  <1> QED
    BY <1>1, <1>2

\* What writing or stashing an event does.
WriteFacts(e) ==
    \/ /\ poll' = [poll EXCEPT !.out = Append(@, e), !.used = @ + e.size]
       /\ hosts' = hosts
    \/ /\ poll' = [poll EXCEPT !.pc = Stops(poll.out), !.need = e.size]
       /\ hosts' = Put(hosts, poll.host, [Get(hosts, poll.host) EXCEPT !.stash = <<e>>])

LEMMA WriteStep ==
    ASSUME CoreInv, poll.pc = "pump", NEW e \in Events, WriteOrStash(e)
    PROVE  EnterRest /\ poll'.host = poll.host /\ WriteFacts(e)
  <1>0. WriteFacts(e)
    BY DEF WriteOrStash, WriteFacts
  <1>1. /\ poll \in Polls /\ Get(hosts, poll.host) # Null /\ e.size \in Nat
        /\ poll.out \in Seq(Events) /\ poll.used \in Nat
    BY EnetAssumption DEF CoreInv, RestInv, Polls, Events
  <1>2. CASE /\ poll' = [poll EXCEPT !.out = Append(@, e), !.used = @ + e.size]
             /\ hosts' = hosts
    <2>1. Append(poll.out, e) \in Seq(Events) /\ poll.used + e.size \in Nat
      BY <1>1
    <2>2. poll' \in Polls /\ poll'.host = poll.host
      BY <1>1, <1>2, <2>1 DEF Polls
    <2> QED
      BY <1>0, <1>1, <1>2, <2>2, HostsOKSame DEF EnterRest
  <1>3. CASE /\ poll' = [poll EXCEPT !.pc = Stops(poll.out), !.need = e.size]
             /\ hosts' = Put(hosts, poll.host, [Get(hosts, poll.host) EXCEPT !.stash = <<e>>])
    <2>1. Stops(poll.out) \in {"grow", "full"}
      BY DEF Stops
    <2>2. poll' \in Polls /\ poll'.host = poll.host
      BY <1>1, <1>3, <2>1 DEF Polls
    <2>3. <<e>> \in Seq(Events) /\ Len(<<e>>) <= 1
      OBVIOUS
    <2>4. HostsOK
      BY <1>1, <1>3, <2>3, HostsOKPut
    <2> QED
      BY <1>0, <1>1, <2>2, <2>4 DEF EnterRest, HostsOK, HostsKeep
  <1> QED
    BY <1>0, <1>2, <1>3 DEF WriteFacts

\* ------------------------------------------------------------ the app's calls

Script == <<poll, drainCap, list, serviced, at, polling>>

Counts == inits \in 0 .. MaxInits /\ made \in Nat /\ conns \in 0 .. MaxConns

StashesShort == \A h : Get(hosts, h) # Null => Len(Get(hosts, h).stash) <= 1

LEMMA RestCalls ==
    ASSUME CoreInv, poll.pc = "off", UNCHANGED Script, Counts', StashesShort'
    PROVE  RestInv'
  BY DEF CoreInv, RestInv, Script, Counts, StashesShort

LEMMA InitializeCore ==
    ASSUME CoreInv, poll.pc = "off", Initialize, UNCHANGED <<at, polling>>
    PROVE  CoreInv'
  <1>1. UNCHANGED <<hosts, peers, enet, up, made, conns>> /\ UNCHANGED Script /\ inits' = inits + 1
        /\ inits < MaxInits
    BY DEF Initialize, bounds, history, Script
  <1>2. HostsOK
    BY <1>1, HostsOKSame
  <1>3. TablesInv'
    BY <1>1, HostsStay, PeersStay DEF CoreInv, TablesInv
  <1>4. Counts' /\ inits' # 0
    BY <1>1, EnetAssumption DEF CoreInv, RestInv, Counts
  <1>5. OwnersInv'
    BY <1>1, <1>2, <1>4 DEF CoreInv, OwnersInv, HostsOK, HostsKeep
  <1>6. LinksInv'
    BY <1>1, <1>2, LinksKeep DEF CoreInv, HostsOK
  <1>7. StashesShort'
    BY <1>2 DEF HostsOK, StashesShort
  <1> QED
    BY <1>1, <1>3, <1>4, <1>5, <1>6, <1>7, RestCalls DEF CoreInv

LEMMA TeardownStashes ==
    ASSUME CoreInv, NEW hs, hs \subseteq LiveHandles(hosts), Teardown(hs)
    PROVE  StashesShort'
  <1>1. \A h : Get(hosts', h) = IF h \in hs THEN Null ELSE Get(hosts, h)
    BY TeardownTables DEF HostsFreed
  <1> QED
    BY <1>1 DEF StashesShort, CoreInv, RestInv

LEMMA DeinitializeCore ==
    ASSUME CoreInv, poll.pc = "off", Deinitialize, UNCHANGED <<at, polling>>
    PROVE  CoreInv'
  <1>1. UNCHANGED <<made, conns>> /\ UNCHANGED Script /\ inits' = inits - 1 /\ inits > 0
    BY DEF Deinitialize, bounds, Script, Outstanding
  <1>2. Counts' /\ inits \in Nat
    BY <1>1, EnetAssumption DEF CoreInv, RestInv, Counts
  <1>3. CASE inits = 1
    <2>1. PICK hs : hs = LiveHandles(hosts)
      OBVIOUS
    <2>2. Teardown(hs) /\ hs \subseteq LiveHandles(hosts)
      BY <1>3, <2>1 DEF Deinitialize
    <2> QED
      BY <1>1, <1>2, <2>1, <2>2, TeardownStep, TeardownStashes, RestCalls DEF CoreInv
  <1>4. CASE inits # 1
    <2>1. UNCHANGED <<hosts, peers, enet, up>> /\ inits' # 0
      BY <1>1, <1>2, <1>4 DEF Deinitialize
    <2>2. HostsOK
      BY <2>1, HostsOKSame
    <2>3. TablesInv'
      BY <2>1, HostsStay, PeersStay DEF CoreInv, TablesInv
    <2>4. OwnersInv'
      BY <1>1, <2>1, <2>2 DEF CoreInv, OwnersInv, HostsOK, HostsKeep
    <2>5. LinksInv'
      BY <2>1, <2>2, LinksKeep DEF CoreInv, HostsOK
    <2>6. StashesShort'
      BY <2>2 DEF HostsOK, StashesShort
    <2> QED
      BY <1>1, <1>2, <2>3, <2>4, <2>5, <2>6, RestCalls DEF CoreInv
  <1> QED
    BY <1>3, <1>4

LEMMA HostDestroyCore ==
    ASSUME CoreInv, poll.pc = "off", NEW h, HostDestroy(h), UNCHANGED <<at, polling>>
    PROVE  CoreInv'
  <1>1. UNCHANGED <<made, conns, inits>> /\ UNCHANGED Script /\ Teardown({h}) /\ IsLive(hosts, h)
    BY DEF HostDestroy, bounds, Script
  <1>2. Counts'
    BY <1>1 DEF CoreInv, RestInv, Counts
  <1>3. {h} \subseteq LiveHandles(hosts)
    BY <1>1, HostFacts DEF CoreInv
  <1> QED
    BY <1>1, <1>2, <1>3, TeardownStep, TeardownStashes, RestCalls DEF CoreInv

LEMMA HostCreateCore ==
    ASSUME CoreInv, poll.pc = "off", HostCreate, UNCHANGED <<at, polling>>
    PROVE  CoreInv'
  <1>1. PICK i : i = made + 1
    OBVIOUS
  <1>2. PICK o : o = [id |-> i, stash |-> << >>]
    OBVIOUS
  <1>3. PICK g : g = AllocHandle(hosts)
    OBVIOUS
  <1>4. /\ UNCHANGED <<inits, peers, enet, conns>> /\ UNCHANGED Script
        /\ inits > 0 /\ i \in HostIds /\ CanAlloc(hosts) /\ made' = i /\ up' = up \cup {i}
        /\ hosts' = Alloc(hosts, o)
    BY <1>1, <1>2 DEF HostCreate, history, Script
  <1>5. o \in HostObjects /\ o.id = i /\ Len(o.stash) <= 1 /\ o # Null
    <2>1. o \in HostObjects
      BY <1>2, <1>4 DEF HostObjects
    <2> QED
      BY <1>2, <2>1, EnetAssumption
  <1>6. HostsPut(g, o) /\ Get(hosts, g) = Null
    BY <1>3, <1>4, <1>5, HostAlloc DEF CoreInv
  <1>7. \A h : Get(hosts', h) = IF h = g THEN o ELSE Get(hosts, h)
    BY <1>6 DEF HostsPut
  <1>8. made \in Nat /\ i \in Nat /\ inits' # 0 /\ i \notin up
    <2>1. made \in Nat /\ inits \in Int
      BY DEF CoreInv, RestInv
    <2>2. \A j \in up : j \in Nat /\ j <= made
      BY EnetAssumption DEF CoreInv, OwnersInv
    <2> QED
      BY <1>1, <1>4, <2>1, <2>2
  <1>9. TablesInv'
    BY <1>4, <1>6, PeersStay DEF CoreInv, TablesInv, HostsPut
  <1>10. OwnersInv'
    <2>1. \A j \in up' : j \in HostIds /\ j <= made'
      <3>1. ASSUME NEW j \in up PROVE j \in HostIds /\ j <= i
        <4>1. j \in HostIds /\ j <= made /\ j \in Nat
          BY EnetAssumption DEF CoreInv, OwnersInv
        <4> QED
          BY <1>1, <1>8, <4>1
      <3>2. i <= i
        BY <1>8
      <3> QED
        BY <1>4, <3>1, <3>2
    <2>2. \A h : Get(hosts', h) # Null => Get(hosts', h).id \in up'
      BY <1>4, <1>5, <1>7 DEF CoreInv, OwnersInv
    <2>3. \A h, k : Get(hosts', h) # Null /\ Get(hosts', k) # Null /\ Get(hosts', h).id = Get(hosts', k).id => h = k
      BY <1>5, <1>7, <1>8 DEF CoreInv, OwnersInv
    <2>4. \A j \in up' : \E h : Get(hosts', h) # Null /\ Get(hosts', h).id = j
      <3>1. ASSUME NEW j \in up PROVE \E h : Get(hosts', h) # Null /\ Get(hosts', h).id = j
        <4>1. PICK h : Get(hosts, h) # Null /\ Get(hosts, h).id = j
          BY DEF CoreInv, OwnersInv
        <4>2. Get(hosts', h) = Get(hosts, h)
          BY <1>6, <1>7, <4>1
        <4> QED
          BY <4>1, <4>2
      <3>2. Get(hosts', g) # Null /\ Get(hosts', g).id = i
        BY <1>5, <1>7
      <3> QED
        BY <1>4, <3>1, <3>2
    <2> QED
      BY <1>8, <2>1, <2>2, <2>3, <2>4 DEF OwnersInv
  <1>11. LinksInv'
    <2>1. \A p : Get(peers', p) = Get(peers, p)
      BY <1>4, PeersStay DEF CoreInv
    <2>2. \A h : Get(hosts, h) # Null => Get(hosts', h) = Get(hosts, h)
      BY <1>6, <1>7
    <2> QED
      BY <1>4, <2>1, <2>2 DEF CoreInv, LinksInv
  <1>12. StashesShort'
    BY <1>5, <1>7 DEF StashesShort, CoreInv, RestInv
  <1>13. Counts'
    BY <1>4, <1>8 DEF CoreInv, RestInv, Counts
  <1> QED
    BY <1>4, <1>9, <1>10, <1>11, <1>12, <1>13, RestCalls DEF CoreInv

\* A new connection in slot s of host h: its handle is born, and ENet has it.
BornIn(h, i, s, p, o, st) ==
    /\ PeersPut(p, o) /\ Get(peers, p) = Null /\ p \in Handles /\ o # Null
    /\ SlotIs(i, s, [st |-> st, data |-> p])

LEMMA PeerBorn ==
    ASSUME CoreInv, NEW h \in Handles, NEW i \in HostIds, NEW s \in PeerSlots, NEW o, NEW p,
           o = [id |-> i, slot |-> s, host |-> h], CanAlloc(peers), p = AllocHandle(peers),
           peers' = Alloc(peers, o), NEW st \in SlotStates,
           enet' = [enet EXCEPT ![i][s] = [st |-> st, data |-> p]]
    PROVE  BornIn(h, i, s, p, o, st)
  <1>1. o \in PeerObjects /\ o # Null
    <2>1. o \in PeerObjects
      BY DEF PeerObjects
    <2> QED
      BY <2>1, EnetAssumption
  <1>2. PeersPut(p, o) /\ Get(peers, p) = Null /\ p \in Handles
    BY <1>1, PeerAlloc DEF CoreInv
  <1>3. [st |-> st, data |-> p] \in Slot
    BY <1>2 DEF Slot
  <1> QED
    BY <1>1, <1>2, <1>3, SlotSet DEF BornIn, CoreInv

LEMMA ConnectFacts ==
    ASSUME CoreInv, NEW h, Connect(h)
    PROVE  \E s \in PeerSlots : \E p \in Handles :
             /\ Get(hosts, h) # Null /\ Get(hosts, h).id \in HostIds
             /\ enet[Get(hosts, h).id][s].st = "disconnected"
             /\ BornIn(h, Get(hosts, h).id, s, p, [id |-> Get(hosts, h).id, slot |-> s, host |-> h], "connecting")
             /\ conns < MaxConns /\ conns' = conns + 1
             /\ story' = [story EXCEPT ![p] = Append(@, "BORN")]
             /\ UNCHANGED <<inits, hosts, up, poll, drainCap, list, made, recvs, serviced, heard, gone>>
  <1>1. Get(hosts, h) # Null
    BY HostFacts DEF Connect, CoreInv
  <1>2. h \in Handles /\ Get(hosts, h).id \in HostIds
    BY <1>1, StashTyped
  <1>3. PICK i : i = Get(hosts, h).id
    OBVIOUS
  <1>4. PICK p : p = AllocHandle(peers)
    OBVIOUS
  <1>5. PICK s \in PeerSlots :
          /\ IsFirstFree(i, s)
          /\ peers' = Alloc(peers, [id |-> i, slot |-> s, host |-> h])
          /\ enet' = [enet EXCEPT ![i][s] = [st |-> "connecting", data |-> p]]
    BY <1>3, <1>4 DEF Connect
  <1>6. PICK o : o = [id |-> i, slot |-> s, host |-> h]
    OBVIOUS
  <1>7. BornIn(h, i, s, p, o, "connecting")
    BY <1>2, <1>3, <1>4, <1>5, <1>6, PeerBorn DEF Connect, SlotStates
  <1>8. p \in Handles /\ p # NoHandle
    BY <1>7, NoHandleNotOne DEF BornIn
  <1>9. story' = [story EXCEPT ![p] = Append(@, "BORN")]
    BY <1>4, <1>8 DEF Connect, Tell
  <1>10. enet[i][s].st = "disconnected"
    BY <1>5 DEF IsFirstFree
  <1>11. /\ conns < MaxConns /\ conns' = conns + 1
         /\ UNCHANGED <<inits, hosts, up, poll, drainCap, list, made, recvs, serviced, heard, gone>>
    BY DEF Connect
  <1> QED
    BY <1>1, <1>2, <1>3, <1>6, <1>7, <1>8, <1>9, <1>10, <1>11

LEMMA ConnectCore ==
    ASSUME CoreInv, poll.pc = "off", NEW h, Connect(h), UNCHANGED <<at, polling>>
    PROVE  CoreInv'
  <1>1. PICK s \in PeerSlots : \E p \in Handles :
             /\ Get(hosts, h) # Null /\ Get(hosts, h).id \in HostIds
             /\ enet[Get(hosts, h).id][s].st = "disconnected"
             /\ BornIn(h, Get(hosts, h).id, s, p, [id |-> Get(hosts, h).id, slot |-> s, host |-> h], "connecting")
             /\ conns < MaxConns /\ conns' = conns + 1
             /\ story' = [story EXCEPT ![p] = Append(@, "BORN")]
             /\ UNCHANGED <<inits, hosts, up, poll, drainCap, list, made, recvs, serviced, heard, gone>>
    BY ConnectFacts
  <1>2. PICK i : i = Get(hosts, h).id
    OBVIOUS
  <1>3. PICK o : o = [id |-> i, slot |-> s, host |-> h]
    OBVIOUS
  <1>4. PICK p \in Handles :
             /\ Get(hosts, h) # Null /\ i \in HostIds
             /\ enet[i][s].st = "disconnected"
             /\ BornIn(h, i, s, p, o, "connecting")
             /\ conns < MaxConns /\ conns' = conns + 1
             /\ UNCHANGED <<inits, hosts, up, poll, drainCap, list, made, serviced>>
    BY <1>1, <1>2, <1>3
  <1>5. UNCHANGED Script
    BY <1>4 DEF Script
  <1>6. HostsOK
    BY <1>4, HostsOKSame
  <1>7. TablesInv'
    BY <1>4, HostsStay DEF BornIn, SlotIs, PeersPut, TablesInv, CoreInv
  <1>8. OwnersInv'
    BY <1>4, <1>6, OwnersKeep DEF CoreInv, HostsOK
  <1>9. LinksInv'
    BY <1>2, <1>3, <1>4, <1>6, LinksBorn DEF BornIn, HostsOK
  <1>10. Counts'
    BY <1>4, EnetAssumption DEF Counts, CoreInv, RestInv
  <1>11. StashesShort'
    BY <1>6 DEF HostsOK, StashesShort
  <1> QED
    BY <1>5, <1>7, <1>8, <1>9, <1>10, <1>11, RestCalls DEF CoreInv

\* The handle p of slot s of host i retires with its slot.
RetiredAt(i, s, p, st) ==
    PeersFreed({p}) /\ SlotIs(i, s, [st |-> st, data |-> NoHandle])

LEMMA RetireStep ==
    ASSUME CoreInv, NEW i \in HostIds, NEW s \in PeerSlots, NEW p, p = enet[i][s].data,
           NEW st \in SlotStates, RetireAs(i, s, p, st)
    PROVE  RetiredAt(i, s, p, st)
  <1>1. PICK r : r = [st |-> st, data |-> NoHandle]
    OBVIOUS
  <1>2. r \in Slot
    BY <1>1 DEF Slot
  <1>3. enet' = [enet EXCEPT ![i][s] = r] /\ peers' = Free(peers, p)
    BY <1>1 DEF RetireAs, Unlinked
  <1> QED
    BY <1>1, <1>2, <1>3, PeerFree, SlotSet DEF RetiredAt, CoreInv

\* Where a live peer is.
LEMMA PeerPlace ==
    ASSUME CoreInv, NEW p, Get(peers, p) # Null
    PROVE  /\ p \in Handles /\ Get(peers, p).id \in HostIds /\ Get(peers, p).slot \in PeerSlots
           /\ Get(peers, p).host \in Handles /\ Get(hosts, Get(peers, p).host) # Null
           /\ enet[Get(peers, p).id][Get(peers, p).slot].data = p
           /\ enet[Get(peers, p).id][Get(peers, p).slot].st \in SlotStates \ {"disconnected"}
  <1>1. p \in Handles /\ Get(peers, p) \in PeerObjects
    BY PeerFacts DEF CoreInv
  <1>2. Get(peers, p).id \in HostIds /\ Get(peers, p).slot \in PeerSlots /\ Get(peers, p).host \in Handles
    BY <1>1 DEF PeerObjects
  <1>3. /\ Get(hosts, Get(peers, p).host) # Null
        /\ enet[Get(peers, p).id][Get(peers, p).slot].data = p
        /\ enet[Get(peers, p).id][Get(peers, p).slot].st # "disconnected"
    BY DEF CoreInv, LinksInv
  <1>4. enet[Get(peers, p).id][Get(peers, p).slot] \in Slot
    BY <1>2 DEF CoreInv, TablesInv
  <1> QED
    BY <1>1, <1>2, <1>3, <1>4 DEF Slot

\* A handle retires in one of the app's calls.
LetGo(p) ==
    /\ \E i \in HostIds : \E s \in PeerSlots : \E st \in SlotStates :
          p = enet[i][s].data /\ RetiredAt(i, s, p, st)
    /\ gone' = gone \cup {p}

\* A slot moves on, and its handle stays.
MovedOn(p) ==
    /\ \E i \in HostIds : \E s \in PeerSlots : \E r \in Slot :
          /\ r.data = enet[i][s].data /\ r.st # "disconnected" /\ SlotIs(i, s, r)
          /\ r.st \in {enet[i][s].st, "disconnecting", "leaving"}
    /\ UNCHANGED <<peers, gone>>

LEMMA DisconnectFacts ==
    ASSUME CoreInv, NEW p, Disconnect(p)
    PROVE  (LetGo(p) \/ MovedOn(p)) /\ Get(peers, p) # Null
  <1>1. Get(peers, p) # Null
    BY PeerFacts DEF Disconnect, CoreInv
  <1>2. PICK i : i = Get(peers, p).id
    OBVIOUS
  <1>3. PICK s : s = Get(peers, p).slot
    OBVIOUS
  <1>4. PICK st : st = AfterDisconnect(enet[i][s].st)
    OBVIOUS
  <1>5. i \in HostIds /\ s \in PeerSlots /\ enet[i][s].data = p /\ enet[i][s] \in Slot
        /\ enet[i][s].st \in SlotStates \ {"disconnected"}
    BY <1>1, <1>2, <1>3, PeerPlace DEF CoreInv, TablesInv
  <1>6. st \in SlotStates /\ st \in {enet[i][s].st, "disconnecting", "disconnected"}
    BY <1>4, <1>5 DEF AfterDisconnect, SlotStates
  <1>7. CASE st = "disconnected"
    <2>1. RetireAs(i, s, p, st) /\ gone' = gone \cup {p}
      BY <1>2, <1>3, <1>4, <1>7 DEF Disconnect, NothingOwed
    <2>2. RetiredAt(i, s, p, st)
      BY <1>5, <1>6, <2>1, RetireStep
    <2> QED
      BY <1>1, <1>5, <1>6, <2>1, <2>2 DEF LetGo
  <1>8. CASE st # "disconnected"
    <2>1. enet' = [enet EXCEPT ![i][s].st = st] /\ UNCHANGED <<peers, gone>>
      BY <1>2, <1>3, <1>4, <1>8 DEF Disconnect, NothingOwed
    <2>2. PICK r : r = [enet[i][s] EXCEPT !.st = st]
      OBVIOUS
    <2>3. r \in Slot /\ r.st = st /\ r.data = enet[i][s].data
      BY <1>5, <1>6, <2>2 DEF Slot
    <2>4. enet' = [enet EXCEPT ![i][s] = r]
      BY <2>1, <2>2
    <2>5. SlotIs(i, s, r)
      BY <1>5, <2>3, <2>4, SlotSet DEF CoreInv
    <2> QED
      BY <1>1, <1>5, <1>6, <1>8, <2>1, <2>3, <2>5 DEF MovedOn
  <1> QED
    BY <1>7, <1>8

LEMMA AbortFacts ==
    ASSUME CoreInv, NEW p, Abort(p)
    PROVE  LetGo(p) /\ Get(peers, p) # Null
  <1>1. Get(peers, p) # Null
    BY PeerFacts DEF Abort, CoreInv
  <1>2. PICK i : i = Get(peers, p).id
    OBVIOUS
  <1>3. PICK s : s = Get(peers, p).slot
    OBVIOUS
  <1>4. i \in HostIds /\ s \in PeerSlots /\ enet[i][s].data = p
    BY <1>1, <1>2, <1>3, PeerPlace
  <1>5. RetireAs(i, s, p, "disconnected") /\ gone' = gone \cup {p}
    BY <1>2, <1>3 DEF Abort
  <1>6. "disconnected" \in SlotStates
    BY DEF SlotStates
  <1>7. RetiredAt(i, s, p, "disconnected")
    BY <1>4, <1>5, <1>6, RetireStep
  <1> QED
    BY <1>1, <1>4, <1>5, <1>6, <1>7 DEF LetGo

LEMMA PartCore ==
    ASSUME CoreInv, poll.pc = "off", NEW p, LetGo(p) \/ MovedOn(p), UNCHANGED Script,
           UNCHANGED <<inits, hosts, up, made, conns>>
    PROVE  CoreInv'
  <1>1. HostsOK
    BY HostsOKSame
  <1>2. TablesInv' /\ LinksInv'
    <2>1. CASE LetGo(p)
      <3>1. PICK i \in HostIds : \E s \in PeerSlots : \E st \in SlotStates :
               p = enet[i][s].data /\ RetiredAt(i, s, p, st)
        BY <2>1 DEF LetGo
      <3>2. PICK s \in PeerSlots : \E st \in SlotStates : p = enet[i][s].data /\ RetiredAt(i, s, p, st)
        BY <3>1
      <3>3. PICK st \in SlotStates : p = enet[i][s].data /\ RetiredAt(i, s, p, st)
        BY <3>2
      <3>4. TablesInv'
        BY <3>3, HostsStay DEF RetiredAt, SlotIs, PeersFreed, TablesInv, CoreInv
      <3>5. LinksInv'
        BY <1>1, <3>3, LinksRetire DEF RetiredAt, HostsOK
      <3> QED
        BY <3>4, <3>5
    <2>2. CASE MovedOn(p)
      <3>1. PICK i \in HostIds : \E s \in PeerSlots : \E r \in Slot :
               r.data = enet[i][s].data /\ r.st # "disconnected" /\ SlotIs(i, s, r)
        BY <2>2 DEF MovedOn
      <3>2. PICK s \in PeerSlots : \E r \in Slot :
               r.data = enet[i][s].data /\ r.st # "disconnected" /\ SlotIs(i, s, r)
        BY <3>1
      <3>3. PICK r \in Slot : r.data = enet[i][s].data /\ r.st # "disconnected" /\ SlotIs(i, s, r)
        BY <3>2
      <3>4. peers' = peers
        BY <2>2 DEF MovedOn
      <3>5. TablesInv'
        BY <3>3, <3>4, HostsStay, PeersStay DEF SlotIs, TablesInv, CoreInv
      <3>6. LinksInv'
        BY <1>1, <3>3, <3>4, LinksMove DEF HostsOK
      <3> QED
        BY <3>5, <3>6
    <2> QED
      BY <2>1, <2>2
  <1>3. OwnersInv'
    BY <1>1, OwnersKeep DEF CoreInv, HostsOK
  <1>4. Counts'
    BY DEF Counts, CoreInv, RestInv
  <1>5. StashesShort'
    BY <1>1 DEF HostsOK, StashesShort
  <1> QED
    BY <1>2, <1>3, <1>4, <1>5, RestCalls DEF CoreInv

LEMMA CallsCore ==
    ASSUME CoreInv, AppCall
    PROVE  CoreInv'
  <1>1. poll.pc = "off" /\ UNCHANGED <<at, polling>> /\ Calls
    BY DEF AppCall, AppRuns, Polling, pumpVars
  <1>2. CASE Initialize
    BY <1>1, <1>2, InitializeCore
  <1>3. CASE Deinitialize
    BY <1>1, <1>3, DeinitializeCore
  <1>4. CASE HostCreate
    BY <1>1, <1>4, HostCreateCore
  <1>5. ASSUME NEW h, HostDestroy(h) PROVE CoreInv'
    BY <1>1, <1>5, HostDestroyCore
  <1>6. ASSUME NEW h, Connect(h) PROVE CoreInv'
    BY <1>1, <1>6, ConnectCore
  <1>7. ASSUME NEW p, Disconnect(p) PROVE CoreInv'
    <2>1. UNCHANGED Script /\ UNCHANGED <<inits, hosts, up, made, conns>>
      BY <1>1, <1>7 DEF Disconnect, Script, bounds
    <2> QED
      BY <1>1, <1>7, <2>1, DisconnectFacts, PartCore
  <1>8. ASSUME NEW p, Abort(p) PROVE CoreInv'
    <2>1. UNCHANGED Script /\ UNCHANGED <<inits, hosts, up, made, conns>>
      BY <1>1, <1>8 DEF Abort, Script, bounds
    <2> QED
      BY <1>1, <1>8, <2>1, AbortFacts, PartCore
  <1> QED
    BY <1>1, <1>2, <1>3, <1>4, <1>5, <1>6, <1>7, <1>8 DEF Calls

\* ------------------------------------------------------------------- enPoll

LEMMA QuietCore ==
    ASSUME CoreInv, UNCHANGED <<inits, hosts, peers, enet, up, made, conns>>, RestInv'
    PROVE  CoreInv'
  <1>1. HostsOK
    BY HostsOKSame
  <1>2. TablesInv'
    BY HostsStay, PeersStay DEF TablesInv, CoreInv
  <1>3. OwnersInv' /\ LinksInv'
    BY <1>1, OwnersKeep, LinksKeep DEF CoreInv, HostsOK
  <1> QED
    BY <1>2, <1>3 DEF CoreInv

\* The tables' side of a step of enx_poll.
LEMMA PumpTables ==
    ASSUME CoreInv, EnterRest, UNCHANGED <<peers, enet, up, made, inits>>
    PROVE  TablesInv' /\ OwnersInv' /\ LinksInv'
  <1>1. TablesInv'
    BY PeersStay DEF TablesInv, CoreInv, EnterRest, HostsOK
  <1> QED
    BY <1>1, OwnersKeep, LinksKeep DEF CoreInv, EnterRest, HostsOK

LEMMA RestPump ==
    ASSUME CoreInv, EnterRest, UNCHANGED <<list, inits, made>>, drainCap' \in Nat, conns' \in 0 .. MaxConns,
           serviced' \in [Handles -> Nat], at' \in {"idle", "pass", "handler"}, polling' = polling
    PROVE  RestInv'
  BY DEF CoreInv, RestInv, EnterRest, HostsOK

LEMMA PollNextCore ==
    ASSUME CoreInv, PollNext
    PROVE  CoreInv'
  <1>1. PICK h : h = Head(pass)
    OBVIOUS
  <1>2. /\ EnterWith(h, drainCap, 0) /\ at' = "pass"
        /\ UNCHANGED <<inits, peers, enet, up, drainCap, list, made, conns, serviced, polling>>
    BY <1>1 DEF PollNext, PollBegin, bounds, history
  <1>3. 0 \in 0 .. MaxTries
    BY EnetAssumption
  <1>4. EnterRest
    BY <1>2, <1>3, EnterStep
  <1>5. RestInv'
    BY <1>2, <1>4, RestPump DEF CoreInv, RestInv
  <1> QED
    BY <1>2, <1>4, <1>5, PumpTables DEF CoreInv

LEMMA PollGrowCore ==
    ASSUME CoreInv, PollGrow, UNCHANGED <<at, polling>>
    PROVE  CoreInv'
  <1>1. PICK h : h = poll.host
    OBVIOUS
  <1>2. PICK n : n = poll.tries + 1
    OBVIOUS
  <1>3. PICK cap : cap = drainCap'
    OBVIOUS
  <1>4. /\ EnterWith(h, cap, n) /\ poll.tries < MaxTries
        /\ drainCap' = IF drainCap < poll.need THEN poll.need ELSE drainCap
        /\ UNCHANGED <<inits, peers, enet, up, list, made, conns, serviced>>
    BY <1>1, <1>2, <1>3 DEF PollGrow, bounds, history
  <1>5. n \in 0 .. MaxTries /\ drainCap' \in Nat
    BY <1>2, <1>4, EnetAssumption DEF CoreInv, RestInv, Polls
  <1>6. EnterRest
    BY <1>4, <1>5, EnterStep
  <1>7. RestInv'
    BY <1>4, <1>5, <1>6, RestPump DEF CoreInv, RestInv
  <1> QED
    BY <1>4, <1>6, <1>7, PumpTables DEF CoreInv

LEMMA PollReturnCore ==
    ASSUME CoreInv, PollReturn, UNCHANGED <<at, polling>>
    PROVE  CoreInv'
  <1>1. /\ list' = poll.out /\ poll' = PollOff
        /\ UNCHANGED <<inits, hosts, peers, enet, up, drainCap, made, conns, serviced>>
    BY DEF PollReturn, tables, bounds, history
  <1>2. poll' \in Polls /\ poll'.pc = "off"
    BY <1>1, PollTypes DEF PollOff
  <1>3. list' \in Seq(Events)
    BY <1>1 DEF CoreInv, RestInv, Polls
  <1>4. RestInv'
    BY <1>1, <1>2, <1>3, HostsStay DEF CoreInv, RestInv
  <1> QED
    BY <1>1, <1>4, QuietCore

LEMMA ScriptCore ==
    ASSUME CoreInv,
           \/ Tick \/ Dispatch \/ EndPass \/ UNCHANGED vars
           \/ \E h : StartPolling(h) \/ \E hs : StopPolling(hs)
    PROVE  CoreInv'
  <1>1. UNCHANGED <<inits, hosts, peers, enet, up, made, conns, poll, drainCap, serviced>>
    BY DEF Tick, Dispatch, EndPass, StartPolling, StopPolling, vars, shimVars, pumpVars, tables, bounds, history
  <1>2. list' \in Seq(Events)
    <2>1. CASE Dispatch
      BY <2>1 DEF Dispatch, CoreInv, RestInv
    <2>2. CASE list' = list
      BY <2>2 DEF CoreInv, RestInv
    <2> QED
      BY <2>1, <2>2 DEF Tick, EndPass, StartPolling, StopPolling, vars, shimVars
  <1>3. at' \in {"idle", "pass", "handler"} /\ polling' \in BOOLEAN
    <2>1. at' \in {"idle", "pass", "handler"}
      BY DEF Tick, Dispatch, EndPass, StartPolling, StopPolling, vars, pumpVars, CoreInv, RestInv
    <2>2. polling' \in BOOLEAN
      BY DEF Tick, Dispatch, EndPass, StartPolling, StopPolling, vars, pumpVars, CoreInv, RestInv
    <2> QED
      BY <2>1, <2>2
  <1>4. RestInv'
    BY <1>1, <1>2, <1>3, HostsStay DEF CoreInv, RestInv
  <1> QED
    BY <1>1, <1>4, QuietCore

\* ------------------------------------------------------------- ENet's events

LEMMA EventTyped ==
    ASSUME CoreInv, poll.pc = "pump", NEW type \in {"CONNECT", "RECEIVE", "ERROR", "DISCONNECT"},
           NEW p \in Handles \cup {NoHandle}, NEW n \in Sizes \cup {CtlSize}
    PROVE  /\ Event(type, p, n) \in Events
           /\ Event(type, p, n).peer = p /\ Event(type, p, n).type = type
           /\ Event(type, p, n).host = poll.host
           /\ Event(type, p, n).no = serviced[poll.host] + 1
           /\ poll.host \in Handles /\ Get(hosts, poll.host) # Null
  <1>1. poll.host \in Handles /\ Get(hosts, poll.host) # Null
    BY HostFacts DEF CoreInv, RestInv
  <1>2. serviced[poll.host] + 1 \in Nat
    BY <1>1 DEF CoreInv, RestInv
  <1> QED
    BY <1>1, <1>2 DEF Event, Events

\* The event e, of the host being pumped, is given up.
GivesUp(e) ==
    /\ poll.pc = "pump" /\ e \in Events /\ e.host = poll.host /\ e.no = serviced[poll.host] + 1
    /\ Serviced(e)

LEMMA GivesUpCore ==
    ASSUME CoreInv, NEW e, GivesUp(e), conns' \in 0 .. MaxConns, UNCHANGED <<at, polling>>
    PROVE  EnterRest /\ RestInv' /\ UNCHANGED <<up, made, inits>>
  <1>1. /\ UNCHANGED <<inits, up, drainCap, list, made>>
        /\ serviced' = [serviced EXCEPT ![e.host] = e.no] /\ WriteOrStash(e)
    BY DEF GivesUp, Serviced
  <1>2. EnterRest
    BY <1>1, WriteStep DEF GivesUp
  <1>3. e.no \in Nat
    BY DEF GivesUp, Events
  <1>4. serviced' \in [Handles -> Nat]
    BY <1>1, <1>3 DEF CoreInv, RestInv
  <1> QED
    BY <1>1, <1>2, <1>4, RestPump DEF CoreInv, RestInv

\* The connection coming up is one the app began: its slot moves on.
Answered(i, s, e) ==
    /\ enet[i][s].st = "connecting" /\ e.peer = enet[i][s].data
    /\ SlotIs(i, s, [st |-> "connected", data |-> e.peer])
    /\ UNCHANGED <<peers, conns>>

\* One that comes in gets a handle.
Incoming(i, s, e) ==
    /\ enet[i][s].st = "disconnected"
    /\ conns < MaxConns /\ conns' = conns + 1
    /\ BornIn(poll.host, i, s, e.peer, [id |-> i, slot |-> s, host |-> poll.host], "connected")

\* One that comes in when the table is full gets none.
Unnamed(i, s, e) ==
    /\ enet[i][s].st = "disconnected"
    /\ conns < MaxConns /\ conns' = conns + 1
    /\ e.peer = NoHandle
    /\ SlotIs(i, s, [st |-> "connected", data |-> NoHandle])
    /\ peers' = peers

ConnectsAs(i, s, e) ==
    /\ GivesUp(e) /\ e.type = "CONNECT"
    /\ Answered(i, s, e) \/ Incoming(i, s, e) \/ Unnamed(i, s, e)

LEMMA ServiceConnectFacts ==
    ASSUME CoreInv, NEW i \in HostIds, NEW s \in PeerSlots, ServiceConnect(i, s)
    PROVE  (\E e : ConnectsAs(i, s, e)) /\ Get(hosts, poll.host) # Null /\ Get(hosts, poll.host).id = i
  <1>0. poll.pc = "pump" /\ Get(hosts, poll.host).id = i
    BY DEF ServiceConnect, Pumped
  <1>1. CASE enet[i][s].st = "connecting"
    <2>1. PICK p : p = enet[i][s].data
      OBVIOUS
    <2>2. PICK e : e = Event("CONNECT", p, CtlSize)
      OBVIOUS
    <2>3. /\ UNCHANGED <<peers, conns>> /\ Serviced(e)
          /\ enet' = [enet EXCEPT ![i][s] = [st |-> "connected", data |-> p]]
      BY <1>1, <2>1, <2>2 DEF ServiceConnect
    <2>4. p \in Handles \cup {NoHandle}
      BY <2>1 DEF CoreInv, TablesInv, Slot
    <2>5. GivesUp(e) /\ e.type = "CONNECT" /\ e.peer = p /\ Get(hosts, poll.host) # Null
      BY <1>0, <2>2, <2>3, <2>4, EventTyped DEF GivesUp
    <2>6. [st |-> "connected", data |-> p] \in Slot
      BY <2>4 DEF Slot, SlotStates
    <2>7. SlotIs(i, s, [st |-> "connected", data |-> p])
      BY <2>3, <2>6, SlotSet DEF CoreInv
    <2>8. Answered(i, s, e)
      BY <1>1, <2>1, <2>3, <2>5, <2>7 DEF Answered
    <2> QED
      BY <1>0, <2>5, <2>8 DEF ConnectsAs
  <1>2. CASE enet[i][s].st # "connecting"
    <2>0. PICK h : h = poll.host
      OBVIOUS
    <2>1. PICK p : p = AllocHandle(peers)
      OBVIOUS
    <2>2. PICK e : e = Event("CONNECT", p, CtlSize)
      OBVIOUS
    <2>3. PICK o : o = [id |-> i, slot |-> s, host |-> h]
      OBVIOUS
    <2>4. /\ peers' = Alloc(peers, o) /\ Serviced(e) /\ conns < MaxConns /\ conns' = conns + 1
          /\ enet' = [enet EXCEPT ![i][s] = [st |-> "connected", data |-> p]]
          /\ enet[i][s].st = "disconnected"
      BY <1>2, <2>0, <2>1, <2>2, <2>3 DEF ServiceConnect, IsFirstFree
    <2>5. Get(hosts, h) # Null /\ h \in Handles
      BY <1>0, <2>0, HostFacts DEF CoreInv, RestInv
    <2>6. CASE CanAlloc(peers)
      <3>1. BornIn(h, i, s, p, o, "connected")
        BY <2>1, <2>3, <2>4, <2>5, <2>6, PeerBorn DEF SlotStates
      <3>2. p \in Handles
        BY <3>1 DEF BornIn
      <3>3. GivesUp(e) /\ e.type = "CONNECT" /\ e.peer = p
        BY <1>0, <2>2, <2>4, <3>2, EventTyped DEF GivesUp
      <3>4. Incoming(i, s, e)
        BY <2>0, <2>3, <2>4, <3>1, <3>3 DEF Incoming
      <3> QED
        BY <1>0, <2>0, <2>5, <3>3, <3>4 DEF ConnectsAs
    <2>7. CASE ~CanAlloc(peers)
      <3>1. p = NoHandle /\ peers' = peers
        BY <2>1, <2>4, <2>7 DEF AllocHandle, Alloc
      <3>2. GivesUp(e) /\ e.type = "CONNECT" /\ e.peer = p
        BY <1>0, <2>2, <2>4, <3>1, EventTyped DEF GivesUp
      <3>3. [st |-> "connected", data |-> NoHandle] \in Slot
        BY DEF Slot, SlotStates
      <3>4. SlotIs(i, s, [st |-> "connected", data |-> NoHandle])
        BY <2>4, <3>1, <3>3, SlotSet DEF CoreInv
      <3>5. Unnamed(i, s, e)
        BY <2>4, <3>1, <3>2, <3>4 DEF Unnamed
      <3> QED
        BY <1>0, <2>0, <2>5, <3>2, <3>5 DEF ConnectsAs
    <2> QED
      BY <2>6, <2>7
  <1> QED
    BY <1>1, <1>2

LEMMA ServiceConnectCore ==
    ASSUME CoreInv, NEW i \in HostIds, NEW s \in PeerSlots, ServiceConnect(i, s), UNCHANGED <<at, polling>>
    PROVE  CoreInv'
  <1>1. PICK e : ConnectsAs(i, s, e)
    BY ServiceConnectFacts
  <1>2. Get(hosts, poll.host) # Null /\ Get(hosts, poll.host).id = i
    BY ServiceConnectFacts
  <1>3. conns' \in 0 .. MaxConns
    BY <1>1, EnetAssumption DEF ConnectsAs, Answered, Incoming, Unnamed, CoreInv, RestInv
  <1>4. EnterRest /\ RestInv' /\ UNCHANGED <<up, made, inits>>
    BY <1>1, <1>3, GivesUpCore DEF ConnectsAs
  <1>5. OwnersInv'
    BY <1>4, OwnersKeep DEF CoreInv, EnterRest, HostsOK
  <1>6. HostsKeep /\ TableOK(hosts, HostObjects)' /\ FreeListOK(hosts)'
    BY <1>4 DEF EnterRest, HostsOK
  <1>7. CASE Answered(i, s, e)
    <2>1. PICK r : r = [st |-> "connected", data |-> e.peer]
      OBVIOUS
    <2>2. r.data = enet[i][s].data /\ r.st # "disconnected" /\ SlotIs(i, s, r) /\ peers' = peers
      BY <1>7, <2>1 DEF Answered
    <2>3. TablesInv'
      BY <1>6, <2>2, PeersStay DEF CoreInv, TablesInv, SlotIs
    <2>4. LinksInv'
      BY <1>6, <2>2, LinksMove
    <2> QED
      BY <1>4, <1>5, <2>3, <2>4 DEF CoreInv
  <1>8. CASE Incoming(i, s, e)
    <2>1. PICK h : h = poll.host
      OBVIOUS
    <2>2. PICK p : p = e.peer
      OBVIOUS
    <2>3. PICK o : o = [id |-> i, slot |-> s, host |-> h]
      OBVIOUS
    <2>4. BornIn(h, i, s, p, o, "connected") /\ enet[i][s].st = "disconnected"
      BY <1>8, <2>1, <2>2, <2>3 DEF Incoming
    <2>5. TablesInv'
      BY <1>6, <2>4 DEF CoreInv, TablesInv, BornIn, SlotIs, PeersPut
    <2>6. LinksInv'
      BY <1>2, <1>6, <2>1, <2>3, <2>4, LinksBorn DEF BornIn
    <2> QED
      BY <1>4, <1>5, <2>5, <2>6 DEF CoreInv
  <1>9. CASE Unnamed(i, s, e)
    <2>1. PICK r : r = [st |-> "connected", data |-> NoHandle]
      OBVIOUS
    <2>2. enet[i][s].data = NoHandle
      BY <1>9 DEF Unnamed, CoreInv, LinksInv
    <2>3. r.data = enet[i][s].data /\ r.st # "disconnected" /\ SlotIs(i, s, r) /\ peers' = peers
      BY <1>9, <2>1, <2>2 DEF Unnamed
    <2>4. TablesInv'
      BY <1>6, <2>3, PeersStay DEF CoreInv, TablesInv, SlotIs
    <2>5. LinksInv'
      BY <1>6, <2>3, LinksMove
    <2> QED
      BY <1>4, <1>5, <2>4, <2>5 DEF CoreInv
  <1> QED
    BY <1>1, <1>7, <1>8, <1>9 DEF ConnectsAs

\* A packet of a connected slot, or the error a packet too long becomes.
ReceivesAs(i, s, e) ==
    /\ GivesUp(e) /\ e.type \in {"RECEIVE", "ERROR"} /\ e.peer = enet[i][s].data
    /\ enet[i][s].st = "connected"
    /\ UNCHANGED <<peers, enet, conns>>

LEMMA ServiceReceiveFacts ==
    ASSUME CoreInv, NEW i \in HostIds, NEW s \in PeerSlots, NEW n \in Sizes, ServiceReceive(i, s, n)
    PROVE  (\E e : ReceivesAs(i, s, e)) /\ Get(hosts, poll.host) # Null /\ Get(hosts, poll.host).id = i
  <1>1. PICK p : p = enet[i][s].data
    OBVIOUS
  <1>2. p \in Handles \cup {NoHandle}
    BY <1>1 DEF CoreInv, TablesInv, Slot
  <1>3. PICK e : e = IF n > MAX_MESSAGE THEN Event("ERROR", p, CtlSize) ELSE Event("RECEIVE", p, n)
    OBVIOUS
  <1>4. /\ Serviced(e) /\ poll.pc = "pump" /\ enet[i][s].st = "connected"
        /\ Get(hosts, poll.host).id = i /\ UNCHANGED <<peers, enet, conns>>
    BY <1>1, <1>3 DEF ServiceReceive, Pumped
  <1>5. GivesUp(e) /\ e.type \in {"RECEIVE", "ERROR"} /\ e.peer = p /\ Get(hosts, poll.host) # Null
    BY <1>2, <1>3, <1>4, EventTyped DEF GivesUp
  <1> QED
    BY <1>1, <1>4, <1>5 DEF ReceivesAs

LEMMA ServiceReceiveCore ==
    ASSUME CoreInv, NEW i \in HostIds, NEW s \in PeerSlots, NEW n \in Sizes, ServiceReceive(i, s, n),
           UNCHANGED <<at, polling>>
    PROVE  CoreInv'
  <1>1. PICK e : ReceivesAs(i, s, e)
    BY ServiceReceiveFacts
  <1>2. UNCHANGED <<peers, enet, conns>> /\ GivesUp(e) /\ conns' \in 0 .. MaxConns
    BY <1>1 DEF ReceivesAs, CoreInv, RestInv
  <1>3. EnterRest /\ RestInv' /\ UNCHANGED <<up, made, inits>>
    BY <1>2, GivesUpCore
  <1> QED
    BY <1>2, <1>3, PumpTables DEF CoreInv

\* A slot ends, and its handle retires.
EndsAs(i, s, e) ==
    /\ GivesUp(e) /\ e.type = "DISCONNECT" /\ e.peer = enet[i][s].data
    /\ enet[i][s].st # "disconnected"
    /\ RetiredAt(i, s, e.peer, "disconnected")
    /\ UNCHANGED conns

LEMMA ServiceDisconnectFacts ==
    ASSUME CoreInv, NEW i \in HostIds, NEW s \in PeerSlots, ServiceDisconnect(i, s)
    PROVE  (\E e : EndsAs(i, s, e)) /\ Get(hosts, poll.host) # Null /\ Get(hosts, poll.host).id = i
  <1>1. PICK p : p = enet[i][s].data
    OBVIOUS
  <1>2. p \in Handles \cup {NoHandle}
    BY <1>1 DEF CoreInv, TablesInv, Slot
  <1>3. PICK e : e = Event("DISCONNECT", p, CtlSize)
    OBVIOUS
  <1>4. /\ Serviced(e) /\ poll.pc = "pump" /\ enet[i][s].st # "disconnected"
        /\ Get(hosts, poll.host).id = i /\ UNCHANGED conns
        /\ RetireAs(i, s, p, "disconnected")
    BY <1>1, <1>3 DEF ServiceDisconnect, Pumped, ToRetire
  <1>5. GivesUp(e) /\ e.type = "DISCONNECT" /\ e.peer = p /\ Get(hosts, poll.host) # Null
    BY <1>2, <1>3, <1>4, EventTyped DEF GivesUp
  <1>6. "disconnected" \in SlotStates
    BY DEF SlotStates
  <1>7. RetiredAt(i, s, p, "disconnected")
    BY <1>1, <1>4, <1>6, RetireStep
  <1> QED
    BY <1>1, <1>4, <1>5, <1>7 DEF EndsAs

LEMMA ServiceDisconnectCore ==
    ASSUME CoreInv, NEW i \in HostIds, NEW s \in PeerSlots, ServiceDisconnect(i, s), UNCHANGED <<at, polling>>
    PROVE  CoreInv'
  <1>1. PICK e : EndsAs(i, s, e)
    BY ServiceDisconnectFacts
  <1>2. PICK p : p = e.peer
    OBVIOUS
  <1>3. p = enet[i][s].data /\ RetiredAt(i, s, p, "disconnected") /\ conns' \in 0 .. MaxConns /\ GivesUp(e)
    BY <1>1, <1>2 DEF EndsAs, CoreInv, RestInv
  <1>4. EnterRest /\ RestInv' /\ UNCHANGED <<up, made, inits>>
    BY <1>3, GivesUpCore
  <1>5. OwnersInv'
    BY <1>4, OwnersKeep DEF CoreInv, EnterRest, HostsOK
  <1>6. TablesInv'
    BY <1>3, <1>4 DEF CoreInv, TablesInv, RetiredAt, SlotIs, PeersFreed, EnterRest, HostsOK
  <1>7. LinksInv'
    BY <1>3, <1>4, LinksRetire DEF RetiredAt, EnterRest, HostsOK
  <1> QED
    BY <1>4, <1>5, <1>6, <1>7 DEF CoreInv

\* A slot is about to end.
LeavesAs(i, s) ==
    /\ enet[i][s].st \in {"connecting", "connected"}
    /\ SlotIs(i, s, [st |-> "leaving", data |-> enet[i][s].data])
    /\ UNCHANGED <<inits, hosts, peers, up, poll, drainCap, list, made, conns, recvs, serviced, heard, story, gone>>

LEMMA PeerLeavesFacts ==
    ASSUME CoreInv, NEW i \in HostIds, NEW s \in PeerSlots, PeerLeaves(i, s)
    PROVE  LeavesAs(i, s)
  <1>1. PICK r : r = [enet[i][s] EXCEPT !.st = "leaving"]
    OBVIOUS
  <1>2. enet[i][s] \in Slot
    BY DEF CoreInv, TablesInv
  <1>3. r \in Slot /\ r = [st |-> "leaving", data |-> enet[i][s].data]
    BY <1>1, <1>2 DEF Slot, SlotStates
  <1>4. enet' = [enet EXCEPT ![i][s] = r]
    BY <1>1 DEF PeerLeaves
  <1>5. SlotIs(i, s, r)
    BY <1>3, <1>4, SlotSet DEF CoreInv
  <1> QED
    BY <1>3, <1>5 DEF LeavesAs, PeerLeaves, bounds, history

LEMMA PeerLeavesCore ==
    ASSUME CoreInv, NEW i \in HostIds, NEW s \in PeerSlots, PeerLeaves(i, s), UNCHANGED <<at, polling>>
    PROVE  CoreInv'
  <1>0. LeavesAs(i, s)
    BY PeerLeavesFacts
  <1>1. PICK r : r = [st |-> "leaving", data |-> enet[i][s].data]
    OBVIOUS
  <1>2. r.data = enet[i][s].data /\ r.st # "disconnected" /\ SlotIs(i, s, r)
        /\ UNCHANGED <<inits, hosts, peers, up, poll, drainCap, list, made, conns, serviced>>
    BY <1>0, <1>1 DEF LeavesAs
  <1>3. HostsOK
    BY <1>2, HostsOKSame
  <1>4. TablesInv'
    BY <1>2, HostsStay, PeersStay DEF SlotIs, TablesInv, CoreInv
  <1>5. LinksInv'
    BY <1>2, <1>3, LinksMove DEF HostsOK
  <1>6. OwnersInv'
    BY <1>2, <1>3, OwnersKeep DEF CoreInv, HostsOK
  <1>7. RestInv'
    BY <1>2, HostsStay DEF CoreInv, RestInv
  <1> QED
    BY <1>4, <1>5, <1>6, <1>7 DEF CoreInv

\* ---------------------------------------------------------------- the theorems

LEMMA CoreInit == PumpInit => CoreInv
  <1> SUFFICES ASSUME PumpInit
               PROVE  CoreInv
    OBVIOUS
  <1>1. /\ inits = 0 /\ hosts = EmptyTable /\ peers = EmptyTable
        /\ enet = [i \in HostIds |-> AllSlotsFree] /\ up = {} /\ poll = PollOff
        /\ drainCap = DrainCap /\ list = << >> /\ made = 0 /\ conns = 0
        /\ serviced = [h \in Handles |-> 0] /\ at = "idle" /\ polling = FALSE
    BY DEF PumpInit, Init
  <1>2. /\ TableOK(hosts, HostObjects) /\ FreeListOK(hosts)
        /\ TableOK(peers, PeerObjects) /\ FreeListOK(peers)
    BY <1>1, EmptyTableOK
  <1>3. \A h : Get(hosts, h) = Null /\ Get(peers, h) = Null
    <2>1. ASSUME NEW h PROVE ~IsLive(EmptyTable, h)
      BY HandleTableAssumption DEF EmptyTable, IsLive, Handles, Slots
    <2> QED
      BY <1>1, <2>1 DEF Get
  <1>4. SlotFree \in Slot
    BY DEF SlotFree, Slot, SlotStates
  <1>5. enet \in [HostIds -> [PeerSlots -> Slot]]
    BY <1>1, <1>4 DEF AllSlotsFree
  <1>6. TablesInv
    BY <1>2, <1>5 DEF TablesInv
  <1>7. OwnersInv
    BY <1>1, <1>3 DEF OwnersInv
  <1>8. \A i \in HostIds : \A s \in PeerSlots : enet[i][s].data = NoHandle
    BY <1>1 DEF AllSlotsFree, SlotFree
  <1>9. LinksInv
    BY <1>3, <1>8 DEF LinksInv
  <1>10. inits \in 0 .. MaxInits /\ conns \in 0 .. MaxConns /\ made \in Nat /\ drainCap \in Nat
    BY <1>1, EnetAssumption
  <1>11. poll \in Polls /\ poll.pc = "off" /\ list \in Seq(Events)
    BY <1>1, PollTypes DEF PollOff
  <1>12. serviced \in [Handles -> Nat]
    BY <1>1
  <1>13. RestInv
    BY <1>1, <1>3, <1>10, <1>11, <1>12 DEF RestInv
  <1> QED
    BY <1>6, <1>7, <1>9, <1>13 DEF CoreInv

LEMMA CoreNext == CoreInv /\ [Next]_vars => CoreInv'
  <1> SUFFICES ASSUME CoreInv, [Next]_vars
               PROVE  CoreInv'
    OBVIOUS
  <1>1. CASE AppCall
    BY <1>1, CallsCore
  <1>2. CASE \/ Tick \/ Dispatch \/ EndPass \/ UNCHANGED vars
             \/ \E h : StartPolling(h) \/ \E hs : StopPolling(hs)
    BY <1>2, ScriptCore
  <1>3. CASE PollNext
    BY <1>3, PollNextCore
  <1>4. CASE (PollGrow \/ PollReturn) /\ UNCHANGED pumpVars
    BY <1>4, PollGrowCore, PollReturnCore DEF pumpVars
  <1>5. ASSUME NEW i \in HostIds, NEW s \in PeerSlots, EnetEvent(i, s) \/ EnetEnds(i, s)
        PROVE  CoreInv'
    BY <1>5, ServiceConnectCore, ServiceReceiveCore, ServiceDisconnectCore, PeerLeavesCore
       DEF EnetEvent, EnetEnds, pumpVars
  <1>6. ASSUME NEW h, StartPolling(h) \/ StopPolling({h}) PROVE CoreInv'
    BY <1>2, <1>6
  <1> QED
    BY <1>1, <1>2, <1>3, <1>4, <1>5, <1>6 DEF Next, PumpStep

\* The inductive invariant under Backlinks: the two tables are sound, every
\* ENet host has one owner, and the two ends of every backlink agree after
\* every call and every event, a teardown of many handles included.
THEOREM CoreInvariant == Spec => []CoreInv
  BY CoreInit, CoreNext, PTL DEF Spec

\* The tables hold what they should, a stash one event at most, and enx_init's
\* count is never below zero, for any number of hosts, peers and sizes.
THEOREM PumpTypes == Spec => []TypeOK
  <1>1. CoreInv => TypeOK
    <2> SUFFICES ASSUME CoreInv
                 PROVE  TypeOK
      OBVIOUS
    <2>1. \A h \in LiveHandles(hosts) :
             /\ Get(hosts, h).id \in up
             /\ Len(Get(hosts, h).stash) <= 1
             /\ \A k \in DOMAIN Get(hosts, h).stash : Get(hosts, h).stash[k] \in Events
      <3> SUFFICES ASSUME NEW h \in LiveHandles(hosts)
                   PROVE  /\ Get(hosts, h).id \in up
                          /\ Len(Get(hosts, h).stash) <= 1
                          /\ \A k \in DOMAIN Get(hosts, h).stash : Get(hosts, h).stash[k] \in Events
        OBVIOUS
      <3>1. Get(hosts, h) # Null
        BY HostFacts DEF CoreInv
      <3>2. PICK q : q = Get(hosts, h).stash
        OBVIOUS
      <3>3. q \in Seq(Events) /\ Len(q) <= 1 /\ Get(hosts, h).id \in up
        BY <3>1, <3>2, StashTyped DEF CoreInv, OwnersInv
      <3>4. \A k \in DOMAIN q : q[k] \in Events
        BY <3>3
      <3> QED
        BY <3>2, <3>3, <3>4
    <2>2. \A p \in LiveHandles(peers) : Get(peers, p) \in PeerObjects
      BY PeerFacts DEF CoreInv
    <2>3. /\ inits \in 0 .. MaxInits
          /\ at \in {"idle", "pass", "handler"} /\ polling \in BOOLEAN
          /\ poll \in Polls
      BY DEF CoreInv, RestInv
    <2>4. poll.pc \in {"off", "pump", "grow", "full"} /\ poll.tries \in 0 .. MaxTries
      BY <2>3 DEF Polls
    <2>5. enet \in [HostIds -> [PeerSlots ->
             [st : {"disconnected", "connecting", "connected", "disconnecting", "leaving"},
              data : Handles \cup {NoHandle}]]]
      BY DEF CoreInv, TablesInv, Slot, SlotStates
    <2> QED
      BY <2>1, <2>2, <2>3, <2>4, <2>5 DEF TypeOK
  <1> QED
    BY <1>1, CoreInvariant, PTL

\* A live peer handle and the slot it names agree, no slot keeps a handle that
\* was freed, no handle outlives its host or leaks, and enx_deinitialize
\* leaves nothing: retire_peer, collect_live and the teardowns together.
THEOREM BacklinksAgree == Spec => []Backlinks
  <1>1. CoreInv => Backlinks
    <2> SUFFICES ASSUME CoreInv
                 PROVE  Backlinks
      OBVIOUS
    <2>1. ASSUME NEW p \in LiveHandles(peers)
          PROVE  /\ IsLive(hosts, Get(peers, p).host)
                 /\ Get(hosts, Get(peers, p).host).id = Get(peers, p).id
                 /\ enet[Get(peers, p).id][Get(peers, p).slot].data = p
                 /\ enet[Get(peers, p).id][Get(peers, p).slot].st # "disconnected"
      BY PeerFacts, HostFacts DEF CoreInv, LinksInv
    <2>2. ASSUME NEW i \in HostIds, NEW s \in PeerSlots, enet[i][s].data # NoHandle
          PROVE  /\ Get(peers, enet[i][s].data) # Null
                 /\ Get(peers, enet[i][s].data).id = i /\ Get(peers, enet[i][s].data).slot = s
      BY <2>2 DEF CoreInv, LinksInv
    <2>3. \A i \in up : \E h \in LiveHandles(hosts) : Get(hosts, h).id = i
      BY HostFacts DEF CoreInv, OwnersInv
    <2>4. inits = 0 => LiveHandles(hosts) = {} /\ LiveHandles(peers) = {}
      <3> SUFFICES ASSUME inits = 0
                   PROVE  LiveHandles(hosts) = {} /\ LiveHandles(peers) = {}
        OBVIOUS
      <3>1. \A h : Get(hosts, h) = Null
        BY DEF CoreInv, OwnersInv
      <3>2. \A p : Get(peers, p) = Null
        BY <3>1 DEF CoreInv, LinksInv
      <3>3. \A h : h \notin LiveHandles(hosts)
        BY <3>1, HostFacts DEF CoreInv
      <3>4. \A p : p \notin LiveHandles(peers)
        BY <3>2, PeerFacts DEF CoreInv
      <3> QED
        BY <3>3, <3>4
    <2> QED
      BY <2>1, <2>2, <2>3, <2>4 DEF Backlinks
  <1> QED
    BY <1>1, CoreInvariant, PTL

\* ------------------------------------------------------- the events in order

Stash(h) == IF Get(hosts, h) # Null THEN Get(hosts, h).stash ELSE << >>

\* What enPoll is collecting or has returned.
Line == IF poll.pc = "off" THEN list ELSE poll.out

\* The events of a host that are not heard yet.
Queue(h) == Of(Line, h) \o Stash(h)

\* An enPoll collects nothing while events are to be heard, and collects only
\* events of a live host; it grows its buffer at most once, for a stash.
PollInv ==
    /\ poll.pc # "off" => list = << >>
    /\ poll.pc = "off" => poll.out = << >>
    /\ poll.out # << >> => Get(hosts, poll.host) # Null
    /\ poll.pc = "pump" => Stash(poll.host) = << >> /\ (poll.out = << >> => poll.tries = 0)
    /\ poll.pc = "grow" =>
         /\ poll.out = << >> /\ poll.tries = 0
         /\ Stash(poll.host) # << >> /\ poll.need = Stash(poll.host)[1].size
    /\ \A k \in DOMAIN list : list[k].host = list[1].host
    /\ \A k \in DOMAIN poll.out : poll.out[k].host = poll.host
    /\ \A h : Stash(h) # << >> => Stash(h)[1].host = h

LineInv == CoreInv /\ PollInv

LEMMA StashFacts ==
    ASSUME CoreInv, NEW h
    PROVE  /\ Stash(h) \in Seq(Events)
           /\ Stash(h) # << >> => /\ Get(hosts, h) # Null /\ Stash(h) = Get(hosts, h).stash
                                  /\ Stash(h)[1] \in Events /\ Stash(h)[1].size \in Nat
                                  /\ Stash(h) = <<Stash(h)[1]>>
  <1>1. CASE Get(hosts, h) = Null
    BY <1>1 DEF Stash
  <1>2. CASE Get(hosts, h) # Null
    BY <1>2, StashTyped DEF Stash
  <1> QED
    BY <1>1, <1>2

LEMMA StashesKept ==
    ASSUME hosts' = hosts
    PROVE  \A h : Stash(h)' = Stash(h)
  BY DEF Stash, Get, IsLive

LEMMA StashesChanged ==
    ASSUME NEW g, NEW x, StashIs(g, x)
    PROVE  \A h : Stash(h)' = IF h = g THEN x ELSE Stash(h)
  BY DEF Stash, StashIs

LEMMA PollStays ==
    ASSUME LineInv, UNCHANGED <<hosts, poll, list>>
    PROVE  PollInv' /\ \A h : Queue(h)' = Queue(h)
  <1>1. \A h : Stash(h)' = Stash(h)
    BY StashesKept
  <1>2. Line' = Line
    BY DEF Line
  <1>3. \A h : Queue(h)' = Queue(h)
    BY <1>1, <1>2 DEF Queue
  <1>4. PollInv'
    <2>1. \A h : Get(hosts', h) = Get(hosts, h)
      OBVIOUS
    <2> QED
      BY <1>1, <2>1 DEF LineInv, PollInv
  <1> QED
    BY <1>3, <1>4

\* ---------------------------------------------------------- entering enx_poll

LEMMA OfNone == \A h : Of(<< >>, h) = << >>
  BY DEF Of

LEMMA JoinNone ==
    ASSUME NEW R, NEW s \in Seq(R)
    PROVE  << >> \o s = s /\ s \o << >> = s
  OBVIOUS

LEMMA EnterPoll ==
    ASSUME LineInv, NEW h, NEW cap, NEW n \in 0 .. MaxTries, EnterWith(h, cap, n), list = << >>,
           poll.out = << >>, list' = list,
           n = 0 \/ (Stash(h) # << >> /\ Stash(h)[1].size <= cap)
    PROVE  PollInv' /\ \A g : Queue(g)' = Queue(g)
  <1>0. CoreInv /\ PollInv
    BY DEF LineInv
  <1>1. EnterFacts(h, cap, n)
    BY <1>0, EnterCases
  <1>2. \A g : Queue(g) = Stash(g)
    <2>1. Line = << >>
      BY DEF Line
    <2> QED
      BY <1>0, <2>1, OfNone, StashFacts, JoinNone DEF Queue
  <1>3. CASE Get(hosts, h) = Null
    <2>1. hosts' = hosts /\ poll'.pc = "full" /\ poll'.out = << >>
      BY <1>1, <1>3 DEF EnterFacts
    <2>2. \A g : Stash(g)' = Stash(g)
      BY <2>1, StashesKept
    <2>3. Line' = << >>
      BY <2>1 DEF Line
    <2>4. \A g : Queue(g)' = Queue(g)
      BY <1>0, <1>2, <2>2, <2>3, OfNone, StashFacts, JoinNone DEF Queue
    <2>5. PollInv'
      BY <1>0, <2>1, <2>2 DEF PollInv
    <2> QED
      BY <2>4, <2>5
  <1>4. CASE Get(hosts, h) # Null /\ Get(hosts, h).stash = << >>
    <2>1. hosts' = hosts /\ poll'.pc = "pump" /\ poll'.out = << >> /\ poll'.host = h /\ poll'.tries = n
      BY <1>1, <1>4 DEF EnterFacts
    <2>2. \A g : Stash(g)' = Stash(g)
      BY <2>1, StashesKept
    <2>3. Line' = << >>
      BY <2>1 DEF Line
    <2>4. \A g : Queue(g)' = Queue(g)
      BY <1>0, <1>2, <2>2, <2>3, OfNone, StashFacts, JoinNone DEF Queue
    <2>5. Stash(h) = << >> /\ n = 0
      BY <1>4 DEF Stash
    <2>6. PollInv'
      BY <1>0, <2>1, <2>2, <2>5 DEF PollInv
    <2> QED
      BY <2>4, <2>6
  <1>5. CASE /\ Get(hosts, h) # Null /\ Get(hosts, h).stash # << >>
             /\ hosts' = Put(hosts, h, [Get(hosts, h) EXCEPT !.stash = << >>])
             /\ poll' = [pc |-> "pump", host |-> h, used |-> Get(hosts, h).stash[1].size, need |-> 0,
                         tries |-> n, out |-> Get(hosts, h).stash]
    <2>1. PICK q : q = Get(hosts, h).stash
      OBVIOUS
    <2>2. Stash(h) = q /\ q # << >> /\ q \in Seq(Events) /\ q = <<q[1]>> /\ q[1].host = h
      BY <1>0, <1>5, <2>1, StashFacts DEF Stash, PollInv
    <2>3. poll'.pc = "pump" /\ poll'.host = h /\ poll'.out = q
      BY <1>5, <2>1
    <2>4. << >> \in Seq(Events) /\ Len(<< >>) <= 1
      OBVIOUS
    <2>5. StashIs(h, << >>)
      BY <1>0, <1>5, <2>4, HostsOKPut
    <2>6. \A g : Stash(g)' = IF g = h THEN << >> ELSE Stash(g)
      BY <2>5, StashesChanged
    <2>7. Line' = q
      BY <2>3 DEF Line
    <2>8. \A g : Of(q, g) = IF g = h THEN q ELSE << >>
      BY <2>2 DEF Of
    <2>9. ASSUME NEW g PROVE Queue(g)' = Queue(g)
      <3>1. CASE g = h
        BY <1>2, <2>2, <2>6, <2>7, <2>8, <3>1, JoinNone DEF Queue
      <3>2. CASE g # h
        BY <1>0, <1>2, <2>6, <2>7, <2>8, <3>2, StashFacts, JoinNone DEF Queue
      <3> QED
        BY <3>1, <3>2
    <2>10. \A k \in DOMAIN q : q[k].host = h
      BY <2>2
    <2>11. Get(hosts', h) # Null
      BY <2>5 DEF StashIs
    <2>12. PollInv'
      BY <1>0, <2>2, <2>3, <2>6, <2>10, <2>11 DEF PollInv
    <2> QED
      BY <2>9, <2>12
  <1>6. CASE /\ Get(hosts, h) # Null /\ Get(hosts, h).stash # << >> /\ ~(Get(hosts, h).stash[1].size <= cap)
             /\ hosts' = hosts
             /\ poll' = [pc |-> "grow", host |-> h, used |-> 0, need |-> Get(hosts, h).stash[1].size,
                         tries |-> n, out |-> << >>]
    <2>1. Stash(h) = Get(hosts, h).stash
      BY <1>6 DEF Stash
    <2>2. /\ poll'.pc = "grow" /\ poll'.out = << >> /\ poll'.host = h /\ poll'.tries = n
          /\ poll'.need = Stash(h)[1].size /\ Stash(h) # << >>
      BY <1>6, <2>1
    <2>3. n = 0
      BY <1>6, <2>1
    <2>4. \A g : Stash(g)' = Stash(g)
      BY <1>6, StashesKept
    <2>5. Line' = << >>
      BY <2>2 DEF Line
    <2>6. \A g : Queue(g)' = Queue(g)
      BY <1>0, <1>2, <2>4, <2>5, OfNone, StashFacts, JoinNone DEF Queue
    <2>7. PollInv'
      BY <1>0, <2>2, <2>3, <2>4 DEF PollInv
    <2> QED
      BY <2>6, <2>7
  <1> QED
    BY <1>1, <1>3, <1>4, <1>5, <1>6 DEF EnterFacts

\* The events ahead are what they were.
QueuesSame == \A h : Queue(h)' = Queue(h)

LEMMA PollNextLine ==
    ASSUME LineInv, PollNext
    PROVE  PollInv' /\ QueuesSame
  <1>1. PICK h : h = Head(pass)
    OBVIOUS
  <1>2. PICK cap : cap = drainCap
    OBVIOUS
  <1>3. EnterWith(h, cap, 0) /\ list = << >> /\ list' = list /\ poll.pc = "off"
    BY <1>1, <1>2 DEF PollNext, PollBegin, Polling
  <1>4. poll.out = << >> /\ 0 \in 0 .. MaxTries
    BY <1>3, EnetAssumption DEF LineInv, PollInv
  <1> QED
    BY <1>3, <1>4, EnterPoll DEF QueuesSame

LEMMA PollGrowLine ==
    ASSUME LineInv, PollGrow
    PROVE  PollInv' /\ QueuesSame
  <1>0. CoreInv /\ PollInv
    BY DEF LineInv
  <1>1. PICK h : h = poll.host
    OBVIOUS
  <1>2. PICK n : n = poll.tries + 1
    OBVIOUS
  <1>3. PICK cap : cap = drainCap'
    OBVIOUS
  <1>4. /\ EnterWith(h, cap, n) /\ poll.tries < MaxTries /\ poll.pc = "grow" /\ list' = list
        /\ cap = IF drainCap < poll.need THEN poll.need ELSE drainCap
    BY <1>1, <1>2, <1>3 DEF PollGrow
  <1>5. n \in 0 .. MaxTries
    BY <1>2, <1>4, EnetAssumption DEF LineInv, CoreInv, RestInv, Polls
  <1>6. list = << >> /\ poll.out = << >> /\ Stash(h) # << >> /\ poll.need = Stash(h)[1].size
    BY <1>0, <1>1, <1>4 DEF PollInv
  <1>7. poll.need \in Nat /\ drainCap \in Nat
    BY <1>0 DEF CoreInv, RestInv, Polls
  <1>8. Stash(h)[1].size <= cap
    BY <1>4, <1>6, <1>7
  <1> QED
    BY <1>4, <1>5, <1>6, <1>8, EnterPoll DEF QueuesSame

LEMMA PollReturnLine ==
    ASSUME LineInv, PollReturn
    PROVE  PollInv' /\ QueuesSame
  <1>0. CoreInv /\ PollInv
    BY DEF LineInv
  <1>1. list' = poll.out /\ poll'.pc = "off" /\ poll'.out = << >> /\ hosts' = hosts /\ poll.pc # "off"
    BY DEF PollReturn, Polling, PollOff, tables
  <1>2. \A h : Stash(h)' = Stash(h)
    BY <1>1, StashesKept
  <1>3. Line' = Line
    BY <1>1 DEF Line
  <1>4. QueuesSame
    BY <1>2, <1>3 DEF QueuesSame, Queue
  <1>5. \A k \in DOMAIN list' : list'[k].host = list'[1].host
    <2>1. PICK q : q = poll.out
      OBVIOUS
    <2>2. q \in Seq(Events) /\ \A k \in DOMAIN q : q[k].host = poll.host
      BY <1>0, <2>1 DEF PollInv, CoreInv, RestInv, Polls
    <2>3. \A k \in DOMAIN q : 1 \in DOMAIN q
      BY <2>2
    <2>4. \A k \in DOMAIN q : q[k].host = q[1].host
      BY <2>2, <2>3
    <2> QED
      BY <1>1, <2>1, <2>4
  <1>6. PollInv'
    BY <1>0, <1>1, <1>2, <1>5 DEF PollInv
  <1> QED
    BY <1>4, <1>6

\* ------------------------------------------------------- an event is given up

\* The queue of one host gets one more event.
QueueGets(g, e) ==
    \A h : Queue(h)' = IF h = g THEN Append(Queue(g), e) ELSE Queue(h)

LEMMA JoinAppend ==
    ASSUME NEW R, NEW a \in Seq(R), NEW e \in R
    PROVE  a \o <<e>> = Append(a, e) /\ << >> \o <<e>> = <<e>> /\ Append(a, e) # << >>
           /\ Append(a, e) \in Seq(R)
  OBVIOUS

LEMMA WriteLine ==
    ASSUME LineInv, NEW g, g = poll.host, NEW e, e.host = g, GivesUp(e)
    PROVE  PollInv' /\ QueueGets(g, e)
  <1>0. CoreInv /\ PollInv /\ poll.pc = "pump" /\ e \in Events /\ poll \in Polls /\ list = << >>
    BY DEF LineInv, GivesUp, CoreInv, RestInv, PollInv
  <1>1. WriteFacts(e) /\ poll'.host = g /\ list' = list
    BY <1>0, WriteStep DEF GivesUp, Serviced
  <1>2. Get(hosts, g) # Null /\ Stash(g) = << >>
    BY <1>0 DEF PollInv, CoreInv, RestInv
  <1>3. PICK q : q = poll.out
    OBVIOUS
  <1>4. q \in Seq(Events) /\ \A k \in DOMAIN q : q[k].host = g
    BY <1>0, <1>3 DEF PollInv, Polls
  <1>5. \A h : Of(q, h) = IF h = g THEN q ELSE << >>
    <2>1. q # << >> => q[1].host = g
      <3>1. q # << >> => 1 \in DOMAIN q
        BY <1>4
      <3> QED
        BY <1>4, <3>1
    <2> QED
      BY <2>1 DEF Of
  <1>6. \A h : Queue(h) = IF h = g THEN q ELSE Stash(h)
    BY <1>0, <1>2, <1>3, <1>4, <1>5, StashFacts, JoinNone DEF Queue, Line
  <1>7. CASE /\ poll' = [poll EXCEPT !.out = Append(@, e), !.used = @ + e.size]
             /\ hosts' = hosts
    <2>1. PICK r : r = Append(q, e)
      OBVIOUS
    <2>2. poll'.out = r /\ poll'.pc = "pump" /\ poll'.tries = poll.tries
      BY <1>0, <1>3, <1>7, <2>1 DEF Polls
    <2>3. r # << >> /\ r \in Seq(Events)
      BY <1>0, <1>4, <2>1
    <2>4. \A k \in DOMAIN r : r[k].host = g
      <3>1. \A k \in DOMAIN r : (k \in DOMAIN q /\ r[k] = q[k]) \/ r[k] = e
        BY <1>0, <1>4, <2>1
      <3> QED
        BY <1>4, <3>1
    <2>5. \A h : Of(r, h) = IF h = g THEN r ELSE << >>
      <3>1. 1 \in DOMAIN r
        BY <2>3
      <3> QED
        BY <2>3, <2>4, <3>1 DEF Of
    <2>6. \A h : Stash(h)' = Stash(h)
      BY <1>7, StashesKept
    <2>7. \A h : Queue(h)' = IF h = g THEN r ELSE Stash(h)
      BY <1>0, <1>2, <2>2, <2>3, <2>5, <2>6, StashFacts, JoinNone DEF Queue, Line
    <2>8. QueueGets(g, e)
      BY <1>6, <2>1, <2>7 DEF QueueGets
    <2>9. PollInv'
      BY <1>0, <1>1, <1>2, <1>7, <2>2, <2>3, <2>4, <2>6 DEF PollInv
    <2> QED
      BY <2>8, <2>9
  <1>8. CASE /\ poll' = [poll EXCEPT !.pc = Stops(poll.out), !.need = e.size]
             /\ hosts' = Put(hosts, poll.host, [Get(hosts, poll.host) EXCEPT !.stash = <<e>>])
    <2>1. /\ poll'.out = q /\ poll'.pc = Stops(q) /\ poll'.tries = poll.tries /\ poll'.need = e.size
      BY <1>0, <1>3, <1>8 DEF Polls
    <2>2. Stops(q) # "off" /\ Stops(q) # "pump" /\ (Stops(q) = "grow" => q = << >>)
      BY DEF Stops
    <2>3. PICK x : x = <<e>>
      OBVIOUS
    <2>4. x \in Seq(Events) /\ Len(x) <= 1 /\ x # << >> /\ x[1] = e
      BY <1>0, <2>3
    <2>5. hosts' = Put(hosts, g, [Get(hosts, g) EXCEPT !.stash = x])
      BY <1>8, <2>3
    <2>6. StashIs(g, x)
      BY <1>0, <1>2, <2>4, <2>5, HostsOKPut
    <2>7. \A h : Stash(h)' = IF h = g THEN x ELSE Stash(h)
      BY <2>6, StashesChanged
    <2>8. Line' = q
      BY <2>1, <2>2 DEF Line
    <2>9. ASSUME NEW h PROVE Queue(h)' = IF h = g THEN Append(q, e) ELSE Queue(h)
      <3>1. CASE h = g
        BY <1>0, <1>4, <1>5, <2>3, <2>7, <2>8, <3>1, JoinAppend DEF Queue
      <3>2. CASE h # g
        BY <1>0, <1>5, <1>6, <2>7, <2>8, <3>2, StashFacts, JoinNone DEF Queue
      <3> QED
        BY <3>1, <3>2
    <2>10. QueueGets(g, e)
      BY <1>6, <2>9 DEF QueueGets
    <2>11. Get(hosts', g) # Null
      BY <2>6 DEF StashIs
    <2>12. q = << >> => poll.tries = 0
      BY <1>0, <1>3 DEF PollInv
    <2>13. PollInv'
      BY <1>0, <1>1, <1>3, <1>4, <2>1, <2>2, <2>4, <2>7, <2>11, <2>12 DEF PollInv
    <2> QED
      BY <2>10, <2>13
  <1> QED
    BY <1>1, <1>7, <1>8 DEF WriteFacts

\* ------------------------------------------------------------------ dispatch

\* The first event of one host's queue is taken.
QueueGives(g, e) ==
    /\ Queue(g) # << >> /\ Head(Queue(g)) = e /\ Queue(g)' = Tail(Queue(g))
    /\ \A h : h # g => Queue(h)' = Queue(h)

LEMMA JoinTail ==
    ASSUME NEW R, NEW a \in Seq(R), NEW b \in Seq(R), a # << >>
    PROVE  a \o b # << >> /\ Head(a \o b) = Head(a) /\ Tail(a \o b) = Tail(a) \o b /\ Head(a) = a[1]
           /\ Head(a) \in R /\ Tail(a) \in Seq(R)
  <1>1. a \o b # << >> /\ Head(a \o b) = Head(a) /\ Head(a) = a[1] /\ Head(a) \in R /\ Tail(a) \in Seq(R)
    OBVIOUS
  <1>2. Tail(a \o b) = Tail(a) \o b
    <2>1. Len(a) \in Nat /\ Len(a) # 0 /\ Len(b) \in Nat
      OBVIOUS
    <2>2. /\ Len(Tail(a)) = Len(a) - 1 /\ Len(a \o b) = Len(a) + Len(b)
          /\ Len(Tail(a) \o b) = (Len(a) - 1) + Len(b)
          /\ Len(Tail(a \o b)) = (Len(a) + Len(b)) - 1
      BY <1>1
    <2>3. ASSUME NEW k \in 1 .. (Len(a) + Len(b)) - 1
          PROVE  Tail(a \o b)[k] = (Tail(a) \o b)[k]
      <3>1. CASE k <= Len(a) - 1
        BY <1>1, <2>1, <2>2, <3>1
      <3>2. CASE k > Len(a) - 1
        BY <1>1, <2>1, <2>2, <3>2
      <3> QED
        BY <2>1, <3>1, <3>2
    <2> QED
      BY <1>1, <2>1, <2>2, <2>3
  <1> QED
    BY <1>1, <1>2

LEMMA DispatchLine ==
    ASSUME LineInv, Dispatch, NEW e, e = Head(list), NEW g, g = e.host
    PROVE  PollInv' /\ QueueGives(g, e) /\ e \in Events
  <1>0. CoreInv /\ PollInv
    BY DEF LineInv
  <1>1. poll.pc = "off" /\ list # << >> /\ list' = Tail(list) /\ UNCHANGED <<poll, hosts>>
    BY DEF Dispatch, PassRuns, Polling, tables
  <1>2. PICK q : q = list
    OBVIOUS
  <1>3. PICK r : r = Tail(q)
    OBVIOUS
  <1>4. q \in Seq(Events) /\ q # << >> /\ r \in Seq(Events) /\ q[1] = e /\ e \in Events /\ list' = r
        /\ \A k \in DOMAIN r : k + 1 \in DOMAIN q /\ r[k] = q[k + 1]
    <2>1. q \in Seq(Events) /\ q # << >>
      BY <1>0, <1>1, <1>2 DEF CoreInv, RestInv
    <2> QED
      BY <1>1, <1>2, <1>3, <2>1
  <1>5. \A k \in DOMAIN q : q[k].host = g
    BY <1>0, <1>2, <1>4 DEF PollInv
  <1>6. \A k \in DOMAIN r : r[k].host = g
    BY <1>4, <1>5
  <1>7. \A h : Of(q, h) = IF h = g THEN q ELSE << >>
    BY <1>4 DEF Of
  <1>8. \A h : Of(r, h) = IF h = g THEN r ELSE << >>
    <2>1. r # << >> => 1 \in DOMAIN r
      BY <1>4
    <2> QED
      BY <1>6, <2>1 DEF Of
  <1>9. \A h : Stash(h)' = Stash(h)
    BY <1>1, StashesKept
  <1>10. \A h : Queue(h) = (IF h = g THEN q ELSE << >>) \o Stash(h)
    BY <1>1, <1>2, <1>7 DEF Queue, Line
  <1>11. \A h : Queue(h)' = (IF h = g THEN r ELSE << >>) \o Stash(h)
    BY <1>1, <1>4, <1>8, <1>9 DEF Queue, Line
  <1>12. Stash(g) \in Seq(Events)
    BY <1>0, StashFacts
  <1>13. QueueGives(g, e)
    <2>1. PICK b : b = Stash(g)
      OBVIOUS
    <2>2. Queue(g) = q \o b /\ Queue(g)' = Tail(q) \o b /\ b \in Seq(Events)
      BY <1>3, <1>10, <1>11, <1>12, <2>1
    <2>3. q \o b # << >> /\ Head(q \o b) = q[1] /\ Tail(q \o b) = Tail(q) \o b
      BY <1>4, <2>2, JoinTail
    <2>4. Queue(g) # << >> /\ Head(Queue(g)) = e /\ Queue(g)' = Tail(Queue(g))
      BY <1>4, <2>2, <2>3
    <2>5. \A h : h # g => Queue(h)' = Queue(h)
      BY <1>10, <1>11
    <2> QED
      BY <2>4, <2>5 DEF QueueGives
  <1>14. PollInv'
    <2>1. \A k \in DOMAIN list' : list'[k].host = list'[1].host
      <3>1. \A k \in DOMAIN r : 1 \in DOMAIN r
        BY <1>4
      <3> QED
        BY <1>4, <1>6, <3>1
    <2>2. \A h : Get(hosts', h) = Get(hosts, h)
      BY <1>1
    <2> QED
      BY <1>0, <1>1, <1>9, <2>1, <2>2 DEF PollInv
  <1> QED
    BY <1>4, <1>13, <1>14

\* ------------------------------------------------------ hosts born and gone

\* The queue of a destroyed host loses what was stashed.
QueuesCut(hs) ==
    \A h : /\ h \notin hs => Queue(h)' = Queue(h)
           /\ h \in hs => /\ Queue(h)' \in Seq(Events) /\ DOMAIN Queue(h)' \subseteq DOMAIN Queue(h)
                          /\ \A k \in DOMAIN Queue(h)' : Queue(h)'[k] = Queue(h)[k]

LEMMA OfTyped ==
    ASSUME NEW R, NEW q \in Seq(R), NEW h
    PROVE  Of(q, h) \in Seq(R)
  BY DEF Of

LEMMA JoinPrefix ==
    ASSUME NEW R, NEW a \in Seq(R), NEW b \in Seq(R)
    PROVE  DOMAIN a \subseteq DOMAIN (a \o b) /\ \A k \in DOMAIN a : (a \o b)[k] = a[k]
  OBVIOUS

LEMMA TeardownLine ==
    ASSUME LineInv, poll.pc = "off", NEW hs, hs \subseteq LiveHandles(hosts), Teardown(hs),
           UNCHANGED <<poll, list>>
    PROVE  PollInv' /\ QueuesCut(hs)
  <1>0. CoreInv /\ PollInv
    BY DEF LineInv
  <1>1. \A h : Get(hosts', h) = IF h \in hs THEN Null ELSE Get(hosts, h)
    BY <1>0, TeardownTables DEF HostsFreed
  <1>2. \A h : Stash(h)' = IF h \in hs THEN << >> ELSE Stash(h)
    BY <1>1 DEF Stash
  <1>3. Line = list /\ Line' = list /\ list \in Seq(Events)
    BY <1>0 DEF Line, CoreInv, RestInv
  <1>4. ASSUME NEW h \in hs
        PROVE  /\ Queue(h)' \in Seq(Events) /\ DOMAIN Queue(h)' \subseteq DOMAIN Queue(h)
               /\ \A k \in DOMAIN Queue(h)' : Queue(h)'[k] = Queue(h)[k]
    <2>1. PICK a : a = Of(list, h)
      OBVIOUS
    <2>2. PICK b : b = Stash(h)
      OBVIOUS
    <2>3. a \in Seq(Events) /\ b \in Seq(Events)
      BY <1>0, <1>3, <2>1, <2>2, OfTyped, StashFacts
    <2>4. Queue(h) = a \o b /\ Queue(h)' = a
      BY <1>2, <1>3, <2>1, <2>2, <2>3, JoinNone DEF Queue
    <2> QED
      BY <2>3, <2>4, JoinPrefix
  <1>5. ASSUME NEW h, h \notin hs
        PROVE  Queue(h)' = Queue(h)
    BY <1>2, <1>3, <1>5 DEF Queue
  <1>6. QueuesCut(hs)
    BY <1>4, <1>5 DEF QueuesCut
  <1>7. PollInv'
    BY <1>0, <1>2 DEF PollInv
  <1> QED
    BY <1>6, <1>7

LEMMA HostCreateLine ==
    ASSUME LineInv, poll.pc = "off", HostCreate
    PROVE  PollInv' /\ QueuesSame
  <1>0. CoreInv /\ PollInv
    BY DEF LineInv
  <1>1. PICK o : o = [id |-> made + 1, stash |-> << >>]
    OBVIOUS
  <1>2. PICK g : g = AllocHandle(hosts)
    OBVIOUS
  <1>3. /\ UNCHANGED <<poll, list>> /\ made + 1 \in HostIds /\ CanAlloc(hosts) /\ hosts' = Alloc(hosts, o)
    BY <1>1 DEF HostCreate
  <1>4. o \in HostObjects /\ o.stash = << >> /\ o # Null
    <2>1. o \in HostObjects
      BY <1>1, <1>3 DEF HostObjects
    <2> QED
      BY <1>1, <2>1, EnetAssumption
  <1>5. HostsPut(g, o) /\ Get(hosts, g) = Null
    BY <1>0, <1>2, <1>3, <1>4, HostAlloc DEF CoreInv
  <1>6. \A h : Stash(h)' = Stash(h)
    BY <1>4, <1>5 DEF Stash, HostsPut
  <1>7. Line' = Line
    BY <1>3 DEF Line
  <1>8. QueuesSame
    BY <1>6, <1>7 DEF QueuesSame, Queue
  <1>9. PollInv'
    BY <1>0, <1>3, <1>6 DEF PollInv
  <1> QED
    BY <1>8, <1>9

\* --------------------------------------------------- generations of a table

\* What freeing these handles does to objects and generations.
FreedAllAt(t, u, hs) ==
    /\ \A h : h \in hs => h \in Handles /\ t.obj[h.idx] # Null /\ t.gen[h.idx] = h.gen
    /\ \A i \in Slots :
         \/ u.obj[i] = Null /\ u.gen[i] = BumpGen(t.gen[i]) /\ t.obj[i] # Null
            /\ \E h \in hs : h.idx = i
         \/ u.obj[i] = t.obj[i] /\ u.gen[i] = t.gen[i] /\ \A h \in hs : h.idx # i

LEMMA FreeAllGens ==
    ASSUME NEW Objects, Null \notin Objects, NEW t, TableOK(t, Objects), FreeListOK(t), NEW hs, hs \subseteq LiveHandles(t)
    PROVE  FreedAllAt(t, FreeAll(t, hs), hs)
  <1>1. \A h : h \in hs => h \in Handles /\ h.idx \in Slots /\ t.obj[h.idx] # Null /\ t.gen[h.idx] = h.gen
    <2> SUFFICES ASSUME NEW h \in hs
                 PROVE  h \in Handles /\ h.idx \in Slots /\ t.obj[h.idx] # Null /\ t.gen[h.idx] = h.gen
      OBVIOUS
    <2>1. IsLive(t, h)
      BY GetFacts
    <2> QED
      BY <2>1 DEF IsLive, Handles
  <1>2. PICK u : u = FreeAll(t, hs)
    OBVIOUS
  <1>3. PICK S : S = IdxOf(hs)
    OBVIOUS
  <1>4. /\ u.gen = [i \in Slots |-> IF i \in S THEN BumpGen(t.gen[i]) ELSE t.gen[i]]
        /\ u.obj = [i \in Slots |-> IF i \in S THEN Null ELSE t.obj[i]]
    BY <1>2, <1>3 DEF FreeAll, IdxOf
  <1>5. \A i : i \in S <=> \E h \in hs : h.idx = i
    BY <1>3 DEF IdxOf
  <1>6. \A i \in Slots :
         \/ u.obj[i] = Null /\ u.gen[i] = BumpGen(t.gen[i]) /\ t.obj[i] # Null
            /\ \E h \in hs : h.idx = i
         \/ u.obj[i] = t.obj[i] /\ u.gen[i] = t.gen[i] /\ \A h \in hs : h.idx # i
    <2> SUFFICES ASSUME NEW i \in Slots
                 PROVE \/ u.obj[i] = Null /\ u.gen[i] = BumpGen(t.gen[i]) /\ t.obj[i] # Null
                          /\ \E h \in hs : h.idx = i
                       \/ u.obj[i] = t.obj[i] /\ u.gen[i] = t.gen[i] /\ \A h \in hs : h.idx # i
      OBVIOUS
    <2>1. CASE i \in S
      BY <1>1, <1>4, <1>5, <2>1
    <2>2. CASE i \notin S
      BY <1>4, <1>5, <2>2
    <2> QED
      BY <2>1, <2>2
  <1> QED
    BY <1>1, <1>2, <1>6 DEF FreedAllAt

\* A change of a table that takes back no handle, bounds its generations by n
\* and gives out, if any, a handle never given out before.
Ages(t, u, n) ==
    /\ \A h : Issued(t, h) => Issued(u, h)
    /\ GenBound(u, n)
    /\ \A h : Get(t, h) = Null /\ Get(u, h) # Null => ~Issued(t, h)

LEMMA AgesFreeAll ==
    ASSUME NEW Objects, Null \notin Objects, NEW t, TableOK(t, Objects), FreeListOK(t),
           NEW n \in Nat, n < GEN_MAX, GenBound(t, n), NEW hs, hs \subseteq LiveHandles(t)
    PROVE  Ages(t, FreeAll(t, hs), n)
  <1> PICK u : u = FreeAll(t, hs)
    OBVIOUS
  <1>1. FreedAllAt(t, u, hs) /\ \A h : Get(u, h) = IF h \in hs THEN Null ELSE Get(t, h)
    BY FreeAllGens, FreeAllFacts
  <1>2. ASSUME NEW i \in Slots
        PROVE  /\ t.gen[i] \in Nat /\ t.gen[i] <= u.gen[i]
               /\ u.gen[i] <= IF u.obj[i] # Null THEN n ELSE n + 1
               /\ u.gen[i] \in Nat
    <2>1. t.gen[i] \in Nat /\ t.gen[i] <= IF t.obj[i] # Null THEN n ELSE n + 1
      BY GenTypes DEF GenBound
    <2>2. CASE u.obj[i] = Null /\ u.gen[i] = BumpGen(t.gen[i]) /\ t.obj[i] # Null
      <3>1. t.gen[i] <= n
        BY <2>1, <2>2
      <3>2. u.gen[i] = t.gen[i] + 1
        BY <2>1, <2>2, <3>1, HandleTableAssumption DEF BumpGen
      <3> QED
        BY <2>1, <2>2, <3>1, <3>2
    <2>3. CASE u.obj[i] = t.obj[i] /\ u.gen[i] = t.gen[i]
      BY <2>1, <2>3
    <2> QED
      BY <1>1, <2>2, <2>3 DEF FreedAllAt
  <1>3. \A h : Dead(t, h) => Dead(u, h)
    <2> SUFFICES ASSUME NEW h, Dead(t, h)
                 PROVE  Dead(u, h)
      OBVIOUS
    <2>1. h \in Handles /\ h.idx \in Slots /\ h.gen \in Nat /\ h.gen < t.gen[h.idx]
      BY HandleTableAssumption DEF Dead, Handles
    <2>2. t.gen[h.idx] <= u.gen[h.idx] /\ t.gen[h.idx] \in Nat /\ u.gen[h.idx] \in Nat
      BY <1>2, <2>1
    <2>3. h.gen < u.gen[h.idx]
      BY <2>1, <2>2
    <2> QED
      BY <2>1, <2>3 DEF Dead
  <1>4. \A h : h \in hs => Dead(u, h)
    <2> SUFFICES ASSUME NEW h, h \in hs
                 PROVE  Dead(u, h)
      OBVIOUS
    <2>1. h \in Handles /\ h.idx \in Slots /\ t.obj[h.idx] # Null /\ t.gen[h.idx] = h.gen
      BY <1>1 DEF FreedAllAt, Handles
    <2>2. h.gen \in Nat /\ h.gen <= n
      BY <2>1, GenTypes DEF GenBound
    <2>3. u.gen[h.idx] = BumpGen(h.gen)
      BY <1>1, <2>1 DEF FreedAllAt
    <2>4. u.gen[h.idx] = h.gen + 1
      BY <2>2, <2>3, HandleTableAssumption DEF BumpGen
    <2>5. h.gen < u.gen[h.idx]
      BY <2>2, <2>4
    <2> QED
      BY <2>1, <2>5 DEF Dead
  <1>5. \A h : Issued(t, h) => Issued(u, h)
    BY <1>1, <1>3, <1>4 DEF Issued
  <1>6. GenBound(u, n)
    BY <1>2 DEF GenBound
  <1> QED
    BY <1>1, <1>5, <1>6 DEF Ages

LEMMA AgesStays ==
    ASSUME NEW t, NEW n, GenBound(t, n)
    PROVE  Ages(t, t, n)
  BY DEF Ages

LEMMA AgesFree ==
    ASSUME NEW Objects, Null \notin Objects, NEW t, TableOK(t, Objects), FreeListOK(t),
           NEW n \in Nat, n < GEN_MAX, GenBound(t, n), NEW g
    PROVE  Ages(t, Free(t, g), n)
  <1> PICK u : u = Free(t, g)
    OBVIOUS
  <1>1. Shrinks(t, u, Objects) /\ Evolves(t, u, Objects)
    BY DEF Shrinks, Evolves
  <1>2. Unwrapped(t)
    BY BoundUnwrapped
  <1>3. \A h : Issued(t, h) => Issued(u, h)
    BY <1>1, <1>2, IssuedStays
  <1>4. GenBound(u, n)
    BY <1>1, BoundShrinks
  <1>5. \A h : Get(t, h) = Null => Get(u, h) = Null
    BY GetFree
  <1> QED
    BY <1>3, <1>4, <1>5 DEF Ages

LEMMA AgesPut ==
    ASSUME NEW Objects, Null \notin Objects, NEW t, TableOK(t, Objects), FreeListOK(t),
           NEW n \in Nat, n < GEN_MAX, GenBound(t, n), NEW g, Get(t, g) # Null, NEW o \in Objects
    PROVE  Ages(t, Put(t, g, o), n)
  <1> PICK u : u = Put(t, g, o)
    OBVIOUS
  <1>0. IsLive(t, g)
    BY GetFacts
  <1>1. Shrinks(t, u, Objects) /\ Evolves(t, u, Objects)
    BY <1>0 DEF Shrinks, Evolves
  <1>2. Unwrapped(t)
    BY BoundUnwrapped
  <1>3. \A h : Issued(t, h) => Issued(u, h)
    BY <1>1, <1>2, IssuedStays
  <1>4. GenBound(u, n)
    BY <1>1, BoundShrinks
  <1>5. \A h : Get(u, h) = IF h = g THEN o ELSE Get(t, h)
    BY <1>0, GetPut
  <1> QED
    BY <1>3, <1>4, <1>5 DEF Ages

LEMMA AgesAlloc ==
    ASSUME NEW Objects, Null \notin Objects, NEW t, TableOK(t, Objects), FreeListOK(t),
           NEW n \in Nat, n < GEN_MAX, GenBound(t, n), CanAlloc(t), NEW o \in Objects
    PROVE  Ages(t, Alloc(t, o), n + 1) /\ ~Issued(t, AllocHandle(t))
  <1> PICK u : u = Alloc(t, o)
    OBVIOUS
  <1>1. Evolves(t, u, Objects)
    BY DEF Evolves
  <1>2. Unwrapped(t)
    BY BoundUnwrapped
  <1>3. \A h : Issued(t, h) => Issued(u, h)
    BY <1>1, <1>2, IssuedStays
  <1>4. GenBound(u, n + 1)
    BY BoundAlloc
  <1>5. PICK g : g = AllocHandle(t)
    OBVIOUS
  <1>6. Get(t, g) = Null /\ \A h : Get(u, h) = IF h = g THEN o ELSE Get(t, h)
    BY <1>5, GetAlloc
  <1>7. ~Dead(t, g)
    <2>1. AllocIdx(t) \in Slots /\ t.gen[AllocIdx(t)] \in Nat
      BY AllocSlot, GenTypes
    <2>2. g.idx = AllocIdx(t) /\ g.gen >= t.gen[AllocIdx(t)] /\ g.gen \in Nat
      BY <1>5, <2>1 DEF AllocHandle, AllocGen
    <2> QED
      BY <2>1, <2>2 DEF Dead
  <1>8. ~Issued(t, g)
    BY <1>6, <1>7 DEF Issued
  <1> QED
    BY <1>3, <1>4, <1>5, <1>6, <1>8 DEF Ages

\* ------------------------------------------------------- the kinds of steps

\* Nothing is told and no connection changes.
QuietStep ==
    QueuesSame /\ UNCHANGED <<peers, enet, conns, heard, serviced, story, gone>>

\* enConnect.
BeginStep ==
    QueuesSame /\ UNCHANGED <<heard, serviced, gone>> /\ \E h : Connect(h)

\* enDisconnect, enDisconnectNow, enResetPeer.
PartStep ==
    /\ QueuesSame /\ UNCHANGED <<conns, heard, serviced, story>>
    /\ \E p : Get(peers, p) # Null /\ (LetGo(p) \/ MovedOn(p))

\* Hosts are destroyed.
TearStep ==
    \E hs : /\ hs \subseteq LiveHandles(hosts) /\ Teardown(hs) /\ QueuesCut(hs)
            /\ poll.pc = "off" /\ UNCHANGED <<poll, list, conns, heard, serviced, story>>

\* ENet gives up an event.
GiveStep ==
    \E i \in HostIds : \E s \in PeerSlots : \E e :
        /\ ConnectsAs(i, s, e) \/ ReceivesAs(i, s, e) \/ EndsAs(i, s, e)
        /\ Get(hosts, poll.host) # Null /\ Get(hosts, poll.host).id = i
        /\ QueueGets(poll.host, e)

\* ENet learns that a peer leaves.
LeaveStep ==
    QueuesSame /\ \E i \in HostIds : \E s \in PeerSlots : LeavesAs(i, s)

\* The app hears an event.
HearStep ==
    \E e \in Events : \E g :
        /\ g = e.host /\ QueueGives(g, e) /\ Tell(e.peer, e.type)
        /\ heard' = [heard EXCEPT ![g] = e.no]
        /\ UNCHANGED <<peers, enet, hosts, conns, serviced, gone>>

Kinds == QuietStep \/ BeginStep \/ PartStep \/ TearStep \/ GiveStep \/ LeaveStep \/ HearStep

LEMMA CallKinds ==
    ASSUME LineInv, AppCall
    PROVE  PollInv' /\ Kinds
  <1>0. CoreInv /\ poll.pc = "off" /\ Calls
    BY DEF AppCall, AppRuns, Polling, LineInv
  <1>1. CASE Initialize
    <2>1. UNCHANGED <<hosts, poll, list>> /\ UNCHANGED <<peers, enet, conns, heard, serviced, story, gone>>
      BY <1>1 DEF Initialize, bounds, history
    <2> QED
      BY <2>1, PollStays DEF QuietStep, QueuesSame, Kinds
  <1>2. ASSUME NEW hs, hs \subseteq LiveHandles(hosts), Teardown(hs),
               UNCHANGED <<poll, list, conns, heard, serviced, story>>
        PROVE  PollInv' /\ Kinds
    BY <1>0, <1>2, TeardownLine DEF TearStep, Kinds
  <1>3. CASE Deinitialize
    <2>1. UNCHANGED <<poll, list, conns, heard, serviced, story>>
      BY <1>3 DEF Deinitialize, bounds
    <2>2. CASE inits = 1
      BY <1>2, <1>3, <2>1, <2>2 DEF Deinitialize
    <2>3. CASE inits # 1
      <3>1. UNCHANGED <<hosts, poll, list>> /\ UNCHANGED <<peers, enet, conns, heard, serviced, story, gone>>
        BY <1>3, <2>1, <2>3 DEF Deinitialize
      <3> QED
        BY <3>1, PollStays DEF QuietStep, QueuesSame, Kinds
    <2> QED
      BY <2>2, <2>3
  <1>4. CASE HostCreate
    <2>1. UNCHANGED <<peers, enet, conns, heard, serviced, story, gone>>
      BY <1>4 DEF HostCreate, history
    <2> QED
      BY <1>0, <1>4, <2>1, HostCreateLine DEF QuietStep, Kinds
  <1>5. ASSUME NEW h, HostDestroy(h) PROVE PollInv' /\ Kinds
    <2>1. {h} \subseteq LiveHandles(hosts) /\ Teardown({h})
      BY <1>0, <1>5, HostFacts DEF HostDestroy, CoreInv
    <2>2. UNCHANGED <<poll, list, conns, heard, serviced, story>>
      BY <1>5 DEF HostDestroy, bounds
    <2> QED
      BY <1>2, <2>1, <2>2
  <1>6. ASSUME NEW h, Connect(h) PROVE PollInv' /\ Kinds
    <2>1. UNCHANGED <<hosts, poll, list, heard, serviced, gone>>
      BY <1>6 DEF Connect
    <2> QED
      BY <1>6, <2>1, PollStays DEF BeginStep, QueuesSame, Kinds
  <1>7. ASSUME NEW p, Disconnect(p) PROVE PollInv' /\ Kinds
    <2>1. UNCHANGED <<hosts, poll, list, conns, heard, serviced, story>>
      BY <1>7 DEF Disconnect, bounds
    <2>2. PollInv' /\ QueuesSame
      BY <2>1, PollStays DEF QueuesSame
    <2>3. Get(peers, p) # Null /\ (LetGo(p) \/ MovedOn(p))
      BY <1>0, <1>7, DisconnectFacts
    <2> QED
      BY <2>1, <2>2, <2>3 DEF PartStep, Kinds
  <1>8. ASSUME NEW p, Abort(p) PROVE PollInv' /\ Kinds
    <2>1. UNCHANGED <<hosts, poll, list, conns, heard, serviced, story>>
      BY <1>8 DEF Abort, bounds
    <2>2. PollInv' /\ QueuesSame
      BY <2>1, PollStays DEF QueuesSame
    <2>3. Get(peers, p) # Null /\ (LetGo(p) \/ MovedOn(p))
      BY <1>0, <1>8, AbortFacts
    <2> QED
      BY <2>1, <2>2, <2>3 DEF PartStep, Kinds
  <1> QED
    BY <1>0, <1>1, <1>3, <1>4, <1>5, <1>6, <1>7, <1>8 DEF Calls

LEMMA EventKinds ==
    ASSUME LineInv, NEW i \in HostIds, NEW s \in PeerSlots, EnetEvent(i, s) \/ EnetEnds(i, s)
    PROVE  PollInv' /\ Kinds
  <1>0. CoreInv
    BY DEF LineInv
  <1>1. ASSUME NEW e, ConnectsAs(i, s, e) \/ ReceivesAs(i, s, e) \/ EndsAs(i, s, e),
               Get(hosts, poll.host) # Null, Get(hosts, poll.host).id = i
        PROVE  PollInv' /\ Kinds
    <2>1. GivesUp(e)
      BY <1>1 DEF ConnectsAs, ReceivesAs, EndsAs
    <2>2. PICK g : g = poll.host
      OBVIOUS
    <2>3. e.host = g
      BY <2>1, <2>2 DEF GivesUp
    <2>4. PollInv' /\ QueueGets(g, e)
      BY <2>1, <2>2, <2>3, WriteLine
    <2>5. GiveStep
      BY <1>1, <2>2, <2>4 DEF GiveStep
    <2> QED
      BY <2>4, <2>5 DEF Kinds
  <1>2. CASE ServiceConnect(i, s)
    BY <1>0, <1>1, <1>2, ServiceConnectFacts
  <1>3. ASSUME NEW n \in Sizes, ServiceReceive(i, s, n) PROVE PollInv' /\ Kinds
    BY <1>0, <1>1, <1>3, ServiceReceiveFacts
  <1>4. CASE ServiceDisconnect(i, s)
    BY <1>0, <1>1, <1>4, ServiceDisconnectFacts
  <1>5. CASE PeerLeaves(i, s)
    <2>1. LeavesAs(i, s)
      BY <1>0, <1>5, PeerLeavesFacts
    <2>2. UNCHANGED <<hosts, poll, list>>
      BY <2>1 DEF LeavesAs
    <2> QED
      BY <2>1, <2>2, PollStays DEF LeaveStep, QueuesSame, Kinds
  <1> QED
    BY <1>2, <1>3, <1>4, <1>5 DEF EnetEvent, EnetEnds

LEMMA NextKinds ==
    ASSUME LineInv, [Next]_vars
    PROVE  PollInv' /\ Kinds
  <1>1. ASSUME UNCHANGED <<hosts, poll, list>>, UNCHANGED <<peers, enet, conns, heard, serviced, story, gone>>
        PROVE  PollInv' /\ Kinds
    BY <1>1, PollStays DEF QuietStep, QueuesSame, Kinds
  <1>2. CASE UNCHANGED shimVars
    BY <1>1, <1>2 DEF shimVars, tables, bounds, history
  <1>3. CASE UNCHANGED vars
    BY <1>2, <1>3 DEF vars
  <1>4. ASSUME NEW h, StartPolling(h) PROVE PollInv' /\ Kinds
    BY <1>2, <1>4 DEF StartPolling
  <1>5. ASSUME NEW hs, StopPolling(hs) PROVE PollInv' /\ Kinds
    BY <1>2, <1>5 DEF StopPolling
  <1>6. CASE Tick
    BY <1>2, <1>6 DEF Tick
  <1>7. CASE EndPass
    BY <1>2, <1>7 DEF EndPass
  <1>8. CASE PollNext
    <2>1. UNCHANGED <<peers, enet, conns, heard, serviced, story, gone>>
      BY <1>8 DEF PollNext, PollBegin, bounds, history
    <2> QED
      BY <1>8, <2>1, PollNextLine DEF QuietStep, Kinds
  <1>9. CASE PollGrow
    <2>1. UNCHANGED <<peers, enet, conns, heard, serviced, story, gone>>
      BY <1>9 DEF PollGrow, bounds, history
    <2> QED
      BY <1>9, <2>1, PollGrowLine DEF QuietStep, Kinds
  <1>10. CASE PollReturn
    <2>1. UNCHANGED <<peers, enet, conns, heard, serviced, story, gone>>
      BY <1>10 DEF PollReturn, tables, bounds, history
    <2> QED
      BY <1>10, <2>1, PollReturnLine DEF QuietStep, Kinds
  <1>11. CASE Dispatch
    <2>1. PICK e : e = Head(list)
      OBVIOUS
    <2>2. PICK g : g = e.host
      OBVIOUS
    <2>3. PollInv' /\ QueueGives(g, e) /\ e \in Events
      BY <1>11, <2>1, <2>2, DispatchLine
    <2>4. /\ Tell(e.peer, e.type) /\ heard' = [heard EXCEPT ![g] = e.no]
          /\ UNCHANGED <<peers, enet, hosts, conns, serviced, gone>>
      BY <1>11, <2>1, <2>2 DEF Dispatch, tables, bounds
    <2>5. HearStep
      BY <2>2, <2>3, <2>4 DEF HearStep
    <2> QED
      BY <2>3, <2>5 DEF Kinds
  <1> QED
    BY <1>3, <1>4, <1>5, <1>6, <1>7, <1>8, <1>9, <1>10, <1>11, CallKinds, EventKinds DEF Next, PumpStep

LEMMA LineInit ==
    PumpInit => LineInv
  <1> SUFFICES ASSUME PumpInit
               PROVE  LineInv
    OBVIOUS
  <1>1. poll.pc = "off" /\ poll.out = << >> /\ list = << >> /\ hosts = EmptyTable
    BY DEF PumpInit, Init, PollOff
  <1>2. \A h : Get(hosts, h) = Null
    BY <1>1 DEF Get, IsLive, EmptyTable, Handles
  <1>3. \A h : Stash(h) = << >>
    BY <1>2 DEF Stash
  <1>4. PollInv
    BY <1>1, <1>3 DEF PollInv
  <1> QED
    BY <1>4, CoreInit DEF LineInv

LEMMA LineNext == LineInv /\ [Next]_vars => LineInv'
  BY NextKinds, CoreNext DEF LineInv

\* The inductive invariant of one enPoll: it collects events of one live host
\* only, while nothing is left to be heard, and never needs a second retry.
THEOREM LineInvariant == Spec => []LineInv
  BY LineInit, LineNext, PTL DEF Spec

\* ------------------------------------------------------------- the numbers

\* No generation of a host's slot has wrapped.
MadeInv == (made = 0 \/ made \in HostIds) /\ GenBound(hosts, made)

\* The events of a host not heard yet are numbered from the one heard last to
\* the one ENet gave up last; a host never created has none.
CountInv ==
    /\ heard \in [Handles -> Nat]
    /\ \A h : \A k \in DOMAIN Queue(h) : Queue(h)[k].host = h /\ Queue(h)[k].no = heard[h] + k
    /\ \A h : Get(hosts, h) # Null => heard[h] + Len(Queue(h)) = serviced[h]
    /\ \A h \in Handles : heard[h] # 0 \/ serviced[h] # 0 \/ Queue(h) # << >> => Issued(hosts, h)

NumberInv == LineInv /\ MadeInv /\ CountInv

HostsAge == Ages(hosts, hosts', made') /\ (made' = 0 \/ made' \in HostIds)

LEMMA HostsAgePut ==
    ASSUME CoreInv, MadeInv, made < GEN_MAX, made' = made,
           NEW g, Get(hosts, g) # Null, NEW x \in Seq(Events),
           hosts' = Put(hosts, g, [Get(hosts, g) EXCEPT !.stash = x])
    PROVE  HostsAge
  <1>1. PICK o : o = Get(hosts, g)
    OBVIOUS
  <1>2. o \in HostObjects
    BY <1>1, HostFacts DEF CoreInv
  <1>3. PICK r : r = [o EXCEPT !.stash = x]
    OBVIOUS
  <1>4. r \in HostObjects
    BY <1>2, <1>3 DEF HostObjects
  <1>5. hosts' = Put(hosts, g, r)
    BY <1>1, <1>3
  <1>6. PICK n : n = made
    OBVIOUS
  <1>7. n \in Nat /\ n < GEN_MAX /\ GenBound(hosts, n) /\ Null \notin HostObjects
        /\ TableOK(hosts, HostObjects) /\ FreeListOK(hosts)
    BY <1>6, EnetAssumption DEF CoreInv, RestInv, MadeInv, TablesInv
  <1>8. Ages(hosts, Put(hosts, g, r), n)
    BY <1>4, <1>7, AgesPut
  <1> QED
    BY <1>5, <1>6, <1>8 DEF HostsAge, MadeInv

LEMMA HostsAgeSame ==
    ASSUME MadeInv, UNCHANGED <<hosts, made>>
    PROVE  HostsAge
  BY DEF HostsAge, MadeInv, Ages

LEMMA HostsAgeTeardown ==
    ASSUME CoreInv, MadeInv, made < GEN_MAX, made' = made,
           NEW hs, hs \subseteq LiveHandles(hosts), Teardown(hs)
    PROVE  HostsAge
  <1>1. hosts' = FreeAll(hosts, hs)
    BY DEF Teardown
  <1>2. PICK n : n = made
    OBVIOUS
  <1>3. n \in Nat /\ n < GEN_MAX /\ GenBound(hosts, n) /\ Null \notin HostObjects
        /\ TableOK(hosts, HostObjects) /\ FreeListOK(hosts)
    BY <1>2, EnetAssumption DEF CoreInv, RestInv, MadeInv, TablesInv
  <1>4. Ages(hosts, FreeAll(hosts, hs), n)
    BY <1>3, AgesFreeAll
  <1> QED
    BY <1>1, <1>2, <1>4 DEF HostsAge, MadeInv

LEMMA HostsAgeCreate ==
    ASSUME CoreInv, MadeInv, made < GEN_MAX, HostCreate
    PROVE  HostsAge
  <1>1. PICK o : o = [id |-> made + 1, stash |-> << >>]
    OBVIOUS
  <1>2. made' = made + 1 /\ made + 1 \in HostIds /\ CanAlloc(hosts) /\ hosts' = Alloc(hosts, o)
    BY <1>1 DEF HostCreate
  <1>3. PICK n : n = made
    OBVIOUS
  <1>4. n \in Nat /\ n < GEN_MAX /\ GenBound(hosts, n) /\ Null \notin HostObjects
        /\ TableOK(hosts, HostObjects) /\ FreeListOK(hosts)
    BY <1>3, EnetAssumption DEF CoreInv, RestInv, MadeInv, TablesInv
  <1>5. o \in HostObjects
    BY <1>1, <1>2 DEF HostObjects
  <1>6. Ages(hosts, Alloc(hosts, o), n + 1)
    BY <1>2, <1>4, <1>5, AgesAlloc
  <1> QED
    BY <1>2, <1>3, <1>6 DEF HostsAge

LEMMA HostsAgeEnter ==
    ASSUME CoreInv, MadeInv, made < GEN_MAX, made' = made, NEW h, NEW cap, NEW n, EnterWith(h, cap, n)
    PROVE  HostsAge
  <1>1. EnterFacts(h, cap, n)
    BY EnterCases
  <1>2. << >> \in Seq(Events)
    OBVIOUS
  <1> QED
    BY <1>1, <1>2, HostsAgeSame, HostsAgePut DEF EnterFacts

LEMMA HostsAgeWrite ==
    ASSUME CoreInv, MadeInv, made < GEN_MAX, made' = made, NEW e, GivesUp(e)
    PROVE  HostsAge
  <1>1. WriteFacts(e) /\ e \in Events
    BY WriteStep DEF GivesUp, Serviced
  <1>2. <<e>> \in Seq(Events)
    BY <1>1
  <1>3. PICK g : g = poll.host
    OBVIOUS
  <1>4. Get(hosts, g) # Null
    BY <1>3 DEF CoreInv, RestInv, GivesUp
  <1>5. CASE hosts' = hosts
    BY <1>5, HostsAgeSame
  <1>6. CASE hosts' = Put(hosts, poll.host, [Get(hosts, poll.host) EXCEPT !.stash = <<e>>])
    BY <1>2, <1>3, <1>4, <1>6, HostsAgePut
  <1> QED
    BY <1>1, <1>5, <1>6 DEF WriteFacts

LEMMA HostsAgeNext ==
    ASSUME \A i \in HostIds : i < GEN_MAX, CoreInv, MadeInv, [Next]_vars
    PROVE  HostsAge
  <1>0. made < GEN_MAX
    BY HandleTableAssumption DEF MadeInv
  <1>1. CASE UNCHANGED <<hosts, made>>
    BY <1>1, HostsAgeSame
  <1>2. CASE AppCall
    <2>1. Calls
      BY <1>2 DEF AppCall
    <2>2. CASE Initialize
      BY <1>1, <2>2 DEF Initialize, bounds
    <2>3. CASE Deinitialize
      <3>1. made' = made
        BY <2>3 DEF Deinitialize, bounds
      <3>2. CASE inits = 1
        BY <1>0, <2>3, <3>1, <3>2, HostsAgeTeardown DEF Deinitialize
      <3>3. CASE inits # 1
        BY <1>1, <2>3, <3>1, <3>3 DEF Deinitialize
      <3> QED
        BY <3>2, <3>3
    <2>4. CASE HostCreate
      BY <1>0, <2>4, HostsAgeCreate
    <2>5. ASSUME NEW h, HostDestroy(h) PROVE HostsAge
      <3>1. {h} \subseteq LiveHandles(hosts) /\ Teardown({h}) /\ made' = made
        BY <2>5, HostFacts DEF HostDestroy, CoreInv, bounds
      <3> QED
        BY <1>0, <3>1, HostsAgeTeardown
    <2>6. ASSUME NEW h, Connect(h) PROVE HostsAge
      BY <1>1, <2>6 DEF Connect
    <2>7. ASSUME NEW p, Disconnect(p) \/ Abort(p) PROVE HostsAge
      BY <1>1, <2>7 DEF Disconnect, Abort, bounds
    <2> QED
      BY <2>1, <2>2, <2>3, <2>4, <2>5, <2>6, <2>7 DEF Calls
  <1>3. CASE UNCHANGED shimVars
    BY <1>1, <1>3 DEF shimVars, tables, bounds
  <1>4. CASE \/ Tick \/ EndPass \/ UNCHANGED vars
             \/ \E h : StartPolling(h) \/ \E hs : StopPolling(hs)
    BY <1>3, <1>4 DEF Tick, EndPass, vars, StartPolling, StopPolling
  <1>5. CASE Dispatch
    BY <1>1, <1>5 DEF Dispatch, tables, bounds
  <1>6. CASE PollNext
    BY <1>0, <1>6, HostsAgeEnter DEF PollNext, PollBegin, bounds
  <1>7. CASE PollGrow
    BY <1>0, <1>7, HostsAgeEnter DEF PollGrow, bounds
  <1>8. CASE PollReturn
    BY <1>1, <1>8 DEF PollReturn, tables, bounds
  <1>9. ASSUME NEW i \in HostIds, NEW s \in PeerSlots, EnetEvent(i, s) \/ EnetEnds(i, s)
        PROVE  HostsAge
    <2>1. ASSUME NEW e, ConnectsAs(i, s, e) \/ ReceivesAs(i, s, e) \/ EndsAs(i, s, e)
          PROVE  HostsAge
      <3>1. GivesUp(e)
        BY <2>1 DEF ConnectsAs, ReceivesAs, EndsAs
      <3>2. made' = made
        BY <3>1 DEF GivesUp, Serviced
      <3> QED
        BY <1>0, <3>1, <3>2, HostsAgeWrite
    <2>2. CASE PeerLeaves(i, s)
      BY <1>1, <2>2 DEF PeerLeaves, bounds
    <2> QED
      BY <1>9, <2>1, <2>2, ServiceConnectFacts, ServiceReceiveFacts, ServiceDisconnectFacts
         DEF EnetEvent, EnetEnds
  <1>10. ASSUME NEW h, StartPolling(h) \/ StopPolling({h}) PROVE HostsAge
    BY <1>4, <1>10
  <1> QED
    BY <1>2, <1>4, <1>5, <1>6, <1>7, <1>8, <1>9, <1>10 DEF Next, PumpStep

LEMMA QueueTyped ==
    ASSUME LineInv, NEW h
    PROVE  Queue(h) \in Seq(Events)
  <1>1. PICK q : q = Line
    OBVIOUS
  <1>2. q \in Seq(Events)
    <2>1. list \in Seq(Events) /\ poll.out \in Seq(Events)
      BY DEF LineInv, CoreInv, RestInv, Polls
    <2> QED
      BY <1>1, <2>1 DEF Line
  <1>3. PICK a : a = Of(q, h)
    OBVIOUS
  <1>4. PICK b : b = Stash(h)
    OBVIOUS
  <1>5. a \in Seq(Events) /\ b \in Seq(Events)
    BY <1>2, <1>3, <1>4, OfTyped, StashFacts DEF LineInv
  <1>6. a \o b \in Seq(Events)
    BY <1>5
  <1> QED
    BY <1>1, <1>3, <1>4, <1>6 DEF Queue

QueuesOK == \A h : Queue(h) \in Seq(Events)

LEMMA QueuesTyped == LineInv => QueuesOK
  BY QueueTyped DEF QueuesOK

LEMMA QueueTypedNext ==
    ASSUME LineInv', NEW g
    PROVE  Queue(g)' \in Seq(Events)
  <1>1. (LineInv => QueuesOK)'
    BY QueuesTyped, PTL
  <1> QED
    BY <1>1 DEF QueuesOK

\* A queue that is there has a first event.
LEMMA QueueFacts ==
    ASSUME LineInv, NEW h
    PROVE  /\ Len(Queue(h)) \in Nat /\ DOMAIN Queue(h) = 1 .. Len(Queue(h))
           /\ Queue(h) # << >> <=> Len(Queue(h)) # 0
           /\ \A k \in DOMAIN Queue(h) : k \in Nat /\ Queue(h)[k] \in Events
  <1>1. PICK q : q = Queue(h)
    OBVIOUS
  <1>2. q \in Seq(Events)
    BY <1>1, QueueTyped
  <1>3. /\ Len(q) \in Nat /\ DOMAIN q = 1 .. Len(q)
        /\ q # << >> <=> Len(q) # 0
        /\ \A k \in DOMAIN q : k \in Nat /\ q[k] \in Events
    BY <1>2
  <1> QED
    BY <1>1, <1>3

\* Queues that are as they were, or cut because their host is gone.
QueuesShrink ==
    \A h : /\ Get(hosts', h) # Null => Queue(h)' = Queue(h)
           /\ DOMAIN Queue(h)' \subseteq DOMAIN Queue(h)
           /\ \A k \in DOMAIN Queue(h)' : Queue(h)'[k] = Queue(h)[k]

LEMMA CountShrinks ==
    ASSUME LineInv, LineInv', CountInv, HostsAge, QueuesShrink, UNCHANGED <<heard, serviced>>
    PROVE  CountInv'
  <1>1. \A h : \A k \in DOMAIN Queue(h)' : Queue(h)'[k].host = h /\ Queue(h)'[k].no = heard'[h] + k
    BY DEF QueuesShrink, CountInv
  <1>2. ASSUME NEW h, Get(hosts', h) # Null
        PROVE  heard'[h] + Len(Queue(h)') = serviced'[h]
    <2>1. Queue(h)' = Queue(h)
      BY <1>2 DEF QueuesShrink
    <2>2. CASE Get(hosts, h) # Null
      BY <2>1, <2>2 DEF CountInv
    <2>3. CASE Get(hosts, h) = Null
      <3>1. ~Issued(hosts, h)
        BY <1>2, <2>3 DEF HostsAge, Ages
      <3>2. h \in Handles
        BY <1>2 DEF Get, IsLive
      <3>3. heard[h] = 0 /\ serviced[h] = 0 /\ Queue(h) = << >>
        BY <3>1, <3>2 DEF CountInv
      <3> QED
        BY <2>1, <3>3
    <2> QED
      BY <2>2, <2>3
  <1>3. ASSUME NEW h \in Handles, heard'[h] # 0 \/ serviced'[h] # 0 \/ Queue(h)' # << >>
        PROVE  Issued(hosts', h)
    <2>1. Queue(h)' # << >> => Queue(h) # << >>
      <3>1. Queue(h)' # << >> => Len(Queue(h)') # 0 /\ DOMAIN Queue(h)' = 1 .. Len(Queue(h)')
                                 /\ Len(Queue(h)') \in Nat
        <4>2. Queue(h)' \in Seq(Events)
          BY QueueTypedNext
        <4>3. PICK q : q = Queue(h)'
          OBVIOUS
        <4>4. q \in Seq(Events)
          BY <4>2, <4>3
        <4> QED
          BY <4>3, <4>4
      <3>2. Queue(h)' # << >> => 1 \in DOMAIN Queue(h)
        BY <3>1 DEF QueuesShrink
      <3> QED
        BY <3>2, QueueFacts
    <2>2. Issued(hosts, h)
      BY <1>3, <2>1 DEF CountInv
    <2> QED
      BY <2>2 DEF HostsAge, Ages
  <1> QED
    BY <1>1, <1>2, <1>3 DEF CountInv

LEMMA AppendFacts ==
    ASSUME NEW R, NEW q \in Seq(R), NEW e \in R
    PROVE  /\ DOMAIN Append(q, e) = 1 .. Len(q) + 1 /\ Len(Append(q, e)) = Len(q) + 1
           /\ \A k \in DOMAIN Append(q, e) : (k \in DOMAIN q /\ Append(q, e)[k] = q[k])
                                             \/ (k = Len(q) + 1 /\ Append(q, e)[k] = e)
           /\ \A k \in DOMAIN q : Append(q, e)[k] = q[k]
           /\ Append(q, e)[Len(q) + 1] = e
           /\ Append(q, e) # << >> /\ Len(q) \in Nat /\ DOMAIN q = 1 .. Len(q)
  OBVIOUS

LEMMA CountGives ==
    ASSUME LineInv, LineInv', CountInv, HostsAge, NEW g, g = poll.host, Get(hosts, g) # Null,
           NEW e, GivesUp(e), QueueGets(g, e), HostsKeep
    PROVE  CountInv'
  <1>1. /\ e \in Events /\ e.host = g /\ e.no = serviced[g] + 1 /\ g \in Handles
        /\ serviced' = [serviced EXCEPT ![e.host] = e.no] /\ heard' = heard
        /\ serviced \in [Handles -> Nat] /\ heard \in [Handles -> Nat]
    BY HostFacts DEF GivesUp, Serviced, LineInv, CoreInv, RestInv, CountInv
  <1>2. PICK q : q = Queue(g)
    OBVIOUS
  <1>3. PICK r : r = Append(q, e)
    OBVIOUS
  <1>4. q \in Seq(Events)
    BY <1>2, QueueTyped
  <1>5. /\ DOMAIN r = 1 .. Len(q) + 1 /\ Len(r) = Len(q) + 1
        /\ \A k \in DOMAIN r : (k \in DOMAIN q /\ r[k] = q[k]) \/ (k = Len(q) + 1 /\ r[k] = e)
        /\ Len(q) \in Nat
    BY <1>1, <1>3, <1>4, AppendFacts
  <1>6. \A h : Queue(h)' = IF h = g THEN r ELSE Queue(h)
    BY <1>2, <1>3 DEF QueueGets
  <1>7. serviced[g] = heard[g] + Len(q) /\ serviced[g] \in Nat /\ heard[g] \in Nat
    BY <1>1, <1>2 DEF CountInv
  <1>8. \A h : \A k \in DOMAIN Queue(h)' : Queue(h)'[k].host = h /\ Queue(h)'[k].no = heard'[h] + k
    <2>1. \A k \in DOMAIN q : q[k].host = g /\ q[k].no = heard[g] + k
      BY <1>2 DEF CountInv
    <2>2. e.no = heard[g] + (Len(q) + 1)
      <3>1. PICK x : x = heard[g]
        OBVIOUS
      <3>2. PICK y : y = serviced[g]
        OBVIOUS
      <3>3. y = x + Len(q) /\ x \in Nat /\ Len(q) \in Nat /\ e.no = y + 1
        BY <1>1, <1>5, <1>7, <3>1, <3>2
      <3>4. e.no = x + (Len(q) + 1)
        BY <3>3
      <3> QED
        BY <3>1, <3>4
    <2>3. \A k \in DOMAIN r : r[k].host = g /\ r[k].no = heard[g] + k
      BY <1>1, <1>5, <2>1, <2>2
    <2> QED
      BY <1>1, <1>6, <2>3 DEF CountInv
  <1>9. serviced'[g] = serviced[g] + 1 /\ \A h \in Handles : h # g => serviced'[h] = serviced[h]
    BY <1>1
  <1>10. ASSUME NEW h, Get(hosts', h) # Null
         PROVE  heard'[h] + Len(Queue(h)') = serviced'[h]
    <2>1. Get(hosts, h) # Null /\ h \in Handles
      BY <1>10 DEF HostsKeep, Get, IsLive
    <2>2. CASE h = g
      <3>1. PICK x : x = heard[g]
        OBVIOUS
      <3>2. PICK y : y = serviced[g]
        OBVIOUS
      <3>3. y = x + Len(q) /\ x \in Nat /\ Len(q) \in Nat /\ Len(r) = Len(q) + 1
        BY <1>5, <1>7, <3>1, <3>2
      <3>4. x + Len(r) = y + 1
        BY <3>3
      <3>5. heard'[h] = x /\ Queue(h)' = r /\ serviced'[h] = y + 1
        BY <1>1, <1>6, <1>9, <2>2, <3>1, <3>2
      <3> QED
        BY <3>4, <3>5
    <2>3. CASE h # g
      BY <1>1, <1>6, <1>9, <2>1, <2>3 DEF CountInv
    <2> QED
      BY <2>2, <2>3
  <1>11. ASSUME NEW h \in Handles, heard'[h] # 0 \/ serviced'[h] # 0 \/ Queue(h)' # << >>
         PROVE  Issued(hosts', h)
    <2>1. Issued(hosts, h)
      <3>1. CASE h = g
        BY <3>1 DEF Issued
      <3>2. CASE h # g
        BY <1>1, <1>6, <1>9, <1>11, <3>2 DEF CountInv
      <3> QED
        BY <3>1, <3>2
    <2> QED
      BY <2>1 DEF HostsAge, Ages
  <1> QED
    BY <1>1, <1>8, <1>10, <1>11 DEF CountInv

LEMMA TailFacts ==
    ASSUME NEW R, NEW q \in Seq(R), q # << >>
    PROVE  /\ Len(Tail(q)) = Len(q) - 1 /\ Len(q) \in Nat /\ Head(q) = q[1] /\ 1 \in DOMAIN q
           /\ \A k \in DOMAIN Tail(q) : k \in Nat /\ k + 1 \in DOMAIN q /\ Tail(q)[k] = q[k + 1]
           /\ \A k \in DOMAIN q : k = 1 \/ \E j \in DOMAIN Tail(q) : k = j + 1
  <1>1. /\ Len(Tail(q)) = Len(q) - 1 /\ Len(q) \in Nat /\ Head(q) = q[1] /\ 1 \in DOMAIN q
        /\ \A k \in DOMAIN Tail(q) : k \in Nat /\ k + 1 \in DOMAIN q /\ Tail(q)[k] = q[k + 1]
    OBVIOUS
  <1>2. DOMAIN Tail(q) = 1 .. Len(q) - 1 /\ DOMAIN q = 1 .. Len(q)
    OBVIOUS
  <1>3. ASSUME NEW k \in DOMAIN q, k # 1
        PROVE  \E j \in DOMAIN Tail(q) : k = j + 1
    <2>1. k - 1 \in 1 .. Len(q) - 1 /\ k = (k - 1) + 1
      BY <1>1, <1>2, <1>3
    <2> QED
      BY <1>2, <2>1
  <1> QED
    BY <1>1, <1>3

LEMMA CountHears ==
    ASSUME LineInv, LineInv', CountInv, HostsAge, NEW g, NEW e \in Events, g = e.host, QueueGives(g, e),
           heard' = [heard EXCEPT ![g] = e.no], UNCHANGED <<hosts, serviced>>
    PROVE  CountInv'
  <1>1. PICK q : q = Queue(g)
    OBVIOUS
  <1>2. PICK r : r = Tail(q)
    OBVIOUS
  <1>3. q \in Seq(Events) /\ q # << >> /\ Head(q) = e
    BY <1>1, QueueTyped DEF QueueGives
  <1>4. /\ Len(r) = Len(q) - 1 /\ Len(q) \in Nat /\ e = q[1] /\ 1 \in DOMAIN q
        /\ \A k \in DOMAIN r : k \in Nat /\ k + 1 \in DOMAIN q /\ r[k] = q[k + 1]
    BY <1>2, <1>3, TailFacts
  <1>5. \A h : Queue(h)' = IF h = g THEN r ELSE Queue(h)
    BY <1>1, <1>2 DEF QueueGives
  <1>6. /\ heard \in [Handles -> Nat] /\ serviced \in [Handles -> Nat] /\ g \in Handles
        /\ e.no = heard[g] + 1 /\ \A k \in DOMAIN q : q[k].host = g /\ q[k].no = heard[g] + k
    <2>1. heard \in [Handles -> Nat] /\ serviced \in [Handles -> Nat]
      BY DEF CountInv, LineInv, CoreInv, RestInv
    <2>2. g \in Handles
      BY DEF Events
    <2>3. \A k \in DOMAIN q : q[k].host = g /\ q[k].no = heard[g] + k
      BY <1>1 DEF CountInv
    <2> QED
      BY <1>4, <2>1, <2>2, <2>3
  <1>7. heard' \in [Handles -> Nat] /\ heard'[g] = heard[g] + 1 /\ heard[g] \in Nat
        /\ \A h \in Handles : h # g => heard'[h] = heard[h]
    BY <1>6
  <1>8. ASSUME NEW h, NEW k \in DOMAIN Queue(h)'
        PROVE  Queue(h)'[k].host = h /\ Queue(h)'[k].no = heard'[h] + k
    <2>1. CASE h = g
      <3>1. k \in DOMAIN r
        BY <1>5, <1>8, <2>1
      <3>2. r[k].host = g /\ r[k].no = heard[g] + (k + 1) /\ k \in Nat
        BY <1>4, <1>6, <3>1
      <3>3. r[k].no = (heard[g] + 1) + k
        BY <1>7, <3>2
      <3> QED
        BY <1>5, <1>7, <2>1, <3>2, <3>3
    <2>2. CASE h # g
      <3>1. k \in DOMAIN Queue(h) /\ Queue(h)' = Queue(h)
        BY <1>5, <1>8, <2>2
      <3>2. Queue(h)[k].host = h /\ Queue(h)[k].no = heard[h] + k
        BY <3>1 DEF CountInv
      <3>3. h \in Handles
        BY <3>1, <3>2, QueueFacts DEF Events
      <3> QED
        BY <1>7, <2>2, <3>1, <3>2, <3>3
    <2> QED
      BY <2>1, <2>2
  <1>9. ASSUME NEW h, Get(hosts', h) # Null
        PROVE  heard'[h] + Len(Queue(h)') = serviced'[h]
    <2>1. Get(hosts, h) # Null /\ h \in Handles
      BY <1>9 DEF Get, IsLive
    <2>2. heard[h] + Len(Queue(h)) = serviced[h]
      BY <2>1 DEF CountInv
    <2>3. CASE h = g
      <3>1. PICK x : x = heard[g]
        OBVIOUS
      <3>2. PICK y : y = serviced[g]
        OBVIOUS
      <3>3. x + Len(q) = y
        BY <1>1, <2>2, <2>3, <3>1, <3>2
      <3>4. x \in Nat /\ Len(q) \in Nat /\ Len(r) = Len(q) - 1
        BY <1>4, <1>7, <3>1
      <3>5. (x + 1) + Len(r) = y
        BY <3>3, <3>4
      <3>6. heard'[h] = x + 1 /\ Queue(h)' = r /\ serviced'[h] = y
        BY <1>5, <1>7, <2>3, <3>1, <3>2
      <3> QED
        BY <3>5, <3>6
    <2>4. CASE h # g
      BY <1>5, <1>7, <2>1, <2>2, <2>4
    <2> QED
      BY <2>3, <2>4
  <1>10. ASSUME NEW h \in Handles, heard'[h] # 0 \/ serviced'[h] # 0 \/ Queue(h)' # << >>
         PROVE  Issued(hosts', h)
    <2>1. CASE h = g
      BY <1>1, <1>3, <2>1 DEF CountInv
    <2>2. CASE h # g
      BY <1>5, <1>7, <1>10, <2>2 DEF CountInv
    <2> QED
      BY <2>1, <2>2
  <1> QED
    BY <1>7, <1>8, <1>9, <1>10 DEF CountInv

LEMMA NumberInit ==
    ASSUME PumpInit
    PROVE  NumberInv
  <1>1. /\ poll.pc = "off" /\ list = << >> /\ hosts = EmptyTable /\ made = 0
        /\ heard = [h \in Handles |-> 0] /\ serviced = [h \in Handles |-> 0]
    BY DEF PumpInit, Init, PollOff
  <1>2. \A h : Get(hosts, h) = Null
    BY <1>1 DEF Get, IsLive, EmptyTable, Handles
  <1>3. \A h : Queue(h) = << >>
    <2>1. \A h : Stash(h) = << >>
      BY <1>2 DEF Stash
    <2>2. Line = << >>
      BY <1>1 DEF Line
    <2>3. << >> \in Seq(Events)
      OBVIOUS
    <2> QED
      BY <2>1, <2>2, <2>3, OfNone, JoinNone DEF Queue
  <1>4. GenBound(hosts, made)
    BY <1>1 DEF GenBound, EmptyTable
  <1>5. CountInv
    <2>1. DOMAIN << >> = {}
      OBVIOUS
    <2> QED
      BY <1>1, <1>2, <1>3, <2>1 DEF CountInv
  <1> QED
    BY <1>1, <1>4, <1>5, LineInit DEF NumberInv, MadeInv

LEMMA NumberNext ==
    ASSUME \A i \in HostIds : i < GEN_MAX, NumberInv, [Next]_vars
    PROVE  NumberInv'
  <1>1. LineInv /\ MadeInv /\ CountInv /\ CoreInv /\ LineInv' /\ Kinds
    BY NextKinds, CoreNext DEF NumberInv, LineInv
  <1>2. HostsAge
    BY <1>1, HostsAgeNext
  <1>3. MadeInv'
    BY <1>2 DEF HostsAge, Ages, MadeInv
  <1>4. ASSUME QueuesSame, UNCHANGED <<heard, serviced>>
        PROVE  CountInv'
    <2>1. QueuesShrink
      BY <1>4 DEF QueuesSame, QueuesShrink
    <2> QED
      BY <1>1, <1>2, <1>4, <2>1, CountShrinks
  <1>5. ASSUME QuietStep \/ BeginStep \/ PartStep \/ LeaveStep PROVE CountInv'
    BY <1>4, <1>5 DEF QuietStep, BeginStep, PartStep, LeaveStep, LeavesAs
  <1>6. ASSUME TearStep PROVE CountInv'
    <2>1. PICK hs : /\ hs \subseteq LiveHandles(hosts) /\ Teardown(hs) /\ QueuesCut(hs)
                    /\ UNCHANGED <<heard, serviced>>
      BY <1>6 DEF TearStep
    <2>2. \A h : Get(hosts', h) = IF h \in hs THEN Null ELSE Get(hosts, h)
      BY <1>1, <2>1, TeardownTables DEF HostsFreed
    <2>3. QueuesShrink
      BY <2>1, <2>2 DEF QueuesShrink, QueuesCut
    <2> QED
      BY <1>1, <1>2, <2>1, <2>3, CountShrinks
  <1>7. ASSUME GiveStep PROVE CountInv'
    <2>0. PICK i \in HostIds, s \in PeerSlots : \E e :
             /\ ConnectsAs(i, s, e) \/ ReceivesAs(i, s, e) \/ EndsAs(i, s, e)
             /\ Get(hosts, poll.host) # Null
             /\ QueueGets(poll.host, e)
      BY <1>7 DEF GiveStep
    <2>1. PICK e :
             /\ ConnectsAs(i, s, e) \/ ReceivesAs(i, s, e) \/ EndsAs(i, s, e)
             /\ Get(hosts, poll.host) # Null
             /\ QueueGets(poll.host, e)
      BY <2>0
    <2>2. GivesUp(e)
      BY <2>1 DEF ConnectsAs, ReceivesAs, EndsAs
    <2>3. HostsKeep
      <3>1. poll.pc = "pump" /\ e \in Events /\ WriteOrStash(e)
        BY <2>2 DEF GivesUp, Serviced
      <3>2. EnterRest
        BY <1>1, <3>1, WriteStep
      <3> QED
        BY <3>2 DEF EnterRest, HostsOK
    <2>4. PICK g : g = poll.host
      OBVIOUS
    <2> QED
      BY <1>1, <1>2, <2>1, <2>2, <2>3, <2>4, CountGives
  <1>8. ASSUME HearStep PROVE CountInv'
    <2>0. PICK e \in Events : \E g :
             /\ g = e.host /\ QueueGives(g, e)
             /\ heard' = [heard EXCEPT ![g] = e.no]
             /\ UNCHANGED <<hosts, serviced>>
      BY <1>8 DEF HearStep
    <2>1. PICK g :
             /\ g = e.host /\ QueueGives(g, e)
             /\ heard' = [heard EXCEPT ![g] = e.no]
             /\ UNCHANGED <<hosts, serviced>>
      BY <2>0
    <2> QED
      BY <1>1, <1>2, <2>1, CountHears
  <1> QED
    BY <1>1, <1>3, <1>5, <1>6, <1>7, <1>8 DEF NumberInv, Kinds

\* A live host's queue is what is ahead of the app.
LEMMA AheadIsQueue ==
    ASSUME LineInv, NEW h \in LiveHandles(hosts)
    PROVE  Ahead(h) = Queue(h) /\ Get(hosts, h) # Null
  <1>0. CoreInv /\ PollInv
    BY DEF LineInv
  <1>1. Get(hosts, h) # Null /\ Stash(h) = Get(hosts, h).stash
    BY <1>0, HostFacts DEF CoreInv, Stash
  <1>2. PICK a : a = list
    OBVIOUS
  <1>3. PICK b : b = poll.out
    OBVIOUS
  <1>4. a \in Seq(Events) /\ b \in Seq(Events) /\ (a = << >> \/ b = << >>)
    BY <1>0, <1>2, <1>3 DEF PollInv, CoreInv, RestInv, Polls
  <1>5. Of(a, h) \in Seq(Events) /\ Of(b, h) \in Seq(Events)
    BY <1>4, OfTyped
  <1>6. Of(a, h) \o Of(b, h) = Of(IF poll.pc = "off" THEN a ELSE b, h)
    <2>1. CASE poll.pc = "off"
      <3>1. b = << >>
        BY <1>0, <1>3, <2>1 DEF PollInv
      <3> QED
        BY <1>5, <2>1, <3>1, OfNone, JoinNone
    <2>2. CASE poll.pc # "off"
      <3>1. a = << >>
        BY <1>0, <1>2, <2>2 DEF PollInv
      <3> QED
        BY <1>5, <2>2, <3>1, OfNone, JoinNone
    <2> QED
      BY <2>1, <2>2
  <1> QED
    BY <1>1, <1>2, <1>3, <1>6 DEF Ahead, Queue, Line

\* Numbered from what was heard last to what ENet gave up last, each event of
\* a live host is ahead of the app exactly once.
THEOREM NumberInvariant ==
    ASSUME \A i \in HostIds : i < GEN_MAX
    PROVE  Spec => []NumberInv
  BY NumberInit, NumberNext, PTL DEF Spec

\* enPoll neither loses, doubles, reorders nor mixes events, whatever the size
\* of its buffer and the entries, and grows it once at most: kDrainCap, the
\* one-slot stash and the retry loop of enPoll.  No host handle was reissued.
THEOREM EventsLossless ==
    ASSUME \A i \in HostIds : i < GEN_MAX
    PROVE  Spec => []Lossless
  <1>1. NumberInv => Lossless
    <2> SUFFICES ASSUME NumberInv
                 PROVE  Lossless
      OBVIOUS
    <2>0. LineInv /\ PollInv /\ CountInv /\ CoreInv
      BY DEF NumberInv, LineInv
    <2>1. \A j, k \in DOMAIN list : list[j].host = list[k].host
      BY <2>0 DEF PollInv
    <2>2. \A h \in LiveHandles(hosts) : Ahead(h) = Queue(h) /\ Get(hosts, h) # Null
      BY <2>0, AheadIsQueue DEF LineInv
    <2>3. \A h \in LiveHandles(hosts) :
            /\ \A k \in DOMAIN Ahead(h) : Ahead(h)[k].host = h /\ Ahead(h)[k].no = heard[h] + k
            /\ heard[h] + Len(Ahead(h)) = serviced[h]
      BY <2>0, <2>2 DEF CountInv
    <2> QED
      BY <2>0, <2>1, <2>3 DEF Lossless, PollInv
  <1> QED
    BY <1>1, NumberInvariant, PTL

\* ---------------------------------------------------- no peer handle returns

PeersAge == Ages(peers, peers', conns')

BornInv == conns < GEN_MAX /\ GenBound(peers, conns)

LEMMA PeersAgeSame ==
    ASSUME BornInv, UNCHANGED <<peers, conns>>
    PROVE  PeersAge
  BY DEF PeersAge, BornInv, Ages

LEMMA PeersAgeSameOneMore ==
    ASSUME CoreInv, BornInv, peers' = peers, conns' = conns + 1
    PROVE  PeersAge
  <1>1. PICK n : n = conns
    OBVIOUS
  <1>2. n \in Nat /\ n + 1 \in Nat /\ n <= n + 1
    BY <1>1, EnetAssumption DEF CoreInv, RestInv
  <1>3. GenBound(peers, n) /\ TableOK(peers, PeerObjects)
    BY <1>1 DEF BornInv, CoreInv, TablesInv
  <1>4. GenBound(peers, n + 1)
    BY <1>2, <1>3, BoundWeaker
  <1> QED
    BY <1>1, <1>4 DEF PeersAge, Ages

LEMMA PeersAgeFree ==
    ASSUME CoreInv, BornInv, conns' = conns, NEW p, peers' = Free(peers, p)
    PROVE  PeersAge
  <1>1. PICK n : n = conns
    OBVIOUS
  <1>2. n \in Nat /\ n < GEN_MAX /\ GenBound(peers, n) /\ Null \notin PeerObjects
        /\ TableOK(peers, PeerObjects) /\ FreeListOK(peers)
    BY <1>1, EnetAssumption DEF CoreInv, RestInv, BornInv, TablesInv
  <1>3. Ages(peers, Free(peers, p), n)
    BY <1>2, AgesFree
  <1> QED
    BY <1>1, <1>3 DEF PeersAge

LEMMA PeersAgeAlloc ==
    ASSUME CoreInv, BornInv, conns' = conns + 1, CanAlloc(peers), NEW o \in PeerObjects,
           peers' = Alloc(peers, o)
    PROVE  PeersAge
  <1>1. PICK n : n = conns
    OBVIOUS
  <1>2. n \in Nat /\ n < GEN_MAX /\ GenBound(peers, n) /\ Null \notin PeerObjects
        /\ TableOK(peers, PeerObjects) /\ FreeListOK(peers)
    BY <1>1, EnetAssumption DEF CoreInv, RestInv, BornInv, TablesInv
  <1>3. Ages(peers, Alloc(peers, o), n + 1)
    BY <1>2, AgesAlloc
  <1> QED
    BY <1>1, <1>3 DEF PeersAge

LEMMA PeersAgeTeardown ==
    ASSUME CoreInv, BornInv, conns' = conns, NEW hs, Teardown(hs)
    PROVE  PeersAge
  <1>1. PICK n : n = conns
    OBVIOUS
  <1>2. n \in Nat /\ n < GEN_MAX /\ GenBound(peers, n) /\ Null \notin PeerObjects
        /\ TableOK(peers, PeerObjects) /\ FreeListOK(peers)
    BY <1>1, EnetAssumption DEF CoreInv, RestInv, BornInv, TablesInv
  <1>3. PICK ps : ps = Riding(hs)
    OBVIOUS
  <1>4. ps \subseteq LiveHandles(peers) /\ peers' = FreeAll(peers, ps)
    BY <1>3 DEF Riding, Teardown
  <1>5. Ages(peers, FreeAll(peers, ps), n)
    BY <1>2, <1>4, AgesFreeAll
  <1> QED
    BY <1>1, <1>4, <1>5 DEF PeersAge

LEMMA PeersAgeNext ==
    ASSUME CoreInv, BornInv, [Next]_vars
    PROVE  PeersAge
  <1>1. CASE UNCHANGED <<peers, conns>>
    BY <1>1, PeersAgeSame
  <1>2. CASE UNCHANGED shimVars
    BY <1>1, <1>2 DEF shimVars, tables, bounds
  <1>3. CASE AppCall
    <2>1. Calls
      BY <1>3 DEF AppCall
    <2>2. CASE Initialize \/ HostCreate
      BY <1>1, <2>2 DEF Initialize, HostCreate, bounds
    <2>3. CASE Deinitialize
      <3>1. conns' = conns
        BY <2>3 DEF Deinitialize, bounds
      <3>2. CASE inits = 1
        BY <2>3, <3>1, <3>2, PeersAgeTeardown DEF Deinitialize
      <3>3. CASE inits # 1
        BY <1>1, <2>3, <3>1, <3>3 DEF Deinitialize
      <3> QED
        BY <3>2, <3>3
    <2>4. ASSUME NEW h, HostDestroy(h) PROVE PeersAge
      BY <2>4, PeersAgeTeardown DEF HostDestroy, bounds
    <2>5. ASSUME NEW h, Connect(h) PROVE PeersAge
      <3>1. PICK i : i = Get(hosts, h).id
        OBVIOUS
      <3>2. CanAlloc(peers) /\ conns' = conns + 1 /\ IsLive(hosts, h)
            /\ \E s \in PeerSlots : peers' = Alloc(peers, [id |-> i, slot |-> s, host |-> h])
        BY <2>5, <3>1 DEF Connect
      <3>3. PICK s \in PeerSlots : peers' = Alloc(peers, [id |-> i, slot |-> s, host |-> h])
        BY <3>2
      <3>4. i \in HostIds /\ h \in Handles
        BY <3>1, <3>2, HostFacts, StashTyped DEF CoreInv
      <3>5. PICK o : o = [id |-> i, slot |-> s, host |-> h]
        OBVIOUS
      <3>6. o \in PeerObjects
        BY <3>4, <3>5 DEF PeerObjects
      <3> QED
        BY <3>2, <3>3, <3>5, <3>6, PeersAgeAlloc
    <2>6. ASSUME NEW p, Disconnect(p) PROVE PeersAge
      <3>1. conns' = conns /\ (peers' = Free(peers, p) \/ peers' = peers)
        BY <2>6 DEF Disconnect, RetireAs, bounds
      <3> QED
        BY <1>1, <3>1, PeersAgeFree
    <2>7. ASSUME NEW p, Abort(p) PROVE PeersAge
      <3>1. conns' = conns /\ peers' = Free(peers, p)
        BY <2>7 DEF Abort, RetireAs, bounds
      <3> QED
        BY <3>1, PeersAgeFree
    <2> QED
      BY <2>1, <2>2, <2>3, <2>4, <2>5, <2>6, <2>7 DEF Calls
  <1>4. CASE \/ Tick \/ EndPass \/ UNCHANGED vars
             \/ \E h : StartPolling(h) \/ \E hs : StopPolling(hs)
    BY <1>2, <1>4 DEF Tick, EndPass, vars, StartPolling, StopPolling
  <1>5. CASE Dispatch
    BY <1>1, <1>5 DEF Dispatch, tables, bounds
  <1>6. CASE PollNext \/ PollGrow \/ PollReturn
    BY <1>1, <1>6 DEF PollNext, PollGrow, PollReturn, PollBegin, tables, bounds
  <1>7. ASSUME NEW i \in HostIds, NEW s \in PeerSlots, EnetEvent(i, s) \/ EnetEnds(i, s)
        PROVE  PeersAge
    <2>1. CASE ServiceConnect(i, s)
      <3>1. CASE UNCHANGED <<peers, conns>>
        BY <3>1, PeersAgeSame
      <3>2. CASE conns' = conns + 1 /\ peers' = Alloc(peers, [id |-> i, slot |-> s, host |-> poll.host])
        <4>1. PICK o : o = [id |-> i, slot |-> s, host |-> poll.host]
          OBVIOUS
        <4>2. poll.host \in Handles
          BY <2>1, HostFacts DEF ServiceConnect, Pumped, CoreInv, RestInv
        <4>3. o \in PeerObjects
          BY <4>1, <4>2 DEF PeerObjects
        <4>4. CASE CanAlloc(peers)
          BY <3>2, <4>1, <4>3, <4>4, PeersAgeAlloc
        <4>5. CASE ~CanAlloc(peers)
          <5>1. peers' = peers
            BY <3>2, <4>5 DEF Alloc
          <5> QED
            BY <3>2, <5>1, PeersAgeSameOneMore
        <4> QED
          BY <4>4, <4>5
      <3> QED
        BY <2>1, <3>1, <3>2 DEF ServiceConnect
    <2>2. ASSUME NEW n \in Sizes, ServiceReceive(i, s, n) PROVE PeersAge
      BY <1>1, <2>2 DEF ServiceReceive
    <2>3. CASE ServiceDisconnect(i, s)
      <3>1. PICK p : p = enet[i][s].data
        OBVIOUS
      <3>2. conns' = conns /\ peers' = Free(peers, p)
        BY <2>3, <3>1 DEF ServiceDisconnect, RetireAs, ToRetire
      <3> QED
        BY <3>2, PeersAgeFree
    <2>4. CASE PeerLeaves(i, s)
      BY <1>1, <2>4 DEF PeerLeaves, bounds
    <2> QED
      BY <1>7, <2>1, <2>2, <2>3, <2>4 DEF EnetEvent, EnetEnds
  <1>8. ASSUME NEW h, StartPolling(h) \/ StopPolling({h}) PROVE PeersAge
    BY <1>4, <1>8
  <1> QED
    BY <1>3, <1>4, <1>5, <1>6, <1>7, <1>8 DEF Next, PumpStep

\* ------------------------------------------------------------ events pending

\* Given up by ENet and not heard yet.
Pending(e) == \E h : \E k \in DOMAIN Queue(h) : Queue(h)[k] = e

LEMMA PendingFacts ==
    ASSUME NumberInv
    PROVE  /\ \A e : Pending(e) => e \in Events
           /\ \A e, f : Pending(e) /\ Pending(f) /\ e.host = f.host /\ e.no = f.no => e = f
  <1>0. LineInv /\ CountInv
    BY DEF NumberInv
  <1>1. \A e : Pending(e) => e \in Events
    BY <1>0, QueueFacts DEF Pending
  <1>2. ASSUME NEW e, NEW f, Pending(e), Pending(f), e.host = f.host, e.no = f.no
        PROVE  e = f
    <2>1. PICK g : \E j \in DOMAIN Queue(g) : Queue(g)[j] = e
      BY <1>2 DEF Pending
    <2>2. PICK j \in DOMAIN Queue(g) : Queue(g)[j] = e
      BY <2>1
    <2>3. PICK h : \E k \in DOMAIN Queue(h) : Queue(h)[k] = f
      BY <1>2 DEF Pending
    <2>4. PICK k \in DOMAIN Queue(h) : Queue(h)[k] = f
      BY <2>3
    <2>5. e.host = g /\ e.no = heard[g] + j /\ f.host = h /\ f.no = heard[h] + k
      BY <1>0, <2>2, <2>4 DEF CountInv
    <2>6. g = h /\ g \in Handles /\ j \in Nat /\ k \in Nat
      <3>1. j \in Nat /\ k \in Nat
        BY <1>0, <2>2, <2>4, QueueFacts
      <3>2. e \in Events
        BY <1>1, <1>2
      <3>3. e.host \in Handles
        BY <3>2 DEF Events
      <3> QED
        BY <1>2, <2>5, <3>1, <3>3
    <2>7. PICK x : x = heard[g]
      OBVIOUS
    <2>8. x \in Nat
      BY <1>0, <2>6, <2>7 DEF CountInv
    <2>9. j = k
      <3>1. x + j = x + k
        BY <1>2, <2>5, <2>6, <2>7
      <3> QED
        BY <2>6, <2>8, <3>1
    <2> QED
      BY <2>2, <2>4, <2>6, <2>9
  <1> QED
    BY <1>1, <1>2

LEMMA PendingSame ==
    ASSUME QueuesSame
    PROVE  \A e : Pending(e)' <=> Pending(e)
  BY DEF QueuesSame, Pending

\* One more event is pending, and it is the last of its host.
PendsLast(e) ==
    /\ \A f : Pending(f)' <=> Pending(f) \/ f = e
    /\ \A f : Pending(f) /\ f.host = e.host => f.no < e.no

LEMMA PendingGives ==
    ASSUME NumberInv, NEW g, g = poll.host, Get(hosts, g) # Null, NEW e, GivesUp(e), QueueGets(g, e)
    PROVE  PendsLast(e)
  <1>0. LineInv /\ CountInv /\ e.host = g /\ e.no = serviced[g] + 1 /\ e \in Events /\ g \in Handles
    BY HostFacts DEF NumberInv, GivesUp, LineInv, CoreInv
  <1>1. PICK q : q = Queue(g)
    OBVIOUS
  <1>2. PICK r : r = Append(q, e)
    OBVIOUS
  <1>3. q \in Seq(Events) /\ \A h : Queue(h)' = IF h = g THEN r ELSE Queue(h)
    BY <1>0, <1>1, <1>2, QueueTyped DEF QueueGets
  <1>4. /\ DOMAIN r = 1 .. Len(q) + 1 /\ Len(q) \in Nat /\ DOMAIN q = 1 .. Len(q)
        /\ \A k \in DOMAIN r : (k \in DOMAIN q /\ r[k] = q[k]) \/ (k = Len(q) + 1 /\ r[k] = e)
        /\ \A k \in DOMAIN q : r[k] = q[k]
        /\ r[Len(q) + 1] = e
    BY <1>0, <1>2, <1>3, AppendFacts
  <1>5. ASSUME NEW f PROVE Pending(f)' <=> Pending(f) \/ f = e
    <2>1. ASSUME NEW h PROVE (\E k \in DOMAIN Queue(h)' : Queue(h)'[k] = f) <=>
                             (\E k \in DOMAIN Queue(h) : Queue(h)[k] = f) \/ (h = g /\ f = e)
      <3>1. CASE h # g
        BY <1>3, <3>1
      <3>2. CASE h = g
        <4>1. Len(q) + 1 \in DOMAIN r /\ DOMAIN q \subseteq DOMAIN r
          BY <1>4
        <4>2. (\E k \in DOMAIN r : r[k] = f) <=> (\E k \in DOMAIN q : q[k] = f) \/ f = e
          BY <1>4, <4>1
        <4> QED
          BY <1>1, <1>3, <3>2, <4>2
      <3> QED
        BY <3>1, <3>2
    <2> QED
      BY <2>1 DEF Pending
  <1>6. ASSUME NEW f, Pending(f), f.host = e.host
        PROVE  f.no < e.no
    <2>1. PICK h : \E k \in DOMAIN Queue(h) : Queue(h)[k] = f
      BY <1>6 DEF Pending
    <2>2. PICK k \in DOMAIN Queue(h) : Queue(h)[k] = f
      BY <2>1
    <2>3. h = g /\ f.no = heard[g] + k
      BY <1>0, <1>6, <2>2 DEF CountInv
    <2>4. k \in Nat /\ k <= Len(q) /\ Len(q) \in Nat
      BY <1>1, <1>4, <2>2, <2>3
    <2>5. PICK x : x = heard[g]
      OBVIOUS
    <2>6. PICK y : y = serviced[g]
      OBVIOUS
    <2>7. x \in Nat /\ x + Len(q) = y
      BY <1>0, <1>1, <2>5, <2>6 DEF CountInv
    <2>8. f.no = x + k /\ e.no = y + 1
      BY <1>0, <2>3, <2>5, <2>6
    <2> QED
      BY <2>4, <2>7, <2>8
  <1> QED
    BY <1>5, <1>6 DEF PendsLast

\* An event is pending no more, and it was the first of its host.
PendsFirst(e) ==
    /\ Pending(e)
    /\ \A f : Pending(f)' <=> Pending(f) /\ f # e
    /\ \A f : Pending(f) /\ f.host = e.host /\ f # e => e.no < f.no

LEMMA PendingHears ==
    ASSUME NumberInv, NEW g, NEW e \in Events, g = e.host, QueueGives(g, e)
    PROVE  PendsFirst(e)
  <1>0. LineInv /\ CountInv /\ g \in Handles
    BY DEF NumberInv, Events
  <1>1. PICK q : q = Queue(g)
    OBVIOUS
  <1>2. PICK r : r = Tail(q)
    OBVIOUS
  <1>3. q \in Seq(Events) /\ q # << >> /\ Head(q) = e
        /\ \A h : Queue(h)' = IF h = g THEN r ELSE Queue(h)
    BY <1>0, <1>1, <1>2, QueueTyped DEF QueueGives
  <1>4. /\ e = q[1] /\ 1 \in DOMAIN q
        /\ \A k \in DOMAIN r : k \in Nat /\ k + 1 \in DOMAIN q /\ r[k] = q[k + 1]
        /\ \A k \in DOMAIN q : k = 1 \/ \E j \in DOMAIN r : k = j + 1
    BY <1>2, <1>3, TailFacts
  <1>5. PICK x : x = heard[g]
    OBVIOUS
  <1>6. x \in Nat /\ \A k \in DOMAIN q : q[k].host = g /\ q[k].no = x + k
    BY <1>0, <1>1, <1>5 DEF CountInv
  <1>7. e.no = x + 1 /\ \A k \in DOMAIN r : r[k] # e
    <2>1. ASSUME NEW k \in DOMAIN r PROVE r[k] # e
      <3>1. r[k].no = x + (k + 1) /\ k \in Nat
        BY <1>4, <1>6
      <3>2. k # 0
        BY <1>2, <1>3
      <3> QED
        BY <1>4, <1>6, <3>1, <3>2
    <2> QED
      BY <1>4, <1>6, <2>1
  <1>8. (\E k \in DOMAIN q : q[k] = e) /\ \A f : (\E k \in DOMAIN r : r[k] = f) <=> (\E k \in DOMAIN q : q[k] = f) /\ f # e
    BY <1>4, <1>7
  <1>9. \A h : \A k \in DOMAIN Queue(h) : Queue(h)[k].host = h
    BY <1>0 DEF CountInv
  <1>10. ASSUME NEW f PROVE Pending(f)' <=> Pending(f) /\ f # e
    <2>1. ASSUME NEW h PROVE (\E k \in DOMAIN Queue(h)' : Queue(h)'[k] = f) <=>
                             (\E k \in DOMAIN Queue(h) : Queue(h)[k] = f) /\ f # e
      <3>1. CASE h # g
        BY <1>3, <1>9, <3>1
      <3>2. CASE h = g
        BY <1>1, <1>3, <1>8, <3>2
      <3> QED
        BY <3>1, <3>2
    <2> QED
      BY <2>1 DEF Pending
  <1>11. Pending(e)
    BY <1>1, <1>8 DEF Pending
  <1>12. ASSUME NEW f, Pending(f), f.host = e.host, f # e
         PROVE  e.no < f.no
    <2>1. PICK h : \E k \in DOMAIN Queue(h) : Queue(h)[k] = f
      BY <1>12 DEF Pending
    <2>2. PICK k \in DOMAIN Queue(h) : Queue(h)[k] = f
      BY <2>1
    <2>3. h = g
      BY <1>9, <1>12, <2>2
    <2>4. k \in DOMAIN q /\ q[k] = f
      BY <1>1, <2>2, <2>3
    <2>5. k # 1
      BY <1>4, <1>12, <2>4
    <2>6. PICK j \in DOMAIN r : k = j + 1
      BY <1>4, <2>4, <2>5
    <2>7. j \in Nat /\ j # 0
      BY <1>2, <1>3, <1>4
    <2> QED
      BY <1>6, <1>7, <2>4, <2>6, <2>7
  <1> QED
    BY <1>10, <1>11, <1>12 DEF PendsFirst

\* Events of destroyed hosts are lost from the end, and their peers silenced.
PendsCut(hs) ==
    /\ \A f : Pending(f)' => Pending(f)
    /\ \A f : Pending(f) /\ ~Pending(f)' => f.host \in hs /\ (f.peer \in gone')
    /\ \A e, f : Pending(f) /\ Pending(e)' /\ f.host = e.host /\ f.no < e.no => Pending(f)'

LEMMA PendingCut ==
    ASSUME NumberInv, poll.pc = "off", NEW hs, hs \subseteq LiveHandles(hosts), Teardown(hs), QueuesCut(hs),
           UNCHANGED <<poll, list>>
    PROVE  PendsCut(hs)
  <1>0. LineInv /\ CountInv /\ CoreInv
    BY DEF NumberInv, LineInv
  <1>1. \A f : Pending(f)' => Pending(f)
    <2> SUFFICES ASSUME NEW f, Pending(f)'
                 PROVE  Pending(f)
      OBVIOUS
    <2>1. PICK h : \E k \in DOMAIN Queue(h)' : Queue(h)'[k] = f
      BY DEF Pending
    <2>2. \E k \in DOMAIN Queue(h) : Queue(h)[k] = f
      <3>1. CASE h \in hs
        BY <2>1, <3>1 DEF QueuesCut
      <3>2. CASE h \notin hs
        BY <2>1, <3>2 DEF QueuesCut
      <3> QED
        BY <3>1, <3>2
    <2> QED
      BY <2>2 DEF Pending
  <1>2. ASSUME NEW f, Pending(f), ~Pending(f)'
        PROVE  f.host \in hs /\ (f.peer \in gone')
    <2>1. PICK h : \E k \in DOMAIN Queue(h) : Queue(h)[k] = f
      BY <1>2 DEF Pending
    <2>2. PICK k \in DOMAIN Queue(h) : Queue(h)[k] = f
      BY <2>1
    <2>3. h \in hs
      BY <1>2, <2>2 DEF QueuesCut, Pending
    <2>4. f.host = h
      BY <1>0, <2>2 DEF CountInv
    <2>5. PICK a : a = Of(list, h)
      OBVIOUS
    <2>6. PICK b : b = Stash(h)
      OBVIOUS
    <2>7. a \in Seq(Events) /\ b \in Seq(Events)
      <3>1. list \in Seq(Events)
        BY <1>0 DEF CoreInv, RestInv
      <3> QED
        BY <1>0, <2>5, <2>6, <3>1, OfTyped, StashFacts
    <2>8. Queue(h) = a \o b
      BY <2>5, <2>6 DEF Queue, Line
    <2>9. Queue(h)' = a
      <3>1. Get(hosts', h) = Null
        BY <1>0, <2>3, TeardownTables DEF HostsFreed
      <3>2. Stash(h)' = << >>
        BY <3>1 DEF Stash
      <3>3. Line' = list
        BY DEF Line
      <3> QED
        BY <2>5, <2>7, <3>2, <3>3, JoinNone DEF Queue
    <2>10. ~(\E j \in DOMAIN a : a[j] = f)
      BY <1>2, <2>9 DEF Pending
    <2>11. \E j \in DOMAIN b : b[j] = f
      <3>1. Joins(a \o b, a, b)
        BY <2>7, ConcatFacts
      <3>2. PICK c : c = a \o b
        OBVIOUS
      <3>3. k \in DOMAIN c /\ c[k] = f /\ Joins(c, a, b)
        BY <2>2, <2>8, <3>1, <3>2
      <3>4. k \in 1 .. Len(a) \/ \E x \in 1 .. Len(b) : k = Len(a) + x
        BY <3>3 DEF Joins
      <3>5. CASE k \in 1 .. Len(a)
        BY <2>10, <3>3, <3>5 DEF Joins
      <3>6. ASSUME NEW x \in 1 .. Len(b), k = Len(a) + x
            PROVE  \E j \in DOMAIN b : b[j] = f
        BY <3>3, <3>6 DEF Joins
      <3> QED
        BY <3>4, <3>5, <3>6
    <2>12. b = Get(hosts, h).stash
      BY <1>0, <2>3, <2>6, HostFacts DEF Stash, CoreInv
    <2>13. f.peer \in StashedOf(h)
      BY <2>11, <2>12 DEF StashedOf
    <2>14. f.peer \in gone'
      BY <2>3, <2>13 DEF Teardown
    <2> QED
      BY <2>3, <2>4, <2>14
  <1>3. ASSUME NEW e, NEW f, Pending(f), Pending(e)', f.host = e.host, f.no < e.no
        PROVE  Pending(f)'
    <2>1. PICK h : \E k \in DOMAIN Queue(h)' : Queue(h)'[k] = e
      BY <1>3 DEF Pending
    <2>2. PICK k \in DOMAIN Queue(h)' : Queue(h)'[k] = e
      BY <2>1
    <2>3. k \in DOMAIN Queue(h) /\ Queue(h)[k] = e
      <3>1. CASE h \in hs
        BY <2>2, <3>1 DEF QueuesCut
      <3>2. CASE h \notin hs
        BY <2>2, <3>2 DEF QueuesCut
      <3> QED
        BY <3>1, <3>2
    <2>4. PICK g : \E j \in DOMAIN Queue(g) : Queue(g)[j] = f
      BY <1>3 DEF Pending
    <2>5. PICK j \in DOMAIN Queue(g) : Queue(g)[j] = f
      BY <2>4
    <2>6. e.host = h /\ e.no = heard[h] + k /\ f.host = g /\ f.no = heard[g] + j
      BY <1>0, <2>3, <2>5 DEF CountInv
    <2>7. g = h
      BY <1>3, <2>6
    <2>8. CASE h \notin hs
      BY <2>5, <2>7, <2>8 DEF QueuesCut, Pending
    <2>9. CASE h \in hs
      <3>1. PICK x : x = heard[h]
        OBVIOUS
      <3>2. h \in Handles
        BY <1>0, <2>9, HostFacts DEF CoreInv
      <3>3. x \in Nat /\ j \in Nat /\ k \in Nat /\ j # 0
        BY <1>0, <2>3, <2>5, <2>7, <3>1, <3>2, QueueFacts DEF CountInv
      <3>4. j < k
        BY <1>3, <2>6, <2>7, <3>1, <3>3
      <3>5. PICK q : q = Queue(h)'
        OBVIOUS
      <3>6. q \in Seq(Events) /\ k \in DOMAIN q
        BY <2>2, <2>9, <3>5 DEF QueuesCut
      <3>7. j \in DOMAIN q
        BY <3>3, <3>4, <3>6
      <3>8. Queue(h)'[j] = f
        BY <2>5, <2>7, <2>9, <3>5, <3>7 DEF QueuesCut
      <3> QED
        BY <3>5, <3>7, <3>8 DEF Pending
    <2> QED
      BY <2>8, <2>9
  <1> QED
    BY <1>1, <1>2, <1>3 DEF PendsCut

\* ---------------------------------------------------------- one sound story

Types == {"BORN", "CONNECT", "RECEIVE", "ERROR", "DISCONNECT"}

\* What the app may be told of one peer.
Sound(s) ==
    /\ s # << >> => s[1] \in {"BORN", "CONNECT"}
    /\ \A k \in DOMAIN s :
         /\ s[k] = "BORN" => k = 1
         /\ s[k] = "CONNECT" => k = 1 \/ (k = 2 /\ s[1] = "BORN")
         /\ s[k] \in {"RECEIVE", "ERROR"} => \E j \in 1 .. k - 1 : s[j] = "CONNECT"
         /\ s[k] = "DISCONNECT" => k = Len(s)

Has(s, type) == \E k \in DOMAIN s : s[k] = type

\* What may be told next.
Fits(s, type) ==
    /\ type = "BORN" => s = << >>
    /\ type = "CONNECT" => s = << >> \/ s = <<"BORN">>
    /\ type \in {"RECEIVE", "ERROR"} => Has(s, "CONNECT")
    /\ type = "DISCONNECT" => s # << >>

LEMMA HasGrows ==
    ASSUME NEW s \in Seq(Types), NEW type \in Types, NEW u
    PROVE  /\ Has(Append(s, type), u) <=> Has(s, u) \/ u = type
           /\ Append(s, type) # << >>
  <1>1. PICK r : r = Append(s, type)
    OBVIOUS
  <1>2. /\ DOMAIN r = 1 .. Len(s) + 1 /\ Len(s) \in Nat /\ DOMAIN s = 1 .. Len(s)
        /\ \A k \in DOMAIN r : (k \in DOMAIN s /\ r[k] = s[k]) \/ (k = Len(s) + 1 /\ r[k] = type)
        /\ \A k \in DOMAIN s : r[k] = s[k]
        /\ r[Len(s) + 1] = type /\ r # << >>
    BY <1>1, AppendFacts
  <1>3. Len(s) + 1 \in DOMAIN r /\ DOMAIN s \subseteq DOMAIN r
    BY <1>2
  <1>4. Has(r, u) <=> Has(s, u) \/ u = type
    BY <1>2, <1>3 DEF Has
  <1> QED
    BY <1>1, <1>2, <1>4

LEMMA SoundGrows ==
    ASSUME NEW s \in Seq(Types), NEW type \in Types, Sound(s), ~Has(s, "DISCONNECT"), Fits(s, type)
    PROVE  Sound(Append(s, type))
  <1>1. PICK r : r = Append(s, type)
    OBVIOUS
  <1>2. /\ DOMAIN r = 1 .. Len(s) + 1 /\ Len(s) \in Nat /\ DOMAIN s = 1 .. Len(s)
        /\ \A k \in DOMAIN r : (k \in DOMAIN s /\ r[k] = s[k]) \/ (k = Len(s) + 1 /\ r[k] = type)
        /\ \A k \in DOMAIN s : r[k] = s[k]
        /\ Len(r) = Len(s) + 1 /\ r # << >>
    BY <1>1, AppendFacts
  <1>3. s = << >> <=> Len(s) = 0
    OBVIOUS
  <1>4. s = <<"BORN">> => Len(s) = 1 /\ s[1] = "BORN"
    OBVIOUS
  <1>5. r[1] = IF s = << >> THEN type ELSE s[1]
    BY <1>2, <1>3
  <1>6. r[1] \in {"BORN", "CONNECT"}
    <2>1. CASE s # << >>
      BY <1>5, <2>1 DEF Sound
    <2>2. CASE s = << >>
      <3>1. ~Has(s, "CONNECT")
        BY <1>2, <1>3, <2>2 DEF Has
      <3>2. type \in {"BORN", "CONNECT"}
        BY <2>2, <3>1 DEF Fits, Types
      <3> QED
        BY <1>5, <2>2, <3>2
    <2> QED
      BY <2>1, <2>2
  <1>7. ASSUME NEW k \in DOMAIN r
        PROVE  /\ r[k] = "BORN" => k = 1
               /\ r[k] = "CONNECT" => k = 1 \/ (k = 2 /\ r[1] = "BORN")
               /\ r[k] \in {"RECEIVE", "ERROR"} => \E j \in 1 .. k - 1 : r[j] = "CONNECT"
               /\ r[k] = "DISCONNECT" => k = Len(r)
    <2>1. CASE k \in DOMAIN s /\ r[k] = s[k]
      <3>1. s # << >> /\ r[1] = s[1] /\ k <= Len(s) /\ k \in Nat
        BY <1>2, <1>3, <1>5, <2>1
      <3>2. /\ s[k] = "BORN" => k = 1
            /\ s[k] = "CONNECT" => k = 1 \/ (k = 2 /\ s[1] = "BORN")
            /\ s[k] \in {"RECEIVE", "ERROR"} => \E j \in 1 .. k - 1 : s[j] = "CONNECT"
            /\ s[k] # "DISCONNECT"
        BY <2>1 DEF Sound, Has
      <3>3. \A j \in 1 .. k - 1 : r[j] = s[j]
        BY <1>2, <3>1
      <3> QED
        BY <2>1, <3>1, <3>2, <3>3
    <2>2. CASE k = Len(s) + 1 /\ r[k] = type
      <3>1. type = "BORN" => k = 1
        BY <1>3, <2>2 DEF Fits
      <3>2. type = "CONNECT" => k = 1 \/ (k = 2 /\ r[1] = "BORN")
        <4>1. CASE s = << >>
          BY <1>3, <2>2, <4>1
        <4>2. CASE s = <<"BORN">>
          <5>1. s # << >> /\ Len(s) = 1 /\ s[1] = "BORN"
            BY <1>3, <1>4, <4>2
          <5> QED
            BY <1>5, <2>2, <5>1
        <4> QED
          BY <4>1, <4>2 DEF Fits
      <3>3. type \in {"RECEIVE", "ERROR"} => \E j \in 1 .. k - 1 : r[j] = "CONNECT"
        <4>1. k - 1 = Len(s)
          BY <1>2, <2>2
        <4> QED
          BY <1>2, <4>1 DEF Fits, Has
      <3> QED
        BY <1>2, <2>2, <3>1, <3>2, <3>3
    <2> QED
      BY <1>2, <2>1, <2>2
  <1>8. Sound(r)
    BY <1>6, <1>7 DEF Sound
  <1> QED
    BY <1>1, <1>8

Told(p, type) == Has(story[p], type)

Coming(p, type) == \E e : Pending(e) /\ e.peer = p /\ e.type = type

Mentioned(p) == \E e : Pending(e) /\ e.peer = p

State(p) == enet[Get(peers, p).id][Get(peers, p).slot].st

\* A pending event is of a handle given out, in the queue of its host, and may
\* be told when its turn comes.
EventOK(e) ==
    /\ Issued(peers, e.peer)
    /\ Get(peers, e.peer) # Null => Get(peers, e.peer).host = e.host
    /\ ~Told(e.peer, "DISCONNECT")
    /\ e.type = "CONNECT" => story[e.peer] = << >> \/ story[e.peer] = <<"BORN">>
    /\ e.type # "CONNECT" =>
         \/ Told(e.peer, "CONNECT")
         \/ e.type = "DISCONNECT" /\ story[e.peer] # << >>
         \/ \E f : Pending(f) /\ f.peer = e.peer /\ f.type = "CONNECT" /\ f.no < e.no
    /\ e.type = "DISCONNECT" => Get(peers, e.peer) = Null

\* No event of a peer is before its connect or after its disconnect.
PairOK(e, f) ==
    e.host = f.host /\ (e.no < f.no => f.type # "CONNECT" /\ e.type # "DISCONNECT")

LiveOK(p) ==
    Get(peers, p) # Null =>
        /\ ~Told(p, "DISCONNECT")
        /\ State(p) = "connecting" => story[p] = <<"BORN">> /\ ~Mentioned(p)
        /\ State(p) = "connected" => Told(p, "CONNECT") \/ Coming(p, "CONNECT")
        /\ story[p] # << >> \/ Coming(p, "CONNECT")

DeadOK(p) ==
    /\ story[p] # << >> => Issued(peers, p)
    /\ Get(peers, p) = Null /\ p \notin gone /\ (story[p] # << >> \/ Mentioned(p)) =>
          Told(p, "DISCONNECT") \/ Coming(p, "DISCONNECT")

TaleOf(p) ==
    /\ LiveOK(p) /\ DeadOK(p) /\ Sound(story[p])
    /\ \A e : Pending(e) /\ e.peer = p => EventOK(e)
    /\ \A e, f : Pending(e) /\ Pending(f) /\ e.peer = p /\ f.peer = p => PairOK(e, f)

TalesInv == story \in [Handles -> Seq(Types)] /\ \A p \in Handles : TaleOf(p)

StoryInv == NumberInv /\ BornInv /\ TalesInv

\* A peer the step leaves alone, or only moves towards its end.
Untouched(p) ==
    /\ Get(peers', p) = Get(peers, p)
    /\ Get(peers, p) # Null => State(p)' = State(p) \/ State(p)' \in {"disconnecting", "leaving"}
    /\ story'[p] = story[p]
    /\ p \in gone => p \in gone'
    /\ \A e : e.peer = p => (Pending(e)' <=> Pending(e))
    /\ Issued(peers, p) => Issued(peers', p)

LEMMA TaleKeeps ==
    ASSUME NEW p, TaleOf(p), Untouched(p)
    PROVE  TaleOf(p)'
  <1>1. \A type : Told(p, type)' <=> Told(p, type)
    BY DEF Told, Untouched
  <1>2. \A type : Coming(p, type)' <=> Coming(p, type)
    BY DEF Coming, Untouched
  <1>3. Mentioned(p)' <=> Mentioned(p)
    BY DEF Mentioned, Untouched
  <1>4. LiveOK(p)'
    BY <1>1, <1>2, <1>3 DEF TaleOf, LiveOK, Untouched
  <1>5. DeadOK(p)'
    BY <1>1, <1>2, <1>3 DEF TaleOf, DeadOK, Untouched
  <1>6. Sound(story[p])'
    BY DEF TaleOf, Untouched
  <1>7. ASSUME NEW e, Pending(e)', e.peer = p
        PROVE  EventOK(e)'
    <2>1. EventOK(e)
      BY <1>7 DEF TaleOf, Untouched
    <2>2. e.type # "CONNECT" =>
         \/ Told(p, "CONNECT")'
         \/ e.type = "DISCONNECT" /\ story'[p] # << >>
         \/ \E f : Pending(f)' /\ f.peer = p /\ f.type = "CONNECT" /\ f.no < e.no
      BY <1>1, <1>7, <2>1 DEF EventOK, Untouched
    <2>3. ~Told(p, "DISCONNECT")'
      BY <1>1, <1>7, <2>1 DEF EventOK
    <2> QED
      BY <1>7, <2>1, <2>2, <2>3 DEF EventOK, Untouched
  <1>8. \A e, f : Pending(e)' /\ Pending(f)' /\ e.peer = p /\ f.peer = p => PairOK(e, f)
    BY DEF TaleOf, Untouched
  <1> QED
    BY <1>4, <1>5, <1>6, <1>7, <1>8 DEF TaleOf, PairOK

LEMMA TellFacts ==
    ASSUME story \in [Handles -> Seq(Types)], NEW p \in Handles \cup {NoHandle}, NEW type \in Types,
           Tell(p, type)
    PROVE  /\ story' \in [Handles -> Seq(Types)]
           /\ \A q \in Handles : q # p => story'[q] = story[q]
           /\ p \in Handles => story'[p] = Append(story[p], type) /\ story[p] \in Seq(Types)
  <1>1. CASE p = NoHandle
    BY <1>1, NoHandleNotOne DEF Tell
  <1>2. CASE p \in Handles
    <2>1. story' = [story EXCEPT ![p] = Append(story[p], type)]
      BY <1>2, NoHandleNotOne DEF Tell
    <2>2. story[p] \in Seq(Types)
      BY <1>2
    <2>3. Append(story[p], type) \in Seq(Types)
      BY <2>2
    <2> QED
      BY <1>2, <2>1, <2>2, <2>3
  <1> QED
    BY <1>1, <1>2

\* The app is told of the first event pending.
LEMMA TaleHears ==
    ASSUME TalesInv, NEW e \in Events, PendsFirst(e), Tell(e.peer, e.type), UNCHANGED <<peers, enet, gone>>
    PROVE  TalesInv'
  <1>1. PICK p : p = e.peer
    OBVIOUS
  <1>2. PICK type : type = e.type
    OBVIOUS
  <1>3. p \in Handles \cup {NoHandle} /\ type \in {"CONNECT", "RECEIVE", "ERROR", "DISCONNECT"}
    BY <1>1, <1>2 DEF Events
  <1>4. type \in Types
    BY <1>3 DEF Types
  <1>5. /\ story' \in [Handles -> Seq(Types)]
        /\ \A q \in Handles : q # p => story'[q] = story[q]
        /\ p \in Handles => story'[p] = Append(story[p], type) /\ story[p] \in Seq(Types)
    BY <1>1, <1>2, <1>3, <1>4, TellFacts DEF TalesInv
  <1>6. \A q : Get(peers', q) = Get(peers, q) /\ State(q)' = State(q) /\ (Issued(peers', q) <=> Issued(peers, q))
    BY DEF State
  <1>7. ASSUME NEW q \in Handles, q # p
        PROVE  TaleOf(q)'
    <2>1. \A f : f.peer = q => (Pending(f)' <=> Pending(f))
      BY <1>1, <1>7 DEF PendsFirst
    <2>2. Untouched(q)
      BY <1>5, <1>6, <1>7, <2>1 DEF Untouched
    <2> QED
      BY <1>7, <2>2, TaleKeeps DEF TalesInv
  <1>8. ASSUME p \in Handles
        PROVE  TaleOf(p)'
    <2>0. TaleOf(p) /\ Pending(e)
      BY <1>8 DEF TalesInv, PendsFirst
    <2>1. EventOK(e)
      BY <1>1, <2>0 DEF TaleOf
    <2>2. \A f : Pending(f)' <=> Pending(f) /\ f # e
      BY DEF PendsFirst
    <2>3. \A f : Pending(f)' /\ f.peer = p => f.host = e.host /\ f.type # "CONNECT" /\ e.type # "DISCONNECT"
                                              /\ Pending(f) /\ EventOK(f)
      <3> SUFFICES ASSUME NEW f, Pending(f)', f.peer = p
                   PROVE  f.host = e.host /\ f.type # "CONNECT" /\ e.type # "DISCONNECT"
                          /\ Pending(f) /\ EventOK(f)
        OBVIOUS
      <3>1. Pending(f) /\ f # e
        BY <2>2
      <3>2. EventOK(f) /\ PairOK(e, f)
        BY <1>1, <2>0, <3>1 DEF TaleOf
      <3>3. e.host = f.host
        BY <3>2 DEF PairOK
      <3>4. e.no < f.no
        BY <3>1, <3>3 DEF PendsFirst
      <3> QED
        BY <3>1, <3>2, <3>3, <3>4 DEF PairOK
    <2>4. ~Told(p, "DISCONNECT")
      BY <1>1, <2>1 DEF EventOK
    <2>5. Fits(story[p], type)
      <3>1. type = "CONNECT" => story[p] = << >> \/ story[p] = <<"BORN">>
        BY <1>1, <1>2, <2>1 DEF EventOK
      <3>2. type # "CONNECT" => Told(p, "CONNECT") \/ (type = "DISCONNECT" /\ story[p] # << >>)
        <4> SUFFICES ASSUME type # "CONNECT", NEW f, Pending(f), f.peer = p, f.type = "CONNECT", f.no < e.no
                     PROVE  FALSE
          BY <1>1, <1>2, <2>1 DEF EventOK
        <4>1. f # e
          BY <1>2
        <4>2. Pending(f)'
          BY <2>2, <4>1
        <4> QED
          BY <2>3, <4>2
      <3>3. Told(p, "CONNECT") => story[p] # << >>
        <4>1. DOMAIN << >> = {}
          OBVIOUS
        <4> QED
          BY <4>1 DEF Told, Has
      <3> QED
        BY <1>3, <3>1, <3>2, <3>3 DEF Fits, Told
    <2>6. Sound(story'[p])
      BY <1>4, <1>5, <1>8, <2>0, <2>4, <2>5, SoundGrows DEF TaleOf, Told
    <2>7. /\ \A u : Told(p, u)' <=> Told(p, u) \/ u = type
          /\ story'[p] # << >>
      <3>1. PICK s : s = story[p]
        OBVIOUS
      <3>2. s \in Seq(Types) /\ story'[p] = Append(s, type)
        BY <1>5, <1>8, <3>1
      <3>3. (\A u : Has(Append(s, type), u) <=> Has(s, u) \/ u = type) /\ Append(s, type) # << >>
        BY <1>4, <3>2, HasGrows
      <3>4. \A u : (Told(p, u)' <=> Has(story'[p], u)) /\ (Told(p, u) <=> Has(s, u))
        BY <3>1 DEF Told, Has
      <3> QED
        BY <3>2, <3>3, <3>4
    <2>8. ASSUME Get(peers, p) # Null
          PROVE  /\ ~Told(p, "DISCONNECT")'
                 /\ State(p)' # "connecting"
                 /\ State(p)' = "connected" => Told(p, "CONNECT")' \/ Coming(p, "CONNECT")'
      <3>1. LiveOK(p)
        BY <2>0 DEF TaleOf
      <3>2. Mentioned(p)
        BY <1>1, <2>0 DEF Mentioned
      <3>3. State(p) # "connecting"
        BY <2>8, <3>1, <3>2 DEF LiveOK
      <3>4. type # "DISCONNECT"
        BY <1>1, <1>2, <2>1, <2>8 DEF EventOK
      <3>5. Coming(p, "CONNECT") => Coming(p, "CONNECT")' \/ type = "CONNECT"
        BY <1>2, <2>2 DEF Coming
      <3>6. State(p) = "connected" => Told(p, "CONNECT")' \/ Coming(p, "CONNECT")'
        BY <2>7, <2>8, <3>1, <3>5 DEF LiveOK
      <3> QED
        BY <1>6, <2>4, <2>7, <3>3, <3>4, <3>6
    <2>9. LiveOK(p)'
      BY <1>6, <2>7, <2>8 DEF LiveOK
    <2>10. DeadOK(p)'
      <3>1. Issued(peers, p)
        BY <1>1, <2>1 DEF EventOK
      <3>2. Mentioned(p) /\ DeadOK(p)
        BY <1>1, <2>0 DEF Mentioned, TaleOf
      <3>3. Coming(p, "DISCONNECT") => Coming(p, "DISCONNECT")' \/ type = "DISCONNECT"
        BY <1>2, <2>2 DEF Coming
      <3>4. Get(peers, p) = Null /\ p \notin gone => Told(p, "DISCONNECT")' \/ Coming(p, "DISCONNECT")'
        BY <2>7, <3>2, <3>3 DEF DeadOK
      <3> QED
        BY <1>6, <3>1, <3>4 DEF DeadOK
    <2>11. ASSUME NEW f, Pending(f)', f.peer = p
           PROVE  EventOK(f)'
      <3>1. f.host = e.host /\ f.type # "CONNECT" /\ e.type # "DISCONNECT" /\ EventOK(f)
        BY <2>3, <2>11
      <3>2. ~Told(p, "DISCONNECT")'
        BY <1>2, <2>4, <2>7, <3>1
      <3>3. \/ Told(p, "CONNECT")'
            \/ f.type = "DISCONNECT" /\ story'[p] # << >>
            \/ \E x : Pending(x)' /\ x.peer = p /\ x.type = "CONNECT" /\ x.no < f.no
        BY <1>2, <2>2, <2>7, <2>11, <3>1 DEF EventOK
      <3> QED
        BY <1>6, <2>11, <3>1, <3>2, <3>3 DEF EventOK
    <2>12. \A f, g : Pending(f)' /\ Pending(g)' /\ f.peer = p /\ g.peer = p => PairOK(f, g)
      BY <2>0, <2>2 DEF TaleOf
    <2> QED
      BY <2>6, <2>9, <2>10, <2>11, <2>12 DEF TaleOf, PairOK
  <1> QED
    BY <1>3, <1>5, <1>7, <1>8 DEF TalesInv

\* -------------------------------------------------- what happens to one peer

\* Nothing but the slot of p changes, and at most one event more is pending.
LEMMA SlotElsewhere ==
    ASSUME CoreInv, NEW i \in HostIds, NEW s \in PeerSlots, NEW r, SlotIs(i, s, r),
           NEW q, Get(peers, q) # Null, Get(peers', q) = Get(peers, q), q # enet[i][s].data
    PROVE  State(q)' = State(q)
  <1>1. PICK o : o = Get(peers, q)
    OBVIOUS
  <1>2. o.id \in HostIds /\ o.slot \in PeerSlots /\ enet[o.id][o.slot].data = q
    BY <1>1, PeerPlace
  <1>3. enet'[o.id][o.slot] = enet[o.id][o.slot]
    BY <1>2 DEF SlotIs
  <1> QED
    BY <1>1, <1>3 DEF State

\* A fresh handle is in no story.
LEMMA FreshUntold ==
    ASSUME TalesInv, NEW p \in Handles, ~Issued(peers, p)
    PROVE  story[p] = << >> /\ ~Mentioned(p) /\ Get(peers, p) = Null
  BY DEF TalesInv, TaleOf, DeadOK, EventOK, Mentioned, Issued

\* Of every other peer than e.peer, nothing changes but that time goes on.
LEMMA OthersKeep ==
    ASSUME CoreInv, TalesInv, PeersAge, NEW p,
           NEW i \in HostIds, NEW s \in PeerSlots, NEW r, SlotIs(i, s, r),
           enet[i][s].data \in {p, NoHandle},
           \A q \in Handles : q # p => Get(peers', q) = Get(peers, q) /\ story'[q] = story[q],
           \A q : q \in gone => q \in gone',
           \A e : e.peer # p => (Pending(e)' <=> Pending(e)),
           NEW q \in Handles, q # p
    PROVE  TaleOf(q)'
  <1>1. Get(peers', q) = Get(peers, q) /\ story'[q] = story[q]
    OBVIOUS
  <1>2. q # enet[i][s].data
    BY NoHandleNotOne
  <1>3. Get(peers, q) # Null => State(q)' = State(q)
    BY <1>1, <1>2, SlotElsewhere
  <1>4. Issued(peers, q) => Issued(peers', q)
    BY DEF PeersAge, Ages
  <1>5. Untouched(q)
    BY <1>1, <1>3, <1>4 DEF Untouched
  <1> QED
    BY <1>5, TaleKeeps DEF TalesInv

\* enConnect: a story begins.
LEMMA TaleBegins ==
    ASSUME CoreInv, TalesInv, PeersAge, QueuesSame, gone' = gone, NEW h, Connect(h)
    PROVE  TalesInv'
  <1>1. PICK i : i = Get(hosts, h).id
    OBVIOUS
  <1>2. PICK s \in PeerSlots, p \in Handles :
             /\ Get(hosts, h) # Null /\ i \in HostIds
             /\ enet[i][s].st = "disconnected"
             /\ BornIn(h, i, s, p, [id |-> i, slot |-> s, host |-> h], "connecting")
             /\ story' = [story EXCEPT ![p] = Append(@, "BORN")]
    BY <1>1, ConnectFacts
  <1>3. PICK o : o = [id |-> i, slot |-> s, host |-> h]
    OBVIOUS
  <1>4. /\ \A q : Get(peers', q) = IF q = p THEN o ELSE Get(peers, q)
        /\ Get(peers, p) = Null /\ o # Null
        /\ SlotIs(i, s, [st |-> "connecting", data |-> p])
    BY <1>2, <1>3 DEF BornIn, PeersPut
  <1>5. ~Issued(peers, p)
    BY <1>4 DEF PeersAge, Ages
  <1>6. story[p] = << >> /\ ~Mentioned(p)
    BY <1>5, FreshUntold
  <1>7. \A e : Pending(e)' <=> Pending(e)
    BY PendingSame
  <1>8. story' \in [Handles -> Seq(Types)] /\ story'[p] = <<"BORN">>
        /\ \A q \in Handles : q # p => story'[q] = story[q]
    <2>1. "BORN" \in Types
      BY DEF Types
    <2>2. Append(story[p], "BORN") = <<"BORN">>
      BY <1>6
    <2>3. <<"BORN">> \in Seq(Types)
      BY <2>1
    <2> QED
      BY <1>2, <2>2, <2>3 DEF TalesInv
  <1>9. enet[i][s].data = NoHandle
    <2>1. enet[i][s].data = NoHandle \/ Get(peers, enet[i][s].data) # Null
      BY <1>2 DEF CoreInv, LinksInv
    <2>2. ASSUME Get(peers, enet[i][s].data) # Null PROVE FALSE
      <3>1. PICK q : q = enet[i][s].data
        OBVIOUS
      <3>2. q # NoHandle
        BY <2>2, <3>1, PeerFacts DEF CoreInv
      <3>3. Get(peers, q).id = i /\ Get(peers, q).slot = s
        BY <1>2, <3>1, <3>2 DEF CoreInv, LinksInv
      <3>4. enet[i][s].st # "disconnected"
        BY <2>2, <3>1, <3>3 DEF CoreInv, LinksInv
      <3> QED
        BY <1>2, <3>4
    <2> QED
      BY <2>1, <2>2
  <1>10. ASSUME NEW q \in Handles, q # p PROVE TaleOf(q)'
    <2>1. \A x \in Handles : x # p => Get(peers', x) = Get(peers, x) /\ story'[x] = story[x]
      BY <1>4, <1>8
    <2>2. \A e : e.peer # p => (Pending(e)' <=> Pending(e))
      BY <1>7
    <2>3. enet[i][s].data \in {p, NoHandle}
      BY <1>9
    <2>4. SlotIs(i, s, [st |-> "connecting", data |-> p]) /\ i \in HostIds
      BY <1>2, <1>4
    <2> QED
      BY <1>10, <2>1, <2>2, <2>3, <2>4, OthersKeep
  <1>11. TaleOf(p)'
    <2>1. Sound(story'[p])
      <3>1. DOMAIN <<"BORN">> = {1} /\ <<"BORN">>[1] = "BORN" /\ Len(<<"BORN">>) = 1
        OBVIOUS
      <3> QED
        BY <1>8, <3>1 DEF Sound
    <2>2. \A e : ~(Pending(e)' /\ e.peer = p)
      BY <1>6, <1>7 DEF Mentioned
    <2>3. State(p)' = "connecting"
      <3>1. Get(peers', p) = o /\ o.id = i /\ o.slot = s
        BY <1>3, <1>4
      <3>2. enet'[i][s].st = "connecting"
        BY <1>4 DEF SlotIs
      <3> QED
        BY <3>1, <3>2 DEF State
    <2>4. ~Told(p, "DISCONNECT")'
      <3>1. DOMAIN <<"BORN">> = {1} /\ <<"BORN">>[1] = "BORN"
        OBVIOUS
      <3> QED
        BY <1>8, <3>1 DEF Told, Has
    <2>5. ~Mentioned(p)'
      BY <2>2 DEF Mentioned
    <2>6. <<"BORN">> # << >>
      OBVIOUS
    <2>7. LiveOK(p)'
      BY <1>8, <2>3, <2>4, <2>5, <2>6 DEF LiveOK
    <2>8. Get(peers', p) # Null
      BY <1>4
    <2>9. DeadOK(p)'
      BY <2>8 DEF DeadOK, Issued
    <2> QED
      BY <2>1, <2>2, <2>7, <2>9 DEF TaleOf
  <1> QED
    BY <1>8, <1>10, <1>11 DEF TalesInv

\* The app lets go of a peer.
LEMMA TaleLetsGo ==
    ASSUME CoreInv, TalesInv, PeersAge, QueuesSame, story' = story, NEW p, Get(peers, p) # Null, LetGo(p)
    PROVE  TalesInv'
  <1>1. PICK i \in HostIds, s \in PeerSlots, st \in SlotStates :
           p = enet[i][s].data /\ RetiredAt(i, s, p, st)
    BY DEF LetGo
  <1>2. gone' = gone \cup {p} /\ p \in Handles
    BY PeerFacts DEF LetGo, CoreInv
  <1>3. SlotIs(i, s, [st |-> st, data |-> NoHandle]) /\ \A q : Get(peers', q) = IF q = p THEN Null ELSE Get(peers, q)
    BY <1>1 DEF RetiredAt, PeersFreed
  <1>4. \A e : Pending(e)' <=> Pending(e)
    BY PendingSame
  <1>5. ASSUME NEW q \in Handles, q # p PROVE TaleOf(q)'
    <2>1. \A x \in Handles : x # p => Get(peers', x) = Get(peers, x) /\ story'[x] = story[x]
      BY <1>3
    <2>2. \A e : e.peer # p => (Pending(e)' <=> Pending(e))
      BY <1>4
    <2>3. enet[i][s].data \in {p, NoHandle} /\ \A x : x \in gone => x \in gone'
      BY <1>1, <1>2
    <2> QED
      BY <1>3, <1>5, <2>1, <2>2, <2>3, OthersKeep
  <1>6. TaleOf(p)'
    <2>1. TaleOf(p) /\ Get(peers', p) = Null /\ p \in gone'
      BY <1>2, <1>3 DEF TalesInv
    <2>2. Issued(peers', p)
      BY DEF PeersAge, Ages, Issued
    <2>3. LiveOK(p)' /\ DeadOK(p)'
      BY <2>1, <2>2 DEF LiveOK, DeadOK
    <2>4. \A type : Told(p, type)' <=> Told(p, type)
      BY DEF Told
    <2>5. ASSUME NEW e, Pending(e)', e.peer = p PROVE EventOK(e)'
      <3>1. EventOK(e)
        BY <1>4, <2>1, <2>5 DEF TaleOf
      <3> QED
        BY <1>4, <2>1, <2>2, <2>4, <2>5, <3>1 DEF EventOK
    <2> QED
      BY <1>4, <2>1, <2>3, <2>5 DEF TaleOf, PairOK
  <1> QED
    BY <1>5, <1>6 DEF TalesInv

\* A slot moves towards its end.
LEMMA TaleMoves ==
    ASSUME CoreInv, TalesInv, PeersAge, QueuesSame, UNCHANGED <<peers, story, gone>>,
           NEW i \in HostIds, NEW s \in PeerSlots, NEW r, SlotIs(i, s, r),
           r.st \in {enet[i][s].st, "disconnecting", "leaving"}
    PROVE  TalesInv'
  <1>1. \A e : Pending(e)' <=> Pending(e)
    BY PendingSame
  <1>2. ASSUME NEW q \in Handles PROVE TaleOf(q)'
    <2>1. Get(peers', q) = Get(peers, q)
      OBVIOUS
    <2>2. Get(peers, q) # Null => State(q)' = State(q) \/ State(q)' \in {"disconnecting", "leaving"}
      <3>1. ASSUME Get(peers, q) # Null, q # enet[i][s].data
            PROVE  State(q)' = State(q)
        BY <2>1, <3>1, SlotElsewhere
      <3>2. ASSUME Get(peers, q) # Null, q = enet[i][s].data
            PROVE  State(q)' = r.st /\ State(q) = enet[i][s].st
        <4>1. q # NoHandle
          BY <3>2, PeerFacts DEF CoreInv
        <4>2. Get(peers, q).id = i /\ Get(peers, q).slot = s
          BY <3>2, <4>1 DEF CoreInv, LinksInv
        <4>3. enet'[i][s] = r
          BY DEF SlotIs
        <4> QED
          BY <2>1, <4>2, <4>3 DEF State
      <3> QED
        BY <3>1, <3>2
    <2>3. Issued(peers, q) => Issued(peers', q)
      BY DEF PeersAge, Ages
    <2>4. Untouched(q)
      BY <1>1, <2>1, <2>2, <2>3 DEF Untouched
    <2> QED
      BY <2>4, TaleKeeps DEF TalesInv
  <1> QED
    BY <1>2 DEF TalesInv

\* Hosts are destroyed with their peers.
LEMMA TaleTears ==
    ASSUME CoreInv, TalesInv, PeersAge, NEW hs, hs \subseteq LiveHandles(hosts), Teardown(hs),
           PendsCut(hs), story' = story
    PROVE  TalesInv'
  <1>1. /\ \A q : Get(peers', q) = IF q \in Riding(hs) THEN Null ELSE Get(peers, q)
        /\ \A i \in HostIds : enet'[i] = IF i \in IdsOf(hs) THEN AllSlotsFree ELSE enet[i]
        /\ \A h : h \in hs => Get(hosts, h) # Null
        /\ \A q : q \in Riding(hs) <=> Get(peers, q) # Null /\ Get(peers, q).host \in hs
    BY TeardownTables DEF PeersFreed
  <1>2. \A q : q \in gone => q \in gone'
    BY DEF Teardown
  <1>3. \A q : q \in Riding(hs) => q \in gone'
    BY DEF Teardown
  <1>4. ASSUME NEW q \in Handles PROVE TaleOf(q)'
    <2>0. TaleOf(q) /\ Sound(story'[q])
      BY DEF TalesInv, TaleOf
    <2>1. \A type : Told(q, type)' <=> Told(q, type)
      BY DEF Told
    <2>2. Issued(peers, q) => Issued(peers', q)
      BY DEF PeersAge, Ages
    <2>3. \A e : Pending(e)' => Pending(e)
      BY DEF PendsCut
    <2>4. Get(peers', q) # Null => /\ Get(peers', q) = Get(peers, q) /\ State(q)' = State(q)
                                   /\ Get(peers, q).host \notin hs
      <3> SUFFICES ASSUME Get(peers', q) # Null
                   PROVE  /\ Get(peers', q) = Get(peers, q) /\ State(q)' = State(q)
                          /\ Get(peers, q).host \notin hs
        OBVIOUS
      <3>1. Get(peers', q) = Get(peers, q) /\ Get(peers, q) # Null /\ Get(peers, q).host \notin hs
        BY <1>1
      <3>2. PICK o : o = Get(peers, q)
        OBVIOUS
      <3>3. o.id \in HostIds /\ Get(hosts, o.host) # Null /\ Get(hosts, o.host).id = o.id
        BY <3>1, <3>2, PeerPlace DEF CoreInv, LinksInv
      <3>4. o.id \notin IdsOf(hs)
        <4> SUFFICES ASSUME o.id \in IdsOf(hs) PROVE FALSE
          OBVIOUS
        <4>1. PICK g \in hs : Get(hosts, g).id = o.id
          BY DEF IdsOf
        <4>2. g = o.host
          BY <1>1, <3>3, <4>1 DEF CoreInv, OwnersInv
        <4> QED
          BY <3>1, <3>2, <4>1, <4>2
      <3>5. enet'[o.id] = enet[o.id]
        BY <1>1, <3>3, <3>4
      <3> QED
        BY <3>1, <3>2, <3>5 DEF State
    <2>5. Get(peers', q) # Null => \A e : e.peer = q /\ Pending(e) => Pending(e)'
      <3> SUFFICES ASSUME Get(peers', q) # Null, NEW e, e.peer = q, Pending(e), ~Pending(e)'
                   PROVE  FALSE
        OBVIOUS
      <3>1. EventOK(e) /\ e.host \in hs
        BY <2>0 DEF TaleOf, PendsCut
      <3>2. Get(peers, q) # Null /\ Get(peers, q).host \notin hs
        BY <2>4
      <3> QED
        BY <3>1, <3>2 DEF EventOK
    <2>6. LiveOK(q)'
      <3> SUFFICES ASSUME Get(peers', q) # Null PROVE LiveOK(q)'
        BY DEF LiveOK
      <3>1. LiveOK(q) /\ Get(peers, q) # Null /\ State(q)' = State(q)
        BY <2>0, <2>4 DEF TaleOf
      <3>2. Coming(q, "CONNECT") => Coming(q, "CONNECT")'
        BY <2>5 DEF Coming
      <3>3. Mentioned(q)' => Mentioned(q)
        BY <2>3 DEF Mentioned
      <3> QED
        BY <2>1, <3>1, <3>2, <3>3 DEF LiveOK
    <2>7. DeadOK(q)'
      <3>1. DeadOK(q)
        BY <2>0 DEF TaleOf
      <3>2. story'[q] # << >> => Issued(peers', q)
        BY <2>2, <3>1 DEF DeadOK
      <3>3. ASSUME Get(peers', q) = Null, q \notin gone', story'[q] # << >> \/ Mentioned(q)'
            PROVE  Told(q, "DISCONNECT")' \/ Coming(q, "DISCONNECT")'
        <4>1. Get(peers, q) = Null /\ q \notin gone
          BY <1>1, <1>2, <1>3, <3>3
        <4>2. story[q] # << >> \/ Mentioned(q)
          BY <2>3, <3>3 DEF Mentioned
        <4>3. Coming(q, "DISCONNECT") => Coming(q, "DISCONNECT")'
          BY <3>3 DEF Coming, PendsCut
        <4> QED
          BY <2>1, <3>1, <4>1, <4>2, <4>3 DEF DeadOK
      <3> QED
        BY <3>2, <3>3 DEF DeadOK
    <2>8. ASSUME NEW e, Pending(e)', e.peer = q PROVE EventOK(e)'
      <3>1. EventOK(e) /\ Pending(e)
        BY <2>0, <2>3, <2>8 DEF TaleOf
      <3>2. \A f : Pending(f) /\ f.peer = q /\ f.no < e.no => Pending(f)'
        <4> SUFFICES ASSUME NEW f, Pending(f), f.peer = q, f.no < e.no
                     PROVE  Pending(f)'
          OBVIOUS
        <4>1. PairOK(f, e)
          BY <2>0, <2>8, <3>1 DEF TaleOf
        <4> QED
          BY <2>8, <4>1 DEF PairOK, PendsCut
      <3>3. e.type # "CONNECT" =>
              \/ Told(q, "CONNECT")'
              \/ e.type = "DISCONNECT" /\ story'[q] # << >>
              \/ \E f : Pending(f)' /\ f.peer = q /\ f.type = "CONNECT" /\ f.no < e.no
        BY <2>1, <2>8, <3>1, <3>2 DEF EventOK
      <3>4. Get(peers', q) # Null => Get(peers', q).host = e.host
        BY <2>4, <2>8, <3>1 DEF EventOK
      <3>5. e.type = "DISCONNECT" => Get(peers', q) = Null
        BY <2>4, <2>8, <3>1 DEF EventOK
      <3> QED
        BY <2>1, <2>2, <2>8, <3>1, <3>3, <3>4, <3>5 DEF EventOK
    <2> QED
      BY <2>0, <2>3, <2>6, <2>7, <2>8 DEF TaleOf, PairOK
  <1> QED
    BY <1>4 DEF TalesInv

\* ------------------------------------------------------- an event is given up

\* The last event of a peer fits the ones before it.
LEMMA PairsLast ==
    ASSUME NEW p, NEW e \in Events, e.peer = p, PendsLast(e), \A f : Pending(f) => f \in Events,
           \A f, g : Pending(f) /\ Pending(g) /\ f.peer = p /\ g.peer = p => PairOK(f, g),
           \A f : Pending(f) /\ f.peer = p => f.host = e.host /\ f.type # "DISCONNECT" /\ e.type # "CONNECT"
    PROVE  \A f, g : Pending(f)' /\ Pending(g)' /\ f.peer = p /\ g.peer = p => PairOK(f, g)
  <1> SUFFICES ASSUME NEW f, NEW g, Pending(f)', Pending(g)', f.peer = p, g.peer = p
               PROVE  PairOK(f, g)
    OBVIOUS
  <1>1. (Pending(f) \/ f = e) /\ (Pending(g) \/ g = e)
    BY DEF PendsLast
  <1>2. CASE Pending(f) /\ Pending(g)
    BY <1>2
  <1>3. CASE Pending(f) /\ g = e
    BY <1>3 DEF PairOK
  <1>4. CASE f = e /\ Pending(g)
    <2>1. g.host = e.host /\ g.no < e.no /\ g \in Events
      BY <1>4 DEF PendsLast
    <2>2. g.no \in Nat /\ e.no \in Nat
      BY <2>1 DEF Events
    <2> QED
      BY <1>4, <2>1, <2>2 DEF PairOK
  <1>5. CASE f = e /\ g = e
    <2>1. e.no \in Nat
      BY DEF Events
    <2> QED
      BY <1>5, <2>1 DEF PairOK
  <1> QED
    BY <1>1, <1>2, <1>3, <1>4, <1>5

\* The slot of the host being pumped names a peer of that host.
LEMMA PumpedPeer ==
    ASSUME CoreInv, NEW i \in HostIds, NEW s \in PeerSlots, Get(hosts, poll.host) # Null,
           Get(hosts, poll.host).id = i, NEW p \in Handles, p = enet[i][s].data
    PROVE  /\ Get(peers, p) # Null /\ Get(peers, p).host = poll.host
           /\ State(p) = enet[i][s].st
           /\ Get(peers, p).id = i /\ Get(peers, p).slot = s
  <1>1. p # NoHandle
    BY NoHandleNotOne
  <1>2. Get(peers, p) # Null /\ Get(peers, p).id = i /\ Get(peers, p).slot = s
    BY <1>1 DEF CoreInv, LinksInv
  <1>3. Get(hosts, Get(peers, p).host) # Null /\ Get(hosts, Get(peers, p).host).id = i
    BY <1>2 DEF CoreInv, LinksInv
  <1>4. Get(peers, p).host = poll.host
    BY <1>3 DEF CoreInv, OwnersInv
  <1> QED
    BY <1>2, <1>4 DEF State

\* An event of host i is given up, and nothing is told yet.
Given(i, e) ==
    /\ CoreInv /\ TalesInv /\ PeersAge /\ PendsLast(e)
    /\ e \in Events /\ e.host = poll.host
    /\ Get(hosts, poll.host) # Null /\ Get(hosts, poll.host).id = i
    /\ story' = story /\ gone' = gone
    /\ \A f : Pending(f) => f \in Events

LEMMA GivenOthers ==
    ASSUME NEW i \in HostIds, NEW s \in PeerSlots, NEW e, Given(i, e), NEW r, SlotIs(i, s, r),
           enet[i][s].data \in {e.peer, NoHandle},
           \A q \in Handles : q # e.peer => Get(peers', q) = Get(peers, q)
    PROVE  \A q \in Handles : q # e.peer => TaleOf(q)'
  <1> SUFFICES ASSUME NEW q \in Handles, q # e.peer
               PROVE  TaleOf(q)'
    OBVIOUS
  <1>1. PICK p : p = e.peer
    OBVIOUS
  <1>2. CoreInv /\ TalesInv /\ PeersAge
    BY DEF Given
  <1>3. \A x \in Handles : x # p => Get(peers', x) = Get(peers, x) /\ story'[x] = story[x]
    BY <1>1 DEF Given
  <1>4. \A f : f.peer # p => (Pending(f)' <=> Pending(f))
    BY <1>1 DEF Given, PendsLast
  <1>5. \A x : x \in gone => x \in gone'
    BY DEF Given
  <1>6. enet[i][s].data \in {p, NoHandle} /\ q # p
    BY <1>1
  <1> QED
    BY <1>2, <1>3, <1>4, <1>5, <1>6, OthersKeep

LEMMA GivenPeers ==
    ASSUME NEW i, NEW e, Given(i, e), e.peer \notin Handles,
           \A q \in Handles : q # e.peer => TaleOf(q)'
    PROVE  TalesInv'
  BY DEF Given, TalesInv

\* A packet or an error.
LEMMA TaleReceives ==
    ASSUME NEW i \in HostIds, NEW s \in PeerSlots, NEW e, Given(i, e), ReceivesAs(i, s, e)
    PROVE  TalesInv'
  <1>0. CoreInv /\ TalesInv
    BY DEF Given
  <1>1. UNCHANGED <<peers, enet>> /\ e.type \in {"RECEIVE", "ERROR"} /\ e.peer = enet[i][s].data
        /\ enet[i][s].st = "connected"
    BY DEF ReceivesAs
  <1>2. PICK r : r = enet[i][s]
    OBVIOUS
  <1>3. SlotIs(i, s, r)
    BY <1>0, <1>1, <1>2 DEF SlotIs, CoreInv, TablesInv
  <1>4. \A q \in Handles : q # e.peer => TaleOf(q)'
    BY <1>1, <1>3, GivenOthers
  <1>5. ASSUME e.peer \in Handles PROVE TaleOf(e.peer)'
    <2>1. PICK p \in Handles : p = e.peer
      BY <1>5
    <2>2. TaleOf(p)
      BY <1>0 DEF TalesInv
    <2>3. Get(peers, p) # Null /\ Get(peers, p).host = e.host /\ State(p) = "connected"
      BY <1>0, <1>1, <2>1, PumpedPeer DEF Given
    <2>4. \A f : Pending(f)' <=> Pending(f) \/ f = e
      BY DEF Given, PendsLast
    <2>5. \A f : Pending(f) /\ f.peer = p => f.host = e.host /\ f.type # "DISCONNECT" /\ e.type # "CONNECT"
      BY <1>1, <2>2, <2>3 DEF TaleOf, EventOK
    <2>6. \A f, g : Pending(f)' /\ Pending(g)' /\ f.peer = p /\ g.peer = p => PairOK(f, g)
      BY <2>1, <2>2, <2>5, PairsLast DEF Given, TaleOf
    <2>7. \A type : Told(p, type)' <=> Told(p, type)
      BY DEF Told, Given
    <2>8. \A type : Coming(p, type) => Coming(p, type)'
      BY <2>4 DEF Coming
    <2>9. Get(peers', p) = Get(peers, p) /\ State(p)' = State(p) /\ (Issued(peers', p) <=> Issued(peers, p))
          /\ story' = story /\ gone' = gone
      BY <1>1 DEF State, Given
    <2>10. LiveOK(p) /\ DeadOK(p) /\ Sound(story'[p])
      BY <2>2, <2>9 DEF TaleOf
    <2>11. LiveOK(p)'
      BY <2>3, <2>7, <2>8, <2>9, <2>10 DEF LiveOK
    <2>12. DeadOK(p)'
      BY <2>3, <2>9, <2>10 DEF DeadOK
    <2>13. ASSUME NEW f, Pending(f)', f.peer = p PROVE EventOK(f)'
      <3>1. CASE Pending(f)
        <4>1. EventOK(f)
          BY <2>2, <2>13, <3>1 DEF TaleOf
        <4>2. f.type # "CONNECT" =>
                 \/ Told(p, "CONNECT")'
                 \/ f.type = "DISCONNECT" /\ story'[p] # << >>
                 \/ \E x : Pending(x)' /\ x.peer = p /\ x.type = "CONNECT" /\ x.no < f.no
          BY <2>4, <2>7, <2>9, <2>13, <4>1 DEF EventOK
        <4> QED
          BY <2>7, <2>9, <2>13, <4>1, <4>2 DEF EventOK
      <3>2. CASE f = e
        <4>1. \/ Told(p, "CONNECT")'
              \/ \E x : Pending(x)' /\ x.peer = p /\ x.type = "CONNECT" /\ x.no < e.no
          <5>1. Told(p, "CONNECT") \/ Coming(p, "CONNECT")
            BY <2>3, <2>10 DEF LiveOK
          <5>2. ASSUME Coming(p, "CONNECT")
                PROVE  \E x : Pending(x)' /\ x.peer = p /\ x.type = "CONNECT" /\ x.no < e.no
            <6>1. PICK x : Pending(x) /\ x.peer = p /\ x.type = "CONNECT"
              BY <5>2 DEF Coming
            <6>2. x.host = e.host
              BY <2>5, <6>1
            <6>3. x.no < e.no
              BY <6>1, <6>2 DEF Given, PendsLast
            <6> QED
              BY <2>4, <6>1, <6>3
          <5> QED
            BY <2>7, <5>1, <5>2
        <4>2. ~Told(p, "DISCONNECT")' /\ Issued(peers', p)
          BY <2>3, <2>7, <2>9, <2>10 DEF LiveOK, Issued
        <4> QED
          BY <1>1, <2>3, <2>9, <2>13, <3>2, <4>1, <4>2 DEF EventOK
      <3> QED
        BY <2>4, <2>13, <3>1, <3>2
    <2> QED
      BY <2>1, <2>6, <2>10, <2>11, <2>12, <2>13 DEF TaleOf, PairOK
  <1>6. story' \in [Handles -> Seq(Types)]
    BY <1>0 DEF TalesInv, Given
  <1> QED
    BY <1>4, <1>5, <1>6 DEF TalesInv

\* A connection the app began comes up.
LEMMA TaleAnswered ==
    ASSUME NEW i \in HostIds, NEW s \in PeerSlots, NEW e, Given(i, e), e.type = "CONNECT", Answered(i, s, e)
    PROVE  TalesInv'
  <1>0. CoreInv /\ TalesInv
    BY DEF Given
  <1>1. peers' = peers /\ e.peer = enet[i][s].data /\ enet[i][s].st = "connecting"
        /\ SlotIs(i, s, [st |-> "connected", data |-> e.peer])
    BY DEF Answered
  <1>4. \A q \in Handles : q # e.peer => TaleOf(q)'
    BY <1>1, GivenOthers
  <1>5. ASSUME e.peer \in Handles PROVE TaleOf(e.peer)'
    <2>1. PICK p \in Handles : p = e.peer
      BY <1>5
    <2>2. TaleOf(p)
      BY <1>0 DEF TalesInv
    <2>3. Get(peers, p) # Null /\ Get(peers, p).host = e.host /\ State(p) = "connecting"
          /\ Get(peers, p).id = i /\ Get(peers, p).slot = s
      BY <1>0, <1>1, <2>1, PumpedPeer DEF Given
    <2>4. \A f : Pending(f)' <=> Pending(f) \/ f = e
      BY DEF Given, PendsLast
    <2>5. ~Mentioned(p) /\ story[p] = <<"BORN">> /\ ~Told(p, "DISCONNECT")
      BY <2>2, <2>3 DEF TaleOf, LiveOK
    <2>6. \A f, g : Pending(f)' /\ Pending(g)' /\ f.peer = p /\ g.peer = p => PairOK(f, g)
      <3>1. \A f : ~(Pending(f) /\ f.peer = p)
        BY <2>5 DEF Mentioned
      <3> QED
        BY <2>1, <2>2, <3>1, PairsLast DEF Given, TaleOf
    <2>7. \A type : Told(p, type)' <=> Told(p, type)
      BY DEF Told, Given
    <2>8. Coming(p, "CONNECT")'
      BY <2>1, <2>4 DEF Coming
    <2>9. Get(peers', p) = Get(peers, p) /\ State(p)' = "connected"
          /\ story' = story /\ gone' = gone
      BY <1>1, <2>3 DEF State, Given, SlotIs
    <2>10. Sound(story'[p])
      BY <2>2, <2>9 DEF TaleOf
    <2>11. LiveOK(p)'
      BY <2>5, <2>7, <2>8, <2>9 DEF LiveOK
    <2>12. DeadOK(p)'
      BY <2>3, <2>9 DEF DeadOK, Issued
    <2>13. ASSUME NEW f, Pending(f)', f.peer = p PROVE EventOK(f)'
      <3>1. f = e
        BY <2>4, <2>5, <2>13 DEF Mentioned
      <3>2. Issued(peers', p) /\ ~Told(p, "DISCONNECT")'
        BY <2>3, <2>5, <2>7, <2>9 DEF Issued
      <3> QED
        BY <2>3, <2>5, <2>9, <2>13, <3>1, <3>2 DEF EventOK
    <2> QED
      BY <2>1, <2>6, <2>10, <2>11, <2>12, <2>13 DEF TaleOf, PairOK
  <1>6. story' \in [Handles -> Seq(Types)]
    BY <1>0 DEF TalesInv, Given
  <1> QED
    BY <1>4, <1>5, <1>6 DEF TalesInv

\* A free slot names no handle.
LEMMA FreeSlotBare ==
    ASSUME CoreInv, NEW i \in HostIds, NEW s \in PeerSlots, enet[i][s].st = "disconnected"
    PROVE  enet[i][s].data = NoHandle
  <1> SUFFICES ASSUME enet[i][s].data # NoHandle PROVE FALSE
    OBVIOUS
  <1>1. PICK q : q = enet[i][s].data
    OBVIOUS
  <1>2. Get(peers, q) # Null /\ Get(peers, q).id = i /\ Get(peers, q).slot = s
    BY <1>1 DEF CoreInv, LinksInv
  <1>3. enet[i][s].st # "disconnected"
    BY <1>1, <1>2 DEF CoreInv, LinksInv
  <1> QED
    BY <1>3

\* A connection comes in, and its handle is born.
LEMMA TaleIncoming ==
    ASSUME NEW i \in HostIds, NEW s \in PeerSlots, NEW e, Given(i, e), e.type = "CONNECT", Incoming(i, s, e)
    PROVE  TalesInv'
  <1>0. CoreInv /\ TalesInv
    BY DEF Given
  <1>1. PICK p : p = e.peer
    OBVIOUS
  <1>2. PICK o : o = [id |-> i, slot |-> s, host |-> poll.host]
    OBVIOUS
  <1>3. enet[i][s].st = "disconnected" /\ BornIn(poll.host, i, s, p, o, "connected")
    BY <1>1, <1>2 DEF Incoming
  <1>4. /\ p \in Handles /\ Get(peers, p) = Null /\ o # Null
        /\ \A q : Get(peers', q) = IF q = p THEN o ELSE Get(peers, q)
        /\ SlotIs(i, s, [st |-> "connected", data |-> p])
    BY <1>3 DEF BornIn, PeersPut
  <1>5. \A q \in Handles : q # e.peer => TaleOf(q)'
    <2>1. enet[i][s].data = NoHandle
      BY <1>0, <1>3, FreeSlotBare
    <2> QED
      BY <1>1, <1>4, <2>1, GivenOthers
  <1>6. TaleOf(p)'
    <2>1. ~Issued(peers, p)
      BY <1>4 DEF Given, PeersAge, Ages
    <2>2. TaleOf(p) /\ story[p] = << >> /\ ~Mentioned(p)
      BY <1>0, <1>4, <2>1, FreshUntold DEF TalesInv
    <2>3. \A f : Pending(f)' <=> Pending(f) \/ f = e
      BY DEF Given, PendsLast
    <2>4. \A f, g : Pending(f)' /\ Pending(g)' /\ f.peer = p /\ g.peer = p => PairOK(f, g)
      <3>1. \A f : ~(Pending(f) /\ f.peer = p)
        BY <2>2 DEF Mentioned
      <3> QED
        BY <1>1, <2>2, <3>1, PairsLast DEF Given, TaleOf
    <2>5. story' = story /\ e.host = poll.host
      BY DEF Given
    <2>6. ~Told(p, "DISCONNECT")'
      <3>1. DOMAIN << >> = {}
        OBVIOUS
      <3> QED
        BY <2>2, <2>5, <3>1 DEF Told, Has
    <2>7. Coming(p, "CONNECT")'
      BY <1>1, <2>3 DEF Coming
    <2>8. Get(peers', p) = o /\ o.host = e.host /\ State(p)' = "connected" /\ Issued(peers', p)
      <3>1. Get(peers', p) = o /\ o.id = i /\ o.slot = s /\ o.host = e.host
        BY <1>2, <1>4, <2>5
      <3>2. enet'[i][s].st = "connected"
        BY <1>4 DEF SlotIs
      <3> QED
        BY <1>4, <3>1, <3>2 DEF State, Issued
    <2>9. LiveOK(p)' /\ DeadOK(p)'
      BY <1>4, <2>6, <2>7, <2>8 DEF LiveOK, DeadOK
    <2>10. ASSUME NEW f, Pending(f)', f.peer = p PROVE EventOK(f)'
      <3>1. f = e
        BY <2>2, <2>3, <2>10 DEF Mentioned
      <3> QED
        BY <2>2, <2>5, <2>6, <2>8, <2>10, <3>1 DEF EventOK
    <2>11. Sound(story'[p])
      BY <2>2, <2>5 DEF TaleOf
    <2> QED
      BY <2>4, <2>9, <2>10, <2>11 DEF TaleOf, PairOK
  <1>7. story' \in [Handles -> Seq(Types)]
    BY <1>0 DEF TalesInv, Given
  <1> QED
    BY <1>1, <1>5, <1>6, <1>7 DEF TalesInv

\* A connection comes in when the table is full: the event is of no handle.
LEMMA TaleUnnamed ==
    ASSUME NEW i \in HostIds, NEW s \in PeerSlots, NEW e, Given(i, e), Unnamed(i, s, e)
    PROVE  TalesInv'
  <1>0. CoreInv /\ TalesInv
    BY DEF Given
  <1>1. enet[i][s].st = "disconnected" /\ peers' = peers /\ e.peer = NoHandle
        /\ SlotIs(i, s, [st |-> "connected", data |-> NoHandle])
    BY DEF Unnamed
  <1>2. enet[i][s].data = NoHandle
    BY <1>0, <1>1, FreeSlotBare
  <1>3. \A q \in Handles : q # e.peer => TaleOf(q)'
    BY <1>1, <1>2, GivenOthers
  <1> QED
    BY <1>1, <1>3, NoHandleNotOne, GivenPeers

\* A connection ends, and its handle with it.
LEMMA TaleEnds ==
    ASSUME NEW i \in HostIds, NEW s \in PeerSlots, NEW e, Given(i, e), EndsAs(i, s, e)
    PROVE  TalesInv'
  <1>0. CoreInv /\ TalesInv
    BY DEF Given
  <1>1. e.type = "DISCONNECT" /\ e.peer = enet[i][s].data
        /\ RetiredAt(i, s, e.peer, "disconnected")
    BY DEF EndsAs
  <1>2. PICK p : p = e.peer
    OBVIOUS
  <1>3. SlotIs(i, s, [st |-> "disconnected", data |-> NoHandle])
        /\ \A q : Get(peers', q) = IF q = p THEN Null ELSE Get(peers, q)
    BY <1>1, <1>2 DEF RetiredAt, PeersFreed
  <1>4. \A q \in Handles : q # e.peer => TaleOf(q)'
    BY <1>1, <1>2, <1>3, GivenOthers
  <1>5. ASSUME p \in Handles PROVE TaleOf(p)'
    <2>2. TaleOf(p)
      BY <1>0, <1>5 DEF TalesInv
    <2>3. Get(peers, p) # Null /\ Get(peers, p).host = e.host
      BY <1>0, <1>1, <1>2, <1>5, PumpedPeer DEF Given
    <2>4. \A f : Pending(f)' <=> Pending(f) \/ f = e
      BY DEF Given, PendsLast
    <2>5. \A f : Pending(f) /\ f.peer = p => f.host = e.host /\ f.type # "DISCONNECT" /\ e.type # "CONNECT"
      BY <1>1, <2>2, <2>3 DEF TaleOf, EventOK
    <2>6. \A f, g : Pending(f)' /\ Pending(g)' /\ f.peer = p /\ g.peer = p => PairOK(f, g)
      BY <1>2, <2>2, <2>5, PairsLast DEF Given, TaleOf
    <2>7. \A type : Told(p, type)' <=> Told(p, type)
      BY DEF Told, Given
    <2>8. story' = story /\ gone' = gone /\ Get(peers', p) = Null /\ Issued(peers', p)
      BY <1>3, <2>3 DEF Given, PeersAge, Ages, Issued
    <2>9. LiveOK(p) /\ Sound(story'[p])
      BY <2>2, <2>8 DEF TaleOf
    <2>10. Coming(p, "DISCONNECT")'
      BY <1>1, <1>2, <2>4 DEF Coming
    <2>11. LiveOK(p)' /\ DeadOK(p)'
      BY <2>8, <2>10 DEF LiveOK, DeadOK
    <2>12. ~Told(p, "DISCONNECT")'
      BY <2>3, <2>7, <2>9 DEF LiveOK
    <2>13. ASSUME NEW f, Pending(f)', f.peer = p PROVE EventOK(f)'
      <3>1. CASE Pending(f)
        <4>1. EventOK(f)
          BY <2>2, <2>13, <3>1 DEF TaleOf
        <4>2. f.type # "CONNECT" =>
                 \/ Told(p, "CONNECT")'
                 \/ f.type = "DISCONNECT" /\ story'[p] # << >>
                 \/ \E x : Pending(x)' /\ x.peer = p /\ x.type = "CONNECT" /\ x.no < f.no
          BY <2>4, <2>7, <2>8, <2>13, <4>1 DEF EventOK
        <4> QED
          BY <2>8, <2>12, <2>13, <4>1, <4>2 DEF EventOK
      <3>2. CASE f = e
        <4>1. \/ story'[p] # << >>
              \/ \E x : Pending(x)' /\ x.peer = p /\ x.type = "CONNECT" /\ x.no < e.no
          <5>1. story[p] # << >> \/ Coming(p, "CONNECT")
            BY <2>3, <2>9 DEF LiveOK
          <5>2. ASSUME Coming(p, "CONNECT")
                PROVE  \E x : Pending(x)' /\ x.peer = p /\ x.type = "CONNECT" /\ x.no < e.no
            <6>1. PICK x : Pending(x) /\ x.peer = p /\ x.type = "CONNECT"
              BY <5>2 DEF Coming
            <6>2. x.host = e.host
              BY <2>5, <6>1
            <6>3. x.no < e.no
              BY <6>1, <6>2 DEF Given, PendsLast
            <6> QED
              BY <2>4, <6>1, <6>3
          <5> QED
            BY <2>8, <5>1, <5>2
        <4> QED
          BY <1>1, <2>8, <2>12, <2>13, <3>2, <4>1 DEF EventOK
      <3> QED
        BY <2>4, <2>13, <3>1, <3>2
    <2> QED
      BY <2>6, <2>9, <2>11, <2>13 DEF TaleOf, PairOK
  <1>6. story' \in [Handles -> Seq(Types)]
    BY <1>0 DEF TalesInv, Given
  <1> QED
    BY <1>2, <1>4, <1>5, <1>6 DEF TalesInv

LEMMA TaleGives ==
    ASSUME NumberInv, TalesInv, PeersAge, GiveStep
    PROVE  TalesInv'
  <1>0. CoreInv
    BY DEF NumberInv, LineInv
  <1>6. PICK i \in HostIds, s \in PeerSlots : \E e :
           /\ ConnectsAs(i, s, e) \/ ReceivesAs(i, s, e) \/ EndsAs(i, s, e)
           /\ Get(hosts, poll.host) # Null /\ Get(hosts, poll.host).id = i
           /\ QueueGets(poll.host, e)
    BY DEF GiveStep
  <1>1. PICK e :
           /\ ConnectsAs(i, s, e) \/ ReceivesAs(i, s, e) \/ EndsAs(i, s, e)
           /\ Get(hosts, poll.host) # Null /\ Get(hosts, poll.host).id = i
           /\ QueueGets(poll.host, e)
    BY <1>6
  <1>2. GivesUp(e)
    BY <1>1 DEF ConnectsAs, ReceivesAs, EndsAs
  <1>3. PendsLast(e)
    <2>1. PICK g : g = poll.host
      OBVIOUS
    <2> QED
      BY <1>1, <1>2, <2>1, PendingGives
  <1>4. e \in Events /\ e.host = poll.host /\ story' = story /\ gone' = gone
    BY <1>2 DEF GivesUp, Serviced
  <1>5. Given(i, e)
    BY <1>0, <1>1, <1>3, <1>4, PendingFacts DEF Given
  <1> QED
    BY <1>1, <1>5, TaleReceives, TaleEnds, TaleAnswered, TaleIncoming, TaleUnnamed DEF ConnectsAs

LEMMA StoryInit ==
    ASSUME PumpInit, MaxConns < GEN_MAX
    PROVE  StoryInv
  <1>0. NumberInv /\ CoreInv
    BY NumberInit DEF NumberInv, LineInv
  <1>1. /\ poll.pc = "off" /\ list = << >> /\ hosts = EmptyTable /\ peers = EmptyTable /\ conns = 0
        /\ story = [p \in Handles |-> << >>]
    BY DEF PumpInit, Init, PollOff
  <1>2. (\A h : Get(hosts, h) = Null) /\ (\A p : Get(peers, p) = Null)
    BY <1>1 DEF Get, IsLive, EmptyTable, Handles
  <1>3. \A h : Queue(h) = << >>
    <2>1. \A h : Stash(h) = << >>
      BY <1>2 DEF Stash
    <2>2. Line = << >>
      BY <1>1 DEF Line
    <2>3. << >> \in Seq(Events)
      OBVIOUS
    <2> QED
      BY <2>1, <2>2, <2>3, OfNone, JoinNone DEF Queue
  <1>4. \A e : ~Pending(e)
    <2>1. DOMAIN << >> = {}
      OBVIOUS
    <2> QED
      BY <1>3, <2>1 DEF Pending
  <1>5. conns < GEN_MAX /\ GenBound(peers, conns)
    <2>1. GenBound(peers, conns)
      BY <1>1 DEF GenBound, EmptyTable
    <2> QED
      BY <1>1, <2>1, HandleTableAssumption
  <1>6. ASSUME NEW p \in Handles PROVE TaleOf(p)
    <2>1. story[p] = << >> /\ DOMAIN << >> = {}
      BY <1>1
    <2>2. Sound(story[p])
      BY <2>1 DEF Sound
    <2>3. LiveOK(p) /\ DeadOK(p)
      BY <1>2, <1>4, <2>1 DEF LiveOK, DeadOK, Mentioned
    <2> QED
      BY <1>4, <2>2, <2>3 DEF TaleOf
  <1>7. story \in [Handles -> Seq(Types)]
    <2>1. << >> \in Seq(Types)
      OBVIOUS
    <2> QED
      BY <1>1, <2>1
  <1> QED
    BY <1>0, <1>5, <1>6, <1>7 DEF StoryInv, BornInv, TalesInv

LEMMA StoryNext ==
    ASSUME MaxConns < GEN_MAX, \A i \in HostIds : i < GEN_MAX, StoryInv, [Next]_vars
    PROVE  StoryInv'
  <1>1. NumberInv /\ BornInv /\ TalesInv /\ CoreInv /\ LineInv
    BY DEF StoryInv, NumberInv, LineInv
  <1>2. NumberInv' /\ Kinds
    BY <1>1, NumberNext, NextKinds
  <1>3. PeersAge
    BY <1>1, PeersAgeNext
  <1>4. BornInv'
    <2>1. conns' \in 0 .. MaxConns
      BY <1>2 DEF NumberInv, LineInv, CoreInv, RestInv
    <2>2. conns' < GEN_MAX
      BY <2>1, EnetAssumption, HandleTableAssumption
    <2> QED
      BY <1>3, <2>2 DEF BornInv, PeersAge, Ages
  <1>5. ASSUME QuietStep PROVE TalesInv'
    <2>1. UNCHANGED <<peers, enet, story, gone>> /\ QueuesSame
      BY <1>5 DEF QuietStep
    <2>2. \A e : Pending(e)' <=> Pending(e)
      BY <2>1, PendingSame
    <2>3. ASSUME NEW q \in Handles PROVE TaleOf(q)'
      <3>1. Untouched(q)
        BY <2>1, <2>2 DEF Untouched, State
      <3> QED
        BY <1>1, <3>1, TaleKeeps DEF TalesInv
    <2> QED
      BY <1>1, <2>1, <2>3 DEF TalesInv
  <1>6. ASSUME BeginStep PROVE TalesInv'
    BY <1>1, <1>3, <1>6, TaleBegins DEF BeginStep
  <1>7. ASSUME PartStep PROVE TalesInv'
    <2>1. PICK p : Get(peers, p) # Null /\ (LetGo(p) \/ MovedOn(p))
      BY <1>7 DEF PartStep
    <2>2. QueuesSame /\ story' = story
      BY <1>7 DEF PartStep
    <2>3. CASE LetGo(p)
      BY <1>1, <1>3, <2>1, <2>2, <2>3, TaleLetsGo
    <2>4. CASE MovedOn(p)
      <3>1. PICK i \in HostIds, s \in PeerSlots, r \in Slot :
               SlotIs(i, s, r) /\ r.st \in {enet[i][s].st, "disconnecting", "leaving"}
        BY <2>4 DEF MovedOn
      <3>2. UNCHANGED <<peers, story, gone>>
        BY <2>2, <2>4 DEF MovedOn
      <3> QED
        BY <1>1, <1>3, <2>2, <3>1, <3>2, TaleMoves
    <2> QED
      BY <2>1, <2>3, <2>4
  <1>8. ASSUME TearStep PROVE TalesInv'
    <2>1. PICK hs : /\ hs \subseteq LiveHandles(hosts) /\ Teardown(hs) /\ QueuesCut(hs)
                    /\ poll.pc = "off" /\ UNCHANGED <<poll, list, story>>
      BY <1>8 DEF TearStep
    <2>2. PendsCut(hs)
      BY <1>1, <2>1, PendingCut
    <2> QED
      BY <1>1, <1>3, <2>1, <2>2, TaleTears
  <1>9. ASSUME GiveStep PROVE TalesInv'
    BY <1>1, <1>3, <1>9, TaleGives
  <1>10. ASSUME LeaveStep PROVE TalesInv'
    <2>1. PICK i \in HostIds, s \in PeerSlots : LeavesAs(i, s)
      BY <1>10 DEF LeaveStep
    <2>2. PICK r : r = [st |-> "leaving", data |-> enet[i][s].data]
      OBVIOUS
    <2>3. SlotIs(i, s, r) /\ r.st = "leaving" /\ UNCHANGED <<peers, story, gone>> /\ QueuesSame
      BY <1>10, <2>1, <2>2 DEF LeavesAs, LeaveStep
    <2> QED
      BY <1>1, <1>3, <2>3, TaleMoves
  <1>11. ASSUME HearStep PROVE TalesInv'
    <2>0. PICK e \in Events : \E g :
             /\ g = e.host /\ QueueGives(g, e) /\ Tell(e.peer, e.type)
             /\ UNCHANGED <<peers, enet, gone>>
      BY <1>11 DEF HearStep
    <2>1. PICK g :
             /\ g = e.host /\ QueueGives(g, e) /\ Tell(e.peer, e.type)
             /\ UNCHANGED <<peers, enet, gone>>
      BY <2>0
    <2>2. PendsFirst(e)
      BY <1>1, <2>1, PendingHears
    <2> QED
      BY <1>1, <2>1, <2>2, TaleHears
  <1> QED
    BY <1>2, <1>4, <1>5, <1>6, <1>7, <1>8, <1>9, <1>10, <1>11 DEF StoryInv, Kinds

\* The inductive invariant under OneStory: what was told of each peer handle,
\* the events of it that are pending in their order, and the state of its slot
\* fit together at every moment.
THEOREM StoryInvariant ==
    ASSUME MaxConns < GEN_MAX, \A i \in HostIds : i < GEN_MAX
    PROVE  Spec => []StoryInv
  BY StoryInit, StoryNext, PTL DEF Spec

\* The app hears one sound story of each peer handle, which a disconnect or
\* the app itself ends: births in enConnect and in a CONNECT event, deaths in
\* a stashed or written DISCONNECT, and every call the app makes in between.
THEOREM PeersTellOneStory ==
    ASSUME MaxConns < GEN_MAX, \A i \in HostIds : i < GEN_MAX
    PROVE  Spec => []OneStory
  <1>1. StoryInv => OneStory
    <2> SUFFICES ASSUME StoryInv, NEW p \in Known
                 PROVE  /\ story[p][1] \in {"BORN", "CONNECT"}
                        /\ IsLive(peers, p) \/ p \in gone \/ Heard(p) \/ GoodbyeComing(p)
                        /\ \A k \in DOMAIN story[p] :
                             /\ story[p][k] = "BORN" => k = 1
                             /\ story[p][k] = "CONNECT" => k = 1 \/ (k = 2 /\ story[p][1] = "BORN")
                             /\ story[p][k] \in {"RECEIVE", "ERROR"} =>
                                   \E j \in 1 .. k - 1 : story[p][j] = "CONNECT"
                             /\ story[p][k] = "DISCONNECT" => k = Len(story[p]) /\ ~IsLive(peers, p)
      BY DEF OneStory
    <2>0. p \in Handles /\ story[p] # << >> /\ TaleOf(p) /\ LineInv /\ CoreInv /\ PollInv
      BY DEF Known, StoryInv, TalesInv, NumberInv, LineInv
    <2>1. Sound(story[p]) /\ LiveOK(p) /\ DeadOK(p) /\ (IsLive(peers, p) <=> Get(peers, p) # Null)
      BY <2>0, PeerFacts DEF TaleOf, CoreInv
    <2>2. Coming(p, "DISCONNECT") => GoodbyeComing(p)
      <3> SUFFICES ASSUME NEW e, Pending(e), e.peer = p, e.type = "DISCONNECT"
                   PROVE  GoodbyeComing(p)
        BY DEF Coming
      <3>1. PICK h : \E k \in DOMAIN Queue(h) : Queue(h)[k] = e
        BY DEF Pending
      <3>2. CASE Get(hosts, h) # Null
        <4>1. h \in LiveHandles(hosts)
          BY <2>0, <3>2, HostFacts DEF CoreInv
        <4>2. Ahead(h) = Queue(h)
          BY <2>0, <4>1, AheadIsQueue
        <4> QED
          BY <3>1, <4>1, <4>2 DEF GoodbyeComing
      <3>3. CASE Get(hosts, h) = Null
        <4>1. Stash(h) = << >>
          BY <3>3 DEF Stash
        <4>2. PICK q : q = Line
          OBVIOUS
        <4>3. q \in Seq(Events)
          BY <2>0, <4>2 DEF Line, CoreInv, RestInv, Polls
        <4>4. Queue(h) = Of(q, h)
          <5>1. Of(q, h) \in Seq(Events)
            BY <4>3, OfTyped
          <5> QED
            BY <4>1, <4>2, <5>1, JoinNone DEF Queue
        <4>5. Of(q, h) # << >> => q # << >> /\ q[1].host = h /\ Of(q, h) = q
          BY DEF Of
        <4>6. Of(q, h) # << >>
          <5>1. DOMAIN << >> = {}
            OBVIOUS
          <5> QED
            BY <3>1, <4>4, <5>1
        <4>7. \E k \in DOMAIN q : q[k] = e
          BY <3>1, <4>4, <4>5, <4>6
        <4>8. poll.pc = "off"
          <5> SUFFICES ASSUME poll.pc # "off" PROVE FALSE
            OBVIOUS
          <5>1. q = poll.out
            BY <4>2 DEF Line
          <5>2. 1 \in DOMAIN q
            BY <4>3, <4>5, <4>6
          <5>3. q[1].host = poll.host /\ Get(hosts, poll.host) # Null
            BY <2>0, <4>5, <4>6, <5>1, <5>2 DEF PollInv
          <5> QED
            BY <3>3, <4>5, <4>6, <5>3
        <4>9. q = list
          BY <4>2, <4>8 DEF Line
        <4> QED
          BY <4>7, <4>9 DEF GoodbyeComing
      <3> QED
        BY <3>2, <3>3
    <2>3. Told(p, "DISCONNECT") <=> Heard(p)
      BY DEF Told, Has, Heard
    <2>4. IsLive(peers, p) \/ p \in gone \/ Heard(p) \/ GoodbyeComing(p)
      BY <2>0, <2>1, <2>2, <2>3 DEF DeadOK
    <2>5. \A k \in DOMAIN story[p] : story[p][k] = "DISCONNECT" => ~IsLive(peers, p)
      BY <2>1 DEF LiveOK, Told, Has
    <2> QED
      BY <2>0, <2>1, <2>4, <2>5 DEF Sound
  <1> QED
    BY <1>1, StoryInvariant, PTL
================================================================================
