-------------------------- MODULE PublishMembersProofs --------------------------
(***************************************************************************)
(* Why the member's repository mirrors the suite, for every number of      *)
(* runs, patches and commits.  MirrorInv says of the repository's line,    *)
(* and of each line a run has prepared and not pushed yet, what            *)
(* MirrorsSuite says of the first: a push that is a fast-forward makes the *)
(* prepared line the repository's own.  A run's commits follow the         *)
(* watermark (PlanSound); the rest keeps sound lines sound (AppendSound,   *)
(* PrefixSound, MainGrows), and tells nothing of what trees and own        *)
(* commits hold.  TypeOK does: it is inductive itself, because the last    *)
(* commit of a replay has the tree of the state that is published          *)
(* (ReplayTyped) and a port makes a tree of a tree (PortType).             *)
(*                                                                         *)
(* PushInv is what PushSafe rests on: where each patch of the member's on  *)
(* the line came from (LineKnown), that a state of main holds only patches *)
(* it has ported (StatesKnown), and what a run that waits to push has      *)
(* found, which nothing done in between takes back (JobSafe).  A push that *)
(* is a fast-forward starts from the line the run judged, or from one that *)
(* another run has made of it (PushKeeps).                                 *)
(*                                                                         *)
(* OneRunSettles needs no invariant of its own: a sound line's watermark   *)
(* names a state of main (MarkHeld), from there replay() up to the newest  *)
(* state begins with what it makes up to an older one (ReplayPrefix), and  *)
(* a run makes nothing only if nothing has changed (ReplayGoes).           *)
(***************************************************************************)
EXTENDS PublishMembers, SumTheorems

\* Written out, so that TLC can check it: l is a sequence.
Listed(l) ==
    /\ Len(l) \in Nat
    /\ DOMAIN l = 1 .. Len(l)
    /\ l = [i \in DOMAIN l |-> l[i]]

\* ------------------------------------------------- the lines of commits

\* A commit the publisher made holds the state of main it names, a copy names a
\* state of main too, and a commit of the member's own carries no mark.
CommitSound(c) ==
    /\ c.mark \in Nat
    /\ c.by \in {"suite", "member", "copy"}
    /\ c.by = "member" => c.mark = 0
    /\ c.by # "member" => c.mark \in DOMAIN main
    /\ c.by = "suite" => c.tree = main[c.mark].tree

\* Up to a published commit no mark is newer than its own, unless somebody
\* copied one in between.
Forward(l) ==
    \A i, j \in DOMAIN l :
       i < j /\ l[j].by = "suite" /\ (\A c \in i .. j : l[c].by # "copy")
          => l[i].mark <= l[j].mark

LineSound(l) ==
    /\ Listed(l)
    /\ \A i \in DOMAIN l : CommitSound(l[i])
    /\ Forward(l)

\* The inductive invariant: the repository's line is sound, and so is the one
\* that each run is about to push.
MirrorInv ==
    /\ Listed(main)
    /\ DOMAIN run = Runs
    /\ LineSound(repo)
    /\ \A r \in Runs : run[r].pc = "push" => LineSound(run[r].new)

\* What is listed is a sequence of its own elements.
LEMMA ListedSeq ==
    ASSUME NEW l, Listed(l)
    PROVE  \E S : l \in Seq(S)
  <1> DEFINE S == {l[i] : i \in DOMAIN l}
  <1>1. l \in Seq(S)
    <2>1. l \in [1 .. Len(l) -> S]
      BY DEF Listed
    <2>2. Len(l) \in Nat
      BY DEF Listed
    <2> HIDE DEF S
    <2> QED
      BY <2>1, <2>2
  <1> QED
    BY <1>1

\* Every sequence is listed.
LEMMA SeqListed ==
    ASSUME NEW S, NEW l \in Seq(S)
    PROVE  Listed(l)
  BY DEF Listed

\* What Append does to a sequence of whatever elements.
LEMMA AppendListed ==
    ASSUME NEW l, Listed(l), NEW x
    PROVE  /\ Listed(Append(l, x))
           /\ Len(Append(l, x)) = Len(l) + 1
           /\ DOMAIN Append(l, x) = 1 .. Len(l) + 1
           /\ \A i \in DOMAIN l : Append(l, x)[i] = l[i]
           /\ Append(l, x)[Len(l) + 1] = x
  <1>1. PICK S : l \in Seq(S)
    BY ListedSeq
  <1>2. l \in Seq(S \cup {x}) /\ x \in S \cup {x}
    <2>1. \A i \in DOMAIN l : l[i] \in S
      BY <1>1
    <2>2. l \in [1 .. Len(l) -> S \cup {x}] /\ Len(l) \in Nat
      BY <1>1, <2>1
    <2> QED
      BY <2>2
  <1>3. Append(l, x) \in Seq(S \cup {x})
    BY <1>2
  <1>4. Listed(Append(l, x))
    BY <1>3, SeqListed
  <1>5. /\ Len(l) \in Nat /\ DOMAIN l = 1 .. Len(l)
        /\ Len(Append(l, x)) = Len(l) + 1
        /\ DOMAIN Append(l, x) = 1 .. Len(l) + 1
    BY <1>2, <1>3
  <1>6. Append(l, x)[Len(l) + 1] = x
    BY <1>2, <1>5
  <1>7. \A i \in DOMAIN l : Append(l, x)[i] = l[i]
    BY <1>2, <1>5
  <1> QED
    BY <1>4, <1>5, <1>6, <1>7

\* The elements of two lines put together.
LEMMA ConcatListed ==
    ASSUME NEW l, Listed(l), NEW m, Listed(m)
    PROVE  /\ Listed(l \o m)
           /\ Len(l \o m) = Len(l) + Len(m)
           /\ DOMAIN (l \o m) = 1 .. Len(l) + Len(m)
           /\ \A i \in 1 .. Len(l) + Len(m) :
                 (l \o m)[i] = IF i <= Len(l) THEN l[i] ELSE m[i - Len(l)]
  <1>1. PICK S : l \in Seq(S)
    BY ListedSeq
  <1>2. PICK T : m \in Seq(T)
    BY ListedSeq
  <1>3. l \in Seq(S \cup T) /\ m \in Seq(S \cup T)
    <2>1. l \in [1 .. Len(l) -> S \cup T] /\ Len(l) \in Nat
      BY <1>1
    <2>2. m \in [1 .. Len(m) -> S \cup T] /\ Len(m) \in Nat
      BY <1>2
    <2> QED
      BY <2>1, <2>2
  <1>4. l \o m \in Seq(S \cup T)
    BY <1>3
  <1>5. Listed(l \o m)
    BY <1>4, SeqListed
  <1>6. Len(l \o m) = Len(l) + Len(m) /\ DOMAIN (l \o m) = 1 .. Len(l) + Len(m)
    BY <1>3, <1>4
  <1>7. \A i \in 1 .. Len(l) + Len(m) :
           (l \o m)[i] = IF i <= Len(l) THEN l[i] ELSE m[i - Len(l)]
    BY <1>3, <1>6
  <1> QED
    BY <1>5, <1>6, <1>7

\* Two commits added at once are added one after the other.
LEMMA AppendTwice ==
    ASSUME NEW l, Listed(l), NEW x, NEW y
    PROVE  l \o << x, y >> = Append(Append(l, x), y)
  <1>1. PICK S : l \in Seq(S)
    BY ListedSeq
  <1> DEFINE T == S \cup {x, y}
  <1>2. x \in T /\ y \in T /\ \A i \in DOMAIN l : l[i] \in T
    BY <1>1
  <1> HIDE DEF T
  <1>3. l \in Seq(T)
    <2>1. l \in [1 .. Len(l) -> T] /\ Len(l) \in Nat
      BY <1>1, <1>2
    <2> QED
      BY <2>1
  <1> QED
    BY <1>2, <1>3

\* A line cut after its commit f.
LEMMA SubSeqListed ==
    ASSUME NEW l, Listed(l), NEW f \in DOMAIN l
    PROVE  /\ Listed(SubSeq(l, 1, f))
           /\ Len(SubSeq(l, 1, f)) = f
           /\ \A i \in 1 .. f : i \in DOMAIN l /\ SubSeq(l, 1, f)[i] = l[i]
  <1>1. PICK S : l \in Seq(S)
    BY ListedSeq
  <1>2. f \in Nat /\ f \in 1 .. Len(l) /\ Len(l) \in Nat
    BY <1>1
  <1>3. SubSeq(l, 1, f) \in Seq(S)
    BY <1>1, <1>2
  <1>4. Len(SubSeq(l, 1, f)) = f
    BY <1>1, <1>2
  <1>5. \A i \in 1 .. f : i \in DOMAIN l /\ SubSeq(l, 1, f)[i] = l[i]
    BY <1>1, <1>2
  <1> QED
    BY <1>3, <1>4, <1>5, SeqListed

\* -------------------------------------------- numbers in ascending order

RankIn(S, k) == Cardinality({j \in S : j < k})

\* The ranks in a set of n numbers are 0 to n - 1, each taken once and in the
\* order of the numbers.
LEMMA RankFacts ==
    ASSUME NEW n \in Nat, NEW S \in SUBSET (1 .. n)
    PROVE  /\ Cardinality(S) \in Nat
           /\ \A i \in S : RankIn(S, i) \in 0 .. Cardinality(S) - 1
           /\ \A i, j \in S : i < j => RankIn(S, i) < RankIn(S, j)
           /\ \A r \in 0 .. Cardinality(S) - 1 : \E i \in S : RankIn(S, i) = r
  <1>1. \A k \in S : k \in Int
    OBVIOUS
  <1>2. /\ IsFiniteSet(S)
        /\ \A T \in SUBSET S : IsFiniteSet(T) /\ Cardinality(T) <= Cardinality(S)
                                  /\ (Cardinality(T) = Cardinality(S) => T = S)
    <2>1. IsFiniteSet(1 .. n)
      BY FS_Interval
    <2>2. IsFiniteSet(S)
      BY <2>1, FS_Subset
    <2> QED
      BY <2>2, FS_Subset
  <1>3. Cardinality(S) \in Nat /\ \A T \in SUBSET S : Cardinality(T) \in Nat
    BY <1>2, FS_CardinalityType
  <1> DEFINE m == Cardinality(S)
             Below(i) == {j \in S : j < i}
             rank == [i \in S |-> RankIn(S, i)]
  <1>4. \A i \in S : RankIn(S, i) \in 0 .. m - 1
    <2> SUFFICES ASSUME NEW i \in S
                 PROVE  RankIn(S, i) \in 0 .. m - 1
      OBVIOUS
    <2>1. Below(i) \in SUBSET S /\ i \notin Below(i)
      BY <1>1
    <2>2. Cardinality(Below(i)) <= m /\ Cardinality(Below(i)) # m /\ Cardinality(Below(i)) \in Nat
      BY <1>2, <1>3, <2>1
    <2> QED
      BY <1>3, <2>2 DEF RankIn
  <1>5. \A i, j \in S : i < j => RankIn(S, i) < RankIn(S, j)
    <2> SUFFICES ASSUME NEW i \in S, NEW j \in S, i < j
                 PROVE  RankIn(S, i) < RankIn(S, j)
      OBVIOUS
    <2>0. i \in Int /\ j \in Int
      BY <1>1
    <2>1. \A k \in S : k < i => k < j
      BY <1>1, <2>0
    <2>7. i \in Below(j) /\ i \notin Below(i)
      BY <2>0
    <2>2. Below(i) \in SUBSET Below(j) /\ i \in Below(j) /\ i \notin Below(i)
      BY <2>1, <2>7
    <2>3. Below(j) \in SUBSET S
      OBVIOUS
    <2>4. IsFiniteSet(Below(j))
      BY <1>2, <2>3
    <2>5. Cardinality(Below(i)) <= Cardinality(Below(j)) /\ Cardinality(Below(i)) # Cardinality(Below(j))
      BY <2>2, <2>4, FS_Subset
    <2>6. Cardinality(Below(i)) \in Nat /\ Cardinality(Below(j)) \in Nat
      BY <1>3, <2>2, <2>3
    <2> QED
      BY <2>5, <2>6 DEF RankIn
  <1>6. \A i, j \in S : RankIn(S, i) = RankIn(S, j) => i = j
    <2> SUFFICES ASSUME NEW i \in S, NEW j \in S, RankIn(S, i) = RankIn(S, j), i # j
                 PROVE  FALSE
      OBVIOUS
    <2>1. i < j \/ j < i
      BY <1>1
    <2>2. RankIn(S, i) \in Nat
      BY <1>4
    <2> QED
      BY <1>5, <2>1, <2>2
  <1>7. \A r \in 0 .. m - 1 : \E i \in S : RankIn(S, i) = r
    <2>1. rank \in Injection(S, 0 .. m - 1)
      BY <1>4, <1>6 DEF Injection, IsInjective
    <2>2. IsFiniteSet(0 .. m - 1) /\ Cardinality(0 .. m - 1) = m
      <3>1. m - 1 \in Int /\ (0 > m - 1 => m = 0) /\ (m - 1) - 0 + 1 = m
        BY <1>3
      <3> QED
        BY <3>1, <1>3, FS_Interval
    <2>3. rank \in Surjection(S, 0 .. m - 1)
      BY <2>1, <2>2, FS_Injection
    <2> QED
      BY <2>3 DEF Surjection
  <1> QED
    BY <1>3, <1>4, <1>5, <1>7

\* A set of positive numbers that is not empty and has a bound has a greatest.
LEMMA GreatestExists ==
    ASSUME NEW n \in Nat, NEW S \in SUBSET (1 .. n), S # {}
    PROVE  \E k \in S : \A j \in S : j <= k
  <1>1. PICK i \in S : TRUE
    OBVIOUS
  <1>2. Cardinality(S) \in Nat /\ RankIn(S, i) \in 0 .. Cardinality(S) - 1
    BY RankFacts
  <1>3. Cardinality(S) - 1 \in 0 .. Cardinality(S) - 1
    BY <1>2
  <1>4. PICK k \in S : RankIn(S, k) = Cardinality(S) - 1
    BY <1>3, RankFacts
  <1>5. ASSUME NEW j \in S
        PROVE  j <= k
    <2>1. RankIn(S, j) \in 0 .. Cardinality(S) - 1 /\ (k < j => RankIn(S, k) < RankIn(S, j))
      BY RankFacts
    <2>2. j \in Int /\ k \in Int
      OBVIOUS
    <2> QED
      BY <1>2, <1>4, <2>1, <2>2
  <1> QED
    BY <1>5

\* Rising lists numbers of the set, each greater than the one before.
LEMMA RisingFacts ==
    ASSUME NEW n \in Nat, NEW S \in SUBSET (1 .. n)
    PROVE  /\ Cardinality(S) \in Nat
           /\ DOMAIN Rising(S) = 1 .. Cardinality(S)
           /\ \A i \in DOMAIN Rising(S) : Rising(S)[i] \in S
           /\ \A i, j \in DOMAIN Rising(S) : i < j => Rising(S)[i] < Rising(S)[j]
           /\ \A k \in S : k <= Rising(S)[Cardinality(S)]
  <1>1. Cardinality(S) \in Nat
    BY RankFacts
  <1>2. DOMAIN Rising(S) = 1 .. Cardinality(S)
    BY DEF Rising
  <1>3. ASSUME NEW i \in DOMAIN Rising(S)
        PROVE  Rising(S)[i] \in S /\ RankIn(S, Rising(S)[i]) = i - 1
    <2>1. i \in 1 .. Cardinality(S) /\ i - 1 \in 0 .. Cardinality(S) - 1
      BY <1>1, <1>2
    <2>2. \E k \in S : Cardinality({j \in S : j < k}) = i - 1
      BY <2>1, RankFacts DEF RankIn
    <2>3. Rising(S)[i] = CHOOSE k \in S : Cardinality({j \in S : j < k}) = i - 1
      BY <2>1 DEF Rising
    <2> QED
      BY <2>2, <2>3 DEF RankIn
  <1>4. ASSUME NEW i \in DOMAIN Rising(S), NEW j \in DOMAIN Rising(S), i < j
        PROVE  Rising(S)[i] < Rising(S)[j]
    <2> DEFINE p == Rising(S)[i]
               q == Rising(S)[j]
    <2>1. p \in S /\ q \in S /\ RankIn(S, p) = i - 1 /\ RankIn(S, q) = j - 1
      BY <1>3
    <2>2. i \in Int /\ j \in Int
      BY <1>1, <1>2
    <2> HIDE DEF p, q
    <2>3. p \in Int /\ q \in Int
      BY <2>1
    <2>4. ~(q < p)
      <3>1. q < p => RankIn(S, q) < RankIn(S, p)
        BY <2>1, RankFacts
      <3> QED
        BY <1>4, <2>1, <2>2, <3>1
    <2>5. p # q
      BY <1>4, <2>1, <2>2
    <2>6. p < q
      BY <2>3, <2>4, <2>5
    <2> QED
      BY <2>6 DEF p, q
  <1>5. ASSUME NEW k \in S
        PROVE  k <= Rising(S)[Cardinality(S)]
    <2>1. RankIn(S, k) \in 0 .. Cardinality(S) - 1
      BY RankFacts
    <2>2. Cardinality(S) \in DOMAIN Rising(S)
      BY <1>1, <1>2, <2>1
    <2>3. PICK q \in S : q = Rising(S)[Cardinality(S)] /\ RankIn(S, q) = Cardinality(S) - 1
      BY <1>3, <2>2
    <2>4. q < k => RankIn(S, q) < RankIn(S, k)
      BY RankFacts
    <2> QED
      BY <1>1, <2>1, <2>3, <2>4
  <1> QED
    BY <1>1, <1>2, <1>3, <1>4, <1>5

\* --------------------------------------------------- what a run adds

\* These commits are the publisher's, in the order of main, from suite commit
\* w on.
Fresh(m, w) ==
    /\ Listed(m)
    /\ \A i \in DOMAIN m :
          /\ m[i].by = "suite" /\ m[i].mark \in DOMAIN main
          /\ m[i].tree = main[m[i].mark].tree
          /\ w <= m[i].mark
    /\ \A i, j \in DOMAIN m : i < j => m[i].mark <= m[j].mark

\* replay() gives the states of main between its bounds, in main's order.
LEMMA ReplayFresh ==
    ASSUME Listed(main), NEW from \in Nat \ {0}, NEW to \in DOMAIN main, NEW cur
    PROVE  Fresh(Replay(from, to, cur), from)
  <1> DEFINE before(k) == IF k = from THEN cur ELSE main[k - 1].tree
             S == {k \in from .. to : main[k].tree \notin {Absent, before(k)}}
             m == Replay(from, to, cur)
             R == Rising(S)
             n == Cardinality(S)
  <1>1. to \in Nat /\ DOMAIN main = 1 .. Len(main) /\ Len(main) \in Nat
    BY DEF Listed
  <1>2. S \in SUBSET (1 .. to) /\ \A k \in S : k \in Nat /\ from <= k /\ k \in DOMAIN main
    BY <1>1
  <1>3. m = [i \in DOMAIN R |-> Commit(main[R[i]].tree, R[i], <<>>, "suite")]
    BY DEF Replay
  <1> HIDE DEF S, m
  <1>4. /\ n \in Nat /\ DOMAIN R = 1 .. n
        /\ \A i \in DOMAIN R : R[i] \in S
        /\ \A i, j \in DOMAIN R : i < j => R[i] < R[j]
    BY <1>1, <1>2, RisingFacts
  <1> HIDE DEF R, n
  <1>5. \A i \in DOMAIN m : m[i].by = "suite" /\ m[i].mark = R[i] /\ m[i].tree = main[R[i]].tree
    BY <1>3 DEF Commit
  <1>6. Listed(m)
    <2> DEFINE T == {m[i] : i \in 1 .. n}
    <2>1. m \in [1 .. n -> T]
      BY <1>3, <1>4
    <2> HIDE DEF T
    <2>2. m \in Seq(T)
      BY <1>4, <2>1
    <2> QED
      BY <2>2, SeqListed
  <1>7. DOMAIN m = DOMAIN R
    BY <1>3
  <1>8. ASSUME NEW i \in DOMAIN m
        PROVE  m[i].mark \in DOMAIN main /\ m[i].mark \in Nat /\ from <= m[i].mark
    BY <1>2, <1>4, <1>5, <1>7
  <1>9. ASSUME NEW i \in DOMAIN m, NEW j \in DOMAIN m, i < j
        PROVE  m[i].mark <= m[j].mark
    BY <1>4, <1>5, <1>7, <1>8, <1>9
  <1>10. Fresh(m, from)
    BY <1>5, <1>6, <1>8, <1>9 DEF Fresh
  <1> QED
    BY <1>10 DEF m

\* squash() gives the state at the target.
LEMMA SquashFresh ==
    ASSUME NEW target \in DOMAIN main, Listed(main), NEW w \in Nat, w <= target
    PROVE  Fresh(Squash(target), w)
  <1> DEFINE c == Commit(main[target].tree, target, <<>>, "suite")
  <1>1. c.by = "suite" /\ c.mark = target /\ c.tree = main[target].tree
    BY DEF Commit
  <1>2. Squash(target) = << c >>
    BY DEF Squash
  <1> HIDE DEF c
  <1>3. target \in Nat
    BY DEF Listed
  <1>4. << c >> \in Seq({c}) /\ DOMAIN << c >> = {1} /\ << c >>[1] = c
    OBVIOUS
  <1>5. Listed(<< c >>)
    BY <1>4, SeqListed
  <1> QED
    BY <1>1, <1>2, <1>3, <1>4, <1>5 DEF Fresh

\* A sound line goes on with the publisher's commits when a mark of it that is
\* newer than they are is followed by a copy.
LEMMA AddFresh ==
    ASSUME NEW line, LineSound(line), Listed(main), NEW w \in Nat, NEW m, Fresh(m, w),
           \A i \in DOMAIN line :
              line[i].mark <= w \/ \E c \in DOMAIN line : i <= c /\ line[c].by = "copy"
    PROVE  LineSound(line \o m)
  <1> DEFINE new == line \o m
             L == Len(line)
  <1>0. \A k \in DOMAIN main : k \in Nat
    BY DEF Listed
  <1>1. /\ L \in Nat /\ DOMAIN line = 1 .. L
        /\ Len(m) \in Nat /\ DOMAIN m = 1 .. Len(m)
    BY DEF LineSound, Fresh, Listed
  <1>2. /\ Listed(new)
        /\ DOMAIN new = 1 .. L + Len(m)
        /\ \A i \in 1 .. L + Len(m) : new[i] = IF i <= L THEN line[i] ELSE m[i - L]
    BY ConcatListed DEF LineSound, Fresh
  <1> HIDE DEF new, L
  <1>3. ASSUME NEW i \in DOMAIN new
        PROVE  \/ i \in DOMAIN line /\ new[i] = line[i]
               \/ i > L /\ i - L \in DOMAIN m /\ new[i] = m[i - L]
    BY <1>1, <1>2
  <1>4. \A i \in DOMAIN line : CommitSound(line[i])
    BY DEF LineSound
  <1>5. \A i \in DOMAIN m : CommitSound(m[i]) /\ w <= m[i].mark /\ m[i].mark \in Nat
    BY <1>0 DEF Fresh, CommitSound
  <1>6. \A i \in DOMAIN new : CommitSound(new[i])
    BY <1>3, <1>4, <1>5
  <1>7. ASSUME NEW i \in DOMAIN new, NEW j \in DOMAIN new, i < j, new[j].by = "suite",
               \A c \in i .. j : new[c].by # "copy"
        PROVE  new[i].mark <= new[j].mark
    <2>0. i \in Nat /\ j \in Nat
      BY <1>1, <1>2
    <2>1. CASE j \in DOMAIN line /\ new[j] = line[j]
      <3>1. \A c \in i .. j : c \in DOMAIN line /\ new[c] = line[c]
        BY <1>1, <1>2, <2>0, <2>1
      <3>2. i \in i .. j
        BY <1>7, <2>0
      <3> QED
        BY <1>7, <2>1, <3>1, <3>2 DEF LineSound, Forward
    <2>2. CASE j > L /\ j - L \in DOMAIN m /\ new[j] = m[j - L]
      <3>1. CASE i \in DOMAIN line /\ new[i] = line[i]
        <4>1. ~ \E c \in DOMAIN line : i <= c /\ line[c].by = "copy"
          <5> SUFFICES ASSUME NEW c \in DOMAIN line, i <= c, line[c].by = "copy"
                       PROVE  FALSE
            OBVIOUS
          <5>1. c \in i .. j /\ new[c] = line[c]
            BY <1>1, <1>2, <2>0, <2>2
          <5> QED
            BY <1>7, <5>1
        <4>2. line[i].mark <= w
          BY <3>1, <4>1
        <4>3. line[i].mark \in Nat /\ w <= m[j - L].mark /\ m[j - L].mark \in Nat
          BY <1>4, <1>5, <2>2, <3>1 DEF CommitSound
        <4> QED
          BY <2>2, <3>1, <4>2, <4>3
      <3>2. CASE i > L /\ i - L \in DOMAIN m /\ new[i] = m[i - L]
        <4>1. i - L < j - L
          BY <1>1, <1>7, <2>0
        <4> QED
          BY <2>2, <3>2, <4>1 DEF Fresh
      <3> QED
        BY <1>3, <3>1, <3>2
    <2> QED
      BY <1>3, <2>1, <2>2
  <1>8. Forward(new)
    BY <1>7 DEF Forward
  <1> QED
    BY <1>2, <1>6, <1>8 DEF LineSound, new

\* The watermark is the last commit with a mark, and a greater mark before it
\* is one that somebody copied or that a copy follows.
LEMMA WatermarkFacts ==
    ASSUME NEW line, LineSound(line), HasWatermark(line)
    PROVE  /\ Watermark(line) \in DOMAIN line
           /\ line[Watermark(line)].mark \in Nat \ {0}
           /\ \A k \in DOMAIN line :
                 \/ line[k].mark <= line[Watermark(line)].mark
                 \/ \E c \in DOMAIN line : k <= c /\ line[c].by = "copy"
  <1> DEFINE i == Watermark(line)
  <1>1. Len(line) \in Nat /\ DOMAIN line = 1 .. Len(line)
    BY DEF LineSound, Listed
  <1>2. Marked(line) \in SUBSET (1 .. Len(line)) /\ Marked(line) # {}
    BY <1>1 DEF Marked, HasWatermark
  <1>3. i \in Marked(line) /\ \A j \in Marked(line) : j <= i
    <2>1. \E k \in Marked(line) : \A j \in Marked(line) : j <= k
      BY <1>1, <1>2, GreatestExists
    <2> QED
      BY <2>1 DEF Watermark
  <1> HIDE DEF i
  <1>4. i \in DOMAIN line /\ line[i].mark # 0
    BY <1>3 DEF Marked
  <1>5. \A k \in DOMAIN line : CommitSound(line[k])
    BY DEF LineSound
  <1>6. line[i].mark \in Nat /\ line[i].by \in {"suite", "copy"}
    BY <1>4, <1>5 DEF CommitSound
  <1>7. ASSUME NEW k \in DOMAIN line, ~ \E c \in DOMAIN line : k <= c /\ line[c].by = "copy"
        PROVE  line[k].mark <= line[i].mark
    <2>1. CASE line[k].mark = 0
      BY <1>6, <2>1
    <2>2. CASE line[k].mark # 0
      <3>1. k \in Marked(line) /\ k \in Nat /\ i \in Nat /\ k <= i
        BY <1>1, <1>3, <1>4, <2>2 DEF Marked
      <3>2. line[i].by = "suite"
        BY <1>4, <1>6, <1>7, <3>1
      <3>3. \A c \in k .. i : line[c].by # "copy"
        BY <1>1, <1>4, <1>7, <3>1
      <3>4. CASE k = i
        BY <1>6, <3>4
      <3>5. CASE k < i
        BY <1>4, <3>2, <3>3, <3>5 DEF LineSound, Forward
      <3> QED
        BY <3>1, <3>4, <3>5
    <2> QED
      BY <2>1, <2>2
  <1> QED
    BY <1>4, <1>6, <1>7 DEF i

\* What a run makes of a sound line is a sound line.
LEMMA PlanSound ==
    ASSUME NEW line, LineSound(line), Listed(main), NEW target \in DOMAIN main, NEW named,
           Plan(line, target, named) # << >>
    PROVE  LineSound(line \o Plan(line, target, named))
  <1> DEFINE m == Plan(line, target, named)
  <1>0. target \in Nat /\ 1 <= target
    BY DEF Listed
  <1>1. CASE HasWatermark(line)
    <2> DEFINE w == line[Watermark(line)].mark
    <2>1. w \in Nat \ {0}
      BY <1>1, WatermarkFacts
    <2>2. m = Extend(line, w, target) /\ ~Ahead(w, target)
      BY <1>1 DEF Plan
    <2> HIDE DEF w, m
    <2>3. w <= target
      BY <1>0, <2>1, <2>2 DEF Ahead
    <2>4. Fresh(m, w)
      <3>1. CASE m = Squash(target)
        BY <2>1, <2>3, <3>1, SquashFresh
      <3>2. CASE m = Replay(w + 1, target, Head_(line).tree)
        <4>1. w + 1 \in Nat \ {0}
          BY <2>1
        <4>2. Fresh(m, w + 1)
          BY <3>2, <4>1, ReplayFresh
        <4>3. \A k \in DOMAIN main : k \in Nat
          BY DEF Listed
        <4> QED
          BY <2>1, <4>2, <4>3 DEF Fresh
      <3> QED
        BY <2>2, <3>1, <3>2 DEF Extend
    <2>5. \A k \in DOMAIN line : line[k].mark <= w \/ \E c \in DOMAIN line : k <= c /\ line[c].by = "copy"
      BY <1>1, WatermarkFacts DEF w
    <2>6. LineSound(line \o m)
      BY <2>1, <2>4, <2>5, AddFresh
    <2> QED
      BY <2>6 DEF m
  <1>2. CASE ~HasWatermark(line)
    <2>1. m = Adopt(line, target)
      BY <1>2 DEF Plan
    <2> HIDE DEF m
    <2>2. \A k \in DOMAIN line : line[k].mark = 0
      BY <1>2 DEF HasWatermark, Marked
    <2> DEFINE from == AdoptFrom(line, target)
               cur == IF line = << >> THEN Absent ELSE Head_(line).tree
               held == {k \in 1 .. target : line # << >> /\ main[k].tree = Head_(line).tree}
    <2>3. from \in Nat \ {0}
      <3>1. CASE held = {}
        BY <3>1 DEF AdoptFrom
      <3>2. CASE held # {}
        <4> DEFINE last == CHOOSE k \in held : \A j \in held : j <= k
        <4>1. held \in SUBSET (1 .. target)
          OBVIOUS
        <4>2. \E k \in held : \A j \in held : j <= k
          BY <1>0, <3>2, <4>1, GreatestExists
        <4>3. last \in held
          BY <4>2
        <4>4. from = 1 + last
          BY <3>2 DEF AdoptFrom
        <4>5. last \in 1 .. target
          BY <4>1, <4>3
        <4> QED
          BY <1>0, <4>4, <4>5
      <3> QED
        BY <3>1, <3>2
    <2>4. m = Replay(from, target, cur) \/ m = Squash(target)
      BY <2>1 DEF Adopt
    <2> HIDE DEF from, cur, held
    <2>5. Fresh(m, 0)
      <3>1. CASE m = Replay(from, target, cur)
        <4>1. Fresh(m, from)
          BY <2>3, <3>1, ReplayFresh
        <4>2. \A k \in DOMAIN main : k \in Nat
          BY DEF Listed
        <4> QED
          BY <4>1, <4>2 DEF Fresh
      <3>2. CASE m = Squash(target)
        <4>1. 0 \in Nat /\ 0 <= target
          BY <1>0
        <4> QED
          BY <3>2, <4>1, SquashFresh
      <3> QED
        BY <2>4, <3>1, <3>2
    <2>6. 0 \in Nat /\ \A k \in DOMAIN line : line[k].mark <= 0
      BY <2>2
    <2>7. LineSound(line \o m)
      BY <2>5, <2>6, AddFresh
    <2> QED
      BY <2>7 DEF m
  <1> QED
    BY <1>1, <1>2

\* ------------------------------------------- what else becomes of a line

\* A line stays sound when a commit that is not the publisher's is added.
LEMMA AppendSound ==
    ASSUME NEW line, LineSound(line), NEW c, CommitSound(c), c.by # "suite"
    PROVE  LineSound(Append(line, c))
  <1> DEFINE new == Append(line, c)
  <1>1. Len(line) \in Nat /\ DOMAIN line = 1 .. Len(line)
    BY DEF LineSound, Listed
  <1>2. /\ Listed(new)
        /\ DOMAIN new = 1 .. Len(line) + 1
        /\ \A i \in DOMAIN line : new[i] = line[i]
        /\ new[Len(line) + 1] = c
    BY AppendListed DEF LineSound
  <1> HIDE DEF new
  <1>3. \A i \in DOMAIN new : CommitSound(new[i])
    BY <1>1, <1>2 DEF LineSound
  <1>4. ASSUME NEW i \in DOMAIN new, NEW j \in DOMAIN new, i < j, new[j].by = "suite",
               \A k \in i .. j : new[k].by # "copy"
        PROVE  new[i].mark <= new[j].mark
    <2>1. j \in DOMAIN line /\ i \in DOMAIN line
      BY <1>1, <1>2, <1>4
    <2>2. \A k \in i .. j : k \in DOMAIN line /\ new[k] = line[k]
      BY <1>1, <1>2, <2>1
    <2>3. new[i] = line[i] /\ new[j] = line[j]
      BY <1>2, <2>1
    <2> QED
      BY <1>4, <2>1, <2>2, <2>3 DEF LineSound, Forward
  <1>5. Forward(new)
    BY <1>4 DEF Forward
  <1> QED
    BY <1>2, <1>3, <1>5 DEF LineSound, new

\* A sound line cut short is sound: Foxtrot starts from one.
LEMMA PrefixSound ==
    ASSUME NEW line, LineSound(line), NEW f \in DOMAIN line
    PROVE  LineSound(SubSeq(line, 1, f))
  <1> DEFINE new == SubSeq(line, 1, f)
  <1>1. f \in Nat
    BY DEF LineSound, Listed
  <1>2. /\ Listed(new) /\ Len(new) = f
        /\ \A i \in 1 .. f : i \in DOMAIN line /\ new[i] = line[i]
    BY SubSeqListed DEF LineSound
  <1> HIDE DEF new
  <1>3. DOMAIN new = 1 .. f
    BY <1>2 DEF Listed
  <1>4. \A i \in DOMAIN new : CommitSound(new[i])
    BY <1>2, <1>3 DEF LineSound
  <1>5. ASSUME NEW i \in DOMAIN new, NEW j \in DOMAIN new, i < j, new[j].by = "suite",
               \A k \in i .. j : new[k].by # "copy"
        PROVE  new[i].mark <= new[j].mark
    <2>1. \A k \in i .. j : k \in 1 .. f
      BY <1>1, <1>3
    <2> QED
      BY <1>2, <1>3, <1>5, <2>1 DEF LineSound, Forward
  <1>6. Forward(new)
    BY <1>5 DEF Forward
  <1> QED
    BY <1>2, <1>4, <1>6 DEF LineSound, new

\* main only grows: the states that commits name are still there.
LEMMA MainGrows ==
    ASSUME Listed(main), NEW x, main' = Append(main, x)
    PROVE  Listed(main)' /\ \A k \in DOMAIN main : k \in DOMAIN main' /\ main'[k] = main[k]
  <1>1. Listed(Append(main, x))
        /\ \A k \in DOMAIN main : k \in 1 .. Len(main) + 1 /\ Append(main, x)[k] = main[k]
    BY AppendListed DEF Listed
  <1>2. DOMAIN Append(main, x) = 1 .. Len(main) + 1
    BY AppendListed
  <1> QED
    BY <1>1, <1>2 DEF Listed

\* ---------------------------------------------------------- the invariant

\* At the start nothing is published and no run is under way.
LEMMA MirrorInit == Init => MirrorInv
  <1> SUFFICES ASSUME Init
               PROVE  MirrorInv
    OBVIOUS
  <1>1. Listed(main)
    <2> DEFINE a == [tree |-> Absent, ports |-> {}]
               b == [tree |-> {Base}, ports |-> {}]
    <2>1. main = << a, b >>
      BY DEF Init
    <2> HIDE DEF a, b
    <2>2. << a, b >> \in Seq({a, b})
      OBVIOUS
    <2> QED
      BY <2>1, <2>2, SeqListed
  <1>2. LineSound(repo)
    <2>1. CASE repo = << >>
      <3>1. << >> \in Seq({}) /\ DOMAIN << >> = {}
        OBVIOUS
      <3>2. Listed(<< >>)
        BY <3>1, SeqListed
      <3> QED
        BY <2>1, <3>1, <3>2 DEF LineSound, Forward
    <2>2. CASE repo = << Commit({Base}, 0, << >>, "member") >>
      <3> DEFINE c == Commit({Base}, 0, << >>, "member")
      <3>1. CommitSound(c) /\ c.mark = 0 /\ c.by = "member"
        BY DEF Commit, CommitSound
      <3>2. repo = << c >>
        BY <2>2
      <3> HIDE DEF c
      <3>3. << c >> \in Seq({c}) /\ DOMAIN << c >> = {1} /\ << c >>[1] = c
        OBVIOUS
      <3>4. Listed(<< c >>)
        BY <3>3, SeqListed
      <3> QED
        BY <3>1, <3>2, <3>3, <3>4 DEF LineSound, Forward
    <2> QED
      BY <2>1, <2>2 DEF Init
  <1>3. DOMAIN run = Runs /\ \A r \in Runs : run[r].pc # "push"
    BY DEF Init, Idle
  <1> QED
    BY <1>1, <1>2, <1>3 DEF MirrorInv

\* A commit of the member's own, or a copy of a published one.
LEMMA MemberSteps ==
    ASSUME MirrorInv, MemberWorks
    PROVE  MirrorInv'
  <1>1. PICK s \in Strays :
           \/ Stray(s)
           \/ Undo(s)
           \/ \E m \in Resolutions : ResolvedMerge(s, m)
           \/ \E i \in DOMAIN repo : CopyMark(s, i) \/ Foxtrot(s, i)
    BY DEF MemberWorks
  <1>2. Listed(main) /\ DOMAIN run = Runs /\ LineSound(repo)
    BY DEF MirrorInv
  <1>3. ASSUME NEW tree, NEW own
        PROVE  /\ CommitSound(Commit(tree, 0, own, "member"))
               /\ Commit(tree, 0, own, "member").by # "suite"
    BY DEF CommitSound, Commit
  <1>4. ASSUME NEW line, LineSound(line), OwnWork(line)
        PROVE  MirrorInv'
    <2>1. main' = main /\ run' = run /\ repo' = line
      BY <1>4 DEF OwnWork
    <2> QED
      BY <1>4, <2>1 DEF MirrorInv, LineSound, CommitSound, Forward, Listed
  <1>5. CASE Stray(s)
    <2> DEFINE c == Commit(Head_(repo).tree \cup {s}, 0, << [patch |-> s, undo |-> FALSE] >>, "member")
    <2>1. OwnWork(Append(repo, c))
      BY <1>5 DEF Stray
    <2>2. CommitSound(c) /\ c.by # "suite"
      BY <1>3
    <2> HIDE DEF c
    <2> QED
      BY <1>2, <1>4, <2>1, <2>2, AppendSound
  <1>6. CASE Undo(s)
    <2> DEFINE c == Commit(Head_(repo).tree \ {s}, 0, << [patch |-> s, undo |-> TRUE] >>, "member")
    <2>1. OwnWork(Append(repo, c))
      BY <1>6 DEF Undo
    <2>2. CommitSound(c) /\ c.by # "suite"
      BY <1>3
    <2> HIDE DEF c
    <2> QED
      BY <1>2, <1>4, <2>1, <2>2, AppendSound
  <1>7. ASSUME NEW m \in Resolutions, ResolvedMerge(s, m)
        PROVE  MirrorInv'
    <2> DEFINE c == Commit(Head_(repo).tree \cup {s, m}, 0, << [patch |-> s, undo |-> FALSE] >>, "member")
    <2>1. OwnWork(Append(repo, c))
      BY <1>7 DEF ResolvedMerge
    <2>2. CommitSound(c) /\ c.by # "suite"
      BY <1>3
    <2> HIDE DEF c
    <2> QED
      BY <1>2, <1>4, <2>1, <2>2, AppendSound
  <1>8. ASSUME NEW i \in DOMAIN repo, CopyMark(s, i)
        PROVE  MirrorInv'
    <2> DEFINE c == Commit(Head_(repo).tree \cup {s}, repo[i].mark, << >>, "copy")
    <2>1. OwnWork(Append(repo, c))
      BY <1>8 DEF CopyMark
    <2>2. repo[i].mark \in Nat /\ repo[i].mark \in DOMAIN main
      BY <1>2, <1>8 DEF CopyMark, Marked, LineSound, CommitSound
    <2>3. CommitSound(c) /\ c.by # "suite"
      BY <2>2 DEF CommitSound, Commit
    <2> HIDE DEF c
    <2> QED
      BY <1>2, <1>4, <2>1, <2>3, AppendSound
  <1>9. ASSUME NEW f \in DOMAIN repo, Foxtrot(s, f)
        PROVE  MirrorInv'
    <2> DEFINE side == SubSeq(repo, f + 1, Len(repo))
               kept == SubSeq(repo, 1, f)
               b == Commit(repo[f].tree \cup {s}, 0, << [patch |-> s, undo |-> FALSE] >>, "member")
               c == Commit(Head_(repo).tree \cup {s}, 0,
                           FlattenSeq([k \in DOMAIN side |-> side[k].own]), "member")
    <2>1. OwnWork(kept \o << b, c >>)
      BY <1>9 DEF Foxtrot
    <2>2. CommitSound(b) /\ b.by # "suite" /\ CommitSound(c) /\ c.by # "suite"
      BY <1>3
    <2>3. LineSound(kept)
      BY <1>2, <1>9, PrefixSound
    <2> HIDE DEF b, c, kept
    <2>4. LineSound(Append(kept, b))
      BY <2>2, <2>3, AppendSound
    <2>5. LineSound(Append(Append(kept, b), c))
      BY <2>2, <2>4, AppendSound
    <2>6. kept \o << b, c >> = Append(Append(kept, b), c)
      BY <2>3, AppendTwice DEF LineSound
    <2>7. LineSound(kept \o << b, c >>)
      BY <2>5, <2>6
    <2> QED
      BY <1>4, <2>1, <2>7
  <1> QED
    BY <1>1, <1>5, <1>6, <1>7, <1>8, <1>9

\* main grows; ports and pull requests are nothing to the lines.
LEMMA SuiteSteps ==
    ASSUME MirrorInv, SuiteWorks
    PROVE  MirrorInv'
  <1>1. Listed(main) /\ DOMAIN run = Runs /\ LineSound(repo)
        /\ \A r \in Runs : run[r].pc = "push" => LineSound(run[r].new)
    BY DEF MirrorInv
  <1>2. repo' = repo /\ run' = run
    BY Zenon DEF SuiteWorks, Develop, Port, PortRef, MergePort
  <1>3. main' = main \/ \E x : main' = Append(main, x)
    BY Zenon DEF SuiteWorks, Develop, Port, PortRef, MergePort, Grow
  <1>4. CASE main' = main
    <2>1. Listed(main)' /\ LineSound(repo)'
      BY <1>1, <1>2, <1>4 DEF LineSound, CommitSound, Forward, Listed
    <2>2. ASSUME NEW r \in Runs, run'[r].pc = "push"
          PROVE  LineSound(run[r].new)'
      <3>1. LineSound(run[r].new)
        BY <1>1, <1>2, <2>2
      <3> QED
        BY <1>2, <1>4, <3>1 DEF LineSound, CommitSound, Forward, Listed
    <2> QED
      BY <1>1, <1>2, <2>1, <2>2 DEF MirrorInv
  <1>5. ASSUME NEW x, main' = Append(main, x)
        PROVE  MirrorInv'
    <2>1. Listed(main)' /\ \A k \in DOMAIN main : k \in DOMAIN main' /\ main'[k] = main[k]
      BY <1>1, <1>5, MainGrows
    <2>2. LineSound(repo)'
      BY <1>1, <1>2, <2>1 DEF LineSound, CommitSound, Forward, Listed
    <2>3. ASSUME NEW r \in Runs, run'[r].pc = "push"
          PROVE  LineSound(run[r].new)'
      <3>1. PICK new : new = run[r].new /\ new = run'[r].new
        BY <1>2
      <3>2. LineSound(new)
        BY <1>1, <1>2, <2>3, <3>1
      <3>3. LineSound(new)'
        BY <2>1, <3>2 DEF LineSound, CommitSound, Forward, Listed
      <3> QED
        BY <3>1, <3>3 DEF LineSound, CommitSound, Forward, Listed
    <2> QED
      BY <1>1, <1>2, <2>1, <2>2, <2>3 DEF MirrorInv
  <1> QED
    BY <1>3, <1>4, <1>5

\* A run begins, pushes or dies.
LEMMA RunSteps ==
    ASSUME MirrorInv, NEW r \in Runs, AutoRun(r) \/ OtherRun(r) \/ Push(r) \/ Fault(r)
    PROVE  MirrorInv'
  <1>1. Listed(main) /\ DOMAIN run = Runs /\ LineSound(repo)
        /\ \A q \in Runs : run[q].pc = "push" => LineSound(run[q].new)
    BY DEF MirrorInv
  <1>2. main' = main
    BY DEF AutoRun, OtherRun, Begin, Push, Fault
  <1>3. ASSUME LineSound(repo'), DOMAIN run' = Runs,
               \A q \in Runs : run'[q].pc = "push" => LineSound(run'[q].new)
        PROVE  MirrorInv'
    <2>1. LineSound(repo)'
      BY <1>2, <1>3 DEF LineSound, CommitSound, Forward, Listed
    <2>2. ASSUME NEW q \in Runs, run'[q].pc = "push"
          PROVE  LineSound(run[q].new)'
      <3>1. LineSound(run'[q].new)
        BY <1>3, <2>2
      <3> QED
        BY <1>2, <3>1 DEF LineSound, CommitSound, Forward, Listed
    <2>3. Listed(main)'
      BY <1>1, <1>2 DEF Listed
    <2> QED
      BY <1>3, <2>1, <2>2, <2>3 DEF MirrorInv
  <1>4. ASSUME NEW target, NEW named, Begin(r, target, named)
        PROVE  MirrorInv'
    <2> DEFINE added == Plan(repo, target, named)
               next == [pc |-> "push", target |-> target, named |-> named, new |-> repo \o added]
    <2>1. target \in DOMAIN main /\ added # << >> /\ repo' = repo
          /\ run' = [run EXCEPT ![r] = next]
      BY <1>4 DEF Begin
    <2>2. LineSound(repo \o added)
      BY <1>1, <2>1, PlanSound
    <2>3. next.new = repo \o added
      OBVIOUS
    <2> HIDE DEF next, added
    <2>4. DOMAIN run' = Runs /\ run'[r] = next /\ \A q \in Runs \ {r} : run'[q] = run[q]
      BY <1>1, <2>1
    <2>5. \A q \in Runs : run'[q].pc = "push" => LineSound(run'[q].new)
      BY <1>1, <2>2, <2>3, <2>4
    <2> QED
      BY <1>1, <1>3, <2>1, <2>4, <2>5
  <1>5. ASSUME Push(r) \/ Fault(r)
        PROVE  MirrorInv'
    <2>1. /\ repo' = repo \/ (run[r].pc = "push" /\ repo' = run[r].new)
          /\ run' = [run EXCEPT ![r] = Idle]
      BY <1>5 DEF Push, Fault
    <2>2. DOMAIN run' = Runs /\ run'[r].pc = "idle" /\ \A q \in Runs \ {r} : run'[q] = run[q]
      BY <1>1, <2>1 DEF Idle
    <2>3. LineSound(repo')
      BY <1>1, <2>1
    <2>4. \A q \in Runs : run'[q].pc = "push" => LineSound(run'[q].new)
      BY <1>1, <2>2
    <2> QED
      BY <1>3, <2>2, <2>3, <2>4
  <1>6. CASE AutoRun(r)
    BY <1>4, <1>6 DEF AutoRun
  <1>7. CASE OtherRun(r)
    BY <1>4, <1>7 DEF OtherRun
  <1> QED
    BY <1>5, <1>6, <1>7

\* Along every line, the member's and those about to be pushed, the states of
\* main follow each other in main's order: the inductive invariant under
\* MirrorsSuite.
THEOREM MirrorInvariant == Spec => []MirrorInv
  <1>1. MirrorInv /\ [Next]_vars => MirrorInv'
    <2> SUFFICES ASSUME MirrorInv, [Next]_vars
                 PROVE  MirrorInv'
      OBVIOUS
    <2>1. CASE UNCHANGED vars
      BY <2>1 DEF vars, MirrorInv, LineSound, CommitSound, Forward, Listed
    <2>2. CASE MemberWorks
      BY <2>2, MemberSteps
    <2>3. CASE SuiteWorks
      BY <2>3, SuiteSteps
    <2>4. CASE \E r \in Runs : AutoRun(r) \/ OtherRun(r) \/ Push(r) \/ Fault(r)
      BY <2>4, RunSteps
    <2> QED
      BY <2>1, <2>2, <2>3, <2>4 DEF Next
  <1> QED
    BY <1>1, MirrorInit, PTL DEF Spec

\* MirrorsSuite of publish-members.py, for every number of runs, patches and
\* commits: each published commit holds the tree of the suite commit it names,
\* and the states move forward unless somebody forged a mark.
THEOREM RepositoryMirrorsSuite == Spec => []MirrorsSuite
  <1>1. MirrorInv => MirrorsSuite
    BY DEF MirrorInv, LineSound, Forward, CommitSound, MirrorsSuite, Marked
  <1> QED
    BY <1>1, MirrorInvariant, PTL

\* ------------------------------------------------------------------ types

\* A function on 1 .. n is a sequence of n.
LEMMA ListType ==
    ASSUME NEW S, NEW n \in Nat, NEW f, f \in [1 .. n -> S]
    PROVE  f \in Seq(S) /\ Len(f) = n /\ DOMAIN f = 1 .. n
  <1>1. f \in Seq(S)
    OBVIOUS
  <1>2. DOMAIN f = 1 .. n /\ DOMAIN f = 1 .. Len(f) /\ Len(f) \in Nat
    BY <1>1
  <1>3. Len(f) = n
    <2>1. n \in 1 .. n \/ n = 0
      OBVIOUS
    <2>2. Len(f) \in 1 .. Len(f) \/ Len(f) = 0
      BY <1>2
    <2> QED
      BY <1>2, <2>1, <2>2
  <1> QED
    BY <1>1, <1>2, <1>3

\* The recursion by which the library puts sequences one after the other.
FlattenAt(seqs, g, i) == IF i = 1 THEN seqs[i] ELSE g[i - 1] \o seqs[i]
Flattens(seqs, g) == g = [i \in 1 .. Len(seqs) |-> FlattenAt(seqs, g, i)]

LEMMA FlattenUnfold ==
    ASSUME NEW seqs, Len(seqs) # 0
    PROVE  FlattenSeq(seqs) = (CHOOSE g : Flattens(seqs, g))[Len(seqs)]
  BY DEF FlattenSeq, Flattens, FlattenAt

\* The recursion has a solution, by induction on how far it is unfolded.
LEMMA FlattensExist ==
    ASSUME NEW seqs, Len(seqs) \in Nat
    PROVE  \E g : Flattens(seqs, g)
  <1> DEFINE N == Len(seqs)
             UpTo(g, n) == \A i \in 1 .. N : i <= n => g[i] = FlattenAt(seqs, g, i)
             T == {n \in Nat : \E g : UpTo(g, n)}
  <1>1. 0 \in T
    <2>1. UpTo([i \in 1 .. N |-> 0], 0)
      OBVIOUS
    <2> QED
      BY <2>1
  <1>2. ASSUME NEW n \in Nat, n \in T PROVE n + 1 \in T
    <2>1. PICK g : UpTo(g, n)
      BY <1>2
    <2>2. PICK x : x = FlattenAt(seqs, g, n + 1)
      OBVIOUS
    <2> DEFINE h == [i \in 1 .. N |-> IF i = n + 1 THEN x ELSE g[i]]
    <2>3. ASSUME NEW i \in 1 .. N, i <= n + 1
          PROVE  h[i] = FlattenAt(seqs, h, i)
      <3>1. i # 1 => i - 1 \in 1 .. N /\ i - 1 # n + 1
        BY <2>3
      <3>2. i # 1 => h[i - 1] = g[i - 1]
        BY <3>1
      <3>3. FlattenAt(seqs, h, i) = FlattenAt(seqs, g, i)
        BY <3>2 DEF FlattenAt
      <3>4. h[i] = FlattenAt(seqs, g, i)
        BY <2>1, <2>2, <2>3
      <3> QED
        BY <3>3, <3>4
    <2> HIDE DEF h
    <2>4. UpTo(h, n + 1)
      BY <2>3
    <2> QED
      BY <2>4
  <1>3. Nat \subseteq T
    <2> HIDE DEF T
    <2> QED
      BY <1>1, <1>2, NaturalInduction
  <1>4. PICK g : UpTo(g, N)
    BY <1>3
  <1> DEFINE h == [i \in 1 .. N |-> g[i]]
  <1>5. ASSUME NEW i \in 1 .. N
        PROVE  h[i] = FlattenAt(seqs, h, i)
    <2>1. i # 1 => i - 1 \in 1 .. N
      OBVIOUS
    <2>2. FlattenAt(seqs, h, i) = FlattenAt(seqs, g, i)
      BY <2>1 DEF FlattenAt
    <2>3. g[i] = FlattenAt(seqs, g, i)
      BY <1>4
    <2> QED
      BY <2>2, <2>3
  <1>6. h = [i \in 1 .. N |-> FlattenAt(seqs, h, i)]
    BY <1>5
  <1> HIDE DEF h
  <1> QED
    BY <1>6 DEF Flattens

\* Sequences of the same elements put together are one.
LEMMA FlattenType ==
    ASSUME NEW A, NEW seqs \in Seq(Seq(A))
    PROVE  FlattenSeq(seqs) \in Seq(A)
  <1>0. Len(seqs) \in Nat /\ \A i \in 1 .. Len(seqs) : seqs[i] \in Seq(A)
    OBVIOUS
  <1>1. CASE Len(seqs) = 0
    <2>1. FlattenSeq(seqs) = seqs
      BY <1>1 DEF FlattenSeq
    <2>2. seqs = << >>
      BY <1>1
    <2> QED
      BY <2>1, <2>2
  <1>2. CASE Len(seqs) # 0
    <2>1. PICK g : Flattens(seqs, g) /\ FlattenSeq(seqs) = g[Len(seqs)]
      BY <1>0, <1>2, FlattenUnfold, FlattensExist
    <2>2. ASSUME NEW i \in 1 .. Len(seqs)
          PROVE  g[i] = IF i = 1 THEN seqs[i] ELSE g[i - 1] \o seqs[i]
      BY <2>1 DEF Flattens, FlattenAt
    <2> DEFINE T == {n \in Nat : n + 1 \in 1 .. Len(seqs) => g[n + 1] \in Seq(A)}
    <2>3. 0 \in T
      BY <1>0, <1>2, <2>2
    <2>4. ASSUME NEW n \in Nat, n \in T PROVE n + 1 \in T
      <3> SUFFICES ASSUME n + 2 \in 1 .. Len(seqs) PROVE g[n + 2] \in Seq(A)
        OBVIOUS
      <3>1. n + 1 \in 1 .. Len(seqs) /\ n + 2 # 1 /\ (n + 2) - 1 = n + 1
        BY <1>0
      <3>2. g[n + 1] \in Seq(A) /\ seqs[n + 2] \in Seq(A)
        BY <1>0, <2>4, <3>1
      <3>3. g[n + 2] = g[n + 1] \o seqs[n + 2]
        BY <2>2, <3>1
      <3> QED
        BY <3>2, <3>3
    <2>5. Nat \subseteq T
      <3> HIDE DEF T
      <3> QED
        BY <2>3, <2>4, NaturalInduction
    <2>6. Len(seqs) - 1 \in Nat /\ (Len(seqs) - 1) + 1 = Len(seqs)
      BY <1>0, <1>2
    <2>7. g[Len(seqs)] \in Seq(A)
      <3>1. PICK n \in Nat : n + 1 = Len(seqs)
        BY <2>6, Zenon
      <3>2. n \in T
        BY <2>5
      <3> QED
        BY <1>0, <3>1, <3>2, SMTT(30)
    <2> QED
      BY <2>1, <2>7
  <1> QED
    BY <1>1, <1>2

\* The recursion by which the library folds Apply over a port's commits.
PortAt(cs, base, g, s) ==
    IF s = {} THEN base ELSE LET x == Max(s) IN Apply(cs[x], g[s \ {x}])
Ports(cs, base, g) == g = [s \in SUBSET DOMAIN cs |-> PortAt(cs, base, g, s)]

LEMMA PortUnfold ==
    ASSUME NEW cs, NEW base
    PROVE  FoldLeft(LAMBDA tree, c : Apply(c, tree), base, cs)
              = (CHOOSE g : Ports(cs, base, g))[DOMAIN cs]
  BY DEF FoldLeft, MapThenFoldSet, Ports, PortAt

\* A set of some of the numbers 1 .. n is finite, and Max is one of them.
LEMMA MaxMember ==
    ASSUME NEW n \in Nat, NEW s \in SUBSET (1 .. n)
    PROVE  /\ IsFiniteSet(s) /\ Cardinality(s) \in Nat /\ (Cardinality(s) = 0 <=> s = {})
           /\ s # {} => /\ Max(s) \in s
                        /\ s \ {Max(s)} \in SUBSET (1 .. n)
                        /\ Cardinality(s \ {Max(s)}) = Cardinality(s) - 1
  <1>1. IsFiniteSet(1 .. n)
    BY FS_Interval
  <1>2. IsFiniteSet(s) /\ Cardinality(s) \in Nat /\ (Cardinality(s) = 0 <=> s = {})
    BY <1>1, FS_Subset, FS_CardinalityType, FS_EmptySet
  <1>3. ASSUME s # {} PROVE Max(s) \in s
    <2>1. PICK k \in s : \A j \in s : j <= k
      BY <1>3, GreatestExists
    <2>2. \A j \in s : k >= j
      BY <2>1
    <2>3. \E x \in s : \A y \in s : x >= y
      BY <2>2
    <2>4. Max(s) = CHOOSE x \in s : \A y \in s : x >= y
      BY DEF Max
    <2> QED
      BY <2>3, <2>4
  <1>4. ASSUME s # {}
        PROVE  s \ {Max(s)} \in SUBSET (1 .. n) /\ Cardinality(s \ {Max(s)}) = Cardinality(s) - 1
    <2>1. PICK k \in s : k = Max(s)
      BY <1>3, <1>4
    <2>2. Cardinality(s \ {k}) = Cardinality(s) - 1
      BY <1>2, FS_RemoveElement
    <2> QED
      BY <2>1, <2>2
  <1> QED
    BY <1>2, <1>3, <1>4

\* The recursion has a solution, by induction on the size of the sets.
LEMMA PortsExist ==
    ASSUME NEW A, NEW cs \in Seq(A), NEW base
    PROVE  \E g : Ports(cs, base, g)
  <1> DEFINE D == DOMAIN cs
             UpTo(g, n) == \A s \in SUBSET D : Cardinality(s) <= n => g[s] = PortAt(cs, base, g, s)
             T == {n \in Nat : \E g : UpTo(g, n)}
  <1>1. D = 1 .. Len(cs) /\ Len(cs) \in Nat
    OBVIOUS
  <1> HIDE DEF D
  <1>2. ASSUME NEW s \in SUBSET D
        PROVE  /\ Cardinality(s) \in Nat /\ (Cardinality(s) = 0 <=> s = {})
               /\ s # {} => /\ s \ {Max(s)} \in SUBSET D
                            /\ Cardinality(s \ {Max(s)}) = Cardinality(s) - 1
    BY <1>1, MaxMember
  <1>3. 0 \in T
    <2> DEFINE g == [s \in SUBSET D |-> base]
    <2>1. ASSUME NEW s \in SUBSET D, Cardinality(s) <= 0
          PROVE  g[s] = PortAt(cs, base, g, s)
      <3>1. Cardinality(s) \in Nat /\ (Cardinality(s) = 0 <=> s = {})
        BY <1>2
      <3>2. s = {}
        BY <2>1, <3>1
      <3> QED
        BY <3>2 DEF PortAt
    <2>2. UpTo(g, 0)
      BY <2>1
    <2> QED
      BY <2>2
  <1>4. ASSUME NEW n \in Nat, n \in T PROVE n + 1 \in T
    <2>1. PICK g : UpTo(g, n)
      BY <1>4
    <2> DEFINE h == [s \in SUBSET D |-> IF Cardinality(s) = n + 1 THEN PortAt(cs, base, g, s) ELSE g[s]]
    <2>2. ASSUME NEW s \in SUBSET D, Cardinality(s) <= n + 1
          PROVE  h[s] = PortAt(cs, base, h, s)
      <3>1. s # {} => h[s \ {Max(s)}] = g[s \ {Max(s)}]
        <4> SUFFICES ASSUME s # {} PROVE h[s \ {Max(s)}] = g[s \ {Max(s)}]
          OBVIOUS
        <4>1. PICK t \in SUBSET D : t = s \ {Max(s)}
          BY <1>2
        <4>2. Cardinality(t) = Cardinality(s) - 1 /\ Cardinality(s) \in Nat
          BY <1>2, <4>1
        <4>3. Cardinality(t) # n + 1
          BY <2>2, <4>2
        <4>4. h[t] = g[t]
          BY <4>3
        <4> QED
          BY <4>1, <4>4
      <3> HIDE DEF h
      <3>2. PortAt(cs, base, h, s) = PortAt(cs, base, g, s)
        BY <3>1 DEF PortAt
      <3>3. h[s] = PortAt(cs, base, g, s)
        <4>1. CASE Cardinality(s) = n + 1
          BY <4>1 DEF h
        <4>2. CASE Cardinality(s) # n + 1
          <5>0. Cardinality(s) \in Nat
            BY <1>2
          <5>1. Cardinality(s) <= n
            BY <2>2, <4>2, <5>0
          <5>2. g[s] = PortAt(cs, base, g, s)
            BY <2>1, <5>1
          <5> QED
            BY <4>2, <5>2 DEF h
        <4> QED
          BY <4>1, <4>2
      <3> QED
        BY <3>2, <3>3
    <2> HIDE DEF h
    <2>3. UpTo(h, n + 1)
      BY <2>2
    <2> QED
      BY <2>3
  <1>5. Nat \subseteq T
    <2> HIDE DEF T
    <2> QED
      BY <1>3, <1>4, NaturalInduction
  <1>6. PICK g : UpTo(g, Len(cs))
    BY <1>1, <1>5
  <1> DEFINE h == [s \in SUBSET D |-> g[s]]
  <1>7. ASSUME NEW s \in SUBSET D
        PROVE  h[s] = PortAt(cs, base, h, s)
    <2>1. Cardinality(s) <= Len(cs)
      <3>1. IsFiniteSet(1 .. Len(cs)) /\ Cardinality(1 .. Len(cs)) = Len(cs)
        BY <1>1, FS_Interval, SMTT(30)
      <3> QED
        BY <1>1, <3>1, FS_Subset
    <2>2. g[s] = PortAt(cs, base, g, s)
      BY <1>6, <2>1
    <2>3. s # {} => h[s \ {Max(s)}] = g[s \ {Max(s)}]
      BY <1>2
    <2>4. h[s] = g[s]
      OBVIOUS
    <2> HIDE DEF h
    <2>5. PortAt(cs, base, h, s) = PortAt(cs, base, g, s)
      BY <2>3 DEF PortAt
    <2> QED
      BY <2>2, <2>4, <2>5
  <1>8. h = [s \in SUBSET D |-> PortAt(cs, base, h, s)]
    BY <1>7
  <1> HIDE DEF h
  <1> QED
    BY <1>8 DEF Ports, D

\* A member's commit makes a tree of a tree.
LEMMA ApplyType ==
    ASSUME NEW c \in OwnCommits, NEW tree \in Tree
    PROVE  Apply(c, tree) \in Tree
  BY DEF Apply, OwnCommits, Tree, Patches

\* The commits of a port make a tree of a tree.
LEMMA PortType ==
    ASSUME NEW cs \in Seq(OwnCommits), NEW base \in Tree
    PROVE  FoldLeft(LAMBDA tree, c : Apply(c, tree), base, cs) \in Tree
  <1>1. PICK D : D = DOMAIN cs
    OBVIOUS
  <1>2. D = 1 .. Len(cs) /\ Len(cs) \in Nat /\ \A i \in D : cs[i] \in OwnCommits
    BY <1>1
  <1>3. PICK g : /\ Ports(cs, base, g)
                 /\ FoldLeft(LAMBDA tree, c : Apply(c, tree), base, cs) = g[D]
    BY <1>1, PortUnfold, PortsExist, Zenon
  <1> DEFINE TreeAt(n) == \A s \in SUBSET D : Cardinality(s) = n => g[s] \in Tree
             T == {n \in Nat : TreeAt(n)}
  <1>4. ASSUME NEW s \in SUBSET D
        PROVE  /\ g[s] = IF s = {} THEN base ELSE Apply(cs[Max(s)], g[s \ {Max(s)}])
               /\ Cardinality(s) \in Nat /\ (Cardinality(s) = 0 <=> s = {})
               /\ s # {} => /\ Max(s) \in s
                            /\ s \ {Max(s)} \in SUBSET D
                            /\ Cardinality(s \ {Max(s)}) = Cardinality(s) - 1
    <2>1. g[s] = PortAt(cs, base, g, s)
      BY <1>1, <1>3, Zenon DEF Ports
    <2>2. g[s] = IF s = {} THEN base ELSE Apply(cs[Max(s)], g[s \ {Max(s)}])
      BY <2>1 DEF PortAt
    <2> QED
      BY <1>2, <2>2, MaxMember
  <1>5. 0 \in T
    <2>1. TreeAt(0)
      BY <1>4
    <2> QED
      BY <2>1
  <1>6. ASSUME NEW n \in Nat, n \in T PROVE n + 1 \in T
    <2>1. ASSUME NEW s \in SUBSET D, Cardinality(s) = n + 1 PROVE g[s] \in Tree
      <3>1. s # {} /\ Max(s) \in s /\ s \ {Max(s)} \in SUBSET D /\ Cardinality(s \ {Max(s)}) = n
        BY <1>4, <2>1
      <3>2. g[s \ {Max(s)}] \in Tree /\ cs[Max(s)] \in OwnCommits
        BY <1>2, <1>6, <3>1
      <3>3. g[s] = Apply(cs[Max(s)], g[s \ {Max(s)}])
        BY <1>4, <3>1
      <3> QED
        BY <3>2, <3>3, ApplyType
    <2>2. TreeAt(n + 1)
      BY <2>1
    <2> QED
      BY <2>2
  <1>7. Nat \subseteq T
    <2> HIDE DEF T
    <2> QED
      BY <1>5, <1>6, NaturalInduction
  <1>8. Cardinality(D) \in Nat
    BY <1>4
  <1>9. g[D] \in Tree
    BY <1>7, <1>8
  <1> QED
    BY <1>3, <1>9, Zenon

\* What TypeOK says of main: the member is there from its second commit on.
MainTyped ==
    /\ main \in Seq([tree : Tree \cup {Absent}, ports : SUBSET OwnCommits])
    /\ Len(main) \in 2 .. MaxMain
    /\ \A k \in 2 .. Len(main) : main[k].tree # Absent

\* A state of main with the member in it is a tree.
LEMMA StateTyped ==
    ASSUME MainTyped, NEW k \in DOMAIN main, main[k].tree # Absent
    PROVE  main[k].tree \in Tree /\ k \in 0 .. MaxMain
  <1>1. k \in 1 .. Len(main) /\ Len(main) \in Nat /\ Len(main) \in 2 .. MaxMain
    BY DEF MainTyped
  <1>2. main[k] \in [tree : Tree \cup {Absent}, ports : SUBSET OwnCommits]
    <2> DEFINE U == [tree : Tree \cup {Absent}, ports : SUBSET OwnCommits]
    <2>1. main \in Seq(U)
      BY DEF MainTyped
    <2> HIDE DEF U
    <2>2. main[k] \in U
      BY <1>1, <2>1
    <2> QED
      BY <2>2 DEF U
  <1>3. main[k].tree \in Tree
    BY <1>2
  <1> QED
    BY <1>1, <1>3, PublishAssumption

\* replay()'s commits have their type, and the last of them has the tree of
\* the state the run publishes: no later state changed it.
LEMMA ReplayTyped ==
    ASSUME MainTyped, NEW from \in Nat \ {0}, NEW to \in DOMAIN main, main[to].tree # Absent, NEW cur
    PROVE  /\ Replay(from, to, cur) \in Seq(RepoCommit)
           /\ Replay(from, to, cur) # << >> =>
                 /\ Len(Replay(from, to, cur)) \in Nat \ {0}
                 /\ Replay(from, to, cur)[Len(Replay(from, to, cur))].tree = main[to].tree
  <1> DEFINE before(k) == IF k = from THEN cur ELSE main[k - 1].tree
             S == {k \in from .. to : main[k].tree \notin {Absent, before(k)}}
             m == Replay(from, to, cur)
             R == Rising(S)
             n == Cardinality(S)
  <1>1. to \in Nat /\ DOMAIN main = 1 .. Len(main) /\ Len(main) \in Nat
    BY DEF MainTyped
  <1>2. S \in SUBSET (1 .. to) /\ \A k \in S : k \in DOMAIN main /\ main[k].tree # Absent
    BY <1>1
  <1>3. m = [i \in DOMAIN R |-> Commit(main[R[i]].tree, R[i], << >>, "suite")]
    BY DEF Replay
  <1>4. \A j \in from .. to : j \notin S => main[j].tree = Absent \/ j = from \/ main[j].tree = main[j - 1].tree
    OBVIOUS
  <1>5. \A k \in S : k \in from .. to
    OBVIOUS
  <1> HIDE DEF S, m
  <1>6. /\ n \in Nat /\ DOMAIN R = 1 .. n
        /\ \A i \in DOMAIN R : R[i] \in S
        /\ \A k \in S : k <= R[n]
    BY <1>1, <1>2, RisingFacts
  <1> HIDE DEF R, n
  <1>7. ASSUME NEW i \in 1 .. n
        PROVE  /\ Commit(main[R[i]].tree, R[i], << >>, "suite") \in RepoCommit
               /\ m[i].tree = main[R[i]].tree
    <2>1. R[i] \in DOMAIN main /\ main[R[i]].tree # Absent
      BY <1>2, <1>6
    <2>2. main[R[i]].tree \in Tree /\ R[i] \in 0 .. MaxMain
      BY <2>1, StateTyped
    <2>3. << >> \in Seq(OwnCommits)
      OBVIOUS
    <2>4. m[i] = Commit(main[R[i]].tree, R[i], << >>, "suite")
      BY <1>3, <1>6
    <2> QED
      BY <2>2, <2>3, <2>4 DEF Commit, RepoCommit
  <1>8. m \in [1 .. n -> RepoCommit]
    BY <1>3, <1>6, <1>7
  <1>9. m \in Seq(RepoCommit) /\ Len(m) = n
    BY <1>6, <1>8, ListType
  <1>10. ASSUME m # << >>
         PROVE  n # 0 /\ m[n].tree = main[to].tree
    <2>1. n # 0
      BY <1>9, <1>10
    <2>2. PICK q \in S : q = R[n] /\ \A k \in S : k <= q
      BY <1>6, <2>1
    <2>3. q \in from .. to /\ q \in Nat /\ q <= to /\ 1 <= q /\ to - q \in Nat
      BY <1>1, <1>5, <2>2
    <2> DEFINE T == {d \in Nat : q + d <= to => main[q + d].tree = main[q].tree}
    <2>4. 0 \in T
      BY <2>3
    <2>5. ASSUME NEW d \in Nat, d \in T PROVE d + 1 \in T
      <3> SUFFICES ASSUME q + (d + 1) <= to PROVE main[q + (d + 1)].tree = main[q].tree
        OBVIOUS
      <3>1. PICK j \in from .. to : j = q + (d + 1)
        BY <1>1, <2>3
      <3>2. j \in Int /\ j > q /\ j # from /\ j - 1 = q + d /\ q + d <= to
        <4>1. q \in Nat /\ from \in Nat /\ from <= q /\ d \in Nat
          BY <1>1, <2>3
        <4> QED
          BY <1>1, <3>1, <4>1
      <3>3. j \notin S
        BY <2>2, <2>3, <3>2
      <3>4. j \in 2 .. Len(main)
        BY <1>1, <2>3, <3>1, <3>2
      <3>5. main[j].tree # Absent
        BY <3>4 DEF MainTyped
      <3>6. main[j].tree = main[j - 1].tree
        BY <1>4, <3>2, <3>3, <3>5
      <3>7. main[q + d].tree = main[q].tree
        BY <2>5, <3>2
      <3> QED
        BY <3>1, <3>2, <3>6, <3>7
    <2>6. Nat \subseteq T
      <3> HIDE DEF T
      <3> QED
        BY <2>4, <2>5, NaturalInduction
    <2>7. PICK d \in Nat : q + d = to
      BY <1>1, <2>3
    <2>8. main[to].tree = main[q].tree
      <3>1. d \in T
        BY <2>6
      <3> QED
        BY <1>1, <2>7, <3>1
    <2>9. m[n].tree = main[q].tree
      <3>1. n \in 1 .. n
        BY <1>6, <2>1
      <3> QED
        BY <1>7, <2>2, <3>1
    <2> QED
      BY <2>1, <2>8, <2>9
  <1>11. m \in Seq(RepoCommit) /\ (m # << >> => Len(m) \in Nat \ {0} /\ m[Len(m)].tree = main[to].tree)
    BY <1>6, <1>9, <1>10
  <1> QED
    BY <1>11 DEF m

LEMMA SquashTyped ==
    ASSUME MainTyped, NEW target \in DOMAIN main, main[target].tree # Absent
    PROVE  /\ Squash(target) \in Seq(RepoCommit)
           /\ Len(Squash(target)) = 1
           /\ Squash(target)[1].tree = main[target].tree
  <1> DEFINE c == Commit(main[target].tree, target, << >>, "suite")
  <1>1. main[target].tree \in Tree /\ target \in 0 .. MaxMain
    BY StateTyped
  <1>2. << >> \in Seq(OwnCommits)
    OBVIOUS
  <1>3. c \in RepoCommit /\ c.tree = main[target].tree
    BY <1>1, <1>2 DEF Commit, RepoCommit
  <1>4. Squash(target) = << c >>
    BY DEF Squash
  <1> HIDE DEF c
  <1> QED
    BY <1>3, <1>4

\* What a run adds has its type and ends in the tree the run publishes.
LEMMA PlanTyped ==
    ASSUME MainTyped, NEW line \in Seq(RepoCommit),
           NEW target \in DOMAIN main, main[target].tree # Absent, NEW named,
           NEW added, added = Plan(line, target, named), added # << >>
    PROVE  /\ added \in Seq(RepoCommit)
           /\ Len(added) \in Nat \ {0}
           /\ added[Len(added)].tree = main[target].tree
  <1>0. target \in Nat /\ 1 <= target
    BY DEF MainTyped
  <1>1. CASE added = Squash(target)
    BY <1>1, SquashTyped
  <1>2. CASE \E from \in Nat \ {0} : \E cur : added = Replay(from, target, cur)
    <2>1. PICK from \in Nat \ {0} : \E cur : added = Replay(from, target, cur)
      BY <1>2
    <2> QED
      BY <2>1, ReplayTyped
  <1>3. CASE HasWatermark(line)
    <2> DEFINE i == Watermark(line)
               w == line[i].mark
    <2>1. added = Extend(line, w, target)
      BY <1>3 DEF Plan
    <2>2. w \in Nat
      <3>1. Marked(line) \in SUBSET (1 .. Len(line)) /\ Marked(line) # {} /\ Len(line) \in Nat
        BY <1>3 DEF Marked, HasWatermark
      <3>2. \E k \in Marked(line) : \A j \in Marked(line) : j <= k
        BY <3>1, GreatestExists
      <3>3. i \in 1 .. Len(line)
        BY <3>1, <3>2 DEF Watermark
      <3>4. line[i] \in RepoCommit
        BY <3>3
      <3> QED
        BY <3>4, PublishAssumption DEF RepoCommit
    <2> HIDE DEF w
    <2>3. w + 1 \in Nat \ {0}
      BY <2>2
    <2>4. added = Squash(target) \/ added = Replay(w + 1, target, Head_(line).tree)
      BY <2>1 DEF Extend
    <2> QED
      BY <1>1, <1>2, <2>3, <2>4
  <1>4. CASE ~HasWatermark(line)
    <2>1. added = Adopt(line, target)
      BY <1>4 DEF Plan
    <2> DEFINE from == AdoptFrom(line, target)
               cur == IF line = << >> THEN Absent ELSE Head_(line).tree
               held == {k \in 1 .. target : line # << >> /\ main[k].tree = Head_(line).tree}
    <2>2. from \in Nat \ {0}
      <3>1. CASE held = {}
        BY <3>1 DEF AdoptFrom
      <3>2. CASE held # {}
        <4> DEFINE last == CHOOSE k \in held : \A j \in held : j <= k
        <4>1. held \in SUBSET (1 .. target)
          OBVIOUS
        <4>2. \E k \in held : \A j \in held : j <= k
          BY <1>0, <3>2, <4>1, GreatestExists
        <4>3. last \in held
          BY <4>2
        <4>4. from = 1 + last
          BY <3>2 DEF AdoptFrom
        <4>5. last \in 1 .. target
          BY <4>1, <4>3
        <4> QED
          BY <1>0, <4>4, <4>5
      <3> QED
        BY <3>1, <3>2
    <2>3. added = Replay(from, target, cur) \/ added = Squash(target)
      BY <2>1 DEF Adopt
    <2> HIDE DEF from, cur, held
    <2> QED
      BY <1>1, <1>2, <2>2, <2>3
  <1> QED
    BY <1>3, <1>4

\* ---------------------------------------------------------- typed steps

\* What TypeOK says of the runs.
RunTyped ==
    /\ run \in [Runs -> [pc : {"idle", "push"}, target : 0 .. MaxMain,
                         named : BOOLEAN, new : Seq(RepoCommit)]]
    /\ \A r \in Runs : run[r].pc = "push" =>
          /\ run[r].target \in DOMAIN main
          /\ Head_(run[r].new).tree = main[run[r].target].tree

LEMMA TypeParts ==
    TypeOK <=> /\ MainTyped /\ RunTyped
               /\ repo \in Seq(RepoCommit) /\ pr \in Seq(OwnCommits)
               /\ owns \in 0 .. MaxOwn
  BY DEF TypeOK, MainTyped, RunTyped

LEMMA TypeInit == Init => TypeOK
  <1> SUFFICES ASSUME Init PROVE TypeOK
    OBVIOUS
  <1>1. {Base} \in Tree /\ << >> \in Seq(OwnCommits) /\ << >> \in Seq(RepoCommit)
    BY DEF Tree, Patches
  <1>2. {Base} # Absent
    BY <1>1, PublishAssumption DEF Tree
  <1>3. MainTyped
    <2> DEFINE a == [tree |-> Absent, ports |-> {}]
               b == [tree |-> {Base}, ports |-> {}]
               U == [tree : Tree \cup {Absent}, ports : SUBSET OwnCommits]
    <2>1. a \in U /\ b \in U /\ b.tree = {Base}
      BY <1>1
    <2>2. main = << a, b >>
      BY DEF Init
    <2> HIDE DEF a, b, U
    <2>3. main \in Seq(U) /\ Len(main) = 2 /\ main[2] = b
      BY <2>1, <2>2
    <2>4. 2 \in 2 .. MaxMain
      BY PublishAssumption
    <2>5. \A k \in 2 .. 2 : k = 2
      OBVIOUS
    <2> QED
      BY <1>2, <2>1, <2>3, <2>4, <2>5 DEF MainTyped, U
  <1>4. repo \in Seq(RepoCommit)
    <2> DEFINE c == Commit({Base}, 0, << >>, "member")
    <2>1. c \in RepoCommit
      BY <1>1, PublishAssumption DEF Commit, RepoCommit
    <2>2. repo = << >> \/ repo = << c >>
      BY DEF Init
    <2> HIDE DEF c
    <2>3. << c >> \in Seq(RepoCommit)
      BY <2>1
    <2> QED
      BY <1>1, <2>2, <2>3
  <1>5. RunTyped
    <2>1. run = [r \in Runs |-> Idle] /\ 0 \in 0 .. MaxMain
      BY PublishAssumption DEF Init
    <2> QED
      BY <1>1, <2>1 DEF RunTyped, Idle
  <1>6. pr \in Seq(OwnCommits) /\ owns \in 0 .. MaxOwn
    BY <1>1, PublishAssumption DEF Init
  <1> QED
    BY <1>3, <1>4, <1>5, <1>6, TypeParts

\* The newest commit of a repository that has one.
LEMMA HeadTyped ==
    ASSUME NEW S, NEW line \in Seq(S), line # << >>
    PROVE  Head_(line) \in S
  BY DEF Head_

\* A commit of the member's repository.
LEMMA CommitTyped ==
    ASSUME NEW tree \in Tree, NEW mark \in 0 .. MaxMain, NEW own \in Seq(OwnCommits),
           NEW by \in {"suite", "member", "copy"}
    PROVE  Commit(tree, mark, own, by) \in RepoCommit
  BY DEF Commit, RepoCommit

\* What the member made after its commit i.
LEMMA OwnTyped ==
    ASSUME NEW line \in Seq(RepoCommit), NEW i \in 0 .. Len(line)
    PROVE  OwnAfter(line, i) \in Seq(OwnCommits)
  <1> DEFINE own == [k \in 1 .. Len(line) - i |-> line[i + k].own]
  <1>1. Len(line) \in Nat /\ Len(line) - i \in Nat
    OBVIOUS
  <1>2. ASSUME NEW k \in 1 .. Len(line) - i
        PROVE  line[i + k].own \in Seq(OwnCommits)
    <2>1. i + k \in 1 .. Len(line)
      BY <1>1
    <2>2. line[i + k] \in RepoCommit
      BY <2>1
    <2> QED
      BY <2>2 DEF RepoCommit
  <1>3. own \in [1 .. Len(line) - i -> Seq(OwnCommits)]
    BY <1>2
  <1>4. OwnAfter(line, i) = FlattenSeq(own)
    BY DEF OwnAfter
  <1> HIDE DEF own
  <1>5. own \in Seq(Seq(OwnCommits))
    BY <1>1, <1>3, ListType
  <1> QED
    BY <1>4, <1>5, FlattenType

\* A commit of the member's own, or a copy of a published one.
LEMMA MemberTyped ==
    ASSUME TypeOK, MemberWorks
    PROVE  TypeOK'
  <1>1. PICK s \in Strays :
           \/ Stray(s)
           \/ Undo(s)
           \/ \E m \in Resolutions : ResolvedMerge(s, m)
           \/ \E i \in DOMAIN repo : CopyMark(s, i) \/ Foxtrot(s, i)
    BY DEF MemberWorks
  <1>2. repo \in Seq(RepoCommit) /\ 0 \in 0 .. MaxMain
    BY PublishAssumption, TypeParts
  <1>3. \A i \in DOMAIN repo : repo[i].tree \in Tree /\ repo[i].mark \in 0 .. MaxMain
    <2>1. ASSUME NEW i \in DOMAIN repo PROVE repo[i] \in RepoCommit
      BY <1>2
    <2> QED
      BY <2>1 DEF RepoCommit
  <1>4. ASSUME NEW line \in Seq(RepoCommit), OwnWork(line)
        PROVE  TypeOK'
    <2>1. main' = main /\ run' = run /\ pr' = pr /\ repo' = line /\ owns' \in 0 .. MaxOwn
      <3>1. owns \in 0 .. MaxOwn /\ owns < MaxOwn /\ owns' = owns + 1
        BY <1>4 DEF OwnWork, TypeOK
      <3> QED
        BY <1>4, <3>1, PublishAssumption DEF OwnWork
    <2> QED
      BY <2>1 DEF TypeOK
  <1>5. \A undo \in BOOLEAN : << [patch |-> s, undo |-> undo] >> \in Seq(OwnCommits)
    <2>1. \A undo \in BOOLEAN : [patch |-> s, undo |-> undo] \in OwnCommits
      BY DEF OwnCommits
    <2> QED
      BY <2>1
  <1>6. repo # << >> => Head_(repo).tree \in Tree
    <2>1. repo # << >> => Head_(repo) \in RepoCommit
      BY <1>2, HeadTyped
    <2> QED
      BY <2>1 DEF RepoCommit
  <1>7. s \in Patches /\ Resolutions \subseteq Patches /\ << >> \in Seq(OwnCommits)
    BY DEF Patches
  <1>8. CASE Stray(s)
    <2> DEFINE c == Commit(Head_(repo).tree \cup {s}, 0, << [patch |-> s, undo |-> FALSE] >>, "member")
    <2>1. OwnWork(Append(repo, c)) /\ repo # << >>
      BY <1>8 DEF Stray
    <2>2. Head_(repo).tree \cup {s} \in Tree
      BY <1>6, <1>7, <2>1 DEF Tree
    <2>3. c \in RepoCommit
      BY <1>2, <1>5, <2>2, CommitTyped
    <2> HIDE DEF c
    <2>4. Append(repo, c) \in Seq(RepoCommit)
      BY <1>2, <2>3
    <2> QED
      BY <1>4, <2>1, <2>4
  <1>9. CASE Undo(s)
    <2> DEFINE c == Commit(Head_(repo).tree \ {s}, 0, << [patch |-> s, undo |-> TRUE] >>, "member")
    <2>1. OwnWork(Append(repo, c)) /\ repo # << >>
      BY <1>9 DEF Undo
    <2>2. Head_(repo).tree \ {s} \in Tree
      BY <1>6, <1>7, <2>1 DEF Tree
    <2>3. c \in RepoCommit
      BY <1>2, <1>5, <2>2, CommitTyped
    <2> HIDE DEF c
    <2>4. Append(repo, c) \in Seq(RepoCommit)
      BY <1>2, <2>3
    <2> QED
      BY <1>4, <2>1, <2>4
  <1>10. ASSUME NEW m \in Resolutions, ResolvedMerge(s, m)
         PROVE  TypeOK'
    <2> DEFINE c == Commit(Head_(repo).tree \cup {s, m}, 0, << [patch |-> s, undo |-> FALSE] >>, "member")
    <2>1. OwnWork(Append(repo, c)) /\ repo # << >>
      BY <1>10 DEF ResolvedMerge
    <2>2. Head_(repo).tree \cup {s, m} \in Tree
      BY <1>6, <1>7, <2>1 DEF Tree
    <2>3. c \in RepoCommit
      BY <1>2, <1>5, <2>2, CommitTyped
    <2> HIDE DEF c
    <2>4. Append(repo, c) \in Seq(RepoCommit)
      BY <1>2, <2>3
    <2> QED
      BY <1>4, <2>1, <2>4
  <1>11. ASSUME NEW i \in DOMAIN repo, CopyMark(s, i)
         PROVE  TypeOK'
    <2> DEFINE c == Commit(Head_(repo).tree \cup {s}, repo[i].mark, << >>, "copy")
    <2>1. OwnWork(Append(repo, c)) /\ repo # << >>
      BY <1>11 DEF CopyMark
    <2>2. Head_(repo).tree \cup {s} \in Tree
      BY <1>6, <1>7, <2>1 DEF Tree
    <2>3. c \in RepoCommit
      BY <1>3, <1>7, <2>2, CommitTyped
    <2> HIDE DEF c
    <2>4. Append(repo, c) \in Seq(RepoCommit)
      BY <1>2, <2>3
    <2> QED
      BY <1>4, <2>1, <2>4
  <1>12. ASSUME NEW f \in DOMAIN repo, Foxtrot(s, f)
         PROVE  TypeOK'
    <2> DEFINE side == SubSeq(repo, f + 1, Len(repo))
               own == [k \in DOMAIN side |-> side[k].own]
               kept == SubSeq(repo, 1, f)
               b == Commit(repo[f].tree \cup {s}, 0, << [patch |-> s, undo |-> FALSE] >>, "member")
               c == Commit(Head_(repo).tree \cup {s}, 0, FlattenSeq(own), "member")
    <2>1. OwnWork(kept \o << b, c >>)
      BY <1>12 DEF Foxtrot
    <2>2. repo[f].tree \cup {s} \in Tree /\ Head_(repo).tree \cup {s} \in Tree
      <3>1. repo # << >>
        OBVIOUS
      <3> QED
        BY <1>3, <1>6, <1>7, <3>1 DEF Tree
    <2>3. side \in Seq(RepoCommit) /\ kept \in Seq(RepoCommit)
      <3>1. f \in 1 .. Len(repo) /\ Len(repo) \in Nat
        BY <1>2
      <3> QED
        BY <1>2, <3>1
    <2>4. b \in RepoCommit
      BY <1>2, <1>5, <2>2, CommitTyped
    <2> HIDE DEF side
    <2>5. FlattenSeq(own) \in Seq(OwnCommits)
      <3>1. DOMAIN side = 1 .. Len(side) /\ Len(side) \in Nat
        BY <2>3
      <3>2. ASSUME NEW k \in 1 .. Len(side) PROVE side[k].own \in Seq(OwnCommits)
        <4>1. side[k] \in RepoCommit
          BY <2>3
        <4> QED
          BY <4>1 DEF RepoCommit
      <3>3. own \in [1 .. Len(side) -> Seq(OwnCommits)]
        BY <3>1, <3>2
      <3> HIDE DEF own
      <3>4. own \in Seq(Seq(OwnCommits))
        BY <3>1, <3>3, ListType
      <3> QED
        BY <3>4, FlattenType
    <2> HIDE DEF own
    <2>6. c \in RepoCommit
      BY <1>2, <2>2, <2>5, CommitTyped
    <2> HIDE DEF b, c, kept
    <2>7. << b, c >> \in Seq(RepoCommit)
      BY <2>4, <2>6
    <2>8. kept \o << b, c >> \in Seq(RepoCommit)
      BY <2>3, <2>7
    <2> QED
      BY <1>4, <2>1, <2>8
  <1> QED
    BY <1>1, <1>8, <1>9, <1>10, <1>11, <1>12

\* main grows by a state with the member in it.
LEMMA GrowTyped ==
    ASSUME TypeOK, NEW tree \in Tree, NEW ports \in SUBSET OwnCommits, Grow(tree, ports),
           repo' = repo, run' = run, owns' = owns, pr' \in Seq(OwnCommits)
    PROVE  TypeOK'
  <1> DEFINE U == [tree : Tree \cup {Absent}, ports : SUBSET OwnCommits]
             x == [tree |-> tree, ports |-> ports]
  <1>1. main \in Seq(U) /\ Len(main) \in 2 .. MaxMain /\ \A k \in 2 .. Len(main) : main[k].tree # Absent
    BY DEF TypeOK
  <1>2. x \in U /\ x.tree = tree /\ tree # Absent
    BY PublishAssumption DEF Tree
  <1>3. main' = Append(main, x) /\ Len(main) < MaxMain
    BY DEF Grow
  <1> HIDE DEF U, x
  <1>4. /\ main' \in Seq(U) /\ Len(main') = Len(main) + 1
        /\ \A k \in 1 .. Len(main) : main'[k] = main[k]
        /\ main'[Len(main) + 1] = x
        /\ DOMAIN main' = 1 .. Len(main) + 1 /\ DOMAIN main = 1 .. Len(main)
    BY <1>1, <1>2, <1>3
  <1>5. Len(main') \in 2 .. MaxMain
    BY <1>1, <1>3, <1>4, PublishAssumption
  <1>6. ASSUME NEW k \in 2 .. Len(main')
        PROVE  main'[k].tree # Absent
    <2>1. k \in 2 .. Len(main) \/ k = Len(main) + 1
      BY <1>1, <1>4
    <2>2. CASE k \in 2 .. Len(main)
      <3>1. k \in 1 .. Len(main)
        BY <2>2
      <3> QED
        BY <1>1, <1>4, <2>2, <3>1
    <2>3. CASE k = Len(main) + 1
      BY <1>2, <1>4, <2>3
    <2> QED
      BY <2>1, <2>2, <2>3
  <1>7. MainTyped'
    BY <1>4, <1>5, <1>6 DEF MainTyped, U
  <1>8. RunTyped'
    <2>1. RunTyped
      BY TypeParts
    <2>2. \A k \in DOMAIN main : k \in DOMAIN main' /\ main'[k] = main[k]
      BY <1>1, <1>4
    <2> QED
      BY <2>1, <2>2 DEF RunTyped
  <1> QED
    BY <1>7, <1>8 DEF TypeOK, MainTyped, RunTyped

\* The suite's own work: a change, a port or its merge.
LEMMA SuiteTyped ==
    ASSUME TypeOK, SuiteWorks
    PROVE  TypeOK'
  <1>1. MainTyped /\ repo \in Seq(RepoCommit) /\ pr \in Seq(OwnCommits)
    BY TypeParts
  <1>2. Tip.tree \in Tree
    <2>1. Len(main) \in DOMAIN main /\ Len(main) \in 2 .. Len(main)
      BY <1>1 DEF MainTyped
    <2>2. main[Len(main)].tree # Absent
      BY <1>1, <2>1 DEF MainTyped
    <2> QED
      BY <1>1, <2>1, <2>2, StateTyped DEF Tip
  <1>3. CASE Develop
    <2>1. PICK tree : tree \in Tree /\ Grow(tree, {})
      <3>1. CASE \E c \in Changes \ Tip.tree : Grow(Tip.tree \cup {c}, {})
        <4>1. PICK c \in Changes : Grow(Tip.tree \cup {c}, {})
          BY <3>1
        <4>2. Tip.tree \cup {c} \in Tree
          BY <1>2, <4>1 DEF Tree, Patches
        <4> QED
          BY <4>1, <4>2
      <3>2. CASE \E c \in Tip.tree \ {Base} : Grow(Tip.tree \ {c}, {})
        <4>1. PICK c : Grow(Tip.tree \ {c}, {})
          BY <3>2
        <4>2. Tip.tree \ {c} \in Tree
          BY <1>2 DEF Tree
        <4> QED
          BY <4>1, <4>2
      <3>3. CASE Grow(Tip.tree, {})
        BY <1>2, <3>3
      <3> QED
        BY <1>3, <3>1, <3>2, <3>3 DEF Develop
    <2>2. repo' = repo /\ pr' = pr /\ run' = run /\ owns' = owns
      BY <1>3 DEF Develop
    <2> QED
      BY <1>1, <2>1, <2>2, GrowTyped
  <1>4. ASSUME pr' \in Seq(OwnCommits), main' = main, repo' = repo, run' = run, owns' = owns
        PROVE  TypeOK'
    BY <1>4 DEF TypeOK
  <1>5. CASE Port
    <2> DEFINE own == OwnAfter(repo, Watermark(repo))
               new == {i \in DOMAIN own : own[i] \notin Ported(Len(main))}
               todo == Rising(new)
    <2>1. /\ HasWatermark(repo)
          /\ \E n \in DOMAIN todo : pr' = [i \in 1 .. n |-> own[todo[i]]]
          /\ main' = main /\ repo' = repo /\ run' = run /\ owns' = owns
      BY <1>5 DEF Port
    <2>2. Watermark(repo) \in 0 .. Len(repo)
      <3>1. Marked(repo) \in SUBSET (1 .. Len(repo)) /\ Marked(repo) # {} /\ Len(repo) \in Nat
        BY <1>1, <2>1 DEF Marked, HasWatermark
      <3>2. \E k \in Marked(repo) : \A j \in Marked(repo) : j <= k
        BY <3>1, GreatestExists
      <3>3. Watermark(repo) \in 1 .. Len(repo)
        BY <3>1, <3>2 DEF Watermark
      <3> QED
        BY <3>3
    <2>3. own \in Seq(OwnCommits)
      BY <1>1, <2>2, OwnTyped
    <2>4. new \in SUBSET DOMAIN own
      OBVIOUS
    <2> HIDE DEF own, new
    <2>5. Len(own) \in Nat /\ DOMAIN own = 1 .. Len(own) /\ \A i \in DOMAIN own : own[i] \in OwnCommits
      BY <2>3
    <2>6. Cardinality(new) \in Nat /\ DOMAIN todo = 1 .. Cardinality(new) /\ \A i \in DOMAIN todo : todo[i] \in new
      BY <2>4, <2>5, RisingFacts
    <2> HIDE DEF todo
    <2>7. PICK n \in DOMAIN todo : pr' = [i \in 1 .. n |-> own[todo[i]]]
      BY <2>1
    <2>8. n \in Nat /\ \A i \in 1 .. n : i \in DOMAIN todo
      BY <2>6
    <2>9. \A i \in 1 .. n : own[todo[i]] \in OwnCommits
      BY <2>4, <2>5, <2>6, <2>8
    <2>10. pr' \in [1 .. n -> OwnCommits]
      BY <2>7, <2>9
    <2>11. pr' \in Seq(OwnCommits)
      BY <2>8, <2>10, ListType
    <2> QED
      BY <1>4, <2>1, <2>11
  <1>6. ASSUME NEW s \in Strays, PortRef(s)
        PROVE  TypeOK'
    <2>1. [patch |-> s, undo |-> FALSE] \in OwnCommits
      BY DEF OwnCommits
    <2>2. pr' = << [patch |-> s, undo |-> FALSE] >> /\ main' = main /\ repo' = repo /\ run' = run /\ owns' = owns
      BY <1>6 DEF PortRef
    <2>3. pr' \in Seq(OwnCommits)
      BY <2>1, <2>2
    <2> QED
      BY <1>4, <2>2, <2>3
  <1>7. CASE MergePort
    <2>1. PICK tree : /\ tree = FoldLeft(LAMBDA t, c : Apply(c, t), Tip.tree, pr)
                      /\ Grow(tree, Range(pr))
      BY <1>7, Zenon DEF MergePort
    <2>2. tree \in Tree
      BY <1>1, <1>2, <2>1, PortType, Zenon
    <2>3. Range(pr) \in SUBSET OwnCommits
      BY <1>1 DEF Range
    <2>4. pr' = << >> /\ repo' = repo /\ run' = run /\ owns' = owns
      BY <1>7, Zenon DEF MergePort
    <2>5. << >> \in Seq(OwnCommits)
      OBVIOUS
    <2> QED
      BY <2>1, <2>2, <2>3, <2>4, <2>5, GrowTyped, Zenon
  <1> QED
    BY <1>3, <1>5, <1>6, <1>7 DEF SuiteWorks

\* A run begins, pushes or dies.
LEMMA RunTypedSteps ==
    ASSUME TypeOK, NEW r \in Runs, AutoRun(r) \/ OtherRun(r) \/ Push(r) \/ Fault(r)
    PROVE  TypeOK'
  <1> DEFINE U == [pc : {"idle", "push"}, target : 0 .. MaxMain, named : BOOLEAN, new : Seq(RepoCommit)]
  <1>1. MainTyped /\ RunTyped /\ repo \in Seq(RepoCommit) /\ run \in [Runs -> U]
    BY TypeParts DEF RunTyped
  <1>2. main' = main /\ pr' = pr /\ owns' = owns
    BY DEF AutoRun, OtherRun, Begin, Push, Fault
  <1>3. ASSUME repo' \in Seq(RepoCommit), NEW x \in U, run' = [run EXCEPT ![r] = x],
               x.pc = "push" => x.target \in DOMAIN main /\ Head_(x.new).tree = main[x.target].tree
        PROVE  TypeOK'
    <2> HIDE DEF U
    <2>1. run' \in [Runs -> U] /\ run'[r] = x /\ \A q \in Runs \ {r} : run'[q] = run[q]
      BY <1>1, <1>3
    <2>2. \A q \in Runs : run'[q].pc = "push" =>
             run'[q].target \in DOMAIN main /\ Head_(run'[q].new).tree = main[run'[q].target].tree
      BY <1>1, <1>3, <2>1 DEF RunTyped
    <2>3. RunTyped'
      BY <1>2, <2>1, <2>2 DEF RunTyped, U, Head_
    <2> QED
      BY <1>2, <1>3, <2>3 DEF TypeOK, RunTyped
  <1>4. ASSUME NEW target, NEW named \in BOOLEAN, Begin(r, target, named)
        PROVE  TypeOK'
    <2>1. PICK added : /\ added = Plan(repo, target, named) /\ added # << >>
                       /\ run' = [run EXCEPT ![r] = [pc |-> "push", target |-> target, named |-> named,
                                                     new |-> repo \o added]]
      BY <1>4 DEF Begin
    <2>2. target \in DOMAIN main /\ main[target].tree # Absent /\ repo' = repo
      BY <1>4 DEF Begin
    <2>3. added \in Seq(RepoCommit) /\ Len(added) \in Nat \ {0} /\ added[Len(added)].tree = main[target].tree
      BY <1>1, <2>1, <2>2, PlanTyped
    <2>4. repo \o added \in Seq(RepoCommit) /\ Head_(repo \o added) = added[Len(added)]
      BY <1>1, <2>3 DEF Head_
    <2>5. target \in 0 .. MaxMain
      BY <1>1, <2>2, StateTyped
    <2> DEFINE x == [pc |-> "push", target |-> target, named |-> named, new |-> repo \o added]
    <2>6. x \in U /\ x.target = target /\ x.new = repo \o added
      BY <2>4, <2>5
    <2>7. run' = [run EXCEPT ![r] = x]
      BY <2>1
    <2> HIDE DEF x, U
    <2> QED
      BY <1>1, <1>3, <2>2, <2>3, <2>4, <2>6, <2>7
  <1>5. ASSUME Push(r) \/ Fault(r)
        PROVE  TypeOK'
    <2>1. /\ repo' = repo \/ repo' = run[r].new
          /\ run' = [run EXCEPT ![r] = Idle]
      BY <1>5 DEF Push, Fault
    <2>2. run[r].new \in Seq(RepoCommit)
      BY <1>1
    <2>3. Idle \in U /\ Idle.pc # "push"
      <3>1. << >> \in Seq(RepoCommit) /\ 0 \in 0 .. MaxMain
        BY PublishAssumption
      <3> QED
        BY <3>1 DEF Idle
    <2> HIDE DEF U
    <2> QED
      BY <1>1, <1>3, <2>1, <2>2, <2>3
  <1>6. CASE AutoRun(r)
    BY <1>4, <1>6 DEF AutoRun
  <1>7. CASE OtherRun(r)
    BY <1>4, <1>7 DEF OtherRun
  <1> QED
    BY <1>5, <1>6, <1>7

\* TypeOK of the publisher, for every number of runs, patches and commits:
\* besides the types, main never loses the member again, and a run about to
\* push has commits that end in the state of main it publishes.
THEOREM PublisherTyped == Spec => []TypeOK
  <1>1. TypeOK /\ [Next]_vars => TypeOK'
    <2> SUFFICES ASSUME TypeOK, [Next]_vars
                 PROVE  TypeOK'
      OBVIOUS
    <2>1. CASE UNCHANGED vars
      BY <2>1 DEF vars, TypeOK
    <2>2. CASE MemberWorks
      BY <2>2, MemberTyped
    <2>3. CASE SuiteWorks
      BY <2>3, SuiteTyped
    <2>4. CASE \E r \in Runs : AutoRun(r) \/ OtherRun(r) \/ Push(r) \/ Fault(r)
      BY <2>4, RunTypedSteps
    <2> QED
      BY <2>1, <2>2, <2>3, <2>4 DEF Next
  <1> QED
    BY <1>1, TypeInit, PTL DEF Spec

\* ---------------------------------------------- what the sequences hold

\* What two sequences put together hold.
LEMMA ConcatRange ==
    ASSUME NEW A, NEW l \in Seq(A), NEW m \in Seq(A), NEW c
    PROVE  c \in Range(l \o m) <=> c \in Range(l) \/ c \in Range(m)
  <1>1. /\ Len(l) \in Nat /\ Len(m) \in Nat
        /\ DOMAIN l = 1 .. Len(l) /\ DOMAIN m = 1 .. Len(m)
        /\ DOMAIN (l \o m) = 1 .. Len(l) + Len(m)
        /\ \A i \in 1 .. Len(l) + Len(m) :
              (l \o m)[i] = IF i <= Len(l) THEN l[i] ELSE m[i - Len(l)]
    BY ConcatListed, SeqListed DEF Listed
  <1> DEFINE z == l \o m
  <1> HIDE DEF z
  <1>2. ASSUME c \in Range(z) PROVE c \in Range(l) \/ c \in Range(m)
    <2>1. PICK i \in DOMAIN z : c = z[i]
      BY <1>2 DEF Range
    <2>2. CASE i <= Len(l)
      BY <1>1, <2>1, <2>2 DEF Range, z
    <2>3. CASE ~(i <= Len(l))
      <3>1. i - Len(l) \in DOMAIN m /\ z[i] = m[i - Len(l)]
        BY <1>1, <2>3 DEF z
      <3> QED
        BY <2>1, <3>1 DEF Range
    <2> QED
      BY <2>2, <2>3
  <1>3. ASSUME c \in Range(l) PROVE c \in Range(z)
    <2>1. PICK i \in DOMAIN l : c = l[i]
      BY <1>3 DEF Range
    <2>2. i \in DOMAIN z /\ z[i] = l[i]
      BY <1>1 DEF z
    <2> QED
      BY <2>1, <2>2 DEF Range
  <1>4. ASSUME c \in Range(m) PROVE c \in Range(z)
    <2>1. PICK i \in DOMAIN m : c = m[i]
      BY <1>4 DEF Range
    <2>2. Len(l) + i \in DOMAIN z /\ ~(Len(l) + i <= Len(l)) /\ (Len(l) + i) - Len(l) = i
      BY <1>1 DEF z
    <2>3. z[Len(l) + i] = m[i]
      BY <1>1, <2>2 DEF z
    <2> QED
      BY <2>1, <2>2, <2>3 DEF Range
  <1> QED
    BY <1>2, <1>3, <1>4 DEF z

\* What sequences put one after the other hold.
LEMMA FlattenRange ==
    ASSUME NEW A, NEW seqs \in Seq(Seq(A)), NEW c
    PROVE  c \in Range(FlattenSeq(seqs)) <=> \E i \in 1 .. Len(seqs) : c \in Range(seqs[i])
  <1>0. Len(seqs) \in Nat /\ \A i \in 1 .. Len(seqs) : seqs[i] \in Seq(A)
    OBVIOUS
  <1>1. CASE Len(seqs) = 0
    <2>1. FlattenSeq(seqs) = seqs /\ DOMAIN seqs = {} /\ 1 .. Len(seqs) = {}
      BY <1>1 DEF FlattenSeq
    <2> QED
      BY <2>1 DEF Range
  <1>2. CASE Len(seqs) # 0
    <2>1. PICK g : Flattens(seqs, g) /\ FlattenSeq(seqs) = g[Len(seqs)]
      BY <1>0, <1>2, FlattenUnfold, FlattensExist
    <2>2. ASSUME NEW i \in 1 .. Len(seqs)
          PROVE  g[i] = IF i = 1 THEN seqs[i] ELSE g[i - 1] \o seqs[i]
      BY <2>1 DEF Flattens, FlattenAt
    <2> DEFINE T == {n \in Nat : n + 1 \in 1 .. Len(seqs) =>
                       /\ g[n + 1] \in Seq(A)
                       /\ c \in Range(g[n + 1]) <=> \E i \in 1 .. n + 1 : c \in Range(seqs[i])}
    <2>3. 0 \in T
      BY <1>0, <1>2, <2>2
    <2>4. ASSUME NEW n \in Nat, n \in T PROVE n + 1 \in T
      <3> SUFFICES ASSUME n + 2 \in 1 .. Len(seqs)
                   PROVE  /\ g[n + 2] \in Seq(A)
                          /\ c \in Range(g[n + 2]) <=> \E i \in 1 .. n + 2 : c \in Range(seqs[i])
        OBVIOUS
      <3>1. n + 1 \in 1 .. Len(seqs) /\ n + 2 # 1 /\ (n + 2) - 1 = n + 1
        BY <1>0
      <3>2. /\ g[n + 1] \in Seq(A) /\ seqs[n + 2] \in Seq(A)
            /\ c \in Range(g[n + 1]) <=> \E i \in 1 .. n + 1 : c \in Range(seqs[i])
        BY <1>0, <2>4, <3>1
      <3>3. g[n + 2] = g[n + 1] \o seqs[n + 2]
        BY <2>2, <3>1
      <3>4. c \in Range(g[n + 2]) <=> c \in Range(g[n + 1]) \/ c \in Range(seqs[n + 2])
        BY <3>2, <3>3, ConcatRange
      <3>5. 1 .. n + 2 = (1 .. n + 1) \cup {n + 2}
        OBVIOUS
      <3>6. g[n + 2] \in Seq(A)
        BY <3>2, <3>3
      <3> QED
        BY <3>2, <3>4, <3>5, <3>6
    <2>5. Nat \subseteq T
      <3> HIDE DEF T
      <3> QED
        BY <2>3, <2>4, NaturalInduction
    <2>6. PICK n \in Nat : n + 1 = Len(seqs)
      <3>1. Len(seqs) - 1 \in Nat /\ (Len(seqs) - 1) + 1 = Len(seqs)
        BY <1>0, <1>2
      <3> QED
        BY <3>1, Zenon
    <2>7. n \in T /\ n + 1 \in 1 .. Len(seqs)
      BY <1>0, <2>5, <2>6
    <2>8. c \in Range(g[n + 1]) <=> \E i \in 1 .. n + 1 : c \in Range(seqs[i])
      BY <2>7
    <2> QED
      BY <2>1, <2>6, <2>8
  <1> QED
    BY <1>1, <1>2

\* The member's own commits after its commit i are those of the commits after.
LEMMA OwnRange ==
    ASSUME NEW line \in Seq(RepoCommit), NEW i \in 0 .. Len(line), NEW c
    PROVE  c \in Range(OwnAfter(line, i))
              <=> \E j \in i + 1 .. Len(line) : c \in Range(line[j].own)
  <1> DEFINE d == Len(line) - i
             own == [k \in 1 .. d |-> line[i + k].own]
  <1>1. Len(line) \in Nat /\ d \in Nat
    OBVIOUS
  <1>2. ASSUME NEW k \in 1 .. d
        PROVE  line[i + k].own \in Seq(OwnCommits)
    <2>1. i + k \in 1 .. Len(line)
      BY <1>1
    <2>2. line[i + k] \in RepoCommit
      BY <2>1
    <2> QED
      BY <2>2 DEF RepoCommit
  <1>3. own \in [1 .. d -> Seq(OwnCommits)]
    BY <1>2
  <1>4. OwnAfter(line, i) = FlattenSeq(own)
    BY DEF OwnAfter
  <1>5. \A k \in 1 .. d : own[k] = line[i + k].own
    OBVIOUS
  <1> HIDE DEF own
  <1>6. own \in Seq(Seq(OwnCommits)) /\ Len(own) = d
    BY <1>1, <1>3, ListType
  <1>7. c \in Range(OwnAfter(line, i)) <=> \E k \in 1 .. d : c \in Range(own[k])
    BY <1>4, <1>6, FlattenRange
  <1>8. (\E k \in 1 .. d : c \in Range(line[i + k].own))
           <=> \E j \in i + 1 .. Len(line) : c \in Range(line[j].own)
    <2>1. \A k \in 1 .. d : i + k \in i + 1 .. Len(line)
      BY <1>1
    <2>2. \A j \in i + 1 .. Len(line) : j - i \in 1 .. d /\ i + (j - i) = j
      BY <1>1
    <2> QED
      BY <2>1, <2>2
  <1> QED
    BY <1>5, <1>7, <1>8

\* The member's own commit that adds patch s.
Own(s) == [patch |-> s, undo |-> FALSE]

\* What a port adds to a tree its commits add.
LEMMA PortAdds ==
    ASSUME NEW cs \in Seq(OwnCommits), NEW base, NEW s
    PROVE  s \in FoldLeft(LAMBDA tree, c : Apply(c, tree), base, cs)
              => s \in base \/ Own(s) \in Range(cs)
  <1>1. PICK D : D = DOMAIN cs
    OBVIOUS
  <1>2. D = 1 .. Len(cs) /\ Len(cs) \in Nat /\ \A i \in D : cs[i] \in OwnCommits
    BY <1>1
  <1>3. PICK g : /\ Ports(cs, base, g)
                 /\ FoldLeft(LAMBDA tree, c : Apply(c, tree), base, cs) = g[D]
    BY <1>1, PortUnfold, PortsExist, Zenon
  <1> DEFINE AddsAt(n) == \A S \in SUBSET D : Cardinality(S) = n =>
                             (s \in g[S] => s \in base \/ Own(s) \in Range(cs))
             T == {n \in Nat : AddsAt(n)}
  <1>4. ASSUME NEW S \in SUBSET D
        PROVE  /\ g[S] = IF S = {} THEN base ELSE Apply(cs[Max(S)], g[S \ {Max(S)}])
               /\ Cardinality(S) \in Nat /\ (Cardinality(S) = 0 <=> S = {})
               /\ S # {} => /\ Max(S) \in S
                            /\ S \ {Max(S)} \in SUBSET D
                            /\ Cardinality(S \ {Max(S)}) = Cardinality(S) - 1
    <2>1. g[S] = PortAt(cs, base, g, S)
      BY <1>1, <1>3, Zenon DEF Ports
    <2>2. g[S] = IF S = {} THEN base ELSE Apply(cs[Max(S)], g[S \ {Max(S)}])
      BY <2>1 DEF PortAt
    <2> QED
      BY <1>2, <2>2, MaxMember
  <1>5. 0 \in T
    <2>1. AddsAt(0)
      BY <1>4
    <2> QED
      BY <2>1
  <1>6. ASSUME NEW n \in Nat, n \in T PROVE n + 1 \in T
    <2>1. ASSUME NEW S \in SUBSET D, Cardinality(S) = n + 1, s \in g[S]
          PROVE  s \in base \/ Own(s) \in Range(cs)
      <3>1. S # {} /\ Max(S) \in S /\ S \ {Max(S)} \in SUBSET D /\ Cardinality(S \ {Max(S)}) = n
        BY <1>4, <2>1, SMTT(30)
      <3>2. PICK k \in D : k = Max(S) /\ g[S] = Apply(cs[k], g[S \ {k}])
        BY <1>4, <3>1
      <3>3. s \in g[S \ {k}] => s \in base \/ Own(s) \in Range(cs)
        BY <1>6, <3>1, <3>2
      <3>4. s \in g[S \ {k}] \/ (~cs[k].undo /\ s = cs[k].patch)
        BY <2>1, <3>2 DEF Apply
      <3>5. ~cs[k].undo /\ s = cs[k].patch => cs[k] = Own(s)
        BY <1>2, <3>2 DEF OwnCommits, Own
      <3>6. cs[k] \in Range(cs)
        BY <1>1 DEF Range
      <3> QED
        BY <3>3, <3>4, <3>5, <3>6
    <2>2. AddsAt(n + 1)
      BY <2>1
    <2> QED
      BY <2>2
  <1>7. Nat \subseteq T
    <2> HIDE DEF T
    <2> QED
      BY <1>5, <1>6, NaturalInduction
  <1>8. Cardinality(D) \in T
    BY <1>4, <1>7
  <1> QED
    BY <1>3, <1>8, Zenon

\* ---------------------------------------------------------- lines in lines

\* A prefix, one commit at a time.
LEMMA PrefixFacts ==
    ASSUME NEW S, NEW l \in Seq(S), NEW m \in Seq(S)
    PROVE  IsPrefix(l, m) <=> Len(l) <= Len(m) /\ \A i \in 1 .. Len(l) : m[i] = l[i]
  <1>1. Len(l) \in Nat /\ Len(m) \in Nat /\ SubSeq(l, 1, Len(l)) = l
    OBVIOUS
  <1>2. ASSUME Len(l) <= Len(m)
        PROVE  SubSeq(l, 1, Len(l)) = SubSeq(m, 1, Len(l)) <=> \A i \in 1 .. Len(l) : m[i] = l[i]
    <2> DEFINE c == SubSeq(m, 1, Len(l))
    <2>1. c \in Seq(S) /\ Len(c) = Len(l) /\ \A i \in 1 .. Len(l) : c[i] = m[i]
      BY <1>1, <1>2
    <2> HIDE DEF c
    <2>2. l = c <=> \A i \in 1 .. Len(l) : m[i] = l[i]
      BY <1>1, <2>1, SMTT(30)
    <2> QED
      BY <1>1, <2>2 DEF c
  <1> QED
    BY <1>2 DEF IsPrefix

\* The first n commits of a line.
LEMMA CutFacts ==
    ASSUME NEW S, NEW l \in Seq(S), NEW n \in 0 .. Len(l)
    PROVE  /\ SubSeq(l, 1, n) \in Seq(S) /\ Len(SubSeq(l, 1, n)) = n
           /\ \A i \in 1 .. n : i \in DOMAIN l /\ SubSeq(l, 1, n)[i] = l[i]
  <1>1. Len(l) \in Nat /\ n \in Nat /\ n <= Len(l) /\ DOMAIN l = 1 .. Len(l)
    OBVIOUS
  <1>2. CASE n = 0
    BY <1>1, <1>2
  <1>3. CASE n # 0
    <2>1. 1 \in 1 .. Len(l) /\ n \in 1 .. Len(l)
      BY <1>1, <1>3
    <2> QED
      BY <1>1, <2>1
  <1> QED
    BY <1>2, <1>3

\* What a line begins with is cut off by its length.
LEMMA CutPrefix ==
    ASSUME NEW S, NEW l \in Seq(S), NEW m \in Seq(S), IsPrefix(l, m)
    PROVE  SubSeq(m, 1, Len(l)) = l
  <1>1. Len(l) <= Len(m) /\ \A i \in 1 .. Len(l) : m[i] = l[i]
    BY PrefixFacts
  <1>2. Len(l) \in 0 .. Len(m)
    BY <1>1
  <1> DEFINE c == SubSeq(m, 1, Len(l))
  <1>3. c \in Seq(S) /\ Len(c) = Len(l) /\ \A i \in 1 .. Len(l) : c[i] = m[i]
    BY <1>2, CutFacts
  <1> HIDE DEF c
  <1>4. c = l
    BY <1>1, <1>3
  <1> QED
    BY <1>4 DEF c

\* ------------------------------------------------ what a push may not do

\* A patch of the member's that a state of main holds has been ported.
StatesKnown ==
    \A k \in DOMAIN main : main[k].tree # Absent =>
       \A s \in Strays \cap main[k].tree : Own(s) \in Ported(k)

\* A patch that the member committed came to its line with that commit, or
\* with a later merge that brings it, or main has ported it.
LineKnown(line) ==
    \A i \in DOMAIN line : \A s \in Strays \cap line[i].tree :
       (i = 1 \/ s \notin line[i - 1].tree) /\ Own(s) \in Made(line) =>
          \/ Own(s) \in Ported(Len(main))
          \/ \E y \in i .. Len(line) : Own(s) \in Range(line[y].own)

\* What follows the first n commits of a run's line is the publisher's, in
\* main's order and not newer than the target.
Written(job, n) ==
    \A i \in n + 1 .. Len(job.new) :
       /\ job.new[i].by = "suite" /\ job.new[i].own = << >>
       /\ job.new[i].mark \in 1 .. job.target
       /\ job.new[i].tree = main[job.new[i].mark].tree
       /\ \A j \in n + 1 .. Len(job.new) : i < j => job.new[i].mark <= job.new[j].mark

\* A run that names nobody found its line in order: the newest published
\* commit is not forged, and what the member made since is ported or comes to
\* nothing.
Judged(job, line) ==
    \/ job.named
    \/ /\ HasWatermark(line)
       /\ LET i == Watermark(line)
              w == line[i].mark IN
          /\ w \in 1 .. job.target
          /\ line[i].tree = main[w].tree
          /\ \/ Head_(line).tree = main[w].tree
             \/ Range(OwnAfter(line, i)) \subseteq Ported(job.target)

\* The states a run's first commit may continue.
Origins(line, target) ==
    IF HasWatermark(line) THEN {line[Watermark(line)].mark}
    ELSE {k \in 1 .. target : main[k].tree = Head_(line).tree}

\* A run adds one commit, or commits that follow each state they continue.
Resumed(job, line) ==
    \/ Len(job.new) = Len(line) + 1
    \/ line = << >>
    \/ \A k \in Origins(line, job.target) :
          /\ k \in 1 .. job.target /\ main[k].tree = Head_(line).tree
          /\ \A i \in Len(line) + 1 .. Len(job.new) : k <= job.new[i].mark

\* What the member made on a line is on the other line too, which goes on from
\* the first or has left it: it does not come back to it.
Kept(line, rep) ==
    /\ Made(line) \subseteq Made(rep)
    /\ \/ IsPrefix(line, rep)
       \/ \E f \in DOMAIN line \cap DOMAIN rep : line[f] # rep[f]

JobSafe(job, rep) ==
    \E n \in 0 .. Len(job.new) - 1 :
       LET fetched == SubSeq(job.new, 1, n) IN
       /\ Written(job, n)
       /\ Judged(job, fetched)
       /\ Resumed(job, fetched)
       /\ Kept(fetched, rep)

\* With TypeOK, the inductive invariant under PushSafe.
PushInv ==
    /\ StatesKnown
    /\ LineKnown(repo)
    /\ \A r \in Runs : run[r].pc = "push" => JobSafe(run[r], repo)

\* ----------------------------------------------------- while main grows

\* The states main held are still there.
MainStands ==
    /\ \A k \in DOMAIN main : k \in DOMAIN main' /\ main'[k] = main[k] /\ Ported(k)' = Ported(k)
    /\ Ported(Len(main)) \subseteq Ported(Len(main))'

LEMMA MainStays ==
    ASSUME MainTyped, main' = main \/ \E x : main' = Append(main, x)
    PROVE  MainStands
  <1>1. Listed(main) /\ DOMAIN main = 1 .. Len(main) /\ Len(main) \in Nat /\ Len(main) \in DOMAIN main
    BY SeqListed DEF MainTyped
  <1>2. \A k \in DOMAIN main : k \in DOMAIN main' /\ main'[k] = main[k]
    BY <1>1, MainGrows
  <1>3. ASSUME NEW k \in DOMAIN main
        PROVE  Ported(k)' = Ported(k)
    <2>1. \A j \in 1 .. k : j \in DOMAIN main
      BY <1>1
    <2>2. \A j \in 1 .. k : main'[j].ports = main[j].ports
      BY <1>2, <2>1
    <2> QED
      BY <2>2 DEF Ported
  <1>4. Ported(Len(main)) \subseteq Ported(Len(main))'
    <2>1. \A j \in 1 .. Len(main) : j \in 1 .. Len(main') /\ main'[j].ports = main[j].ports
      <3>1. Listed(main)' 
        BY <1>1, MainGrows, SMTT(30)
      <3>2. DOMAIN main' = 1 .. Len(main')
        BY <3>1, Zenon DEF Listed
      <3> QED
        BY <1>1, <1>2, <3>2, Zenon
    <2> QED
      BY <2>1 DEF Ported
  <1> QED
    BY <1>2, <1>3, <1>4 DEF MainStands

\* What is known of a line stays known.
LEMMA LineStays ==
    ASSUME MainStands, NEW line, LineKnown(line)
    PROVE  LineKnown(line)'
  BY DEF MainStands, LineKnown, Made, Own

\* What a run found stays so.
LEMMA JobStays ==
    ASSUME MainTyped, MainStands, NEW job, NEW rep, JobSafe(job, rep), job.target \in DOMAIN main
    PROVE  JobSafe(job, rep)'
  <1>1. \A k \in 1 .. job.target : k \in DOMAIN main /\ main'[k] = main[k]
    <2>1. DOMAIN main = 1 .. Len(main) /\ Len(main) \in Nat
      BY DEF MainTyped
    <2> QED
      BY <2>1 DEF MainStands
  <1>2. Ported(job.target)' = Ported(job.target)
    BY DEF MainStands
  <1>3. PICK n \in 0 .. Len(job.new) - 1 :
           /\ Written(job, n) /\ Judged(job, SubSeq(job.new, 1, n))
           /\ Resumed(job, SubSeq(job.new, 1, n)) /\ Kept(SubSeq(job.new, 1, n), rep)
    BY DEF JobSafe
  <1>4. PICK line : line = SubSeq(job.new, 1, n)
    OBVIOUS
  <1>5. Written(job, n)'
    BY <1>1, <1>3 DEF Written
  <1>6. Judged(job, line)'
    <2>1. CASE job.named
      BY <2>1 DEF Judged
    <2>2. CASE ~job.named
      <3>1. PICK i : i = Watermark(line)
        OBVIOUS
      <3>2. PICK w : w = line[i].mark
        OBVIOUS
      <3>3. /\ HasWatermark(line) /\ w \in 1 .. job.target /\ line[i].tree = main[w].tree
            /\ Head_(line).tree = main[w].tree \/ Range(OwnAfter(line, i)) \subseteq Ported(job.target)
        BY <1>3, <1>4, <2>2, <3>1, <3>2 DEF Judged
      <3>4. main'[w] = main[w]
        BY <1>1, <3>3
      <3>5. /\ HasWatermark(line)' = HasWatermark(line)
            /\ Watermark(line)' = i
            /\ (Head_(line).tree)' = Head_(line).tree
            /\ Range(OwnAfter(line, i))' = Range(OwnAfter(line, i))
        BY <3>1 DEF HasWatermark, Watermark, Marked, Head_, OwnAfter
      <3>6. \/ (Head_(line).tree)' = main'[w].tree
            \/ Range(OwnAfter(line, i))' \subseteq Ported(job.target)'
        BY <1>2, <3>3, <3>4, <3>5
      <3> QED
        BY <3>2, <3>3, <3>4, <3>5, <3>6 DEF Judged
    <2> QED
      BY <2>1, <2>2
  <1>7. Resumed(job, line)'
    <2>1. CASE Len(job.new) = Len(line) + 1 \/ line = << >>
      BY <2>1 DEF Resumed
    <2>2. CASE ~(Len(job.new) = Len(line) + 1 \/ line = << >>)
      <3>1. ASSUME NEW k \in Origins(line, job.target)
            PROVE  /\ k \in 1 .. job.target /\ main[k].tree = Head_(line).tree
                   /\ \A i \in Len(line) + 1 .. Len(job.new) : k <= job.new[i].mark
        BY <1>3, <1>4, <2>2, <3>1 DEF Resumed
      <3>2. Origins(line, job.target)' = Origins(line, job.target)
        BY <1>1 DEF Origins, HasWatermark, Watermark, Marked, Head_
      <3>3. ASSUME NEW k \in Origins(line, job.target)'
            PROVE  /\ k \in 1 .. job.target /\ main'[k].tree = (Head_(line).tree)'
                   /\ \A i \in Len(line) + 1 .. Len(job.new) : k <= job.new[i].mark
        BY <1>1, <3>1, <3>2 DEF Head_
      <3> QED
        BY <3>3 DEF Resumed
    <2> QED
      BY <2>1, <2>2
  <1>8. Kept(line, rep)'
    BY <1>3, <1>4, Zenon DEF Kept, Made
  <1> QED
    BY <1>3, <1>4, <1>5, <1>6, <1>7, <1>8 DEF JobSafe

\* A state whose patches come from the newest one or from its own ports.
LEMMA GrowKnown ==
    ASSUME TypeOK, StatesKnown, NEW tree \in Tree, NEW ports, Grow(tree, ports),
           \A s \in Strays \cap tree : s \in Tip.tree \/ Own(s) \in ports
    PROVE  StatesKnown'
  <1>1. MainTyped /\ DOMAIN main = 1 .. Len(main) /\ Len(main) \in Nat /\ Len(main) \in 2 .. Len(main)
    BY TypeParts DEF MainTyped
  <1>2. main' = Append(main, [tree |-> tree, ports |-> ports])
    BY DEF Grow
  <1>3. MainStands
    BY <1>1, <1>2, MainStays, Zenon
  <1>0. PICK N : N = Len(main) + 1
    OBVIOUS
  <1> DEFINE x == [tree |-> tree, ports |-> ports]
  <1>4. DOMAIN main' = 1 .. N /\ main'[N] = x /\ Len(main') = N
    <2>1. Listed(main)
      BY <1>1, SeqListed DEF MainTyped
    <2> HIDE DEF x
    <2>2. main' = Append(main, x)
      BY <1>2 DEF x
    <2>3. DOMAIN main' = 1 .. N /\ main'[N] = x
      BY <1>0, <2>1, <2>2, AppendListed
    <2>4. Len(main') = N
      BY <1>0, <2>1, <2>2, AppendListed
    <2> QED
      BY <2>3, <2>4
  <1>5. x.tree = tree /\ x.ports = ports
    OBVIOUS
  <1> HIDE DEF x
  <1>6. main[Len(main)].tree # Absent /\ Len(main) \in DOMAIN main
    BY <1>1 DEF MainTyped
  <1>7. ASSUME NEW s \in Strays \cap tree
        PROVE  Own(s) \in Ported(N)'
    <2>1. CASE Own(s) \in ports
      <3>1. N \in 1 .. N
        BY <1>0, <1>1
      <3>2. Own(s) \in main'[N].ports
        BY <1>4, <1>5, <2>1
      <3> QED
        BY <3>1, <3>2 DEF Ported
    <2>2. CASE s \in Tip.tree
      <3>1. Own(s) \in Ported(Len(main))
        BY <1>6, <2>2 DEF StatesKnown, Tip
      <3>2. Own(s) \in Ported(Len(main))'
        BY <1>3, <3>1 DEF MainStands
      <3> QED
        BY <1>4, <3>2
    <2> QED
      BY <2>1, <2>2
  <1>8. ASSUME NEW k \in DOMAIN main', main'[k].tree # Absent, NEW s \in Strays \cap main'[k].tree
        PROVE  Own(s) \in Ported(k)'
    <2>1. CASE k = N
      BY <1>4, <1>5, <1>7, <1>8, <2>1
    <2>2. CASE k # N
      <3>1. k \in DOMAIN main
        BY <1>0, <1>1, <1>4, <2>2, <1>8
      <3>2. main'[k] = main[k] /\ Ported(k)' = Ported(k)
        BY <1>3, <3>1 DEF MainStands
      <3> QED
        BY <1>8, <3>1, <3>2 DEF StatesKnown
    <2> QED
      BY <2>1, <2>2
  <1> QED
    BY <1>8, Zenon DEF StatesKnown, Own

\* The suite's own work.
LEMMA SuiteKnown ==
    ASSUME TypeOK, PushInv, SuiteWorks
    PROVE  PushInv'
  <1>1. MainTyped /\ RunTyped /\ pr \in Seq(OwnCommits)
    BY TypeParts
  <1>2. repo' = repo /\ run' = run
    BY Zenon DEF SuiteWorks, Develop, Port, PortRef, MergePort
  <1>3. main' = main \/ \E x : main' = Append(main, x)
    BY Zenon DEF SuiteWorks, Develop, Port, PortRef, MergePort, Grow
  <1>4. MainStands
    BY <1>1, <1>3, MainStays
  <1>5. LineKnown(repo)'
    <2>1. PICK line : line = repo
      OBVIOUS
    <2>2. LineKnown(line)'
      BY <1>4, <2>1, LineStays DEF PushInv
    <2> QED
      BY <1>2, <2>1, <2>2 DEF LineKnown, Made
  <1>6. ASSUME NEW r \in Runs, run'[r].pc = "push"
        PROVE  JobSafe(run[r], repo)'
    <2>1. PICK job : job = run[r]
      OBVIOUS
    <2>2. PICK rep : rep = repo
      OBVIOUS
    <2>3. JobSafe(job, rep) /\ job.target \in DOMAIN main
      BY <1>1, <1>2, <1>6, <2>1, <2>2 DEF PushInv, RunTyped
    <2>4. JobSafe(job, rep)'
      BY <1>1, <1>4, <2>3, JobStays
    <2>5. run'[r] = job /\ repo' = rep
      BY <1>2, <2>1, <2>2
    <2> QED
      BY <2>4, <2>5
  <1>7. Tip.tree \in Tree
    <2>1. Len(main) \in DOMAIN main /\ Len(main) \in 2 .. Len(main)
      BY <1>1 DEF MainTyped
    <2>2. main[Len(main)].tree # Absent
      BY <1>1, <2>1 DEF MainTyped
    <2> QED
      BY <1>1, <2>1, <2>2, StateTyped DEF Tip
  <1>8. StatesKnown'
    <2>0. StatesKnown
      BY DEF PushInv
    <2>1. CASE main' = main
      BY <2>0, <2>1 DEF StatesKnown, Ported
    <2>2. CASE Develop
      <3>1. PICK tree : tree \in Tree /\ Grow(tree, {}) /\ \A s \in Strays \cap tree : s \in Tip.tree
        <4>1. CASE \E c \in Changes \ Tip.tree : Grow(Tip.tree \cup {c}, {})
          <5>1. PICK c \in Changes : Grow(Tip.tree \cup {c}, {})
            BY <4>1
          <5>2. Tip.tree \cup {c} \in Tree
            BY <1>7, <5>1 DEF Tree, Patches
          <5>3. c \notin Strays
            BY <5>1, PublishAssumption
          <5> QED
            BY <5>1, <5>2, <5>3
        <4>2. CASE \E c \in Tip.tree \ {Base} : Grow(Tip.tree \ {c}, {})
          <5>1. PICK c : Grow(Tip.tree \ {c}, {})
            BY <4>2
          <5>2. Tip.tree \ {c} \in Tree
            BY <1>7 DEF Tree
          <5> QED
            BY <5>1, <5>2
        <4>3. CASE Grow(Tip.tree, {})
          BY <1>7, <4>3
        <4> QED
          BY <2>2, <4>1, <4>2, <4>3 DEF Develop
      <3> QED
        BY <2>0, <3>1, GrowKnown
    <2>3. CASE MergePort
      <3>1. PICK tree : /\ tree = FoldLeft(LAMBDA t, c : Apply(c, t), Tip.tree, pr)
                        /\ Grow(tree, Range(pr))
        BY <2>3, Zenon DEF MergePort
      <3>2. tree \in Tree
        BY <1>1, <1>7, <3>1, PortType, Zenon
      <3>3. \A s \in Strays \cap tree : s \in Tip.tree \/ Own(s) \in Range(pr)
        BY <1>1, <3>1, PortAdds, Zenon
      <3> QED
        BY <2>0, <3>1, <3>2, <3>3, GrowKnown, Zenon
    <2> QED
      BY <2>1, <2>2, <2>3 DEF SuiteWorks, Port, PortRef
  <1> QED
    BY <1>5, <1>6, <1>8 DEF PushInv

\* ------------------------------------------------ while the line changes

\* What was known of a line is known of one that goes on from it, when new
\* patches come with their commits.
LEMMA ExtensionKnown ==
    ASSUME NEW line \in Seq(RepoCommit), NEW new \in Seq(RepoCommit),
           IsPrefix(line, new), LineKnown(line),
           \A i \in Len(line) + 1 .. Len(new) : \A s \in Strays \cap new[i].tree :
              (i = 1 \/ s \notin new[i - 1].tree) /\ Own(s) \in Made(new) =>
                 \/ Own(s) \in Ported(Len(main))
                 \/ \E y \in i .. Len(new) : Own(s) \in Range(new[y].own)
    PROVE  LineKnown(new)
  <1>1. /\ Len(line) \in Nat /\ Len(new) \in Nat /\ Len(line) <= Len(new)
        /\ DOMAIN line = 1 .. Len(line) /\ DOMAIN new = 1 .. Len(new)
        /\ \A i \in 1 .. Len(line) : new[i] = line[i]
    BY PrefixFacts
  <1>2. ASSUME NEW i \in DOMAIN new, NEW s \in Strays \cap new[i].tree,
               i = 1 \/ s \notin new[i - 1].tree, Own(s) \in Made(new)
        PROVE  \/ Own(s) \in Ported(Len(main))
               \/ \E y \in i .. Len(new) : Own(s) \in Range(new[y].own)
    <2>1. CASE i \in Len(line) + 1 .. Len(new)
      BY <1>2, <2>1
    <2>2. CASE i \in DOMAIN line
      <3>1. new[i] = line[i] /\ (i # 1 => new[i - 1] = line[i - 1])
        BY <1>1, <2>2
      <3>2. CASE Own(s) \in Made(line)
        <4>1. \/ Own(s) \in Ported(Len(main))
              \/ \E y \in i .. Len(line) : Own(s) \in Range(line[y].own)
          BY <1>2, <2>2, <3>1, <3>2 DEF LineKnown
        <4>2. \A y \in i .. Len(line) : y \in i .. Len(new) /\ new[y] = line[y]
          BY <1>1, <2>2
        <4> QED
          BY <4>1, <4>2
      <3>3. CASE Own(s) \notin Made(line)
        <4>1. PICK y \in DOMAIN new : Own(s) \in Range(new[y].own)
          BY <1>2 DEF Made
        <4>2. y \notin DOMAIN line
          BY <1>1, <3>3, <4>1 DEF Made
        <4>3. y \in i .. Len(new)
          BY <1>1, <2>2, <4>2
        <4> QED
          BY <4>1, <4>3
      <3> QED
        BY <3>2, <3>3
    <2> QED
      BY <1>1, <2>1, <2>2
  <1> QED
    BY <1>2 DEF LineKnown

\* What the member made on a line stays when the line goes on.
LEMMA MadeGrows ==
    ASSUME NEW line \in Seq(RepoCommit), NEW new \in Seq(RepoCommit), IsPrefix(line, new)
    PROVE  Made(line) \subseteq Made(new)
  <1>1. \A i \in DOMAIN line : i \in DOMAIN new /\ new[i] = line[i]
    BY PrefixFacts
  <1> QED
    BY <1>1 DEF Made

\* A line kept is kept by what goes on.
LEMMA ExtensionKeeps ==
    ASSUME NEW line \in Seq(RepoCommit), NEW rep \in Seq(RepoCommit), NEW new \in Seq(RepoCommit),
           IsPrefix(rep, new), Kept(line, rep)
    PROVE  Kept(line, new)
  <1>1. /\ Len(rep) \in Nat /\ Len(new) \in Nat /\ Len(line) \in Nat /\ Len(rep) <= Len(new)
        /\ \A i \in 1 .. Len(rep) : new[i] = rep[i]
        /\ DOMAIN line = 1 .. Len(line) /\ DOMAIN rep = 1 .. Len(rep) /\ DOMAIN new = 1 .. Len(new)
    BY PrefixFacts
  <1>2. Made(line) \subseteq Made(new)
    BY MadeGrows DEF Kept
  <1>3. CASE IsPrefix(line, rep)
    <2>1. Len(line) <= Len(rep) /\ \A i \in 1 .. Len(line) : rep[i] = line[i]
      BY <1>3, PrefixFacts
    <2>2. Len(line) <= Len(new) /\ \A i \in 1 .. Len(line) : new[i] = line[i]
      BY <1>1, <2>1
    <2>3. IsPrefix(line, new)
      BY <2>2, PrefixFacts
    <2> QED
      BY <1>2, <2>3 DEF Kept
  <1>4. CASE \E f \in DOMAIN line \cap DOMAIN rep : line[f] # rep[f]
    <2>1. PICK f \in DOMAIN line \cap DOMAIN rep : line[f] # rep[f]
      BY <1>4
    <2>2. f \in DOMAIN new /\ new[f] = rep[f]
      BY <1>1
    <2> QED
      BY <1>2, <2>1, <2>2 DEF Kept
  <1> QED
    BY <1>3, <1>4 DEF Kept

\* A line goes on by a commit.
LEMMA AppendPrefix ==
    ASSUME NEW S, NEW line \in Seq(S), NEW c \in S
    PROVE  /\ Append(line, c) \in Seq(S) /\ IsPrefix(line, Append(line, c))
           /\ Len(Append(line, c)) = Len(line) + 1
           /\ Append(line, c)[Len(line) + 1] = c
           /\ \A i \in 1 .. Len(line) : Append(line, c)[i] = line[i]
  <1> DEFINE new == Append(line, c)
  <1>1. /\ new \in Seq(S) /\ Len(new) = Len(line) + 1 /\ new[Len(line) + 1] = c
        /\ \A i \in 1 .. Len(line) : new[i] = line[i]
        /\ Len(line) <= Len(line) + 1
    OBVIOUS
  <1> HIDE DEF new
  <1>2. IsPrefix(line, new)
    BY <1>1, PrefixFacts
  <1> QED
    BY <1>1, <1>2 DEF new

\* What a commit adds to what the member made.
LEMMA MadeAppend ==
    ASSUME NEW line \in Seq(RepoCommit), NEW c \in RepoCommit
    PROVE  Made(Append(line, c)) = Made(line) \cup Range(c.own)
  <1> DEFINE new == Append(line, c)
  <1>1. /\ new \in Seq(RepoCommit) /\ Len(new) = Len(line) + 1 /\ new[Len(line) + 1] = c
        /\ \A i \in 1 .. Len(line) : new[i] = line[i]
    BY AppendPrefix
  <1>2. DOMAIN new = DOMAIN line \cup {Len(line) + 1} /\ DOMAIN line = 1 .. Len(line)
    BY <1>1
  <1> HIDE DEF new
  <1>3. Made(new) = Made(line) \cup Range(c.own)
    BY <1>1, <1>2 DEF Made
  <1> QED
    BY <1>3 DEF new

\* A commit that brings no patch but its own, or one nobody made.
LEMMA AppendKnown ==
    ASSUME NEW line \in Seq(RepoCommit), LineKnown(line), NEW c \in RepoCommit,
           \A s \in Strays \cap c.tree : line = << >> \/ s \notin Head_(line).tree =>
              Own(s) \in Range(c.own) \/ Own(s) \notin Made(line)
    PROVE  LineKnown(Append(line, c))
  <1> DEFINE new == Append(line, c)
             n == Len(line) + 1
  <1>1. /\ new \in Seq(RepoCommit) /\ IsPrefix(line, new) /\ Len(new) = n /\ new[n] = c
        /\ \A i \in 1 .. Len(line) : new[i] = line[i]
    BY AppendPrefix
  <1>2. Made(new) = Made(line) \cup Range(c.own)
    BY MadeAppend
  <1>3. Len(line) \in Nat /\ n \in n .. n /\ (n = 1 <=> line = << >>) /\ n - 1 = Len(line)
    OBVIOUS
  <1> HIDE DEF new
  <1>4. n # 1 => new[n - 1] = Head_(line)
    <2>1. n # 1 => Len(line) \in 1 .. Len(line)
      BY <1>3
    <2>2. n # 1 => new[Len(line)] = line[Len(line)]
      BY <1>1, <2>1
    <2> QED
      BY <1>3, <2>2 DEF Head_
  <1> HIDE DEF n
  <1>5. ASSUME NEW s \in Strays \cap new[n].tree,
               n = 1 \/ s \notin new[n - 1].tree, Own(s) \in Made(new)
        PROVE  Own(s) \in Range(new[n].own)
    BY <1>1, <1>2, <1>3, <1>4, <1>5
  <1>6. \A i \in n .. Len(new) : i = n
    BY <1>1, <1>3 DEF n
  <1>7. ASSUME NEW i \in n .. Len(new), NEW s \in Strays \cap new[i].tree,
               i = 1 \/ s \notin new[i - 1].tree, Own(s) \in Made(new)
        PROVE  \E y \in i .. Len(new) : Own(s) \in Range(new[y].own)
    <2>1. i = n /\ n \in i .. Len(new)
      BY <1>1, <1>3, <1>6
    <2> QED
      BY <1>5, <1>7, <2>1
  <1>8. \A i \in Len(line) + 1 .. Len(new) : \A s \in Strays \cap new[i].tree :
              (i = 1 \/ s \notin new[i - 1].tree) /\ Own(s) \in Made(new) =>
                 \/ Own(s) \in Ported(Len(main))
                 \/ \E y \in i .. Len(new) : Own(s) \in Range(new[y].own)
    BY <1>7 DEF n
  <1>9. LineKnown(new)
    BY <1>1, <1>8, ExtensionKnown
  <1> QED
    BY <1>9 DEF new

\* On a line that has a patch at commit b and not at an earlier a, it came in
\* between.
LEMMA CameBetween ==
    ASSUME NEW line \in Seq(RepoCommit), NEW a \in DOMAIN line, NEW b \in DOMAIN line, a <= b,
           NEW s, s \notin line[a].tree, s \in line[b].tree
    PROVE  \E i \in a + 1 .. b : s \in line[i].tree /\ s \notin line[i - 1].tree
  <1>1. a \in Nat /\ b \in Nat /\ b - a \in Nat /\ DOMAIN line = 1 .. Len(line) /\ Len(line) \in Nat
    OBVIOUS
  <1> SUFFICES ASSUME \A i \in a + 1 .. b : s \in line[i].tree => s \in line[i - 1].tree
               PROVE  FALSE
    OBVIOUS
  <1> DEFINE T == {d \in Nat : a + d <= b => s \notin line[a + d].tree}
  <1>2. 0 \in T
    BY <1>1
  <1>3. ASSUME NEW d \in Nat, d \in T PROVE d + 1 \in T
    <2> SUFFICES ASSUME a + (d + 1) <= b PROVE s \notin line[a + (d + 1)].tree
      OBVIOUS
    <2>1. PICK i \in a + 1 .. b : i = a + (d + 1)
      BY <1>1
    <2>2. i - 1 = a + d /\ a + d <= b
      BY <1>1, <2>1
    <2>3. s \notin line[i - 1].tree
      BY <1>3, <2>2
    <2> QED
      BY <2>1, <2>3
  <1>4. Nat \subseteq T
    <2> HIDE DEF T
    <2> QED
      BY <1>2, <1>3, NaturalInduction
  <1>5. PICK d \in Nat : a + d = b
    BY <1>1
  <1>6. d \in T
    BY <1>4
  <1> QED
    BY <1>1, <1>5, <1>6

\* A merge c that takes what follows commit f off the line: its first parent
\* is b, made at f with the patch s.
Merged(line, f, s, b, c, new) ==
    /\ f \in 1 .. Len(line) - 1
    /\ b.tree = line[f].tree \cup {s} /\ Range(b.own) = {Own(s)}
    /\ c.tree = Head_(line).tree \cup {s} /\ c.own = OwnAfter(line, f)
    /\ new = SubSeq(line, 1, f) \o << b, c >>

LEMMA FoxtrotKnown ==
    ASSUME NEW line \in Seq(RepoCommit), LineKnown(line), NEW s, Own(s) \notin Made(line),
           NEW b \in RepoCommit, NEW c \in RepoCommit, NEW f, NEW new,
           Merged(line, f, s, b, c, new)
    PROVE  /\ new \in Seq(RepoCommit)
           /\ LineKnown(new)
           /\ Made(line) \subseteq Made(new)
           /\ \A l \in Seq(RepoCommit) : Kept(l, line) => Kept(l, new)
  <1>12. /\ f \in 1 .. Len(line) - 1
         /\ b.tree = line[f].tree \cup {s} /\ Range(b.own) = {Own(s)}
         /\ c.tree = Head_(line).tree \cup {s} /\ c.own = OwnAfter(line, f)
         /\ new = SubSeq(line, 1, f) \o << b, c >>
    BY DEF Merged
  <1>1. Len(line) \in Nat /\ f \in Nat /\ f \in DOMAIN line /\ DOMAIN line = 1 .. Len(line) /\ f < Len(line)
    BY <1>12
  <1>0. \A x : x \in Range(c.own) <=> \E j \in f + 1 .. Len(line) : x \in Range(line[j].own)
    <2>1. f \in 0 .. Len(line)
      BY <1>1
    <2> QED
      BY <1>12, <2>1, OwnRange
  <1> DEFINE kept == SubSeq(line, 1, f)
  <1>2. kept \in Seq(RepoCommit) /\ Len(kept) = f /\ \A i \in 1 .. f : kept[i] = line[i]
    BY <1>1, CutFacts
  <1>3. new = kept \o << b, c >>
    BY <1>12
  <1> HIDE DEF kept
  <1>4. << b, c >> \in Seq(RepoCommit) /\ Len(<< b, c >>) = 2 /\ << b, c >>[1] = b /\ << b, c >>[2] = c
    OBVIOUS
  <1>5. new \in Seq(RepoCommit) /\ Len(new) = f + 2 /\ DOMAIN new = 1 .. f + 2
    BY <1>2, <1>3, <1>4
  <1>6. new[f + 1] = b /\ new[f + 2] = c /\ \A i \in 1 .. f : new[i] = line[i]
    <2>1. \A i \in 1 .. f + 2 : new[i] = IF i <= f THEN kept[i] ELSE << b, c >>[i - f]
      BY <1>1, <1>2, <1>3, <1>4, ConcatListed, SeqListed
    <2>2. f + 1 \in 1 .. f + 2 /\ ~(f + 1 <= f) /\ (f + 1) - f = 1
      <3>1. \A k \in Nat : k + 1 \in 1 .. k + 2 /\ ~(k + 1 <= k) /\ (k + 1) - k = 1
        OBVIOUS
      <3> QED
        BY <1>1, <3>1
    <2>3. f + 2 \in 1 .. f + 2 /\ ~(f + 2 <= f) /\ (f + 2) - f = 2
      BY <1>1
    <2>4. \A i \in 1 .. f : i <= f /\ i \in 1 .. f + 2
      BY <1>1
    <2>5. new[f + 1] = b /\ new[f + 2] = c
      BY <1>4, <2>1, <2>2, <2>3
    <2> QED
      BY <1>2, <2>1, <2>4, <2>5
  <1>7. ASSUME NEW x \in Made(line)
        PROVE  x \in Made(new)
    <2>1. PICK j \in 1 .. Len(line) : x \in Range(line[j].own)
      BY <1>1 DEF Made
    <2>2. CASE j \in 1 .. f
      BY <1>12, <1>5, <1>6, <2>1, <2>2 DEF Made
    <2>3. CASE j \in f + 1 .. Len(line)
      <3>1. x \in Range(new[f + 2].own) /\ f + 2 \in DOMAIN new
        BY <1>0, <1>1, <1>5, <1>6, <2>1, <2>3
      <3> QED
        BY <3>1 DEF Made
    <2> QED
      BY <1>1, <2>1, <2>2, <2>3
  <1>8. ASSUME NEW x \in Made(new)
        PROVE  x \in Made(line) \/ x = Own(s)
    <2>1. PICK j \in 1 .. f + 2 : x \in Range(new[j].own)
      BY <1>5 DEF Made
    <2>2. CASE j \in 1 .. f
      <3>1. j \in DOMAIN line
        BY <1>1, <2>2
      <3> QED
        BY <1>6, <2>1, <2>2, <3>1 DEF Made
    <2>3. CASE j = f + 1
      BY <1>12, <1>6, <2>1, <2>3
    <2>4. CASE j = f + 2
      <3>1. PICK k \in f + 1 .. Len(line) : x \in Range(line[k].own)
        BY <1>0, <1>6, <2>1, <2>4
      <3>2. k \in DOMAIN line
        BY <1>1
      <3> QED
        BY <3>1, <3>2 DEF Made
    <2> QED
      BY <1>0, <1>1, <2>2, <2>3, <2>4
  <1>9. ASSUME NEW i \in DOMAIN new, NEW p \in Strays \cap new[i].tree,
               i = 1 \/ p \notin new[i - 1].tree, Own(p) \in Made(new)
        PROVE  \/ Own(p) \in Ported(Len(main))
               \/ \E y \in i .. Len(new) : Own(p) \in Range(new[y].own)
    <2>1. CASE Own(p) = Own(s) /\ i <= f + 1
      <3>1. f + 1 \in i .. Len(new) /\ Own(p) \in Range(new[f + 1].own)
        BY <1>12, <1>1, <1>5, <1>6, <2>1
      <3> QED
        BY <3>1
    <2>2. ASSUME Own(p) \in Made(line), NEW k \in i .. Len(line), k \in DOMAIN line, i <= f \/ k > f,
                 p \in line[k].tree, k = 1 \/ p \notin line[k - 1].tree,
                 i <= f => k = i
          PROVE  \/ Own(p) \in Ported(Len(main))
                 \/ \E y \in i .. Len(new) : Own(p) \in Range(new[y].own)
      <3>1. \/ Own(p) \in Ported(Len(main))
            \/ \E y \in k .. Len(line) : Own(p) \in Range(line[y].own)
        BY <1>9, <2>2 DEF LineKnown
      <3>2. ASSUME NEW y \in k .. Len(line), Own(p) \in Range(line[y].own)
            PROVE  \E z \in i .. Len(new) : Own(p) \in Range(new[z].own)
        <4>1. i \in Nat /\ k \in Nat /\ y \in Nat /\ i <= f + 2
          BY <1>1, <1>5
        <4>2. CASE y <= f
          <5>1. y \in 1 .. f /\ y \in i .. Len(new)
            BY <1>1, <1>5, <2>2, <3>2, <4>1, <4>2
          <5> QED
            BY <1>6, <3>2, <5>1
        <4>3. CASE y > f
          <5>1. y \in f + 1 .. Len(line) /\ f + 2 \in i .. Len(new)
            BY <1>1, <1>5, <3>2, <4>1, <4>3
          <5> QED
            BY <1>0, <1>6, <3>2, <5>1
        <4> QED
          BY <1>0, <1>1, <4>1, <4>2, <4>3
      <3> QED
        BY <3>1, <3>2
    <2>3. CASE i \in 1 .. f /\ Own(p) # Own(s)
      <3>0. Own(p) \in Made(line)
        BY <1>8, <1>9, <2>3
      <3>1. i \in i .. Len(line) /\ i \in DOMAIN line /\ i <= f
        BY <1>1, <2>3
      <3>2. new[i] = line[i] /\ (i # 1 => new[i - 1] = line[i - 1])
        BY <1>1, <1>6, <2>3
      <3> QED
        BY <1>9, <2>2, <3>0, <3>1, <3>2
    <2>4. CASE i = f + 1
      <3>1. i - 1 = f /\ i # 1 /\ f \in 1 .. f /\ i <= f + 1
        BY <1>1, <2>4
      <3>2. p = s
        BY <1>12, <1>6, <1>9, <2>4, <3>1
      <3> QED
        BY <2>1, <3>1, <3>2
    <2>5. CASE i = f + 2
      <3>1. i - 1 = f + 1 /\ i # 1
        BY <1>1, <2>5
      <3>2. p \notin line[f].tree /\ p # s /\ p \in Head_(line).tree
        BY <1>12, <1>6, <1>9, <2>5, <3>1
      <3>3. Own(p) # Own(s)
        <4>1. Own(p).patch = p /\ Own(s).patch = s
          BY DEF Own
        <4> QED
          BY <3>2, <4>1
      <3>4. Own(p) \in Made(line)
        BY <1>8, <1>9, <3>3
      <3>5. PICK k \in f + 1 .. Len(line) : p \in line[k].tree /\ p \notin line[k - 1].tree
        <4>1. Len(line) \in DOMAIN line /\ f <= Len(line) /\ p \in line[Len(line)].tree
          BY <1>1, <3>2 DEF Head_
        <4> QED
          BY <1>1, <3>2, <4>1, CameBetween
      <3>6. CASE k \in i .. Len(line)
        BY <1>12, <1>1, <2>2, <2>5, <3>4, <3>5, <3>6
      <3>7. CASE k = f + 1
        <4>1. \/ Own(p) \in Ported(Len(main))
              \/ \E y \in k .. Len(line) : Own(p) \in Range(line[y].own)
          <5>1. k \in DOMAIN line /\ p \in Strays \cap line[k].tree
            BY <1>1, <1>9, <3>5
          <5> QED
            BY <3>4, <3>5, <5>1 DEF LineKnown
        <4>2. ASSUME NEW y \in k .. Len(line), Own(p) \in Range(line[y].own)
              PROVE  Own(p) \in Range(new[f + 2].own)
          BY <1>0, <1>6, <3>7, <4>2
        <4>3. f + 2 \in i .. Len(new)
          BY <1>1, <1>5, <2>5
        <4> QED
          BY <4>1, <4>2, <4>3
      <3> QED
        BY <1>1, <2>5, <3>5, <3>6, <3>7
    <2>6. i \in 1 .. f \/ i = f + 1 \/ i = f + 2
      BY <1>1, <1>5
    <2>7. i \in 1 .. f => i <= f + 1
      BY <1>1
    <2> QED
      BY <2>1, <2>3, <2>4, <2>5, <2>6, <2>7
  <1>10. LineKnown(new)
    BY <1>9 DEF LineKnown
  <1>11. ASSUME NEW l \in Seq(RepoCommit), Kept(l, line)
         PROVE  Kept(l, new)
    <2>1. Made(l) \subseteq Made(new)
      BY <1>7, <1>11 DEF Kept
    <2>2. DOMAIN l = 1 .. Len(l) /\ Len(l) \in Nat
      OBVIOUS
    <2>3. f + 1 \in DOMAIN l => l[f + 1] # new[f + 1]
      <3>1. f + 1 \in DOMAIN l => Range(l[f + 1].own) \subseteq Made(l)
        BY DEF Made
      <3>2. Own(s) \notin Made(l)
        BY <1>11 DEF Kept
      <3> QED
        BY <1>12, <1>6, <3>1, <3>2
    <2>4. CASE f + 1 \in DOMAIN l
      <3>1. f + 1 \in DOMAIN new
        BY <1>1, <1>5
      <3> QED
        BY <2>1, <2>3, <2>4, <3>1 DEF Kept
    <2>5. CASE f + 1 \notin DOMAIN l
      <3>1. Len(l) <= f
        BY <1>1, <2>2, <2>5
      <3>2. CASE IsPrefix(l, line)
        <4>1. \A i \in 1 .. Len(l) : line[i] = l[i]
          BY <3>2, PrefixFacts
        <4>2. \A i \in 1 .. Len(l) : new[i] = l[i]
          BY <1>1, <1>6, <2>2, <3>1, <4>1
        <4>3. Len(l) <= Len(new)
          BY <1>1, <1>5, <2>2, <3>1
        <4>4. IsPrefix(l, new)
          BY <1>5, <4>2, <4>3, PrefixFacts
        <4> QED
          BY <2>1, <4>4 DEF Kept
      <3>3. CASE \E k \in DOMAIN l \cap DOMAIN line : l[k] # line[k]
        <4>1. PICK k \in DOMAIN l \cap DOMAIN line : l[k] # line[k]
          BY <3>3
        <4>2. k \in 1 .. f /\ k \in DOMAIN new
          BY <1>1, <1>5, <2>2, <3>1
        <4> QED
          BY <1>6, <2>1, <4>1, <4>2 DEF Kept
      <3> QED
        BY <1>11, <3>2, <3>3 DEF Kept
    <2> QED
      BY <2>4, <2>5
  <1> QED
    BY <1>5, <1>7, <1>10, <1>11

\* A job stays safe when the repository keeps its line.
LEMMA JobKept ==
    ASSUME NEW job, job.new \in Seq(RepoCommit), NEW rep, NEW new, JobSafe(job, rep),
           \A l \in Seq(RepoCommit) : Kept(l, rep) => Kept(l, new)
    PROVE  JobSafe(job, new)
  <1>1. PICK n \in 0 .. Len(job.new) - 1 :
           /\ Written(job, n) /\ Judged(job, SubSeq(job.new, 1, n))
           /\ Resumed(job, SubSeq(job.new, 1, n)) /\ Kept(SubSeq(job.new, 1, n), rep)
    BY DEF JobSafe
  <1>2. n \in 0 .. Len(job.new)
    OBVIOUS
  <1>3. SubSeq(job.new, 1, n) \in Seq(RepoCommit)
    BY <1>2, CutFacts
  <1>4. Kept(SubSeq(job.new, 1, n), new)
    BY <1>1, <1>3
  <1> QED
    BY <1>1, <1>4 DEF JobSafe

\* The line changes and nothing else does, but for a run that is done.
LEMMA LineChanges ==
    ASSUME TypeOK, PushInv, main' = main, repo' \in Seq(RepoCommit), LineKnown(repo'),
           \A l \in Seq(RepoCommit) : Kept(l, repo) => Kept(l, repo'),
           \A r \in Runs : run'[r].pc = "push" =>
              \/ run'[r] = run[r]
              \/ JobSafe(run'[r], repo') /\ run'[r].target \in DOMAIN main
    PROVE  PushInv'
  <1>1. MainTyped /\ RunTyped
    BY TypeParts
  <1>2. StatesKnown'
    BY DEF PushInv, StatesKnown, Ported
  <1>0. MainStands
    BY <1>1, MainStays
  <1>3. LineKnown(repo)'
    <2>1. PICK line : line = repo'
      OBVIOUS
    <2>2. LineKnown(line)'
      BY <1>0, <2>1, LineStays
    <2> QED
      BY <2>1, <2>2 DEF LineKnown, Made
  <1>4. ASSUME NEW r \in Runs, run'[r].pc = "push"
        PROVE  JobSafe(run[r], repo)'
    <2>1. PICK job : job = run'[r]
      OBVIOUS
    <2>2. PICK rep : rep = repo'
      OBVIOUS
    <2>3. JobSafe(job, rep) /\ job.target \in DOMAIN main
      <3>1. CASE run'[r] = run[r]
        <4>1. JobSafe(job, repo)
          BY <1>4, <2>1, <3>1 DEF PushInv
        <4>2. job.new \in Seq(RepoCommit) /\ job.target \in DOMAIN main
          <5>1. run[r].pc = "push" /\ job = run[r]
            BY <1>4, <2>1, <3>1
          <5> QED
            BY <1>1, <5>1 DEF RunTyped
        <4> QED
          BY <2>2, <4>1, <4>2, JobKept
      <3>2. CASE JobSafe(run'[r], repo') /\ run'[r].target \in DOMAIN main
        BY <2>1, <2>2, <3>2
      <3> QED
        BY <1>4, <3>1, <3>2
    <2>4. JobSafe(job, rep)'
      BY <1>0, <1>1, <2>3, JobStays
    <2> QED
      BY <2>1, <2>2, <2>4
  <1> QED
    BY <1>2, <1>3, <1>4 DEF PushInv

\* What the member commits, or copies, or merges.
LEMMA MemberKnown ==
    ASSUME TypeOK, PushInv, MemberWorks
    PROVE  PushInv'
  <1>1. PICK s \in Strays :
           \/ Stray(s)
           \/ Undo(s)
           \/ \E m \in Resolutions : ResolvedMerge(s, m)
           \/ \E i \in DOMAIN repo : CopyMark(s, i) \/ Foxtrot(s, i)
    BY DEF MemberWorks
  <1>2. repo \in Seq(RepoCommit) /\ repo' \in Seq(RepoCommit)
    BY MemberTyped DEF TypeOK
  <1>3. ASSUME NEW line, line = repo', OwnWork(line), LineKnown(line),
               \A l \in Seq(RepoCommit) : Kept(l, repo) => Kept(l, line)
        PROVE  PushInv'
    BY <1>2, <1>3, LineChanges DEF OwnWork
  <1>4. ASSUME NEW c \in RepoCommit, OwnWork(Append(repo, c)),
               \A p \in Strays \cap c.tree : repo = << >> \/ p \notin Head_(repo).tree =>
                  Own(p) \in Range(c.own) \/ Own(p) \notin Made(repo)
        PROVE  PushInv'
    <2>1. PICK line : line = Append(repo, c)
      OBVIOUS
    <2>2. LineKnown(line)
      BY <1>2, <1>4, <2>1, AppendKnown DEF PushInv
    <2>3. IsPrefix(repo, line) /\ line \in Seq(RepoCommit)
      BY <1>2, <2>1, AppendPrefix
    <2>4. \A l \in Seq(RepoCommit) : Kept(l, repo) => Kept(l, line)
      BY <1>2, <2>3, ExtensionKeeps
    <2>5. OwnWork(line) /\ line = repo'
      BY <1>4, <2>1 DEF OwnWork
    <2> QED
      BY <1>3, <2>2, <2>4, <2>5
  <1>5. repo # << >> => Head_(repo).tree \in Tree
    <2>1. repo # << >> => Head_(repo) \in RepoCommit
      BY <1>2, HeadTyped
    <2> QED
      BY <2>1 DEF RepoCommit
  <1>11. \A i \in DOMAIN repo : repo[i].tree \in Tree /\ repo[i].mark \in 0 .. MaxMain
    <2>1. ASSUME NEW i \in DOMAIN repo PROVE repo[i] \in RepoCommit
      BY <1>2
    <2> QED
      BY <2>1 DEF RepoCommit
  <1>12. \A undo \in BOOLEAN : << [patch |-> s, undo |-> undo] >> \in Seq(OwnCommits)
    <2>1. \A undo \in BOOLEAN : [patch |-> s, undo |-> undo] \in OwnCommits
      BY DEF OwnCommits
    <2> QED
      BY <2>1
  <1>13. s \in Patches /\ Resolutions \subseteq Patches /\ << >> \in Seq(OwnCommits) /\ 0 \in 0 .. MaxMain
    BY PublishAssumption DEF Patches
  <1>6. CASE Stray(s)
    <2> DEFINE own == << Own(s) >>
               c == Commit(Head_(repo).tree \cup {s}, 0, own, "member")
    <2>1. repo # << >> /\ OwnWork(Append(repo, c))
      BY <1>6 DEF Stray, Own
    <2>2. c \in RepoCommit /\ c.tree = Head_(repo).tree \cup {s} /\ c.own = own
      <3>1. Head_(repo).tree \cup {s} \in Tree
        BY <1>5, <1>13, <2>1 DEF Tree
      <3>2. own \in Seq(OwnCommits)
        BY <1>12 DEF Own
      <3> HIDE DEF own
      <3>3. c \in RepoCommit
        BY <1>13, <3>1, <3>2, CommitTyped
      <3> QED
        BY <3>3 DEF Commit
    <2>3. Range(own) = {Own(s)}
      BY DEF Range
    <2> HIDE DEF c, own
    <2>4. \A p \in Strays \cap c.tree : p \notin Head_(repo).tree => Own(p) \in Range(c.own)
      BY <2>2, <2>3
    <2> QED
      BY <1>4, <2>1, <2>2, <2>4
  <1>7. CASE Undo(s)
    <2> DEFINE own == << [patch |-> s, undo |-> TRUE] >>
               c == Commit(Head_(repo).tree \ {s}, 0, own, "member")
    <2>1. repo # << >> /\ OwnWork(Append(repo, c))
      BY <1>7 DEF Undo
    <2>2. c \in RepoCommit /\ c.tree = Head_(repo).tree \ {s}
      <3>1. Head_(repo).tree \ {s} \in Tree
        BY <1>5, <1>13, <2>1 DEF Tree
      <3>2. own \in Seq(OwnCommits)
        BY <1>12
      <3> HIDE DEF own
      <3>3. c \in RepoCommit
        BY <1>13, <3>1, <3>2, CommitTyped
      <3> QED
        BY <3>3 DEF Commit
    <2> HIDE DEF c, own
    <2> QED
      BY <1>4, <2>1, <2>2
  <1>8. CASE \E m \in Resolutions : ResolvedMerge(s, m)
    <2>1. PICK m \in Resolutions : ResolvedMerge(s, m)
      BY <1>8
    <2> DEFINE own == << Own(s) >>
               c == Commit(Head_(repo).tree \cup {s, m}, 0, own, "member")
    <2>2. repo # << >> /\ OwnWork(Append(repo, c))
      BY <2>1 DEF ResolvedMerge, Own
    <2>3. c \in RepoCommit /\ c.tree = Head_(repo).tree \cup {s, m} /\ c.own = own
      <3>1. Head_(repo).tree \cup {s, m} \in Tree
        BY <1>5, <1>13, <2>2 DEF Tree
      <3>2. own \in Seq(OwnCommits)
        BY <1>12 DEF Own
      <3> HIDE DEF own
      <3>3. c \in RepoCommit
        BY <1>13, <3>1, <3>2, CommitTyped
      <3> QED
        BY <3>3 DEF Commit
    <2>4. Range(own) = {Own(s)}
      BY DEF Range
    <2>5. m \notin Strays
      BY PublishAssumption
    <2> HIDE DEF c, own
    <2>6. \A p \in Strays \cap c.tree : p \notin Head_(repo).tree => Own(p) \in Range(c.own)
      BY <2>3, <2>4, <2>5
    <2> QED
      BY <1>4, <2>2, <2>3, <2>6
  <1>9. CASE \E i \in DOMAIN repo : CopyMark(s, i)
    <2>1. PICK i \in DOMAIN repo : CopyMark(s, i)
      BY <1>9
    <2> DEFINE c == Commit(Head_(repo).tree \cup {s}, repo[i].mark, << >>, "copy")
    <2>2. repo # << >> /\ OwnWork(Append(repo, c)) /\ Own(s) \notin Made(repo)
      BY <1>2, <2>1 DEF CopyMark, New, Own
    <2>3. c \in RepoCommit /\ c.tree = Head_(repo).tree \cup {s}
      <3>1. Head_(repo).tree \cup {s} \in Tree
        BY <1>5, <1>13, <2>2 DEF Tree
      <3>3. c \in RepoCommit
        BY <1>11, <1>13, <3>1, CommitTyped
      <3> QED
        BY <3>3 DEF Commit
    <2> HIDE DEF c
    <2>4. \A p \in Strays \cap c.tree : p \notin Head_(repo).tree => Own(p) \notin Made(repo)
      BY <2>2, <2>3
    <2> QED
      BY <1>4, <2>2, <2>3, <2>4
  <1>10. CASE \E f \in DOMAIN repo : Foxtrot(s, f)
    <2>1. PICK f \in DOMAIN repo : Foxtrot(s, f)
      BY <1>10
    <2> DEFINE side == SubSeq(repo, f + 1, Len(repo))
               own == [k \in DOMAIN side |-> side[k].own]
               mine == << Own(s) >>
               b == Commit(repo[f].tree \cup {s}, 0, mine, "member")
               c == Commit(Head_(repo).tree \cup {s}, 0, FlattenSeq(own), "member")
               new == SubSeq(repo, 1, f) \o << b, c >>
    <2>2. OwnWork(new) /\ Own(s) \notin Made(repo) /\ f \in 1 .. Len(repo) - 1
      BY <2>1 DEF Foxtrot, New, Own
    <2>3. FlattenSeq(own) = OwnAfter(repo, f)
      <3>1. Len(repo) \in Nat /\ f \in Nat /\ f + 1 \in 1 .. Len(repo) /\ Len(repo) \in 1 .. Len(repo)
        BY <1>2, <2>2
      <3>2. DOMAIN side = 1 .. Len(repo) - f /\ \A k \in 1 .. Len(repo) - f : side[k] = repo[f + k]
        BY <1>2, <3>1
      <3> HIDE DEF side
      <3>3. own = [k \in 1 .. Len(repo) - f |-> repo[f + k].own]
        BY <3>2
      <3> QED
        BY <3>3 DEF OwnAfter
    <2>4. f \in 0 .. Len(repo) /\ repo # << >>
      BY <1>2, <2>2
    <2> HIDE DEF own
    <2>5. FlattenSeq(own) \in Seq(OwnCommits)
      BY <1>2, <2>3, <2>4, OwnTyped
    <2>6. repo[f].tree \cup {s} \in Tree /\ Head_(repo).tree \cup {s} \in Tree
      BY <1>5, <1>11, <1>13, <2>1, <2>4 DEF Tree
    <2>7. mine \in Seq(OwnCommits) /\ Range(mine) = {Own(s)}
      <3>1. mine \in Seq(OwnCommits)
        BY <1>12 DEF Own
      <3> QED
        BY <3>1 DEF Range
    <2> HIDE DEF mine
    <2>8. b \in RepoCommit /\ b.tree = repo[f].tree \cup {s} /\ b.own = mine
      <3>1. b \in RepoCommit
        BY <1>13, <2>6, <2>7, CommitTyped
      <3> QED
        BY <3>1 DEF Commit
    <2>9. c \in RepoCommit /\ c.tree = Head_(repo).tree \cup {s} /\ c.own = OwnAfter(repo, f)
      <3>1. c \in RepoCommit
        BY <1>13, <2>5, <2>6, CommitTyped
      <3> QED
        BY <2>3, <3>1 DEF Commit
    <2> HIDE DEF b, c
    <2>11. PICK line : line = new
      OBVIOUS
    <2>12. Range(b.own) = {Own(s)}
      BY <2>7, <2>8
    <2>13. LineKnown(repo)
      BY DEF PushInv
    <2>14. LineKnown(line) /\ \A l \in Seq(RepoCommit) : Kept(l, repo) => Kept(l, line)
      <3>1. repo \in Seq(RepoCommit) /\ f \in 1 .. Len(repo) - 1 /\ Own(s) \notin Made(repo)
        BY <1>2, <2>2
      <3>2. b.tree = repo[f].tree \cup {s} /\ c.tree = Head_(repo).tree \cup {s}
        BY <2>8, <2>9
      <3>3. line = SubSeq(repo, 1, f) \o << b, c >>
        BY <2>11
      <3>4. Merged(repo, f, s, b, c, line)
        BY <2>8, <2>9, <2>12, <3>1, <3>2, <3>3 DEF Merged
      <3> QED
        BY <2>8, <2>9, <2>13, <3>1, <3>4, FoxtrotKnown
    <2>15. OwnWork(line) /\ line = repo'
      BY <2>2, <2>11 DEF OwnWork
    <2> QED
      BY <1>3, <2>14, <2>15
  <1> QED
    BY <1>1, <1>6, <1>7, <1>8, <1>9, <1>10

\* ------------------------------------------------------- what a run makes

\* The publisher's commits for states of main in from .. to, in main's order.
Adds(m, from, to) ==
    /\ m \in Seq(RepoCommit)
    /\ \A i \in 1 .. Len(m) :
          /\ m[i].by = "suite" /\ m[i].own = << >>
          /\ m[i].mark \in from .. to /\ m[i].tree = main[m[i].mark].tree
    /\ \A i, j \in 1 .. Len(m) : i < j => m[i].mark <= m[j].mark

LEMMA ReplayAdds ==
    ASSUME MainTyped, NEW from \in Nat \ {0}, NEW to \in DOMAIN main, main[to].tree # Absent, NEW cur
    PROVE  Adds(Replay(from, to, cur), from, to)
  <1> DEFINE before(k) == IF k = from THEN cur ELSE main[k - 1].tree
             S == {k \in from .. to : main[k].tree \notin {Absent, before(k)}}
             m == Replay(from, to, cur)
             R == Rising(S)
             n == Cardinality(S)
  <1>1. to \in Nat /\ DOMAIN main = 1 .. Len(main) /\ Len(main) \in Nat
    BY DEF MainTyped
  <1>2. S \in SUBSET (1 .. to) /\ \A k \in S : k \in from .. to
    BY <1>1
  <1>3. m = [i \in DOMAIN R |-> Commit(main[R[i]].tree, R[i], << >>, "suite")]
    BY DEF Replay
  <1>4. m \in Seq(RepoCommit)
    BY ReplayTyped
  <1> HIDE DEF S, m
  <1>5. /\ n \in Nat /\ DOMAIN R = 1 .. n
        /\ \A i \in DOMAIN R : R[i] \in S
        /\ \A i, j \in DOMAIN R : i < j => R[i] < R[j]
    BY <1>1, <1>2, RisingFacts
  <1> HIDE DEF R, n
  <1>6. DOMAIN m = 1 .. Len(m) /\ DOMAIN m = DOMAIN R
    BY <1>3, <1>4
  <1>7. \A i \in 1 .. Len(m) :
           m[i].by = "suite" /\ m[i].own = << >> /\ m[i].mark = R[i] /\ m[i].tree = main[R[i]].tree
    BY <1>3, <1>6 DEF Commit
  <1>8. \A i \in 1 .. Len(m) : R[i] \in from .. to
    BY <1>2, <1>5, <1>6
  <1>9. ASSUME NEW i \in 1 .. Len(m), NEW j \in 1 .. Len(m), i < j
        PROVE  m[i].mark <= m[j].mark
    <2>1. R[i] < R[j] /\ R[i] \in Int /\ R[j] \in Int
      BY <1>5, <1>6, <1>8, <1>9
    <2> QED
      BY <1>7, <2>1
  <1>10. Adds(m, from, to)
    BY <1>4, <1>7, <1>8, <1>9 DEF Adds
  <1> QED
    BY <1>10 DEF m

LEMMA SquashAdds ==
    ASSUME MainTyped, NEW target \in DOMAIN main, main[target].tree # Absent
    PROVE  Adds(Squash(target), 1, target) /\ Len(Squash(target)) = 1
  <1> DEFINE c == Commit(main[target].tree, target, << >>, "suite")
  <1>1. Squash(target) \in Seq(RepoCommit) /\ Len(Squash(target)) = 1
    BY SquashTyped
  <1>2. c.by = "suite" /\ c.mark = target /\ c.own = << >> /\ c.tree = main[target].tree
    BY DEF Commit
  <1>3. Squash(target) = << c >>
    BY DEF Squash
  <1> HIDE DEF c
  <1>4. Squash(target)[1] = c
    BY <1>3
  <1>5. target \in 1 .. target
    BY DEF MainTyped
  <1>6. \A i \in 1 .. Len(Squash(target)) : i = 1
    BY <1>1
  <1>7. \A i, j \in 1 .. Len(Squash(target)) : ~(i < j)
    BY <1>6
  <1> QED
    BY <1>1, <1>2, <1>4, <1>5, <1>6, <1>7 DEF Adds

\* What a run adds to a line it may extend.
LEMMA PlanAdds ==
    ASSUME MainTyped, NEW line \in Seq(RepoCommit),
           NEW target \in DOMAIN main, main[target].tree # Absent, NEW named,
           NEW added, added = Plan(line, target, named), added # << >>
    PROVE  /\ Adds(added, 1, target)
           /\ \/ named
              \/ /\ HasWatermark(line)
                 /\ line[Watermark(line)].mark \in 1 .. target
                 /\ ~ForgedMark(line, Watermark(line))
                 /\ \/ ~Diverged(line, line[Watermark(line)].mark)
                    \/ Unported(line, Watermark(line), target) = {}
           /\ \/ Len(added) = 1
              \/ line = << >>
              \/ \A k \in Origins(line, target) :
                    /\ k \in 1 .. target /\ main[k].tree = Head_(line).tree
                    /\ \A i \in 1 .. Len(added) : k <= added[i].mark
  <1>0. target \in Nat /\ 1 <= target
    BY DEF MainTyped
  <1>1. CASE HasWatermark(line)
    <2> DEFINE i == Watermark(line)
    <2>1. PICK w : w = line[i].mark
      OBVIOUS
    <2>2. w \in Nat \ {0}
      <3>1. Marked(line) \in SUBSET (1 .. Len(line)) /\ Marked(line) # {} /\ Len(line) \in Nat
        BY <1>1 DEF Marked, HasWatermark
      <3>2. \E k \in Marked(line) : \A j \in Marked(line) : j <= k
        BY <3>1, GreatestExists
      <3>3. i \in Marked(line)
        BY <3>1, <3>2 DEF Watermark
      <3>4. i \in 1 .. Len(line) /\ line[i].mark # 0
        BY <3>1, <3>3 DEF Marked
      <3>5. line[i] \in RepoCommit
        BY <3>4
      <3> QED
        BY <2>1, <3>4, <3>5, PublishAssumption DEF RepoCommit
    <2>3. /\ added = Extend(line, w, target) /\ ~Ahead(w, target)
          /\ named \/ ~(\/ ForgedMark(line, i)
                        \/ Diverged(line, w) /\ Unported(line, i, target) # {})
      BY <1>1, <2>1 DEF Plan
    <2>4. w \in 1 .. target
      BY <1>0, <2>2, <2>3 DEF Ahead
    <2>5. CASE Diverged(line, w)
      <3>1. added = Squash(target)
        BY <2>3, <2>5 DEF Extend
      <3>2. Adds(added, 1, target) /\ Len(added) = 1
        BY <3>1, SquashAdds
      <3> QED
        BY <1>1, <2>1, <2>3, <2>4, <3>2
    <2>6. CASE ~Diverged(line, w)
      <3>1. added = Replay(w + 1, target, Head_(line).tree)
        BY <2>3, <2>6 DEF Extend
      <3>2. Adds(added, w + 1, target)
        <4>1. w + 1 \in Nat \ {0}
          BY <2>2
        <4> QED
          BY <3>1, <4>1, ReplayAdds
      <3>3. \A x \in 1 .. Len(added) : added[x].mark \in 1 .. target /\ w <= added[x].mark
        BY <1>0, <2>2, <3>2 DEF Adds
      <3>4. Adds(added, 1, target)
        BY <3>2, <3>3 DEF Adds
      <3>5. Origins(line, target) = {w}
        BY <1>1, <2>1 DEF Origins
      <3>6. main[w].tree = Head_(line).tree
        BY <2>6 DEF Diverged
      <3> QED
        BY <1>1, <2>1, <2>3, <2>4, <2>6, <3>3, <3>4, <3>5, <3>6
    <2> QED
      BY <2>5, <2>6
  <1>2. CASE ~HasWatermark(line)
    <2>1. added = Adopt(line, target) /\ named
      BY <1>2 DEF Plan
    <2> DEFINE cur == IF line = << >> THEN Absent ELSE Head_(line).tree
               held == {k \in 1 .. target : line # << >> /\ main[k].tree = Head_(line).tree}
    <2>2. PICK from : from = AdoptFrom(line, target)
      OBVIOUS
    <2>3. from \in Nat \ {0} /\ \A k \in held : k < from
      <3>1. CASE held = {}
        BY <2>2, <3>1 DEF AdoptFrom
      <3>2. CASE held # {}
        <4> DEFINE last == CHOOSE k \in held : \A j \in held : j <= k
        <4>1. held \in SUBSET (1 .. target)
          OBVIOUS
        <4>2. \E k \in held : \A j \in held : j <= k
          BY <1>0, <3>2, <4>1, GreatestExists
        <4>3. last \in held /\ \A j \in held : j <= last
          BY <4>2
        <4>4. from = 1 + last
          BY <2>2, <3>2 DEF AdoptFrom
        <4> HIDE DEF last
        <4>5. last \in 1 .. target /\ \A j \in held : j \in Nat
          BY <4>1, <4>3
        <4> QED
          BY <1>0, <4>3, <4>4, <4>5
      <3> QED
        BY <3>1, <3>2
    <2>4. added = Replay(from, target, cur) \/ added = Squash(target)
      BY <2>1, <2>2 DEF Adopt
    <2>5. line # << >> => Origins(line, target) = held
      BY <1>2 DEF Origins
    <2>6. CASE added = Squash(target)
      BY <2>1, <2>6, SquashAdds
    <2>7. CASE added = Replay(from, target, cur)
      <3>1. Adds(added, from, target)
        BY <2>3, <2>7, ReplayAdds
      <3>2. \A x \in 1 .. Len(added) : added[x].mark \in 1 .. target /\ from <= added[x].mark
        BY <1>0, <2>3, <3>1 DEF Adds
      <3>3. Adds(added, 1, target)
        BY <3>1, <3>2 DEF Adds
      <3>4. ASSUME NEW k \in held, NEW x \in 1 .. Len(added) PROVE k <= added[x].mark
        <4>1. k \in Nat /\ k < from /\ added[x].mark \in Nat /\ from <= added[x].mark
          BY <1>0, <2>3, <3>2
        <4> QED
          BY <2>3, <4>1
      <3> QED
        BY <2>1, <2>5, <3>3, <3>4
    <2> QED
      BY <2>4, <2>6, <2>7
  <1> QED
    BY <1>1, <1>2

\* A run that is about to push is safe with the line it fetched.
LEMMA PlanSafe ==
    ASSUME MainTyped, NEW line \in Seq(RepoCommit),
           NEW target \in DOMAIN main, main[target].tree # Absent, NEW named,
           NEW added, added = Plan(line, target, named), added # << >>,
           NEW job, job.target = target, job.named = named, job.new = line \o added
    PROVE  JobSafe(job, line)
  <1>1. Adds(added, 1, target) /\ added \in Seq(RepoCommit)
    BY PlanAdds DEF Adds
  <1>0. PICK n \in Nat : n = Len(line)
    OBVIOUS
  <1>2. PICK a \in Nat : a = Len(added)
    BY <1>1
  <1>3. a # 0
    BY <1>1, <1>2
  <1>4. /\ job.new \in Seq(RepoCommit) /\ Len(job.new) = n + a
        /\ \A i \in 1 .. n : job.new[i] = line[i]
        /\ \A i \in 1 .. a : job.new[n + i] = added[i]
    BY <1>0, <1>1, <1>2
  <1>5. IsPrefix(line, job.new)
    <2>1. n <= n + a
      OBVIOUS
    <2> QED
      BY <1>0, <1>4, <2>1, PrefixFacts
  <1>6. SubSeq(job.new, 1, n) = line
    BY <1>0, <1>4, <1>5, CutPrefix
  <1>7. ASSUME NEW i \in n + 1 .. Len(job.new)
        PROVE  i - n \in 1 .. a /\ job.new[i] = added[i - n]
    <2>1. i \in Nat /\ i <= n + a /\ n + 1 <= i
      BY <1>4
    <2>2. i - n \in 1 .. a /\ n + (i - n) = i
      BY <2>1
    <2> QED
      BY <1>4, <2>2
  <1>8. Written(job, n)
    <2>1. ASSUME NEW i \in n + 1 .. Len(job.new)
          PROVE  /\ job.new[i].by = "suite" /\ job.new[i].own = << >>
                 /\ job.new[i].mark \in 1 .. job.target
                 /\ job.new[i].tree = main[job.new[i].mark].tree
      BY <1>1, <1>2, <1>7, SMTT(30) DEF Adds
    <2>2. ASSUME NEW i \in n + 1 .. Len(job.new), NEW j \in n + 1 .. Len(job.new), i < j
          PROVE  job.new[i].mark <= job.new[j].mark
      <3>1. i - n < j - n
        BY <2>2
      <3> QED
        BY <1>1, <1>2, <1>7, <3>1 DEF Adds
    <2> QED
      BY <2>1, <2>2 DEF Written
  <1>9. Judged(job, line)
    <2>1. CASE named
      BY <2>1 DEF Judged
    <2>2. CASE ~named
      <3>1. /\ HasWatermark(line)
            /\ line[Watermark(line)].mark \in 1 .. target
            /\ ~ForgedMark(line, Watermark(line))
            /\ \/ ~Diverged(line, line[Watermark(line)].mark)
               \/ Unported(line, Watermark(line), target) = {}
        BY <2>2, PlanAdds
      <3>2. \/ ~Diverged(line, line[Watermark(line)].mark)
            \/ Range(OwnAfter(line, Watermark(line))) \subseteq Ported(target)
        BY <3>1 DEF Unported
      <3> QED
        BY <3>1, <3>2 DEF Judged, ForgedMark, Diverged
    <2> QED
      BY <2>1, <2>2
  <1>10. Resumed(job, line)
    <2>1. CASE Len(added) = 1
      BY <1>0, <1>2, <1>4, <2>1 DEF Resumed
    <2>2. CASE line = << >>
      BY <2>2 DEF Resumed
    <2>3. CASE \A k \in Origins(line, target) :
                  /\ k \in 1 .. target /\ main[k].tree = Head_(line).tree
                  /\ \A i \in 1 .. Len(added) : k <= added[i].mark
      <3>1. ASSUME NEW k \in Origins(line, target), NEW i \in n + 1 .. Len(job.new)
            PROVE  k <= job.new[i].mark
        BY <1>2, <1>7, <2>3
      <3> QED
        BY <1>0, <2>3, <3>1 DEF Resumed
    <2> QED
      BY <2>1, <2>2, <2>3, PlanAdds
  <1>11. Kept(line, line)
    <2>1. IsPrefix(line, line)
      BY <1>0, PrefixFacts
    <2> QED
      BY <2>1 DEF Kept
  <1>12. n \in 0 .. Len(job.new) - 1
    BY <1>3, <1>4
  <1> QED
    BY <1>6, <1>8, <1>9, <1>10, <1>11, <1>12 DEF JobSafe

\* ---------------------------------------------------- what a push does

\* A fast-forward goes on from the line the run fetched.
LEMMA PushExtends ==
    ASSUME NEW new \in Seq(RepoCommit), NEW rep \in Seq(RepoCommit), NEW n \in 0 .. Len(new),
           Kept(SubSeq(new, 1, n), rep), IsPrefix(rep, new)
    PROVE  n <= Len(rep)
  <1> DEFINE fetched == SubSeq(new, 1, n)
  <1>1. fetched \in Seq(RepoCommit) /\ Len(fetched) = n /\ \A i \in 1 .. n : fetched[i] = new[i]
    BY CutFacts
  <1> HIDE DEF fetched
  <1>2. Len(rep) \in Nat /\ \A i \in 1 .. Len(rep) : new[i] = rep[i]
    BY PrefixFacts
  <1>3. CASE IsPrefix(fetched, rep)
    BY <1>1, <1>3, PrefixFacts
  <1>4. ASSUME NEW f \in DOMAIN fetched \cap DOMAIN rep, fetched[f] # rep[f]
        PROVE  FALSE
    <2>1. f \in 1 .. n /\ f \in 1 .. Len(rep)
      BY <1>1
    <2> QED
      BY <1>1, <1>2, <1>4, <2>1
  <1> QED
    BY <1>3, <1>4 DEF Kept, fetched

\* What a port brought by then, it has brought.
LEMMA PortedGrows ==
    ASSUME MainTyped, NEW k \in DOMAIN main
    PROVE  Ported(k) \subseteq Ported(Len(main))
  <1>1. k \in 1 .. Len(main) /\ Len(main) \in Nat
    BY DEF MainTyped
  <1>2. \A j \in 1 .. k : j \in 1 .. Len(main)
    BY <1>1
  <1> QED
    BY <1>2 DEF Ported

\* A run begins, pushes or dies.
LEMMA RunKnown ==
    ASSUME TypeOK, PushInv, NEW r \in Runs, AutoRun(r) \/ OtherRun(r) \/ Push(r) \/ Fault(r)
    PROVE  PushInv'
  <1>1. MainTyped /\ RunTyped /\ repo \in Seq(RepoCommit) /\ repo' \in Seq(RepoCommit)
    BY TypeParts, RunTypedSteps DEF TypeOK
  <1>2. main' = main
    BY DEF AutoRun, OtherRun, Begin, Push, Fault
  <1>3. ASSUME NEW target, NEW named, Begin(r, target, named)
        PROVE  PushInv'
    <2>1. PICK added : /\ added = Plan(repo, target, named) /\ added # << >>
                       /\ run' = [run EXCEPT ![r] = [pc |-> "push", target |-> target, named |-> named,
                                                     new |-> repo \o added]]
      BY <1>3 DEF Begin
    <2>2. target \in DOMAIN main /\ main[target].tree # Absent /\ repo' = repo
      BY <1>3 DEF Begin
    <2>3. PICK job : job = run'[r]
      OBVIOUS
    <2>4. /\ job.target = target /\ job.named = named /\ job.new = repo \o added
          /\ \A q \in Runs \ {r} : run'[q] = run[q]
      BY <1>1, <2>1, <2>3 DEF RunTyped
    <2>5. JobSafe(job, repo)
      <3>1. target \in DOMAIN main /\ main[target].tree # Absent
        BY <2>2
      <3>2. added = Plan(repo, target, named) /\ added # << >>
        BY <2>1
      <3>3. job.target = target /\ job.named = named /\ job.new = repo \o added
        BY <2>4
      <3> QED
        BY <1>1, <3>1, <3>2, <3>3, PlanSafe
    <2>6. \A q \in Runs : run'[q].pc = "push" =>
             run'[q] = run[q] \/ (JobSafe(run'[q], repo') /\ run'[q].target \in DOMAIN main)
      BY <2>2, <2>3, <2>4, <2>5
    <2>7. LineKnown(repo') /\ \A l \in Seq(RepoCommit) : Kept(l, repo) => Kept(l, repo')
      BY <2>2 DEF PushInv
    <2> QED
      BY <1>1, <1>2, <2>6, <2>7, LineChanges
  <1>4. ASSUME run' = [run EXCEPT ![r] = Idle]
        PROVE  \A q \in Runs : run'[q].pc = "push" =>
                  run'[q] = run[q] \/ (JobSafe(run'[q], repo') /\ run'[q].target \in DOMAIN main)
    <2>1. run'[r].pc # "push" /\ \A q \in Runs \ {r} : run'[q] = run[q]
      BY <1>1, <1>4 DEF RunTyped, Idle
    <2> QED
      BY <2>1
  <1>5. CASE Fault(r) \/ (Push(r) /\ ~FastForward(repo, run[r].new))
    <2>1. run' = [run EXCEPT ![r] = Idle] /\ repo' = repo
      BY <1>5 DEF Fault, Push
    <2>2. LineKnown(repo') /\ \A l \in Seq(RepoCommit) : Kept(l, repo) => Kept(l, repo')
      BY <2>1 DEF PushInv
    <2> QED
      BY <1>1, <1>2, <1>4, <2>1, <2>2, LineChanges
  <1>6. CASE Push(r) /\ FastForward(repo, run[r].new)
    <2>1. PICK job : job = run[r]
      OBVIOUS
    <2>2. /\ run' = [run EXCEPT ![r] = Idle] /\ repo' = job.new /\ IsPrefix(repo, job.new)
          /\ run[r].pc = "push"
      BY <1>6, <2>1 DEF Push, FastForward
    <2>3. job.new \in Seq(RepoCommit) /\ job.target \in DOMAIN main
      BY <1>1, <2>1, <2>2 DEF RunTyped
    <2>4. PICK n \in 0 .. Len(job.new) - 1 : Written(job, n) /\ Kept(SubSeq(job.new, 1, n), repo)
      BY <2>1, <2>2 DEF PushInv, JobSafe
    <2>5. n <= Len(repo) /\ Len(repo) \in Nat
      <3>1. n \in 0 .. Len(job.new)
        BY <2>3
      <3> QED
        BY <1>1, <2>2, <2>3, <2>4, <3>1, PushExtends
    <2>6. ASSUME NEW i \in Len(repo) + 1 .. Len(job.new), NEW s \in Strays \cap job.new[i].tree
          PROVE  Own(s) \in Ported(Len(main))
      <3>1. i \in n + 1 .. Len(job.new)
        BY <2>3, <2>4, <2>5
      <3>2. PICK k : k = job.new[i].mark
        OBVIOUS
      <3>3. k \in 1 .. job.target /\ job.new[i].tree = main[k].tree
        BY <2>4, <3>1, <3>2 DEF Written
      <3>4. k \in DOMAIN main
        BY <1>1, <2>3, <3>3 DEF MainTyped
      <3>5. main[k].tree # Absent
        <4>1. i \in 1 .. Len(job.new)
          BY <2>5
        <4>2. job.new[i] \in RepoCommit
          BY <2>3, <4>1
        <4> QED
          BY <3>3, <4>2, PublishAssumption DEF RepoCommit, Tree
      <3>6. Own(s) \in Ported(k)
        BY <2>6, <3>3, <3>4, <3>5 DEF PushInv, StatesKnown
      <3> QED
        BY <1>1, <3>4, <3>6, PortedGrows
    <2>7. LineKnown(job.new)
      <3>1. LineKnown(repo)
        BY DEF PushInv
      <3> QED
        BY <1>1, <2>2, <2>3, <2>6, <3>1, ExtensionKnown
    <2>8. \A l \in Seq(RepoCommit) : Kept(l, repo) => Kept(l, job.new)
      BY <1>1, <2>2, <2>3, ExtensionKeeps
    <2> QED
      BY <1>1, <1>2, <1>4, <2>2, <2>7, <2>8, LineChanges
  <1>7. CASE AutoRun(r)
    BY <1>3, <1>7 DEF AutoRun
  <1>8. CASE OtherRun(r)
    BY <1>3, <1>8 DEF OtherRun
  <1> QED
    BY <1>5, <1>6, <1>7, <1>8

LEMMA PushInit == Init => PushInv
  <1> SUFFICES ASSUME Init PROVE PushInv
    OBVIOUS
  <1>1. Base \notin Strays
    BY PublishAssumption
  <1>2. DOMAIN main = {1, 2} /\ main[1].tree = Absent /\ main[2].tree = {Base}
    BY DEF Init
  <1>3. StatesKnown
    BY <1>1, <1>2 DEF StatesKnown
  <1>4. \A i \in DOMAIN repo : repo[i].tree = {Base}
    <2> DEFINE c == Commit({Base}, 0, << >>, "member")
    <2>1. repo = << >> \/ repo = << c >>
      BY DEF Init
    <2>2. c.tree = {Base}
      BY DEF Commit
    <2> HIDE DEF c
    <2> QED
      BY <2>1, <2>2
  <1>5. LineKnown(repo)
    BY <1>1, <1>4 DEF LineKnown
  <1>6. \A r \in Runs : run[r].pc = "idle"
    BY DEF Init, Idle
  <1> QED
    BY <1>3, <1>5, <1>6 DEF PushInv

\* What a run that waits to push has found, and what is known of main and of
\* the repository while it waits, whatever else happens in between: the
\* inductive invariant under PushSafe.
THEOREM PushInvariant == Spec => []PushInv
  <1>1. TypeOK /\ PushInv /\ [Next]_vars => PushInv'
    <2> SUFFICES ASSUME TypeOK, PushInv, [Next]_vars
                 PROVE  PushInv'
      OBVIOUS
    <2>1. CASE UNCHANGED vars
      <3>1. \A l \in Seq(RepoCommit) : Kept(l, repo) => Kept(l, repo')
        BY <2>1 DEF vars
      <3>2. LineKnown(repo') /\ repo' \in Seq(RepoCommit)
        BY <2>1 DEF vars, PushInv, TypeOK
      <3> QED
        BY <2>1, <3>1, <3>2, LineChanges DEF vars
    <2>2. CASE MemberWorks
      BY <2>2, MemberKnown
    <2>3. CASE SuiteWorks
      BY <2>3, SuiteKnown
    <2>4. CASE \E r \in Runs : AutoRun(r) \/ OtherRun(r) \/ Push(r) \/ Fault(r)
      BY <2>4, RunKnown
    <2> QED
      BY <2>1, <2>2, <2>3, <2>4 DEF Next
  <1> QED
    BY <1>1, PublisherTyped, PushInit, PTL DEF Spec

\* The newest commit of a line is its watermark when it has a mark.
LEMMA HeadMarked ==
    ASSUME NEW line \in Seq(RepoCommit), line # << >>, Head_(line).mark # 0
    PROVE  HasWatermark(line) /\ Watermark(line) = Len(line)
  <1>1. Len(line) \in DOMAIN line /\ DOMAIN line = 1 .. Len(line) /\ Len(line) \in Nat
    OBVIOUS
  <1>2. Len(line) \in Marked(line) /\ \A j \in Marked(line) : j \in Nat /\ j <= Len(line)
    BY <1>1 DEF Marked, Head_
  <1> QED
    BY <1>1, <1>2 DEF HasWatermark, Watermark

\* A patch that the newest commit holds is ported or came off the line, if
\* the line is known and the run's judgement of it holds.
LEMMA JudgedPorted ==
    ASSUME MainTyped, StatesKnown, NEW line \in Seq(RepoCommit), LineKnown(line), line # << >>,
           NEW job, job.target \in DOMAIN main, ~job.named, Judged(job, line),
           NEW s \in Strays, s \in Head_(line).tree, Own(s) \in Made(line)
    PROVE  \/ Own(s) \in Ported(job.target)
           \/ /\ Own(s) \in Ported(Len(main))
              /\ HasWatermark(line)
              /\ s \notin line[Watermark(line)].tree
              /\ Own(s) \notin Range(OwnAfter(line, Watermark(line)))
  <1>1. PICK i : i = Watermark(line)
    OBVIOUS
  <1>2. PICK w : w = line[i].mark
    OBVIOUS
  <1>3. /\ HasWatermark(line)
        /\ w \in 1 .. job.target
        /\ line[i].tree = main[w].tree
        /\ \/ Head_(line).tree = main[w].tree
           \/ Range(OwnAfter(line, i)) \subseteq Ported(job.target)
    BY <1>1, <1>2 DEF Judged
  <1>4. i \in 1 .. Len(line) /\ Len(line) \in Nat /\ DOMAIN line = 1 .. Len(line)
    <2>1. Marked(line) \in SUBSET (1 .. Len(line)) /\ Marked(line) # {} /\ Len(line) \in Nat
      BY <1>3 DEF Marked, HasWatermark
    <2>2. \E k \in Marked(line) : \A j \in Marked(line) : j <= k
      BY <2>1, GreatestExists
    <2>3. i \in Marked(line)
      BY <1>1, <2>1, <2>2 DEF Watermark
    <2> QED
      BY <2>1, <2>3
  <1>5. w \in DOMAIN main /\ job.target \in Nat
    BY <1>3 DEF MainTyped
  <1>6. ASSUME s \in main[w].tree
        PROVE  Own(s) \in Ported(job.target)
    <2>1. main[w].tree # Absent
      <3>1. line[i] \in RepoCommit
        BY <1>4
      <3> QED
        BY <1>3, <3>1, PublishAssumption DEF RepoCommit, Tree
    <2>2. Own(s) \in Ported(w)
      BY <1>5, <1>6, <2>1 DEF StatesKnown
    <2>3. \A j \in 1 .. w : j \in 1 .. job.target
      BY <1>3, <1>5
    <2> QED
      BY <2>2, <2>3 DEF Ported
  <1>7. CASE Range(OwnAfter(line, i)) \subseteq Ported(job.target) /\ s \notin main[w].tree
             /\ Own(s) \notin Range(OwnAfter(line, i))
    <2>1. Len(line) \in DOMAIN line /\ i <= Len(line) /\ s \in line[Len(line)].tree /\ s \notin line[i].tree
      BY <1>3, <1>4, <1>7 DEF Head_
    <2>2. PICK j \in i + 1 .. Len(line) : s \in line[j].tree /\ s \notin line[j - 1].tree
      BY <1>4, <2>1, CameBetween
    <2>3. j \in DOMAIN line /\ \A y \in j .. Len(line) : y \in i + 1 .. Len(line)
      BY <1>4
    <2>4. \/ Own(s) \in Ported(Len(main))
          \/ \E y \in j .. Len(line) : Own(s) \in Range(line[y].own)
      BY <2>2, <2>3 DEF LineKnown
    <2>5. i \in 0 .. Len(line)
      BY <1>4
    <2>6. ~ \E y \in i + 1 .. Len(line) : Own(s) \in Range(line[y].own)
      BY <1>7, <2>5, OwnRange
    <2>7. Own(s) \in Ported(Len(main))
      BY <2>3, <2>4, <2>6
    <2> QED
      BY <1>1, <1>3, <1>7, <2>1, <2>7
  <1> QED
    BY <1>3, <1>6, <1>7

\* A push that changes the repository.
LEMMA PushKeeps ==
    ASSUME TypeOK, PushInv, NEW r \in Runs, run[r].pc = "push", repo # << >>,
           repo' = run[r].new, IsPrefix(repo, run[r].new)
    PROVE  NothingLost(r) /\ NoFlicker(r)
  <1>1. MainTyped /\ RunTyped /\ repo \in Seq(RepoCommit)
    BY TypeParts
  <1>2. PICK job : job = run[r]
    OBVIOUS
  <1>3. /\ repo' = job.new /\ IsPrefix(repo, job.new) /\ job.new \in Seq(RepoCommit)
        /\ job.target \in DOMAIN main /\ Head_(job.new).tree = main[job.target].tree
    BY <1>1, <1>2 DEF RunTyped
  <1>4. PICK n \in 0 .. Len(job.new) - 1 :
           /\ Written(job, n)
           /\ Judged(job, SubSeq(job.new, 1, n))
           /\ Resumed(job, SubSeq(job.new, 1, n))
           /\ Kept(SubSeq(job.new, 1, n), repo)
    BY <1>2 DEF PushInv, JobSafe
  <1>5. PICK N \in Nat : N = Len(repo)
    BY <1>1
  <1>6. PICK M \in Nat : M = Len(job.new)
    BY <1>3
  <1>7. n \in Nat /\ n <= N /\ N # 0 /\ N <= M /\ n < M
    <2>1. n \in 0 .. Len(job.new)
      BY <1>3
    <2>2. n <= Len(repo)
      BY <1>1, <1>3, <1>4, <2>1, PushExtends
    <2>3. Len(repo) <= Len(job.new)
      BY <1>1, <1>3, PrefixFacts
    <2> QED
      BY <1>1, <1>4, <1>5, <1>6, <2>2, <2>3
  <1>8. \A i \in 1 .. N : job.new[i] = repo[i]
    BY <1>1, <1>3, <1>5, PrefixFacts
  <1>9. ASSUME NEW i \in n + 1 .. M
        PROVE  /\ job.new[i].mark \in 1 .. job.target /\ job.new[i].tree = main[job.new[i].mark].tree
               /\ \A j \in n + 1 .. M : i < j => job.new[i].mark <= job.new[j].mark
    BY <1>4, <1>6 DEF Written
  <1>10. Head_(repo) = repo[N] /\ Head_(repo') = job.new[M] /\ repo[N] = job.new[N]
    <2>1. N \in 1 .. N
      BY <1>7
    <2> QED
      BY <1>3, <1>5, <1>6, <1>8, <2>1 DEF Head_
  <1>11. n = N => SubSeq(job.new, 1, n) = repo
    BY <1>1, <1>3, <1>5, CutPrefix
  <1>12. n < N => /\ N \in n + 1 .. M /\ repo[N].mark \in 1 .. job.target
                  /\ repo[N].tree = main[repo[N].mark].tree
                  /\ HasWatermark(repo) /\ Watermark(repo) = N
    <2> SUFFICES ASSUME n < N
                 PROVE  /\ N \in n + 1 .. M /\ repo[N].mark \in 1 .. job.target
                        /\ repo[N].tree = main[repo[N].mark].tree
                        /\ HasWatermark(repo) /\ Watermark(repo) = N
      OBVIOUS
    <2>1. N \in n + 1 .. M
      BY <1>7
    <2>2. repo[N].mark \in 1 .. job.target /\ repo[N].tree = main[repo[N].mark].tree
      BY <1>9, <1>10, <2>1
    <2>3. Head_(repo).mark # 0
      BY <1>10, <2>2
    <2>4. HasWatermark(repo) /\ Watermark(repo) = N
      BY <1>1, <1>5, <2>3, HeadMarked
    <2> QED
      BY <2>1, <2>2, <2>4
  <1>13. job.target \in Nat /\ \A k \in 1 .. job.target : k \in DOMAIN main
    BY <1>1, <1>3 DEF MainTyped
  <1>14. ASSUME NEW s \in Strays \cap Head_(repo).tree, ~job.named, Own(s) \in Made(repo)
         PROVE  \E k \in DOMAIN main : Own(s) \in main[k].ports /\ (k <= job.target \/ OffTheLine(s))
    <2>1. \/ Own(s) \in Ported(job.target)
          \/ Own(s) \in Ported(Len(main)) /\ OffTheLine(s)
      <3>1. CASE n = N
        <4>1. Judged(job, repo)
          BY <1>4, <1>11, <3>1
        <4>2. StatesKnown /\ LineKnown(repo)
          BY DEF PushInv
        <4>3. \/ Own(s) \in Ported(job.target)
              \/ /\ Own(s) \in Ported(Len(main))
                 /\ HasWatermark(repo)
                 /\ s \notin repo[Watermark(repo)].tree
                 /\ Own(s) \notin Range(OwnAfter(repo, Watermark(repo)))
          BY <1>1, <1>3, <1>14, <4>1, <4>2, JudgedPorted
        <4> QED
          BY <4>3 DEF OffTheLine, Own
      <3>2. CASE n < N
        <4>1. PICK k : k = repo[N].mark
          OBVIOUS
        <4>2. k \in 1 .. job.target /\ s \in main[k].tree
          BY <1>10, <1>12, <1>14, <3>2, <4>1
        <4>3. main[k].tree # Absent
          <5>1. repo[N] \in RepoCommit
            BY <1>1, <1>5, <1>7
          <5> QED
            BY <1>12, <3>2, <4>1, <5>1, PublishAssumption DEF RepoCommit, Tree
        <4>4. Own(s) \in Ported(k)
          BY <1>13, <4>2, <4>3 DEF PushInv, StatesKnown
        <4>5. \A j \in 1 .. k : j \in 1 .. job.target
          BY <1>13, <4>2
        <4> QED
          BY <4>4, <4>5 DEF Ported
      <3> QED
        BY <1>5, <1>7, <3>1, <3>2
    <2>2. CASE Own(s) \in Ported(job.target)
      <3>1. PICK k \in 1 .. job.target : Own(s) \in main[k].ports
        BY <2>2 DEF Ported
      <3>2. k <= job.target
        BY <1>13
      <3> QED
        BY <1>13, <3>1, <3>2
    <2>3. CASE Own(s) \in Ported(Len(main)) /\ OffTheLine(s)
      <3>1. PICK k \in 1 .. Len(main) : Own(s) \in main[k].ports
        BY <2>3 DEF Ported
      <3>2. k \in DOMAIN main
        BY <1>1 DEF MainTyped
      <3> QED
        BY <2>3, <3>1, <3>2
    <2> QED
      BY <2>1, <2>2, <2>3
  <1>15. NothingLost(r)
    BY <1>2, <1>14, Zenon DEF NothingLost, Own
  <1>16. Continues(r) = Origins(repo, job.target)
    BY <1>2 DEF Continues, Origins
  <1>17. ASSUME NEW x \in N + 1 .. M, NEW p \in Head_(repo).tree \cap Head_(repo').tree,
                NEW k \in Origins(repo, job.target), p \notin job.new[x].tree
         PROVE  p \in main[k].tree /\ \E l \in k .. job.target : p \notin main[l].tree
    <2>1. x \in n + 1 .. M /\ x \in Nat /\ N < x
      BY <1>7
    <2>2. PICK l : l = job.new[x].mark
      OBVIOUS
    <2>3. l \in 1 .. job.target /\ p \notin main[l].tree
      BY <1>9, <1>17, <2>1, <2>2
    <2>4. k \in 1 .. job.target /\ main[k].tree = Head_(repo).tree /\ k <= l
      <3>1. CASE n = N
        <4>1. Resumed(job, repo)
          BY <1>4, <1>11, <3>1
        <4>2. Len(job.new) # Len(repo) + 1
          <5>1. M = N + 1 => x = M
            BY <1>7
          <5>2. x # M
            BY <1>10, <1>17
          <5> QED
            BY <1>5, <1>6, <5>1, <5>2
        <4>3. /\ k \in 1 .. job.target /\ main[k].tree = Head_(repo).tree
              /\ \A i \in Len(repo) + 1 .. Len(job.new) : k <= job.new[i].mark
          BY <1>17, <4>1, <4>2 DEF Resumed
        <4> QED
          BY <1>5, <1>6, <2>2, <4>3
      <3>2. CASE n < N
        <4>1. k = repo[N].mark
          BY <1>12, <1>17, <3>2 DEF Origins
        <4>2. job.new[N].mark <= job.new[x].mark
          BY <1>9, <1>12, <2>1, <3>2
        <4> QED
          BY <1>10, <1>12, <2>2, <3>2, <4>1, <4>2
      <3> QED
        BY <1>5, <1>7, <3>1, <3>2
    <2>5. l \in k .. job.target
      BY <1>13, <2>3, <2>4
    <2> QED
      BY <1>17, <2>3, <2>4, <2>5
  <1>18. NoFlicker(r)
    <2>1. Len(repo') = M
      BY <1>3, <1>6
    <2> QED
      BY <1>2, <1>3, <1>5, <1>16, <1>17, <2>1 DEF NoFlicker
  <1> QED
    BY <1>15, <1>18

\* PushSafe, for every number of runs, patches and commits: a push keeps the
\* repository's history, drops none of the member's patches that main has not
\* ported, and none of its commits drops a patch only for a while.
THEOREM PushesLoseNothing == Spec => PushSafe
  <1> DEFINE Moves(r) == run[r].pc = "push" /\ run'[r].pc = "idle" /\ repo # << >> /\ repo' # repo
             Safe(r) == IsPrefix(repo, repo') /\ NothingLost(r) /\ NoFlicker(r)
  <1>1. ASSUME TypeOK, PushInv, [Next]_vars, NEW r \in Runs, Moves(r)
        PROVE  Safe(r)
    <2>1. run \in [Runs -> [pc : {"idle", "push"}, target : 0 .. MaxMain,
                            named : BOOLEAN, new : Seq(RepoCommit)]]
      BY <1>1 DEF TypeOK
    <2>2. run' # run /\ repo' # repo
      BY <1>1
    <2>3. ~ UNCHANGED vars /\ ~ MemberWorks /\ ~ SuiteWorks
      BY <2>2, Zenon DEF vars, MemberWorks, Stray, Undo, ResolvedMerge, CopyMark, Foxtrot, OwnWork,
                  SuiteWorks, Develop, Port, PortRef, MergePort
    <2>4. PICK q \in Runs : AutoRun(q) \/ OtherRun(q) \/ Push(q) \/ Fault(q)
      BY <1>1, <2>3 DEF Next
    <2>5. Push(q)
      BY <2>2, <2>4 DEF AutoRun, OtherRun, Begin, Fault
    <2>6. q = r
      BY <1>1, <2>1, <2>5 DEF Push
    <2>7. repo' = run[r].new /\ IsPrefix(repo, run[r].new)
      BY <2>2, <2>5, <2>6 DEF Push, FastForward
    <2> QED
      BY <1>1, <2>7, PushKeeps
  <1>2. TypeOK /\ PushInv /\ [Next]_vars => [\A r \in Runs : Moves(r) => Safe(r)]_vars
    BY <1>1
  <1>3. TypeOK /\ PushInv /\ [Next]_vars =>
          [\A r \in Runs :
             run[r].pc = "push" /\ run'[r].pc = "idle" /\ repo # << >> /\ repo' # repo =>
                /\ IsPrefix(repo, repo')
                /\ NothingLost(r)
                /\ NoFlicker(r)]_vars
    BY <1>2
  <1> QED
    BY <1>3, PublisherTyped, PushInvariant, PTL DEF Spec, PushSafe

\* ----------------------------------------------------- one run is enough

\* The number at place i is the one with i - 1 numbers below it.
LEMMA RisingRank ==
    ASSUME NEW n \in Nat, NEW S \in SUBSET (1 .. n), NEW i \in 1 .. Cardinality(S)
    PROVE  Rising(S)[i] \in S /\ RankIn(S, Rising(S)[i]) = i - 1
  <1>1. Cardinality(S) \in Nat
    BY RankFacts
  <1>2. i - 1 \in 0 .. Cardinality(S) - 1
    BY <1>1
  <1>3. \E k \in S : Cardinality({j \in S : j < k}) = i - 1
    BY <1>2, RankFacts DEF RankIn
  <1>4. Rising(S)[i] = CHOOSE k \in S : Cardinality({j \in S : j < k}) = i - 1
    BY DEF Rising
  <1> QED
    BY <1>3, <1>4 DEF RankIn

\* The numbers of T come first when the others of S are greater.
LEMMA RisingPrefix ==
    ASSUME NEW n \in Nat, NEW S \in SUBSET (1 .. n), NEW T \in SUBSET S,
           \A t \in T, s \in S \ T : t < s
    PROVE  /\ Cardinality(T) \in Nat /\ Cardinality(S) \in Nat
           /\ Cardinality(T) <= Cardinality(S)
           /\ \A i \in 1 .. Cardinality(T) : Rising(S)[i] = Rising(T)[i]
  <1>1. T \in SUBSET (1 .. n)
    OBVIOUS
  <1>2. Cardinality(T) \in Nat /\ Cardinality(S) \in Nat
    BY <1>1, RankFacts
  <1>3. Cardinality(T) <= Cardinality(S)
    <2>1. IsFiniteSet(1 .. n)
      BY FS_Interval
    <2>2. IsFiniteSet(S)
      BY <2>1, FS_Subset
    <2> QED
      BY <2>2, FS_Subset
  <1>4. ASSUME NEW t \in T
        PROVE  RankIn(S, t) = RankIn(T, t)
    <2>1. \A s \in S : s < t => s \in T
      <3>1. \A s \in S : s \in Int /\ t \in Int
        OBVIOUS
      <3> QED
        BY <3>1
    <2>2. {j \in S : j < t} = {j \in T : j < t}
      BY <2>1
    <2> QED
      BY <2>2 DEF RankIn
  <1>5. ASSUME NEW i \in 1 .. Cardinality(T)
        PROVE  Rising(S)[i] = Rising(T)[i]
    <2>1. i \in 1 .. Cardinality(S)
      BY <1>2, <1>3
    <2>2. PICK p : p = Rising(T)[i]
      OBVIOUS
    <2>3. PICK q : q = Rising(S)[i]
      OBVIOUS
    <2>4. p \in T /\ RankIn(T, p) = i - 1
      BY <1>1, <2>2, RisingRank
    <2>5. q \in S /\ RankIn(S, q) = i - 1
      BY <2>1, <2>3, RisingRank
    <2>6. RankIn(S, p) = i - 1 /\ p \in S
      BY <1>4, <2>4
    <2>7. p < q => RankIn(S, p) < RankIn(S, q)
      BY <2>5, <2>6, RankFacts
    <2>8. q < p => RankIn(S, q) < RankIn(S, p)
      BY <2>5, <2>6, RankFacts
    <2>9. i - 1 \in Int /\ p \in Int /\ q \in Int
      BY <1>2, <2>5, <2>6
    <2>10. p = q
      BY <2>5, <2>6, <2>7, <2>8, <2>9
    <2> QED
      BY <2>2, <2>3, <2>10
  <1> QED
    BY <1>2, <1>3, <1>5

\* replay() up to an older state makes the first of the commits that replay()
\* up to a newer one makes.
LEMMA ReplayPrefix ==
    ASSUME MainTyped, NEW from \in Nat \ {0}, NEW cur,
           NEW old \in DOMAIN main, main[old].tree # Absent,
           NEW to \in DOMAIN main, main[to].tree # Absent, old <= to
    PROVE  /\ IsPrefix(Replay(from, old, cur), Replay(from, to, cur))
           /\ Replay(from, old, cur) # << >> => Replay(from, to, cur) # << >>
  <1> DEFINE before(k) == IF k = from THEN cur ELSE main[k - 1].tree
             Changing(u) == {k \in from .. u : main[k].tree \notin {Absent, before(k)}}
             S == Changing(to)
             T == Changing(old)
             new(k) == Commit(main[k].tree, k, <<>>, "suite")
             m == Replay(from, to, cur)
             l == Replay(from, old, cur)
  <1>1. old \in Nat /\ to \in Nat /\ DOMAIN main = 1 .. Len(main) /\ Len(main) \in Nat
    BY DEF MainTyped
  <1>2. S \in SUBSET (1 .. to) /\ T \in SUBSET S /\ T \in SUBSET (1 .. to)
    BY <1>1
  <1>3. \A t \in T, s \in S \ T : t < s
    BY <1>1
  <1>4. /\ m = [i \in DOMAIN Rising(S) |-> new(Rising(S)[i])]
        /\ l = [i \in DOMAIN Rising(T) |-> new(Rising(T)[i])]
    BY DEF Replay
  <1> HIDE DEF S, T, m, l, new
  <1>5. /\ DOMAIN Rising(S) = 1 .. Cardinality(S)
        /\ DOMAIN Rising(T) = 1 .. Cardinality(T)
    BY DEF Rising
  <1>6. /\ Cardinality(T) \in Nat /\ Cardinality(S) \in Nat /\ Cardinality(T) <= Cardinality(S)
        /\ \A i \in 1 .. Cardinality(T) : Rising(S)[i] = Rising(T)[i]
    BY <1>1, <1>2, <1>3, RisingPrefix
  <1>7. m \in Seq(RepoCommit) /\ l \in Seq(RepoCommit)
    BY ReplayTyped DEF m, l
  <1>8. Len(m) = Cardinality(S) /\ Len(l) = Cardinality(T)
    BY <1>4, <1>5, <1>6, <1>7
  <1>9. \A i \in 1 .. Len(l) : m[i] = l[i]
    BY <1>4, <1>5, <1>6, <1>8
  <1>10. IsPrefix(l, m)
    BY <1>6, <1>7, <1>8, <1>9, PrefixFacts
  <1>11. l # << >> => m # << >>
    BY <1>6, <1>7, <1>8
  <1> QED
    BY <1>10, <1>11 DEF m, l

\* replay() from the state that the repository holds makes a commit, unless it
\* is the one to publish.
LEMMA ReplayGoes ==
    ASSUME MainTyped, NEW w \in DOMAIN main, NEW to \in DOMAIN main, w <= to,
           main[to].tree # main[w].tree
    PROVE  Replay(w + 1, to, main[w].tree) # << >>
  <1> DEFINE cur == main[w].tree
             before(k) == IF k = w + 1 THEN cur ELSE main[k - 1].tree
             S == {k \in w + 1 .. to : main[k].tree \notin {Absent, before(k)}}
             T == {k \in w .. to : main[k].tree = cur}
             R == Rising(S)
  <1>1. w \in Nat \ {0} /\ to \in Nat /\ DOMAIN main = 1 .. Len(main) /\ Len(main) \in Nat
        /\ to <= Len(main)
    BY DEF MainTyped
  <1>2. T \in SUBSET (1 .. to) /\ w \in T
    BY <1>1
  <1>3. PICK g \in T : \A j \in T : j <= g
    <2> HIDE DEF T
    <2> QED
      BY <1>1, <1>2, GreatestExists
  <1>4. g \in Nat /\ w <= g /\ g <= to /\ main[g].tree = cur /\ g # to
    BY <1>1
  <1>5. g + 1 \in w + 1 .. to /\ g + 1 \notin T /\ g + 1 \in w .. to
    BY <1>1, <1>3, <1>4
  <1>6. main[g + 1].tree # cur
    BY <1>5
  <1>7. main[g + 1].tree # Absent
    <2>1. g + 1 \in 2 .. Len(main)
      BY <1>1, <1>4, <1>5
    <2> QED
      BY <2>1 DEF MainTyped
  <1>8. before(g + 1) = cur
    BY <1>1, <1>4
  <1>9. g + 1 \in S /\ S \in SUBSET (1 .. to)
    BY <1>1, <1>5, <1>6, <1>7, <1>8
  <1>10. Replay(w + 1, to, cur) = [i \in DOMAIN R |-> Commit(main[R[i]].tree, R[i], <<>>, "suite")]
    BY DEF Replay
  <1> HIDE DEF S, T
  <1>11. Cardinality(S) \in Nat /\ RankIn(S, g + 1) \in 0 .. Cardinality(S) - 1
    BY <1>1, <1>9, RankFacts
  <1>12. DOMAIN R = 1 .. Cardinality(S)
    BY DEF Rising
  <1> HIDE DEF R
  <1>13. 1 \in DOMAIN R
    BY <1>11, <1>12
  <1>14. DOMAIN Replay(w + 1, to, cur) = DOMAIN R
    BY <1>10
  <1> QED
    BY <1>13, <1>14

\* What the line's newest mark names, main held.
LEMMA MarkHeld ==
    ASSUME MainTyped, NEW line, LineSound(line), HasWatermark(line)
    PROVE  /\ Watermark(line) \in 1 .. Len(line)
           /\ line[Watermark(line)].mark \in DOMAIN main
  <1>1. PICK i \in DOMAIN line : i = Watermark(line) /\ line[i].mark \in Nat \ {0}
    BY WatermarkFacts
  <1>2. CommitSound(line[i]) /\ DOMAIN line = 1 .. Len(line)
    BY DEF LineSound, Listed
  <1> QED
    BY <1>1, <1>2 DEF CommitSound

\* A run that has something to push brings main's newest state.
LEMMA NewestEnds ==
    ASSUME MainTyped, repo \in Seq(RepoCommit), NewestRun # << >>
    PROVE  CatchesUp
  <1>1. Len(main) \in DOMAIN main /\ Len(main) \in 2 .. Len(main)
    BY DEF MainTyped
  <1>2. main[Len(main)].tree # Absent
    BY <1>1 DEF MainTyped
  <1>3. NewestRun[Len(NewestRun)].tree = main[Len(main)].tree
    BY <1>1, <1>2, PlanTyped DEF NewestRun
  <1> QED
    BY <1>3 DEF CatchesUp, Head_, Tip

\* A run finds something to push unless the member is up to date or only its
\* owner can go on.
LEMMA UnsettledCatchesUp ==
    ASSUME MainTyped, repo \in Seq(RepoCommit), LineSound(repo), ~ Settled
    PROVE  CatchesUp
  <1>1. HasWatermark(repo)
    BY DEF Settled, NeedsOwner
  <1>2. PICK i \in 1 .. Len(repo) : i = Watermark(repo) /\ repo[i].mark \in DOMAIN main
    BY <1>1, MarkHeld
  <1>3. PICK w \in DOMAIN main : w = repo[i].mark
    BY <1>2
  <1>4. /\ Head_(repo).tree # Tip.tree
        /\ repo[i].tree = main[w].tree
        /\ \A j \in i + 1 .. Len(repo) : \A c \in Range(repo[j].own) :
              \E k \in DOMAIN main : c \in main[k].ports
    BY <1>1, <1>2, <1>3 DEF Settled, Published, NeedsOwner
  <1>5. DOMAIN main = 1 .. Len(main) /\ Len(main) \in DOMAIN main /\ w <= Len(main)
        /\ w \in Nat /\ Len(main) \in Nat
    BY DEF MainTyped
  <1>6. Unported(repo, i, Len(main)) = {}
    <2>1. ASSUME NEW c \in Range(OwnAfter(repo, i))
          PROVE  c \in Ported(Len(main))
      <3>1. i \in 0 .. Len(repo)
        BY <1>2
      <3>2. PICK j \in i + 1 .. Len(repo) : c \in Range(repo[j].own)
        BY <2>1, <3>1, OwnRange
      <3>3. PICK k \in 1 .. Len(main) : c \in main[k].ports
        BY <1>4, <1>5, <3>2
      <3> QED
        BY <3>3 DEF Ported
    <2> QED
      BY <2>1 DEF Unported
  <1>7. NewestRun = Extend(repo, w, Len(main))
    BY <1>1, <1>2, <1>3, <1>4, <1>5, <1>6 DEF NewestRun, Plan, Ahead, ForgedMark
  <1>8. NewestRun # << >>
    <2>1. CASE Diverged(repo, w)
      BY <1>7, <2>1 DEF Extend, Squash
    <2>2. CASE ~ Diverged(repo, w)
      <3>1. Head_(repo).tree = main[w].tree /\ main[Len(main)].tree # main[w].tree
        BY <1>4, <2>2 DEF Diverged, Tip
      <3>2. NewestRun = Replay(w + 1, Len(main), main[w].tree)
        BY <1>7, <2>2, <3>1 DEF Extend
      <3> QED
        BY <1>5, <3>1, <3>2, ReplayGoes
    <2> QED
      BY <2>1, <2>2
  <1> QED
    BY <1>8, NewestEnds

\* A run on the newest state does what one on state k would have done.
LEMMA NewestCovers ==
    ASSUME MainTyped, repo \in Seq(RepoCommit), LineSound(repo), NEW k \in 2 .. Len(main)
    PROVE  Covers(k)
  <1> DEFINE N == Len(main)
             older == Plan(repo, k, FALSE)
  <1>1. SUFFICES ASSUME older # << >>
                 PROVE  /\ CatchesUp
                        /\ \/ IsPrefix(older, NewestRun)
                           \/ Diverged(repo, repo[Watermark(repo)].mark)
    BY DEF Covers
  <1>2. HasWatermark(repo)
    BY <1>1 DEF Plan
  <1>3. PICK i \in 1 .. Len(repo) : i = Watermark(repo) /\ repo[i].mark \in DOMAIN main
    BY <1>2, MarkHeld
  <1>4. PICK w \in DOMAIN main : w = repo[i].mark
    BY <1>3
  <1>5. /\ DOMAIN main = 1 .. N /\ N \in DOMAIN main /\ k \in DOMAIN main
        /\ w \in Nat \ {0} /\ k \in Nat /\ N \in Nat /\ k <= N
        /\ main[k].tree # Absent /\ main[N].tree # Absent
    BY DEF MainTyped
  <1>6. /\ ~ Ahead(w, k) /\ older = Extend(repo, w, k) /\ ~ ForgedMark(repo, i)
        /\ Diverged(repo, w) => Unported(repo, i, k) = {}
    BY <1>1, <1>2, <1>3, <1>4 DEF Plan
  <1>7. Unported(repo, i, N) \subseteq Unported(repo, i, k)
    BY <1>5, PortedGrows DEF Unported
  <1>8. ~ Ahead(w, N)
    BY <1>5, <1>6 DEF Ahead
  <1>9. NewestRun = Extend(repo, w, N)
    BY <1>2, <1>3, <1>4, <1>6, <1>7, <1>8 DEF NewestRun, Plan
  <1>10. CASE Diverged(repo, w)
    <2>1. NewestRun # << >>
      BY <1>9, <1>10 DEF Extend, Squash
    <2> QED
      BY <1>3, <1>4, <1>10, <2>1, NewestEnds
  <1>11. CASE ~ Diverged(repo, w)
    <2>1. PICK cur : cur = Head_(repo).tree
      OBVIOUS
    <2>2. older = Replay(w + 1, k, cur) /\ NewestRun = Replay(w + 1, N, cur)
      BY <1>6, <1>9, <1>11, <2>1 DEF Extend
    <2>3. w + 1 \in Nat \ {0}
      BY <1>5
    <2>4. IsPrefix(older, NewestRun) /\ NewestRun # << >>
      BY <1>1, <1>5, <2>2, <2>3, ReplayPrefix
    <2> QED
      BY <2>4, NewestEnds
  <1> QED
    BY <1>10, <1>11

\* A push of main's newest state leaves the repository with it.
LEMMA NewestPublishes ==
    ASSUME TypeOK, PushInv, [Next]_vars, NEW r \in Runs, PushesNewest(r)
    PROVE  Published'
  <1>1. run \in [Runs -> [pc : {"idle", "push"}, target : 0 .. MaxMain,
                          named : BOOLEAN, new : Seq(RepoCommit)]]
    BY DEF TypeOK
  <1>2. run' # run /\ repo' # repo
    BY DEF PushesNewest
  <1>3. ~ UNCHANGED vars /\ ~ MemberWorks /\ ~ SuiteWorks
    BY <1>2, Zenon DEF vars, MemberWorks, Stray, Undo, ResolvedMerge, CopyMark, Foxtrot, OwnWork,
                SuiteWorks, Develop, Port, PortRef, MergePort
  <1>4. PICK q \in Runs : AutoRun(q) \/ OtherRun(q) \/ Push(q) \/ Fault(q)
    BY <1>3 DEF Next
  <1>5. Push(q)
    BY <1>2, <1>4 DEF AutoRun, OtherRun, Begin, Fault
  <1>6. q = r
    BY <1>1, <1>5 DEF Push, PushesNewest
  <1>7. PICK job : job = run[r]
    OBVIOUS
  <1>8. repo' = job.new /\ main' = main /\ job.target = Len(main) /\ job.new \in Seq(RepoCommit)
    BY <1>1, <1>2, <1>5, <1>6, <1>7 DEF Push, PushesNewest
  <1>9. Head_(job.new).tree = main[Len(main)].tree
    BY <1>7, <1>8 DEF TypeOK, PushesNewest
  <1>10. JobSafe(job, repo)
    BY <1>7 DEF PushInv, PushesNewest
  <1>11. PICK n \in 0 .. Len(job.new) - 1 : Written(job, n)
    BY <1>10 DEF JobSafe
  <1>12. Len(job.new) \in n + 1 .. Len(job.new) /\ Len(job.new) \in DOMAIN job.new
    BY <1>8, <1>11
  <1>13. job.new[Len(job.new)].mark # 0
    BY <1>8, <1>11, <1>12 DEF Written
  <1>14. HasWatermark(job.new)
    BY <1>12, <1>13 DEF HasWatermark, Marked
  <1>15. Published' <=> HasWatermark(repo') /\ Head_(repo').tree = main'[Len(main')].tree
    BY DEF Published, HasWatermark, Marked, Head_, Tip
  <1> QED
    BY <1>8, <1>9, <1>14, <1>15

\* OneRunSettles, for every number of runs, patches and commits: whatever came
\* before, one run on main's newest state is enough.
THEOREM OneRunIsEnough == Spec => OneRunSettles
  <1>1. TypeOK /\ MirrorInv => (~Settled => CatchesUp)
    BY TypeParts, UnsettledCatchesUp DEF MirrorInv
  <1>2. TypeOK /\ MirrorInv => \A k \in 2 .. Len(main) : Covers(k)
    BY TypeParts, NewestCovers DEF MirrorInv
  <1>3. TypeOK /\ PushInv /\ [Next]_vars => [\A r \in Runs : PushesNewest(r) => Published']_vars
    BY NewestPublishes
  <1> QED
    BY <1>1, <1>2, <1>3, PublisherTyped, MirrorInvariant, PushInvariant, PTL DEF Spec, OneRunSettles
================================================================================
