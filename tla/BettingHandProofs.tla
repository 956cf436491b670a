---------------------------- MODULE BettingHandProofs ----------------------------
(***************************************************************************)
(* Proofs about one hand of holde-em, for any number of seats, any stacks  *)
(* and any stakes the assumption allows.                                   *)
(***************************************************************************)
EXTENDS BettingHand, SumTheorems

----------------------------------------------------------------------------------
(* Seats.                                                                    *)

\* A nonempty set of seats has a lowest seat.
LEMMA LowestIsLeast ==
    ASSUME NEW S \in SUBSET Nat, S # {}
    PROVE  Lowest(S) \in S /\ \A t \in S : Lowest(S) <= t
<1>1. OpToRel(<, Nat) = {p \in Nat \X Nat : p[1] < p[2]}
  BY SMT DEF OpToRel
<1>2. PICK m \in S : \A t \in S : <<t, m>> \notin OpToRel(<, Nat)
  BY NatLessThanWellFounded, WFMin, Zenon
<1>3. ASSUME NEW t \in S
      PROVE  ~(t < m)
  BY <1>1, <1>2, Zenon
<1>4. \A t \in S : m <= t
  BY <1>3
<1> QED
  BY <1>4 DEF Lowest

\* The next seat is a seat of the list, and another one when there is another.
LEMMA NextAfterIsNext ==
    ASSUME NEW S \in SUBSET Nat, S # {}, NEW p \in Nat
    PROVE  /\ NextAfter(S, p) \in S
           /\ (\E t \in S : t # p) => NextAfter(S, p) # p
<1> DEFINE above == {s \in S : s > p}
<1>1. CASE above # {}
  <2>1. above \in SUBSET Nat
    OBVIOUS
  <2>2. Lowest(above) \in above
    BY <1>1, <2>1, LowestIsLeast
  <2>3. NextAfter(S, p) = Lowest(above)
    BY <1>1 DEF NextAfter
  <2> QED
    BY <2>2, <2>3
<1>2. CASE above = {}
  <2>1. NextAfter(S, p) = Lowest(S)
    BY <1>2 DEF NextAfter
  <2>2. Lowest(S) \in S /\ \A t \in S : Lowest(S) <= t
    BY LowestIsLeast
  <2>3. \A t \in S : t <= p
    BY <1>2
  <2> QED
    BY <2>1, <2>2, <2>3
<1> QED
  BY <1>1, <1>2

----------------------------------------------------------------------------------
(* The engine's operators.  Conserved and Within are the two facts every one *)
(* of them must keep about a record.                                         *)

Conserved(h, o) == \A s \in h.occ : h.stackBy[s] + h.handBy[s] = o[s]

\* What a payment leaves alone.
SameTable(g, h) ==
    /\ g.occ = h.occ /\ g.sb = h.sb /\ g.bb = h.bb /\ g.ante = h.ante
    /\ g.buttonSeat = h.buttonSeat /\ g.sbSeat = h.sbSeat /\ g.bbSeat = h.bbSeat
    /\ g.phase = h.phase /\ g.toAct = h.toAct /\ g.betCur = h.betCur
    /\ g.raiseFull = h.raiseFull /\ g.folded = h.folded /\ g.acted = h.acted
    /\ g.sbPosted = h.sbPosted

Within(h, bound) == \A s \in h.occ : h.streetBy[s] <= bound

\* Chips change hands only from a seat's stack to its part of the pot.
LEMMA PayDeadKeeps ==
    ASSUME NEW occ, NEW h \in Hands(occ), NEW o \in [occ -> Nat], Conserved(h, o),
           NEW s \in occ, NEW n \in Nat, n <= h.stackBy[s]
    PROVE  /\ PayDead(h, s, n) \in Hands(occ)
           /\ Conserved(PayDead(h, s, n), o)
           /\ PayDead(h, s, n).streetBy = h.streetBy
           /\ SameTable(PayDead(h, s, n), h)
<1> DEFINE p == PayDead(h, s, n)
<1>1. h.occ = occ /\ h.stackBy \in [occ -> Nat] /\ h.handBy \in [occ -> Nat]
        /\ h.allin \in SUBSET occ
  BY DEF Hands
<1>2. /\ [h.stackBy EXCEPT ![s] = @ - n] \in [occ -> Nat]
      /\ [h.handBy EXCEPT ![s] = @ + n] \in [occ -> Nat]
      /\ (IF h.stackBy[s] = n THEN h.allin \cup {s} ELSE h.allin) \in SUBSET occ
  BY <1>1
<1>3. p \in Hands(occ)
  BY <1>2 DEF PayDead, Hands
<1>4. /\ p.stackBy = [h.stackBy EXCEPT ![s] = @ - n]
      /\ p.handBy = [h.handBy EXCEPT ![s] = @ + n]
      /\ p.streetBy = h.streetBy /\ SameTable(p, h)
  BY DEF PayDead, Hands, SameTable
<1>5. Conserved(p, o)
  <2> SUFFICES ASSUME NEW t \in occ
               PROVE  p.stackBy[t] + p.handBy[t] = o[t]
    BY <1>1, <1>4 DEF Conserved, SameTable
  <2>1. h.stackBy[t] + h.handBy[t] = o[t] /\ h.stackBy[t] \in Nat /\ h.handBy[t] \in Nat
    BY <1>1 DEF Conserved
  <2> QED
    BY <1>1, <1>4, <2>1
<1> QED
  BY <1>3, <1>4, <1>5

\* What a payment in the street does.
Paid(occ, h, o, s, n) ==
    /\ Pay(h, s, n) \in Hands(occ)
    /\ Conserved(Pay(h, s, n), o)
    /\ Pay(h, s, n).streetBy = [h.streetBy EXCEPT ![s] = @ + n]
    /\ SameTable(Pay(h, s, n), h)

\* A payment in the street moves the same chips, and counts towards the bet.
LEMMA PayKeeps ==
    ASSUME NEW occ, NEW h \in Hands(occ), NEW o \in [occ -> Nat], Conserved(h, o),
           NEW s \in occ, NEW n \in Nat, n <= h.stackBy[s]
    PROVE  Paid(occ, h, o, s, n)
<1> DEFINE d == PayDead(h, s, n)
           p == Pay(h, s, n)
<1>1. d \in Hands(occ) /\ Conserved(d, o) /\ d.streetBy = h.streetBy /\ SameTable(d, h)
  BY PayDeadKeeps
<1>2. [d.streetBy EXCEPT ![s] = @ + n] \in [occ -> Nat]
  BY <1>1 DEF Hands
<1>3. p = [d EXCEPT !.streetBy[s] = @ + n]
  BY DEF Pay
<1> HIDE DEF d, p
<1>4. p \in Hands(occ)
  BY <1>1, <1>2, <1>3 DEF Hands
<1>5. /\ p.streetBy = [h.streetBy EXCEPT ![s] = @ + n]
      /\ p.stackBy = d.stackBy /\ p.handBy = d.handBy /\ SameTable(p, h)
  BY <1>1, <1>3 DEF Hands, SameTable
<1>6. Conserved(p, o)
  BY <1>1, <1>5 DEF Conserved, SameTable
<1> QED
  BY <1>4, <1>5, <1>6 DEF p, Paid

\* Whoever is asked next owes action; when nobody is asked, nobody does.
LEMMA NextPendingIsPending ==
    ASSUME NEW occ \in SUBSET (Nat \ {0}), NEW h \in Hands(occ), NEW after \in Nat
    PROVE  /\ NextPending(h, after) # 0 =>
                  NextPending(h, after) \in occ /\ SeatPending(h, NextPending(h, after))
           /\ NextPending(h, after) = 0 => \A s \in occ : ~SeatPending(h, s)
           /\ NextPending(h, after) \in occ \cup {0}
<1> DEFINE pending == {s \in h.occ : SeatPending(h, s)}
<1>1. h.occ = occ
  BY DEF Hands
<1>2. CASE pending = {}
  BY <1>1, <1>2 DEF NextPending
<1>3. CASE pending # {}
  <2>1. NextPending(h, after) = NextAfter(pending, after)
    BY <1>3 DEF NextPending
  <2>2. pending \in SUBSET Nat
    BY <1>1
  <2>3. NextPending(h, after) \in pending
    BY <1>3, <2>1, <2>2, NextAfterIsNext
  <2> QED
    BY <1>1, <2>3
<1> QED
  BY <1>2, <1>3

----------------------------------------------------------------------------------
(* What is true of the record between messages.                              *)

Contested(h) == Cardinality(InHand(h)) # 1

TurnOwed(h) ==
    /\ h.phase = "acting" =>
          /\ h.toAct \in h.occ \ (h.folded \cup h.allin)
          /\ h.streetBy[h.toAct] < h.betCur \/ h.toAct \notin h.acted
    /\ h.phase # "acting" => h.toAct = 0
    /\ h.phase = "handdone" <=> ~Contested(h)

\* Before the big blind is posted nobody has more than the small blind on the
\* street, and the seat of the big blind has nothing there.
BlindsOwed(h) ==
    /\ h.sb <= h.bb
    /\ h.sbSeat # h.bbSeat
    /\ h.phase = "blinds" => /\ Within(h, IF h.sbPosted THEN h.sb ELSE 0)
                             /\ h.streetBy[h.bbSeat] = 0

Good(occ, h, o) ==
    /\ h \in Hands(occ)
    /\ Conserved(h, o)
    /\ BlindsOwed(h)
    /\ h.bb <= h.raiseFull
    /\ h.phase = "acting" => Within(h, h.betCur)
    /\ TurnOwed(h)

\* Setting the bet and the least raise keeps the record a hand.
LEMMA BetSet ==
    ASSUME NEW occ, NEW h \in Hands(occ), NEW bet \in Nat, NEW full \in Nat
    PROVE  [h EXCEPT !.betCur = bet, !.raiseFull = full] \in Hands(occ)
BY DEF Hands

\* Clearing a street moves no chip and empties what the street counted.
LEMMA ClearedKeeps ==
    ASSUME NEW occ \in SUBSET (Nat \ {0}), NEW h \in Hands(occ), NEW o \in [occ -> Nat],
           Conserved(h, o), Contested(h)
    PROVE  LET c == Cleared(h)
           IN  /\ c \in Hands(occ)
               /\ Conserved(c, o) /\ Contested(c) /\ Within(c, 0)
               /\ c.acted = {} /\ c.betCur = 0 /\ c.raiseFull = h.bb
               /\ c.sb = h.sb /\ c.bb = h.bb /\ c.sbSeat = h.sbSeat /\ c.bbSeat = h.bbSeat
<1> DEFINE first == FirstToShow(h)
           idle == [s \in h.occ |-> 0]
           f == [h EXCEPT !.sdFirst = first, !.aggressor = 0]
           e == [h EXCEPT !.sdFirst = first, !.aggressor = 0, !.betCur = 0, !.raiseFull = h.bb]
           c == [h EXCEPT !.sdFirst = first, !.aggressor = 0, !.betCur = 0,
                          !.raiseFull = h.bb, !.acted = {}, !.streetBy = idle]
<1>1. h.occ = occ /\ h.buttonSeat \in occ /\ h.aggressor \in occ \cup {0}
        /\ h.bb \in Nat /\ h.folded \in SUBSET occ
  BY DEF Hands
<1>2. first \in occ \cup {0}
  <2>1. InHand(h) \in SUBSET Nat /\ InHand(h) \subseteq occ
    BY <1>1 DEF InHand
  <2>2. InHand(h) # {} => NextAfter(InHand(h), h.buttonSeat) \in InHand(h)
    BY <1>1, <2>1, NextAfterIsNext
  <2> QED
    BY <1>1, <2>1, <2>2 DEF FirstToShow
<1>3. idle \in [occ -> Nat] /\ idle = [s \in occ |-> 0]
  BY <1>1
<1>4. Cleared(h) = c
  BY DEF Cleared
<1> HIDE DEF first, idle
<1>5. e \in Hands(occ)
  <2>1. f \in Hands(occ)
    BY <1>2 DEF Hands
  <2>2. e = [f EXCEPT !.betCur = 0, !.raiseFull = h.bb]
    OBVIOUS
  <2> HIDE DEF e, f
  <2> QED
    BY <1>1, <2>1, <2>2, BetSet, Zenon
<1>6. c = [e EXCEPT !.acted = {}, !.streetBy = idle]
  OBVIOUS
<1> HIDE DEF e, c
<1>7. c \in Hands(occ)
  BY <1>3, <1>5, <1>6, ZenonT(60) DEF Hands
<1> USE DEF c
<1>8. /\ c.occ = occ /\ c.stackBy = h.stackBy /\ c.handBy = h.handBy
      /\ c.folded = h.folded /\ c.allin = h.allin /\ c.acted = {} /\ c.betCur = 0
      /\ c.streetBy = [s \in occ |-> 0] /\ c.sb = h.sb /\ c.bb = h.bb
      /\ c.sbSeat = h.sbSeat /\ c.bbSeat = h.bbSeat /\ c.raiseFull = h.bb
  BY <1>1, <1>3 DEF Hands
<1> HIDE DEF c
<1>9. Conserved(c, o) /\ Contested(c) /\ Within(c, 0)
  BY <1>1, <1>8 DEF Conserved, Contested, Within, InHand
<1> QED
  BY <1>4, <1>7, <1>8, <1>9

\* A street that closes leaves a good record: when the hand goes on, somebody
\* can still bet, so somebody is to act.
LEMMA CloseStreetGood ==
    ASSUME NEW occ \in SUBSET (Nat \ {0}), NEW h \in Hands(occ), NEW o \in [occ -> Nat],
           Conserved(h, o), Contested(h), h.sb <= h.bb, h.sbSeat # h.bbSeat
    PROVE  Good(occ, CloseStreet(h), o)
<1> DEFINE c == Cleared(h)
           next == NextPending(c, h.buttonSeat)
           show == [c EXCEPT !.phase = "showdown", !.toAct = 0, !.note = "showdown"]
           run == [c EXCEPT !.phase = "runout", !.toAct = 0, !.note = "runout"]
           adv == [c EXCEPT !.phase = "acting", !.street = NextStreet(@), !.note = "advance",
                            !.toAct = next]
<1>0. /\ h.street = "river" => CloseStreet(h) = show
      /\ h.street # "river" /\ Cardinality(Live(c)) <= 1 => CloseStreet(h) = run
      /\ h.street # "river" /\ ~(Cardinality(Live(c)) <= 1) => CloseStreet(h) = adv
  BY DEF CloseStreet
<1>1. h.buttonSeat \in occ
  BY DEF Hands
<1>4. c \in Hands(occ)
  BY ClearedKeeps
<1>6. /\ Conserved(c, o) /\ Contested(c) /\ Within(c, 0)
      /\ c.acted = {} /\ c.betCur = 0 /\ c.raiseFull = h.bb
      /\ c.sb = h.sb /\ c.bb = h.bb /\ c.sbSeat = h.sbSeat /\ c.bbSeat = h.bbSeat
  BY ClearedKeeps
<1> HIDE DEF c
<1>5. c.occ = occ /\ c.bb <= c.raiseFull
  BY <1>4, <1>6 DEF Hands
<1>7. Good(occ, show, o)
  <2>1. show \in Hands(occ)
    BY <1>4 DEF Hands, Phases, Notes
  <2>2. /\ show.occ = c.occ /\ show.stackBy = c.stackBy /\ show.handBy = c.handBy
        /\ show.folded = c.folded /\ show.sb = c.sb /\ show.bb = c.bb
        /\ show.sbSeat = c.sbSeat /\ show.bbSeat = c.bbSeat /\ show.raiseFull = c.raiseFull
        /\ show.phase = "showdown" /\ show.toAct = 0
    BY <1>4 DEF Hands
  <2> HIDE DEF show
  <2> QED
    BY <1>5, <1>6, <2>1, <2>2 DEF Good, Conserved, BlindsOwed, TurnOwed, Contested, InHand
<1>8. Good(occ, run, o)
  <2>1. run \in Hands(occ)
    BY <1>4 DEF Hands, Phases, Notes
  <2>2. /\ run.occ = c.occ /\ run.stackBy = c.stackBy /\ run.handBy = c.handBy
        /\ run.folded = c.folded /\ run.sb = c.sb /\ run.bb = c.bb
        /\ run.sbSeat = c.sbSeat /\ run.bbSeat = c.bbSeat /\ run.raiseFull = c.raiseFull
        /\ run.phase = "runout" /\ run.toAct = 0
    BY <1>4 DEF Hands
  <2> HIDE DEF run
  <2> QED
    BY <1>5, <1>6, <2>1, <2>2 DEF Good, Conserved, BlindsOwed, TurnOwed, Contested, InHand
<1>9. ASSUME ~(Cardinality(Live(c)) <= 1)
      PROVE  Good(occ, adv, o)
  <2>1. PICK s \in Live(c) : TRUE
    BY <1>9, FS_EmptySet
  <2>2. SeatPending(c, s) /\ s \in occ
    BY <1>5, <1>6, <2>1 DEF SeatPending, Live, InHand
  <2>3. next # 0 /\ next \in occ /\ SeatPending(c, next)
    BY <1>1, <1>4, <2>2, NextPendingIsPending
  <2>4. next \in occ \ (c.folded \cup c.allin)
    BY <2>3 DEF SeatPending, Live, InHand
  <2> HIDE DEF next
  <2>5. NextStreet(c.street) \in Streets
    BY DEF NextStreet, Streets
  <2>6. adv \in Hands(occ)
    BY <1>4, <2>3, <2>5 DEF Hands, Phases, Notes
  <2>7. /\ adv.occ = c.occ /\ adv.stackBy = c.stackBy /\ adv.handBy = c.handBy
        /\ adv.folded = c.folded /\ adv.sb = c.sb /\ adv.bb = c.bb
        /\ adv.sbSeat = c.sbSeat /\ adv.bbSeat = c.bbSeat /\ adv.allin = c.allin
        /\ adv.acted = c.acted /\ adv.betCur = c.betCur /\ adv.streetBy = c.streetBy
        /\ adv.phase = "acting" /\ adv.toAct = next /\ adv.raiseFull = c.raiseFull
    BY <1>4 DEF Hands
  <2> HIDE DEF adv
  <2> QED
    BY <1>5, <1>6, <2>4, <2>6, <2>7
       DEF Good, Conserved, BlindsOwed, TurnOwed, Contested, InHand, Within
<1> QED
  BY <1>0, <1>7, <1>8, <1>9

\* Passing the turn on after a post or an act leaves a good record.
LEMMA AfterActionGood ==
    ASSUME NEW occ \in SUBSET (Nat \ {0}), NEW h \in Hands(occ), NEW o \in [occ -> Nat],
           Conserved(h, o), Contested(h), h.sb <= h.bb, h.sbSeat # h.bbSeat,
           h.bb <= h.raiseFull, h.phase = "acting", Within(h, h.betCur), NEW s \in occ
    PROVE  Good(occ, AfterAction(h, s), o)
<1> DEFINE next == NextPending(h, s)
           a == [h EXCEPT !.toAct = next]
<1>1. CASE next = 0
  BY <1>1, CloseStreetGood DEF AfterAction
<1>2. CASE next # 0
  <2>1. next \in occ /\ SeatPending(h, next)
    BY <1>2, NextPendingIsPending
  <2>2. AfterAction(h, s) = a
    BY <1>2 DEF AfterAction
  <2> HIDE DEF next
  <2>3. a \in Hands(occ)
    BY <2>1 DEF Hands
  <2>4. /\ a.occ = h.occ /\ a.stackBy = h.stackBy /\ a.handBy = h.handBy
        /\ a.folded = h.folded /\ a.sb = h.sb /\ a.bb = h.bb
        /\ a.sbSeat = h.sbSeat /\ a.bbSeat = h.bbSeat /\ a.allin = h.allin
        /\ a.acted = h.acted /\ a.betCur = h.betCur /\ a.streetBy = h.streetBy
        /\ a.phase = "acting" /\ a.toAct = next /\ a.raiseFull = h.raiseFull
    BY DEF Hands
  <2>5. next \in h.occ \ (h.folded \cup h.allin)
          /\ (h.streetBy[next] < h.betCur \/ next \notin h.acted)
    BY <2>1 DEF SeatPending, Live, InHand, Hands
  <2> HIDE DEF a
  <2>6. TurnOwed(a)
    BY <2>4, <2>5 DEF TurnOwed, Contested, InHand
  <2>7. Conserved(a, o) /\ BlindsOwed(a) /\ Within(a, a.betCur) /\ a.bb <= a.raiseFull
    BY <2>4 DEF Conserved, BlindsOwed, Within
  <2> QED
    BY <2>2, <2>3, <2>6, <2>7 DEF Good
<1> QED
  BY <1>1, <1>2

\* Clearing the note changes nothing else.
LEMMA QuietKeeps ==
    ASSUME NEW occ, NEW h \in Hands(occ)
    PROVE  /\ Quiet(h) \in Hands(occ)
           /\ SameTable(Quiet(h), h)
           /\ Quiet(h).stackBy = h.stackBy /\ Quiet(h).streetBy = h.streetBy
           /\ Quiet(h).handBy = h.handBy /\ Quiet(h).street = h.street
           /\ Quiet(h).actN = h.actN /\ Quiet(h).antePosted = h.antePosted
BY DEF Quiet, Hands, Notes, SameTable

----------------------------------------------------------------------------------
(* One lemma per message: the record stays good.                             *)

\* The lesser of two amounts.
LEMMA LeastOfTwo ==
    ASSUME NEW a \in Nat, NEW b \in Nat
    PROVE  Least(a, b) \in Nat /\ Least(a, b) <= a /\ Least(a, b) <= b
BY DEF Least

\* An ante.
LEMMA PostAnteGood ==
    ASSUME NEW occ, NEW h, NEW o \in [occ -> Nat], Good(occ, h, o), NEW s \in occ,
           h.phase = "blinds"
    PROVE  Good(occ, PostAnte(h, s), o)
<1> DEFINE q == Quiet(h)
           n == Least(h.ante, h.stackBy[s])
           p == PayDead(q, s, n)
           r == [p EXCEPT !.antePosted = @ \cup {s}]
<1>1. h \in Hands(occ) /\ Conserved(h, o) /\ BlindsOwed(h) /\ TurnOwed(h) /\ h.bb <= h.raiseFull
  BY DEF Good
<1>2. q \in Hands(occ) /\ SameTable(q, h) /\ q.stackBy = h.stackBy
        /\ q.streetBy = h.streetBy /\ q.handBy = h.handBy
  BY <1>1, QuietKeeps
<1>3. Conserved(q, o)
  BY <1>1, <1>2 DEF Conserved, SameTable
<1>4. n \in Nat /\ n <= q.stackBy[s]
  BY <1>1, <1>2 DEF Least, Hands
<1>5. PostAnte(h, s) = r
  BY DEF PostAnte
<1> HIDE DEF q, n
<1>6. p \in Hands(occ) /\ Conserved(p, o) /\ p.streetBy = h.streetBy /\ SameTable(p, q)
  BY <1>2, <1>3, <1>4, PayDeadKeeps
<1> HIDE DEF p
<1>7. r \in Hands(occ) /\ SameTable(r, p) /\ r.streetBy = p.streetBy
        /\ r.stackBy = p.stackBy /\ r.handBy = p.handBy
  BY <1>6 DEF Hands, SameTable
<1> HIDE DEF r
<1>8. SameTable(r, h) /\ r.streetBy = h.streetBy
  BY <1>2, <1>6, <1>7 DEF SameTable
<1>9. Conserved(r, o)
  BY <1>6, <1>7 DEF Conserved, SameTable
<1>10. BlindsOwed(r)
  BY <1>1, <1>8 DEF BlindsOwed, Within, SameTable
<1>11. TurnOwed(r) /\ r.phase = "blinds" /\ r.bb <= r.raiseFull
  BY <1>1, <1>8 DEF TurnOwed, Contested, InHand, SameTable
<1> QED
  BY <1>5, <1>7, <1>9, <1>10, <1>11 DEF Good

\* The small blind: the first chips of the street.
LEMMA PostSBGood ==
    ASSUME NEW occ, NEW h, NEW o \in [occ -> Nat], Good(occ, h, o), TakesSB(h, h.sbSeat)
    PROVE  Good(occ, PostSB(h, h.sbSeat), o)
<1> DEFINE s == h.sbSeat
           q == Quiet(h)
           n == Least(h.sb, h.stackBy[s])
           p == Pay(q, s, n)
           r == [p EXCEPT !.sbPosted = TRUE]
<1>1. h \in Hands(occ) /\ Conserved(h, o) /\ BlindsOwed(h) /\ TurnOwed(h) /\ h.bb <= h.raiseFull
        /\ h.phase = "blinds" /\ ~h.sbPosted /\ s \in occ
  BY DEF Good, TakesSB, Hands
<1>2. q \in Hands(occ) /\ SameTable(q, h) /\ q.stackBy = h.stackBy
        /\ q.streetBy = h.streetBy /\ q.handBy = h.handBy
  BY <1>1, QuietKeeps
<1>3. Conserved(q, o)
  BY <1>1, <1>2 DEF Conserved, SameTable
<1>4. n \in Nat /\ n <= q.stackBy[s] /\ n <= h.sb
  BY <1>1, <1>2 DEF Least, Hands
<1>5. PostSB(h, s) = r
  BY DEF PostSB
<1>6. h.streetBy \in [occ -> Nat] /\ h.occ = occ /\ h.sb \in Nat /\ h.bbSeat \in occ
  BY <1>1 DEF Hands
<1> HIDE DEF q, n
<1>7. p \in Hands(occ) /\ Conserved(p, o) /\ SameTable(p, q)
        /\ p.streetBy = [h.streetBy EXCEPT ![s] = @ + n]
  BY <1>1, <1>2, <1>3, <1>4, PayKeeps DEF Paid
<1> HIDE DEF p
<1>8. r \in Hands(occ) /\ r.streetBy = p.streetBy /\ r.stackBy = p.stackBy
        /\ r.handBy = p.handBy /\ r.sbPosted = TRUE /\ r.occ = p.occ /\ r.sb = p.sb
        /\ r.bb = p.bb /\ r.sbSeat = p.sbSeat /\ r.bbSeat = p.bbSeat
        /\ r.phase = p.phase /\ r.toAct = p.toAct /\ r.folded = p.folded
        /\ r.raiseFull = p.raiseFull
  BY <1>7 DEF Hands
<1> HIDE DEF r
<1>9. /\ r.occ = occ /\ r.sb = h.sb /\ r.bb = h.bb /\ r.sbSeat = s /\ r.bbSeat = h.bbSeat
      /\ r.phase = "blinds" /\ r.toAct = h.toAct /\ r.folded = h.folded
      /\ r.raiseFull = h.raiseFull
  BY <1>1, <1>2, <1>6, <1>7, <1>8 DEF SameTable
<1>10. Conserved(r, o)
  BY <1>7, <1>8 DEF Conserved, SameTable
<1>11. BlindsOwed(r)
  <2>1. \A t \in occ : h.streetBy[t] <= 0
    BY <1>1, <1>6 DEF BlindsOwed, Within
  <2>2. Within(r, h.sb)
    BY <1>1, <1>4, <1>6, <1>7, <1>8, <1>9, <2>1 DEF Within
  <2>3. r.streetBy[h.bbSeat] = 0
    BY <1>1, <1>6, <1>7, <1>8 DEF BlindsOwed
  <2> QED
    BY <1>1, <1>8, <1>9, <2>2, <2>3 DEF BlindsOwed
<1>12. TurnOwed(r)
  BY <1>1, <1>6, <1>9 DEF TurnOwed, Contested, InHand
<1> QED
  BY <1>1, <1>5, <1>8, <1>9, <1>10, <1>11, <1>12 DEF Good

\* The big blind: it meets a seat with nothing in the street yet, so even a
\* posted small blind is within the bet it opens.
LEMMA PostBBGood ==
    ASSUME NEW occ \in SUBSET (Nat \ {0}), NEW h, NEW o \in [occ -> Nat], Good(occ, h, o),
           TakesBB(h, h.bbSeat)
    PROVE  Good(occ, PostBB(h, h.bbSeat), o)
<1> DEFINE s == h.bbSeat
           q == Quiet(h)
           n == Least(h.bb, h.stackBy[s])
           p == Pay(q, s, n)
           e == [p EXCEPT !.betCur = h.bb, !.raiseFull = h.bb]
           r == [p EXCEPT !.betCur = h.bb, !.raiseFull = h.bb, !.phase = "acting"]
<1>1. h \in Hands(occ) /\ Conserved(h, o) /\ BlindsOwed(h) /\ TurnOwed(h) /\ h.bb <= h.raiseFull
        /\ h.phase = "blinds" /\ s \in occ
  BY DEF Good, TakesBB, Hands
<1>2. q \in Hands(occ) /\ SameTable(q, h) /\ q.stackBy = h.stackBy
        /\ q.streetBy = h.streetBy /\ q.handBy = h.handBy
  BY <1>1, QuietKeeps
<1>3. Conserved(q, o)
  BY <1>1, <1>2 DEF Conserved, SameTable
<1>5. PostBB(h, s) = AfterAction(r, s)
  BY DEF PostBB
<1>6. h.streetBy \in [occ -> Nat] /\ h.occ = occ /\ h.sb \in Nat /\ h.bb \in Nat
        /\ h.sbPosted \in BOOLEAN /\ h.stackBy \in [occ -> Nat] /\ s \in occ
  BY <1>1 DEF Hands
<1>4. n \in Nat /\ n <= q.stackBy[s] /\ n <= h.bb
  <2>1. h.stackBy[s] \in Nat
    BY <1>6
  <2> QED
    BY <1>2, <1>6, <2>1, LeastOfTwo
<1> HIDE DEF q, n, s
<1>7. p \in Hands(occ) /\ Conserved(p, o) /\ SameTable(p, q)
        /\ p.streetBy = [h.streetBy EXCEPT ![s] = @ + n]
  BY <1>2, <1>3, <1>4, <1>6, PayKeeps DEF Paid
<1> HIDE DEF p
<1> USE DEF s
<1>8. r \in Hands(occ) /\ r.streetBy = p.streetBy /\ r.stackBy = p.stackBy
        /\ r.handBy = p.handBy /\ r.occ = p.occ /\ r.sb = p.sb
        /\ r.bb = p.bb /\ r.sbSeat = p.sbSeat /\ r.bbSeat = p.bbSeat
        /\ r.phase = "acting" /\ r.folded = p.folded /\ r.betCur = h.bb
        /\ r.raiseFull = h.bb
  <2>1. e \in Hands(occ)
    BY <1>6, <1>7, BetSet, Zenon
  <2>2. r = [e EXCEPT !.phase = "acting"]
    OBVIOUS
  <2>3. e.streetBy = p.streetBy /\ e.stackBy = p.stackBy
        /\ e.handBy = p.handBy /\ e.occ = p.occ /\ e.sb = p.sb
        /\ e.bb = p.bb /\ e.sbSeat = p.sbSeat /\ e.bbSeat = p.bbSeat
        /\ e.folded = p.folded /\ e.betCur = h.bb /\ e.raiseFull = h.bb
    BY <1>7 DEF Hands
  <2> HIDE DEF r, e
  <2> QED
    BY <2>1, <2>2, <2>3 DEF Hands, Phases
<1> HIDE DEF r
<1>9. r.occ = occ /\ r.sb = h.sb /\ r.bb = h.bb /\ r.sbSeat = h.sbSeat /\ r.bbSeat = s
        /\ r.folded = h.folded
  BY <1>1, <1>2, <1>6, <1>7, <1>8 DEF SameTable
<1>10. Conserved(r, o)
  BY <1>7, <1>8 DEF Conserved, SameTable
<1>11. Within(r, r.betCur)
  <2>1. \A t \in occ : h.streetBy[t] <= h.bb
    BY <1>1, <1>6 DEF BlindsOwed, Within
  <2>2. h.streetBy[s] = 0
    BY <1>1 DEF BlindsOwed
  <2>3. ASSUME NEW t \in occ
        PROVE  r.streetBy[t] <= h.bb
    BY <1>4, <1>6, <1>7, <1>8, <2>1, <2>2
  <2> QED
    BY <1>8, <1>9, <2>3 DEF Within
<1>12. Contested(r) /\ r.sb <= r.bb /\ r.sbSeat # r.bbSeat /\ r.bb <= r.raiseFull
  BY <1>1, <1>6, <1>8, <1>9 DEF TurnOwed, Contested, InHand, BlindsOwed
<1> QED
  BY <1>1, <1>5, <1>8, <1>10, <1>11, <1>12, AfterActionGood

\* The record after the turn counter moved and the last note was cleared.
Counted(h) == [Quiet(h) EXCEPT !.actN = @ + 1]

\* Counting the turn changes nothing else.
LEMMA CountedKeeps ==
    ASSUME NEW occ, NEW h \in Hands(occ)
    PROVE  /\ Counted(h) \in Hands(occ)
           /\ SameTable(Counted(h), h)
           /\ Counted(h).stackBy = h.stackBy /\ Counted(h).streetBy = h.streetBy
           /\ Counted(h).handBy = h.handBy
<1> DEFINE q == Quiet(h)
<1>1. q \in Hands(occ) /\ SameTable(q, h) /\ q.stackBy = h.stackBy
        /\ q.streetBy = h.streetBy /\ q.handBy = h.handBy
  BY QuietKeeps
<1>2. Counted(h) = [q EXCEPT !.actN = @ + 1]
  BY DEF Counted
<1> HIDE DEF q
<1> QED
  BY <1>1, <1>2 DEF Hands, SameTable

\* The seat to act says a word that costs nothing more.
LEMMA ActedKeeps ==
    ASSUME NEW occ, NEW h \in Hands(occ), NEW s \in occ
    PROVE  /\ Acted(h, s) \in Hands(occ)
           /\ Acted(h, s).stackBy = h.stackBy /\ Acted(h, s).streetBy = h.streetBy
           /\ Acted(h, s).handBy = h.handBy /\ Acted(h, s).occ = h.occ
           /\ Acted(h, s).folded = h.folded /\ Acted(h, s).betCur = h.betCur
           /\ Acted(h, s).phase = h.phase /\ Acted(h, s).sb = h.sb /\ Acted(h, s).bb = h.bb
           /\ Acted(h, s).sbSeat = h.sbSeat /\ Acted(h, s).bbSeat = h.bbSeat
           /\ Acted(h, s).raiseFull = h.raiseFull
BY DEF Acted, Hands

\* What every act starts from.
Betting(occ, h, o) ==
    /\ h \in Hands(occ) /\ Conserved(h, o) /\ Contested(h)
    /\ h.sb <= h.bb /\ h.sbSeat # h.bbSeat /\ h.bb <= h.raiseFull
    /\ h.phase = "acting" /\ Within(h, h.betCur)

\* A seat that has paid what it will (or nothing) passes the turn on.
LEMMA ActedGood ==
    ASSUME NEW occ \in SUBSET (Nat \ {0}), NEW h, NEW o \in [occ -> Nat],
           Betting(occ, h, o), NEW s \in occ
    PROVE  Good(occ, AfterAction(Acted(h, s), s), o)
<1> DEFINE a == Acted(h, s)
<1>1. a \in Hands(occ)
      /\ a.stackBy = h.stackBy /\ a.streetBy = h.streetBy /\ a.handBy = h.handBy
      /\ a.occ = h.occ /\ a.folded = h.folded /\ a.betCur = h.betCur
      /\ a.phase = h.phase /\ a.sb = h.sb /\ a.bb = h.bb
      /\ a.sbSeat = h.sbSeat /\ a.bbSeat = h.bbSeat /\ a.raiseFull = h.raiseFull
  BY ActedKeeps DEF Betting
<1> HIDE DEF a
<1>2. Conserved(a, o) /\ Contested(a) /\ Within(a, a.betCur)
  BY <1>1 DEF Betting, Conserved, Contested, InHand, Within
<1>3. Good(occ, AfterAction(a, s), o)
  BY <1>1, <1>2, AfterActionGood DEF Betting
<1> QED
  BY <1>3 DEF a

\* A payment of at most what is owed leaves the betting in order.
LEMMA CallBetting ==
    ASSUME NEW occ \in SUBSET (Nat \ {0}), NEW h, NEW o \in [occ -> Nat],
           Betting(occ, h, o), NEW s \in occ, NEW n \in Nat,
           n <= h.stackBy[s], n <= Owe(h, s)
    PROVE  Betting(occ, Pay(h, s, n), o)
<1> DEFINE p == Pay(h, s, n)
<1>1. h \in Hands(occ) /\ Conserved(h, o)
  BY DEF Betting
<1>2. h.streetBy \in [occ -> Nat] /\ h.betCur \in Nat /\ h.occ = occ
  BY <1>1 DEF Hands
<1>3. Paid(occ, h, o, s, n)
  BY <1>1, PayKeeps, Zenon
<1>4. p \in Hands(occ) /\ Conserved(p, o) /\ SameTable(p, h)
        /\ p.streetBy = [h.streetBy EXCEPT ![s] = @ + n]
  BY <1>3, Zenon DEF Paid
<1> HIDE DEF p
<1>5. ASSUME NEW t \in occ
      PROVE  p.streetBy[t] <= h.betCur
  BY <1>2, <1>4 DEF Betting, Within, Owe
<1>6. Within(p, p.betCur)
  BY <1>2, <1>4, <1>5 DEF Within, SameTable
<1>7. Betting(occ, p, o)
  BY <1>4, <1>6 DEF Betting, SameTable, Contested, InHand
<1> QED
  BY <1>7 DEF p

\* A wager puts its seat exactly at the new bet, and everybody else below it.
LEMMA WagerGood ==
    ASSUME NEW occ \in SUBSET (Nat \ {0}), NEW h, NEW o \in [occ -> Nat],
           Betting(occ, h, o), NEW s \in occ, NEW to \in Nat,
           h.betCur < to, to <= Reach(h, s)
    PROVE  Good(occ, Wager(h, s, to), o)
<1> DEFINE n == to - h.streetBy[s]
           p == Pay(h, s, n)
           full == to - h.betCur >= h.raiseFull
           more == IF full THEN to - h.betCur ELSE p.raiseFull
           open == IF full THEN {s} ELSE p.acted \cup {s}
           e == [p EXCEPT !.betCur = to, !.raiseFull = more]
           w == [e EXCEPT !.aggressor = s, !.acted = open]
           v == [p EXCEPT !.betCur = to, !.aggressor = s, !.raiseFull = more, !.acted = open]
<1>1. h \in Hands(occ) /\ Conserved(h, o)
  BY DEF Betting
<1>2. h.streetBy \in [occ -> Nat] /\ h.stackBy \in [occ -> Nat] /\ h.betCur \in Nat
        /\ h.occ = occ
  BY <1>1 DEF Hands
<1>3. n \in Nat /\ n <= h.stackBy[s] /\ h.streetBy[s] + n = to
  <2>1. h.streetBy[s] <= h.betCur
    BY <1>2 DEF Betting, Within
  <2>2. h.streetBy[s] \in Nat /\ h.stackBy[s] \in Nat
    BY <1>2
  <2> QED
    BY <1>2, <2>1, <2>2 DEF Reach
<1>4. Wager(h, s, to) = AfterAction(v, s)
  BY DEF Wager
<1> HIDE DEF n
<1>5. p \in Hands(occ) /\ Conserved(p, o) /\ SameTable(p, h)
        /\ p.streetBy = [h.streetBy EXCEPT ![s] = @ + n]
  BY <1>1, <1>2, <1>3, PayKeeps DEF Paid
<1> HIDE DEF p
<1>6. p.raiseFull \in Nat /\ p.acted \in SUBSET occ /\ p.raiseFull = h.raiseFull
        /\ p.bb = h.bb /\ h.bb \in Nat /\ h.bb <= h.raiseFull
  BY <1>1, <1>5 DEF Hands, SameTable, Betting
<1>7. more \in Nat /\ open \in SUBSET occ /\ p.bb <= more
  BY <1>2, <1>6
<1> HIDE DEF more, open
<1>8. v = w
  BY <1>5 DEF Hands
<1>9. e \in Hands(occ)
  BY <1>5, <1>7, BetSet, Zenon
<1>10. /\ e.occ = p.occ /\ e.stackBy = p.stackBy /\ e.streetBy = p.streetBy
       /\ e.handBy = p.handBy /\ e.folded = p.folded /\ e.phase = p.phase
       /\ e.sb = p.sb /\ e.bb = p.bb /\ e.sbSeat = p.sbSeat /\ e.bbSeat = p.bbSeat
       /\ e.betCur = to /\ e.raiseFull = more
  BY <1>5 DEF Hands
<1> HIDE DEF e, v
<1>11. /\ w \in Hands(occ)
       /\ w.occ = e.occ /\ w.stackBy = e.stackBy /\ w.streetBy = e.streetBy
       /\ w.handBy = e.handBy /\ w.folded = e.folded /\ w.phase = e.phase
       /\ w.sb = e.sb /\ w.bb = e.bb /\ w.sbSeat = e.sbSeat /\ w.bbSeat = e.bbSeat
       /\ w.betCur = e.betCur /\ w.raiseFull = e.raiseFull
  BY <1>7, <1>9 DEF Hands
<1> HIDE DEF w
<1>12. ASSUME NEW t \in occ
       PROVE  p.streetBy[t] <= to
  BY <1>2, <1>3, <1>5 DEF Betting, Within
<1>13. Within(w, w.betCur)
  BY <1>2, <1>5, <1>10, <1>11, <1>12 DEF Within, SameTable
<1>14. Conserved(w, o)
  BY <1>5, <1>10, <1>11 DEF Conserved
<1>15. Contested(w) /\ w.sb <= w.bb /\ w.sbSeat # w.bbSeat /\ w.phase = "acting"
         /\ w.bb <= w.raiseFull
  BY <1>5, <1>7, <1>10, <1>11 DEF Betting, SameTable, Contested, InHand
<1>16. Good(occ, AfterAction(w, s), o)
  BY <1>11, <1>13, <1>14, <1>15, AfterActionGood
<1> QED
  BY <1>4, <1>8, <1>16

\* A fold leaves one seat, and the hand is done, or a contested hand.
LEMMA FoldGood ==
    ASSUME NEW occ \in SUBSET (Nat \ {0}), NEW h, NEW o \in [occ -> Nat],
           Betting(occ, h, o), NEW s \in occ
    PROVE  Good(occ, FoldSeat(h, s), o)
<1> DEFINE g == [h EXCEPT !.folded = @ \cup {s}]
           f == Acted(g, s)
           d == [f EXCEPT !.phase = "handdone", !.toAct = 0, !.note = "foldwin"]
<1>1. h \in Hands(occ)
  BY DEF Betting
<1>2. /\ g \in Hands(occ) /\ g.stackBy = h.stackBy /\ g.streetBy = h.streetBy
      /\ g.handBy = h.handBy /\ g.occ = h.occ /\ g.betCur = h.betCur /\ g.phase = h.phase
      /\ g.sb = h.sb /\ g.bb = h.bb /\ g.sbSeat = h.sbSeat /\ g.bbSeat = h.bbSeat
      /\ g.raiseFull = h.raiseFull
  BY <1>1 DEF Hands
<1> HIDE DEF g
<1>3. /\ f \in Hands(occ) /\ f.stackBy = h.stackBy /\ f.streetBy = h.streetBy
      /\ f.handBy = h.handBy /\ f.occ = h.occ /\ f.betCur = h.betCur /\ f.phase = h.phase
      /\ f.sb = h.sb /\ f.bb = h.bb /\ f.sbSeat = h.sbSeat /\ f.bbSeat = h.bbSeat
      /\ f.raiseFull = h.raiseFull
  BY <1>2, ActedKeeps
<1>4. FoldSeat(h, s) = IF Cardinality(InHand(f)) = 1 THEN d ELSE AfterAction(f, s)
  BY DEF FoldSeat, g
<1> HIDE DEF f
<1>5. Conserved(f, o) /\ Within(f, f.betCur)
  BY <1>3 DEF Betting, Conserved, Within
<1>6. CASE Cardinality(InHand(f)) = 1
  <2>1. /\ d \in Hands(occ) /\ d.stackBy = f.stackBy /\ d.handBy = f.handBy
        /\ d.occ = f.occ /\ d.folded = f.folded /\ d.sb = f.sb /\ d.bb = f.bb
        /\ d.sbSeat = f.sbSeat /\ d.bbSeat = f.bbSeat
        /\ d.phase = "handdone" /\ d.toAct = 0 /\ d.raiseFull = f.raiseFull
    BY <1>3 DEF Hands, Phases, Notes
  <2> HIDE DEF d
  <2>2. Conserved(d, o) /\ ~Contested(d)
    BY <1>5, <1>6, <2>1 DEF Conserved, Contested, InHand
  <2>3. BlindsOwed(d) /\ TurnOwed(d) /\ d.bb <= d.raiseFull
    BY <1>3, <2>1, <2>2 DEF Betting, BlindsOwed, TurnOwed
  <2>4. Good(occ, d, o)
    BY <2>1, <2>2, <2>3 DEF Good
  <2> QED
    BY <1>4, <1>6, <2>4
<1>7. CASE Cardinality(InHand(f)) # 1
  <2>1. Good(occ, AfterAction(f, s), o)
    BY <1>3, <1>5, <1>7, AfterActionGood DEF Betting, Contested
  <2> QED
    BY <1>4, <1>7, <2>1
<1> QED
  BY <1>6, <1>7

\* Any act the engine takes.
LEMMA ActGood ==
    ASSUME NEW occ \in SUBSET (Nat \ {0}), NEW h, NEW o \in [occ -> Nat], Good(occ, h, o),
           NEW s \in occ, NEW verb \in Verbs, NEW amt \in Nat, TakesAct(h, s, verb, amt)
    PROVE  Good(occ, Act(h, s, verb, amt), o)
<1> DEFINE q == Counted(h)
<1>1. h \in Hands(occ) /\ Conserved(h, o) /\ h.phase = "acting" /\ Within(h, h.betCur)
        /\ BlindsOwed(h) /\ TurnOwed(h) /\ h.bb <= h.raiseFull
  BY DEF Good, TakesAct
<1>2. q \in Hands(occ) /\ SameTable(q, h)
        /\ q.stackBy = h.stackBy /\ q.streetBy = h.streetBy /\ q.handBy = h.handBy
  BY <1>1, CountedKeeps
<1>3. h.streetBy \in [occ -> Nat] /\ h.stackBy \in [occ -> Nat] /\ h.betCur \in Nat
        /\ h.occ = occ
  BY <1>1 DEF Hands
<1>4. Act(h, s, verb, amt) =
        CASE verb = "fold" -> FoldSeat(q, s)
          [] verb = "check" -> AfterAction(Acted(q, s), s)
          [] verb = "call" -> AfterAction(Acted(Pay(q, s, amt), s), s)
          [] verb = "allin" /\ amt <= h.betCur ->
                AfterAction(Acted(Pay(q, s, h.stackBy[s]), s), s)
          [] OTHER -> Wager(q, s, amt)
  BY DEF Act, Counted
<1> HIDE DEF q
<1>5. Conserved(q, o) /\ Within(q, q.betCur) /\ Contested(q)
  BY <1>1, <1>2 DEF Conserved, Within, Contested, InHand, SameTable, TurnOwed
<1>6. Betting(occ, q, o)
  BY <1>1, <1>2, <1>5 DEF Betting, SameTable, BlindsOwed
<1>7. Owe(q, s) = Owe(h, s) /\ Reach(q, s) = Reach(h, s)
  BY <1>2 DEF Owe, Reach, SameTable
<1>8. CASE verb = "fold"
  BY <1>4, <1>6, <1>8, FoldGood
<1>9. CASE verb = "check"
  BY <1>4, <1>6, <1>9, ActedGood
<1>10. CASE verb = "call"
  <2>1. Owe(h, s) > 0 /\ amt = Least(Owe(h, s), h.stackBy[s])
    BY <1>10 DEF TakesAct
  <2>2. Owe(h, s) \in Nat /\ h.stackBy[s] \in Nat
    BY <1>3, <2>1 DEF Owe
  <2>3. amt <= q.stackBy[s] /\ amt <= Owe(q, s)
    BY <1>2, <1>7, <2>1, <2>2, LeastOfTwo
  <2>4. Betting(occ, Pay(q, s, amt), o)
    BY <1>6, <2>3, CallBetting
  <2>5. Good(occ, AfterAction(Acted(Pay(q, s, amt), s), s), o)
    BY <2>4, ActedGood
  <2> QED
    BY <1>4, <1>10, <2>5
<1>11. CASE verb = "allin" /\ amt <= h.betCur
  <2> DEFINE n == h.stackBy[s]
  <2>1. amt = Reach(h, s)
    BY <1>11 DEF TakesAct
  <2>2. n \in Nat /\ n <= q.stackBy[s] /\ n <= Owe(q, s)
    BY <1>2, <1>3, <1>7, <1>11, <2>1 DEF Owe, Reach
  <2> HIDE DEF n
  <2>3. Betting(occ, Pay(q, s, n), o)
    BY <1>6, <2>2, CallBetting
  <2>4. Good(occ, AfterAction(Acted(Pay(q, s, n), s), s), o)
    BY <2>3, ActedGood
  <2>5. Act(h, s, verb, amt) = AfterAction(Acted(Pay(q, s, n), s), s)
    BY <1>4, <1>11 DEF n
  <2> QED
    BY <2>4, <2>5
<1>12. CASE verb \in {"bet", "raise"} \/ (verb = "allin" /\ ~(amt <= h.betCur))
  <2>1. Opens(h, s, amt)
    BY <1>12 DEF TakesAct
  <2>2. q.betCur < amt /\ amt <= Reach(q, s)
    BY <1>2, <1>3, <1>7, <2>1 DEF Opens, SameTable
  <2>3. Good(occ, Wager(q, s, amt), o)
    BY <1>6, <2>2, WagerGood
  <2> QED
    BY <1>4, <1>12, <2>3
<1> QED
  BY <1>8, <1>9, <1>10, <1>11, <1>12 DEF Verbs

\* A board message of a board that runs out.
LEMMA BoardGood ==
    ASSUME NEW occ, NEW h, NEW o \in [occ -> Nat], Good(occ, h, o), h.phase = "runout"
    PROVE  Good(occ, Board(h), o)
<1> DEFINE q == Quiet(h)
           b == [q EXCEPT !.street = NextStreet(@)]
           d == [b EXCEPT !.phase = "showdown", !.note = "showdown"]
<1>1. h \in Hands(occ) /\ Conserved(h, o) /\ BlindsOwed(h) /\ TurnOwed(h) /\ h.bb <= h.raiseFull
  BY DEF Good
<1>2. q \in Hands(occ) /\ SameTable(q, h) /\ q.stackBy = h.stackBy
        /\ q.streetBy = h.streetBy /\ q.handBy = h.handBy
  BY <1>1, QuietKeeps
<1>3. Board(h) = IF b.street = "river" THEN d ELSE b
  BY DEF Board
<1> HIDE DEF q
<1>4. NextStreet(q.street) \in Streets
  BY DEF NextStreet, Streets
<1>5. /\ b \in Hands(occ) /\ SameTable(b, q) /\ b.stackBy = q.stackBy
      /\ b.handBy = q.handBy
  BY <1>2, <1>4 DEF Hands, SameTable
<1> HIDE DEF b
<1>6. /\ d \in Hands(occ) /\ d.stackBy = b.stackBy /\ d.handBy = b.handBy
      /\ d.occ = b.occ /\ d.folded = b.folded /\ d.sb = b.sb /\ d.bb = b.bb
      /\ d.sbSeat = b.sbSeat /\ d.bbSeat = b.bbSeat
      /\ d.phase = "showdown" /\ d.toAct = b.toAct /\ d.raiseFull = b.raiseFull
  BY <1>5 DEF Hands, Phases, Notes
<1> HIDE DEF d
<1>7. Good(occ, b, o)
  <2>1. Conserved(b, o)
    BY <1>1, <1>2, <1>5 DEF Conserved, SameTable
  <2>2. BlindsOwed(b) /\ TurnOwed(b) /\ b.phase = "runout" /\ b.bb <= b.raiseFull
    BY <1>1, <1>2, <1>5 DEF BlindsOwed, TurnOwed, Contested, InHand, SameTable
  <2> QED
    BY <1>5, <2>1, <2>2 DEF Good
<1>8. Good(occ, d, o)
  <2>1. Conserved(d, o)
    BY <1>6, <1>7 DEF Good, Conserved
  <2>2. BlindsOwed(d) /\ TurnOwed(d) /\ d.bb <= d.raiseFull
    BY <1>1, <1>2, <1>5, <1>6 DEF BlindsOwed, TurnOwed, Contested, InHand, SameTable
  <2> QED
    BY <1>6, <2>1, <2>2 DEF Good
<1> QED
  BY <1>3, <1>7, <1>8

----------------------------------------------------------------------------------
(* The hand.                                                                 *)

\* The inductive invariant.
HandInv ==
    /\ hand.occ \in Occupied
    /\ opening \in [hand.occ -> Nat]
    /\ Good(hand.occ, hand, opening)

\* What the assumption says of a table's seats.
LEMMA OccupiedSeats ==
    ASSUME NEW occ \in Occupied
    PROVE  /\ occ \in SUBSET (Nat \ {0})
           /\ IsFiniteSet(occ)
           /\ \E s, t \in occ : s # t
<1>1. occ \in SUBSET Seats /\ \E s, t \in occ : s # t
  BY HandAssumption
<1>2. IsFiniteSet(occ)
  BY <1>1, HandAssumption, FS_Subset
<1> QED
  BY <1>1, <1>2, HandAssumption

\* A fresh hand, whatever the table: the blinds fall on two different seats.
LEMMA NewHandGood ==
    ASSUME NEW occ \in Occupied, NEW stakes \in Stakes, NEW button \in occ,
           NEW stacks \in [occ -> Stacks]
    PROVE  Good(occ, NewHand(stakes, stacks, occ, button), stacks)
<1> DEFINE sbSeat == IF Cardinality(occ) = 2 THEN button ELSE NextAfter(occ, button)
           bbSeat == NextAfter(occ, sbSeat)
           h == NewHand(stakes, stacks, occ, button)
<1>1. occ \in SUBSET Nat /\ occ # {} /\ IsFiniteSet(occ) /\ \E s, t \in occ : s # t
  BY OccupiedSeats
<1>2. sbSeat \in occ
  BY <1>1, NextAfterIsNext
<1> HIDE DEF sbSeat
<1>3. bbSeat \in occ /\ bbSeat # sbSeat
  BY <1>1, <1>2, NextAfterIsNext
<1> HIDE DEF bbSeat
<1>4. stakes.sb \in Nat /\ stakes.bb \in Nat \ {0} /\ stakes.ante \in Nat
        /\ stakes.sb <= stakes.bb
  BY HandAssumption
<1>5. stacks \in [occ -> Nat] /\ [s \in occ |-> stacks[s]] = stacks
  BY HandAssumption
<1>6. h = [sb |-> stakes.sb, bb |-> stakes.bb, ante |-> stakes.ante,
           occ |-> occ, buttonSeat |-> button,
           sbSeat |-> sbSeat, bbSeat |-> bbSeat,
           street |-> "preflop", phase |-> "blinds", note |-> "none",
           toAct |-> 0, betCur |-> 0, raiseFull |-> stakes.bb,
           aggressor |-> 0, sdFirst |-> 0, actN |-> 0,
           stackBy |-> stacks,
           streetBy |-> [s \in occ |-> 0],
           handBy |-> [s \in occ |-> 0],
           folded |-> {}, allin |-> {}, acted |-> {},
           antePosted |-> {}, sbPosted |-> FALSE]
  BY <1>5 DEF NewHand, sbSeat, bbSeat
<1> HIDE DEF h
<1>7. [s \in occ |-> 0] \in [occ -> Nat]
  OBVIOUS
<1>8. h \in Hands(occ)
  BY <1>2, <1>3, <1>4, <1>5, <1>6, <1>7 DEF Hands, Streets, Phases, Notes
<1>9. Conserved(h, stacks)
  BY <1>5, <1>6 DEF Conserved
<1>10. Cardinality(occ) # 1
  <2>1. PICK s, t \in occ : s # t
    BY <1>1
  <2>2. SUFFICES ASSUME Cardinality(occ) = 1
                 PROVE  FALSE
    OBVIOUS
  <2>3. \E x : occ = {x}
    BY <1>1, <2>2, FS_Singleton
  <2> QED
    BY <2>1, <2>3
<1>11. BlindsOwed(h)
  BY <1>2, <1>3, <1>4, <1>6 DEF BlindsOwed, Within
<1>12. TurnOwed(h) /\ h.phase = "blinds" /\ h.bb <= h.raiseFull
  <2>1. InHand(h) = occ
    BY <1>6 DEF InHand
  <2> QED
    BY <1>4, <1>6, <1>10, <2>1 DEF TurnOwed, Contested
<1>13. Good(occ, h, stacks)
  BY <1>8, <1>9, <1>11, <1>12 DEF Good
<1> QED
  BY <1>13 DEF h

\* The invariant holds of every hand dealt.
LEMMA HandInvInit == Init => HandInv
<1> SUFFICES ASSUME Init PROVE HandInv
  OBVIOUS
<1>1. PICK occ \in Occupied, stakes \in Stakes :
        \E button \in occ, stacks \in [occ -> Stacks] :
            hand = NewHand(stakes, stacks, occ, button) /\ opening = stacks
  BY DEF Init
<1>2. PICK button \in occ, stacks \in [occ -> Stacks] :
        hand = NewHand(stakes, stacks, occ, button) /\ opening = stacks
  BY <1>1
<1>3. Good(occ, hand, opening)
  BY <1>2, NewHandGood
<1>4. hand.occ = occ
  BY <1>3 DEF Good, Hands
<1>5. opening \in [occ -> Nat]
  BY <1>2, HandAssumption
<1> QED
  BY <1>3, <1>4, <1>5 DEF HandInv

\* Every message keeps the invariant.
LEMMA HandInvStep == HandInv /\ [Next]_vars => HandInv'
<1> SUFFICES ASSUME HandInv, [Next]_vars
             PROVE  HandInv'
  OBVIOUS
<1> DEFINE occ == hand.occ
<1>1. /\ occ \in Occupied /\ occ \in SUBSET (Nat \ {0}) /\ opening \in [occ -> Nat]
      /\ Good(occ, hand, opening)
  BY OccupiedSeats DEF HandInv
<1>2. hand \in Hands(occ)
  BY <1>1 DEF Good
<1>3. ASSUME Good(occ, hand', opening), opening' = opening
      PROVE  HandInv'
  <2>1. hand'.occ = occ
    BY <1>3 DEF Good, Hands
  <2>2. Good(occ, hand, opening)' <=> Good(hand'.occ, hand', opening')
    OBVIOUS
  <2> QED
    BY <1>1, <1>3, <2>1 DEF HandInv
<1> HIDE DEF occ
<1>4. ASSUME NEW s \in hand.occ, Ante(s)
      PROVE  HandInv'
  BY <1>1, <1>3, <1>4, PostAnteGood DEF Ante, TakesAnte, occ
<1>5. CASE SmallBlind
  BY <1>1, <1>3, <1>5, PostSBGood DEF SmallBlind
<1>6. CASE BigBlind
  BY <1>1, <1>3, <1>6, PostBBGood DEF BigBlind
<1>7. ASSUME NEW s \in hand.occ, NEW verb \in Verbs, NEW amt \in AmountsOf(s),
             SeatActs(s, verb, amt)
      PROVE  HandInv'
  <2>1. s \in occ
    BY DEF occ
  <2>2. amt \in Nat
    BY <1>2, <2>1 DEF AmountsOf, Reach, Hands
  <2>3. Good(occ, Act(hand, s, verb, amt), opening)
    BY <1>1, <1>7, <2>1, <2>2, ActGood DEF SeatActs
  <2> QED
    BY <1>3, <1>7, <2>3 DEF SeatActs
<1>8. CASE TimesOut
  <2> DEFINE verb == TimeoutVerb(hand, hand.toAct)
  <2>1. verb \in Verbs
    BY DEF TimeoutVerb, Verbs
  <2>2. hand.toAct \in occ /\ TakesAct(hand, hand.toAct, verb, 0)
          /\ hand' = Act(hand, hand.toAct, verb, 0) /\ opening' = opening
    BY <1>2, <1>8 DEF TimesOut, Hands
  <2> HIDE DEF verb
  <2>3. Good(occ, Act(hand, hand.toAct, verb, 0), opening)
    BY <1>1, <2>1, <2>2, ActGood
  <2> QED
    BY <1>3, <2>2, <2>3
<1>9. CASE DealBoard
  BY <1>1, <1>3, <1>9, BoardGood DEF DealBoard
<1>10. CASE UNCHANGED vars
  BY <1>1, <1>3, <1>10 DEF vars
<1> QED
  BY <1>4, <1>5, <1>6, <1>7, <1>8, <1>9, <1>10 DEF Next, Posts, Acts

\* The invariant is inductive, so it holds in every reachable state.
THEOREM HandInvariant == Spec => []HandInv
<1>1. Init => HandInv
  BY HandInvInit
<1>2. HandInv /\ [Next]_vars => HandInv'
  BY HandInvStep
<1> QED
  BY <1>1, <1>2, PTL DEF Spec

\* For any table, the engine's state stays well-formed: no stack goes negative.
THEOREM HandTypeCorrect == Spec => []TypeOK
<1>1. HandInv => TypeOK
  BY DEF HandInv, Good, TypeOK
<1> QED
  BY <1>1, HandInvariant, PTL

\* For any stacks and stakes, no chip is made or lost before the settlement.
THEOREM HandConservesChips == Spec => []ChipsConserved
<1>1. HandInv => ChipsConserved
  BY DEF HandInv, Good, Conserved, ChipsConserved
<1> QED
  BY <1>1, HandInvariant, PTL

\* For any stacks and stakes, nobody is ahead of the bet.
THEOREM HandKeepsWithinBet == Spec => []StreetWithinBet
<1>1. HandInv => StreetWithinBet
  BY DEF HandInv, Good, Within, StreetWithinBet
<1> QED
  BY <1>1, HandInvariant, PTL

\* For any number of seats, the hand waits for a seat that owes action.
THEOREM HandTurnIsOwed == Spec => []TurnIsOwed
<1>1. HandInv => TurnIsOwed
  BY DEF HandInv, Good, TurnOwed, Contested, TurnIsOwed
<1> QED
  BY <1>1, HandInvariant, PTL

----------------------------------------------------------------------------------
(* The offers.                                                               *)

\* What the table shows a seat is what the engine would take from it, for any
\* amount, as long as the record is good: the least full raise is above the bet.
LEMMA LegalExact ==
    ASSUME NEW occ, NEW h \in Hands(occ), h.bb <= h.raiseFull, NEW s \in occ,
           NEW verb \in Verbs, NEW amt \in Nat
    PROVE  TakesAct(h, s, verb, amt)
             <=> \E o \in Legal(h, s) :
                     /\ o.verb = verb
                     /\ verb \in {"fold", "check"} \/ amt \in o.lo .. o.hi
<1> DEFINE owe == Owe(h, s)
           hi == Reach(h, s)
           due == Least(owe, h.stackBy[s])
           lo == Least(h.betCur + h.raiseFull, hi)
           open == s \notin h.acted
           word == IF owe <= 0 THEN {Offer("check", 0, 0)} ELSE {Offer("call", due, due)}
           wager == IF open /\ hi > h.betCur
                    THEN {Offer(IF h.betCur = 0 THEN "bet" ELSE "raise", lo, hi)} ELSE {}
           shove == IF open \/ hi <= h.betCur THEN {Offer("allin", hi, hi)} ELSE {}
           Fits(o) == /\ o.verb = verb
                      /\ verb \in {"fold", "check"} \/ amt \in o.lo .. o.hi
           Offered == \E o \in Legal(h, s) : Fits(o)
<1>1. /\ h.betCur \in Nat /\ h.raiseFull \in Nat /\ h.raiseFull > 0
      /\ h.stackBy[s] \in Nat /\ h.streetBy[s] \in Nat
  BY DEF Hands
<1>2. ASSUME ~(h.phase = "acting" /\ h.toAct = s)
      PROVE  TakesAct(h, s, verb, amt) <=> Offered
  BY <1>2 DEF Legal, TakesAct
<1>3. ASSUME h.phase = "acting", h.toAct = s
      PROVE  TakesAct(h, s, verb, amt) <=> Offered
  <2>1. Legal(h, s) = {Offer("fold", 0, 0)} \cup word \cup wager \cup shove
    BY <1>3 DEF Legal
  <2>12. \A v, l, u : Fits(Offer(v, l, u))
                        <=> v = verb /\ (verb \in {"fold", "check"} \/ amt \in l .. u)
    BY DEF Offer
  <2>14. /\ Fits(Offer("fold", 0, 0)) <=> verb = "fold"
         /\ Fits(Offer("check", 0, 0)) <=> verb = "check"
    BY DEF Offer
  <2>15. \A n \in Nat : Fits(Offer("call", n, n)) <=> verb = "call" /\ amt = n
    BY DEF Offer
  <2>16. \A n \in Nat : Fits(Offer("allin", n, n)) <=> verb = "allin" /\ amt = n
    BY DEF Offer
  <2> HIDE DEF Fits
  <2>13. Offered <=> \/ Fits(Offer("fold", 0, 0))
                     \/ owe <= 0 /\ Fits(Offer("check", 0, 0))
                     \/ ~(owe <= 0) /\ Fits(Offer("call", due, due))
                     \/ open /\ hi > h.betCur
                           /\ Fits(Offer(IF h.betCur = 0 THEN "bet" ELSE "raise", lo, hi))
                     \/ (open \/ hi <= h.betCur) /\ Fits(Offer("allin", hi, hi))
    <3> HIDE DEF owe, hi, due, lo, open
    <3> QED
      BY <2>1
  <2>2. owe \in Int /\ hi \in Nat /\ (owe > 0 => due \in Nat) /\ lo \in Nat
    BY <1>1 DEF Owe, Reach, Least
  <2>3. lo <= hi /\ lo <= h.betCur + h.raiseFull
          /\ (lo = hi \/ lo = h.betCur + h.raiseFull)
    BY <1>1, <2>2 DEF Least
  <2>4. owe = h.betCur - h.streetBy[s]
    BY DEF Owe
  <2> HIDE DEF owe, hi, due, lo
  <2>5. CASE verb = "fold"
    BY <1>3, <2>5, <2>12, <2>13 DEF TakesAct
  <2>6. CASE verb = "check"
    <3>1. Offered <=> owe <= 0
      BY <2>12, <2>13, <2>6
    <3>2. TakesAct(h, s, verb, amt) <=> owe <= 0
      BY <1>1, <1>3, <2>4, <2>6 DEF TakesAct
    <3> QED
      BY <3>1, <3>2
  <2>7. CASE verb = "call"
    <3>1. Offered <=> owe > 0 /\ amt = due
      <4>1. CASE owe > 0
        <5>1. Fits(Offer("call", due, due)) <=> amt = due
          BY <2>2, <2>7, <2>15, <4>1
        <5>2. ~Fits(Offer("fold", 0, 0)) /\ ~Fits(Offer("check", 0, 0))
          BY <2>7, <2>14
        <5>3. ~Fits(Offer(IF h.betCur = 0 THEN "bet" ELSE "raise", lo, hi))
                /\ ~Fits(Offer("allin", hi, hi))
          BY <2>7, <2>12
        <5>4. ~(owe <= 0)
          BY <2>2, <4>1
        <5> HIDE DEF Offered
        <5> QED
          BY <2>13, <4>1, <5>1, <5>2, <5>3, <5>4
      <4>2. CASE owe <= 0
        BY <2>2, <2>7, <2>12, <2>13, <4>2
      <4> QED
        BY <2>2, <4>1, <4>2
    <3>2. TakesAct(h, s, verb, amt) <=> owe > 0 /\ amt = due
      BY <1>3, <2>7 DEF TakesAct, owe, due
    <3> QED
      BY <2>2, <3>1, <3>2
  <2>8. Opens(h, s, amt) <=> /\ open /\ hi > h.betCur
                             /\ amt \in lo .. hi
    BY <1>1, <2>2, <2>3 DEF Opens, hi
  <2>9. CASE verb = "bet"
    <3>1. Offered <=> open /\ hi > h.betCur /\ h.betCur = 0 /\ amt \in lo .. hi
      BY <2>12, <2>13, <2>9
    <3>2. TakesAct(h, s, verb, amt) <=> h.betCur = 0 /\ Opens(h, s, amt)
      BY <1>3, <2>9 DEF TakesAct
    <3> QED
      BY <2>8, <3>1, <3>2
  <2>10. CASE verb = "raise"
    <3>1. Offered <=> open /\ hi > h.betCur /\ h.betCur # 0 /\ amt \in lo .. hi
      BY <2>12, <2>13, <2>10
    <3>2. TakesAct(h, s, verb, amt) <=> h.betCur # 0 /\ Opens(h, s, amt)
      BY <1>3, <2>10 DEF TakesAct
    <3> QED
      BY <2>8, <3>1, <3>2
  <2>11. CASE verb = "allin"
    <3>1. Offered <=> (open \/ hi <= h.betCur) /\ amt = hi
      <4>1. Fits(Offer("allin", hi, hi)) <=> amt = hi
        BY <2>2, <2>11, <2>16
      <4> QED
        BY <2>11, <2>12, <2>13, <4>1
    <3>2. TakesAct(h, s, verb, amt)
            <=> amt = hi /\ (amt <= h.betCur \/ Opens(h, s, amt))
      BY <1>3, <2>11 DEF TakesAct, hi
    <3> QED
      BY <1>1, <2>2, <2>3, <2>8, <3>1, <3>2
  <2> QED
    BY <2>5, <2>6, <2>7, <2>9, <2>10, <2>11 DEF Verbs
<1>4. TakesAct(h, s, verb, amt) <=> Offered
  BY <1>2, <1>3
<1> QED
  BY <1>4

\* For any stacks and stakes, no player is shown an act the engine refuses or
\* denied one it would take.
THEOREM HandLegalIsExact == Spec => []LegalIsExact
<1>1. ASSUME HandInv
      PROVE  LegalIsExact
  <2> DEFINE occ == hand.occ
  <2>1. hand \in Hands(occ) /\ hand.bb <= hand.raiseFull
    BY <1>1 DEF HandInv, Good
  <2>2. ASSUME NEW s \in occ, NEW amt \in AmountsOf(s)
        PROVE  amt \in Nat
    <3>1. hand.streetBy[s] \in Nat /\ hand.stackBy[s] \in Nat
      BY <2>1 DEF Hands
    <3> QED
      BY <3>1 DEF AmountsOf, Reach
  <2> QED
    BY <2>1, <2>2, LegalExact DEF LegalIsExact
<1>2. HandInv => LegalIsExact
  BY <1>1
<1> QED
  BY <1>2, HandInvariant, PTL

----------------------------------------------------------------------------------
(* Reopening.                                                                *)

\* What a step may do to the seats that have acted.
Reopening(h, g) ==
    \A s \in h.occ :
        s \in h.acted /\ s \notin g.acted /\ g.street = h.street /\ g.phase = "acting"
        => /\ g.aggressor # s
           /\ g.betCur - h.betCur >= h.raiseFull
           /\ g.raiseFull = g.betCur - h.betCur
           /\ g.raiseFull >= h.bb

\* A street that closes with betting to come is another street.
LEMMA CloseStreetMovesOn ==
    ASSUME NEW occ, NEW h \in Hands(occ), CloseStreet(h).phase = "acting"
    PROVE  CloseStreet(h).street # h.street
<1> DEFINE c == Cleared(h)
           next == NextPending(c, h.buttonSeat)
           show == [c EXCEPT !.phase = "showdown", !.toAct = 0, !.note = "showdown"]
           run == [c EXCEPT !.phase = "runout", !.toAct = 0, !.note = "runout"]
           adv == [c EXCEPT !.phase = "acting", !.street = NextStreet(@), !.note = "advance",
                            !.toAct = next]
<1>1. CloseStreet(h) = IF h.street = "river" THEN show
                       ELSE IF Cardinality(Live(c)) <= 1 THEN run ELSE adv
  BY DEF CloseStreet
<1>2. DOMAIN c = DOMAIN h /\ c.street = h.street
  BY DEF Cleared, Hands
<1>3. {"phase", "street"} \subseteq DOMAIN h /\ h.street \in Streets
  BY DEF Hands
<1> HIDE DEF c
<1>4. show.phase = "showdown" /\ run.phase = "runout"
  BY <1>2, <1>3
<1>5. adv.street = NextStreet(h.street)
  BY <1>2, <1>3
<1>6. h.street # "river" => NextStreet(h.street) # h.street
  BY <1>3 DEF NextStreet, Streets
<1> HIDE DEF show, run, adv
<1> QED
  BY <1>1, <1>4, <1>5, <1>6

\* Passing the turn on forgets nobody's word unless the street closes.
LEMMA AfterActionKeepsWord ==
    ASSUME NEW occ, NEW h \in Hands(occ), NEW s, h.phase = "acting",
           AfterAction(h, s).phase = "acting", AfterAction(h, s).street = h.street
    PROVE  LET g == AfterAction(h, s)
           IN  /\ g.acted = h.acted /\ g.betCur = h.betCur
               /\ g.raiseFull = h.raiseFull /\ g.aggressor = h.aggressor
<1>1. NextPending(h, s) # 0
  BY CloseStreetMovesOn DEF AfterAction
<1>2. AfterAction(h, s) = [h EXCEPT !.toAct = NextPending(h, s)]
  BY <1>1 DEF AfterAction
<1> QED
  BY <1>2 DEF Hands

\* The acts that only add to those who have acted reopen nothing; a wager that
\* takes a seat's word away is a full raise by another seat.
LEMMA ActReopens ==
    ASSUME NEW occ \in SUBSET (Nat \ {0}), NEW h, NEW o \in [occ -> Nat], Good(occ, h, o),
           NEW s \in occ, NEW verb \in Verbs, NEW amt \in Nat, TakesAct(h, s, verb, amt)
    PROVE  Reopening(h, Act(h, s, verb, amt))
<1> DEFINE q == Counted(h)
           g == Act(h, s, verb, amt)
           \* an act that only adds to those who have acted
           Adds(a) == /\ a \in Hands(occ) /\ a.phase = "acting"
                      /\ a.street = h.street /\ h.acted \subseteq a.acted
<1>1. h \in Hands(occ) /\ Conserved(h, o) /\ h.phase = "acting" /\ Within(h, h.betCur)
        /\ h.bb <= h.raiseFull
  BY DEF Good, TakesAct
<1>2. /\ q \in Hands(occ) /\ q.stackBy = h.stackBy /\ q.streetBy = h.streetBy
      /\ q.handBy = h.handBy /\ q.occ = h.occ /\ q.phase = "acting" /\ q.betCur = h.betCur
      /\ q.raiseFull = h.raiseFull /\ q.acted = h.acted
  BY <1>1, CountedKeeps DEF SameTable
<1>3. q.street = h.street
  BY <1>1 DEF Counted, Quiet, Hands
<1>4. h.streetBy \in [occ -> Nat] /\ h.stackBy \in [occ -> Nat] /\ h.betCur \in Nat
        /\ h.raiseFull \in Nat /\ h.bb \in Nat /\ h.occ = occ /\ h.acted \in SUBSET occ
  BY <1>1 DEF Hands
<1>5. g = CASE verb = "fold" -> FoldSeat(q, s)
            [] verb = "check" -> AfterAction(Acted(q, s), s)
            [] verb = "call" -> AfterAction(Acted(Pay(q, s, amt), s), s)
            [] verb = "allin" /\ amt <= h.betCur ->
                  AfterAction(Acted(Pay(q, s, h.stackBy[s]), s), s)
            [] OTHER -> Wager(q, s, amt)
  BY DEF Act, Counted
<1> SUFFICES Reopening(h, g)
  OBVIOUS
<1> HIDE DEF q, g
<1>6. Conserved(q, o)
  BY <1>1, <1>2 DEF Conserved
<1>7. ASSUME NEW a, Adds(a), g = AfterAction(a, s)
      PROVE  Reopening(h, g)
  <2> SUFFICES ASSUME g.street = h.street, g.phase = "acting"
               PROVE  h.acted \subseteq g.acted
    BY DEF Reopening
  <2> QED
    BY <1>7, AfterActionKeepsWord
<1>8. ASSUME NEW a \in Hands(occ), a.phase = "acting", a.street = h.street, a.acted = h.acted
      PROVE  Adds(Acted(a, s))
  BY <1>8 DEF Acted, Hands
<1>9. ASSUME NEW n \in Nat, n <= h.stackBy[s]
      PROVE  LET p == Pay(q, s, n)
             IN  /\ p \in Hands(occ) /\ p.phase = "acting" /\ p.street = h.street
                 /\ p.acted = h.acted /\ p.raiseFull = h.raiseFull
  <2>1. Pay(q, s, n) \in Hands(occ) /\ SameTable(Pay(q, s, n), q)
    BY <1>2, <1>6, <1>9, PayKeeps DEF Paid
  <2>2. Pay(q, s, n).street = q.street
    BY <1>2 DEF Pay, PayDead, Hands
  <2> QED
    BY <1>2, <1>3, <2>1, <2>2 DEF SameTable
<1> HIDE DEF Adds
<1>10. CASE verb = "fold"
  <2> DEFINE b == [q EXCEPT !.folded = @ \cup {s}]
             f == Acted(b, s)
             d == [f EXCEPT !.phase = "handdone", !.toAct = 0, !.note = "foldwin"]
  <2>1. b \in Hands(occ) /\ b.phase = "acting" /\ b.street = h.street /\ b.acted = h.acted
    BY <1>2, <1>3 DEF Hands
  <2>2. g = IF Cardinality(InHand(f)) = 1 THEN d ELSE AfterAction(f, s)
    BY <1>5, <1>10 DEF FoldSeat
  <2> HIDE DEF b
  <2>3. Adds(f)
    BY <1>8, <2>1
  <2>4. f \in Hands(occ)
    BY <2>3 DEF Adds
  <2> HIDE DEF f
  <2>5. d.phase = "handdone"
    BY <2>4 DEF Hands
  <2> HIDE DEF d
  <2>6. CASE g = d
    BY <2>5, <2>6 DEF Reopening
  <2>7. CASE g = AfterAction(f, s)
    BY <1>7, <2>3, <2>7
  <2> QED
    BY <2>2, <2>6, <2>7
<1>11. CASE verb = "check"
  <2>1. Adds(Acted(q, s))
    BY <1>2, <1>3, <1>8
  <2>2. g = AfterAction(Acted(q, s), s)
    BY <1>5, <1>11
  <2> QED
    BY <1>7, <2>1, <2>2
<1>12. CASE verb = "call"
  <2>1. Owe(h, s) > 0 /\ amt = Least(Owe(h, s), h.stackBy[s])
    BY <1>12 DEF TakesAct
  <2>2. Owe(h, s) \in Nat /\ h.stackBy[s] \in Nat
    BY <1>4, <2>1 DEF Owe
  <2>3. amt <= h.stackBy[s]
    BY <2>1, <2>2, LeastOfTwo
  <2>4. Adds(Acted(Pay(q, s, amt), s))
    BY <1>8, <1>9, <2>3
  <2>5. g = AfterAction(Acted(Pay(q, s, amt), s), s)
    BY <1>5, <1>12
  <2> QED
    BY <1>7, <2>4, <2>5
<1>13. CASE verb = "allin" /\ amt <= h.betCur
  <2>1. h.stackBy[s] \in Nat /\ h.stackBy[s] <= h.stackBy[s]
    BY <1>4
  <2>2. Adds(Acted(Pay(q, s, h.stackBy[s]), s))
    BY <1>8, <1>9, <2>1
  <2>3. g = AfterAction(Acted(Pay(q, s, h.stackBy[s]), s), s)
    BY <1>5, <1>13
  <2> QED
    BY <1>7, <2>2, <2>3
<1>14. CASE verb \in {"bet", "raise"} \/ (verb = "allin" /\ ~(amt <= h.betCur))
  <2> DEFINE n == amt - q.streetBy[s]
             p == Pay(q, s, n)
             full == amt - q.betCur >= q.raiseFull
             more == IF full THEN amt - q.betCur ELSE p.raiseFull
             open == IF full THEN {s} ELSE p.acted \cup {s}
             w == [p EXCEPT !.betCur = amt, !.aggressor = s, !.raiseFull = more,
                            !.acted = open]
  <2>1. Opens(h, s, amt)
    BY <1>14 DEF TakesAct
  <2>2. n \in Nat /\ n <= h.stackBy[s] /\ h.betCur < amt
    <3>1. h.streetBy[s] \in Nat /\ h.stackBy[s] \in Nat /\ h.streetBy[s] <= h.betCur
      BY <1>1, <1>4 DEF Within
    <3>2. h.betCur < amt /\ amt <= h.streetBy[s] + h.stackBy[s]
      BY <1>4, <2>1 DEF Opens, Reach
    <3> QED
      BY <1>2, <1>4, <3>1, <3>2
  <2>3. g = AfterAction(w, s)
    BY <1>5, <1>14 DEF Wager
  <2> HIDE DEF n
  <2>4. /\ p \in Hands(occ) /\ p.phase = "acting" /\ p.street = h.street
        /\ p.acted = h.acted /\ p.raiseFull = h.raiseFull
    BY <1>9, <2>2
  <2> HIDE DEF p
  <2>5. more \in Nat /\ open \in SUBSET occ
    BY <1>2, <1>4, <2>2, <2>4
  <2> HIDE DEF more, open
  <2>6. /\ w.phase = "acting" /\ w.street = h.street /\ w.betCur = amt
        /\ w.aggressor = s /\ w.raiseFull = more /\ w.acted = open
    BY <2>4 DEF Hands
  <2>7. w \in Hands(occ)
    <3> DEFINE e == [p EXCEPT !.betCur = amt, !.raiseFull = more]
    <3>1. e \in Hands(occ)
      BY <2>4, <2>5, BetSet, Zenon
    <3>2. w = [e EXCEPT !.aggressor = s, !.acted = open]
      BY <2>4 DEF Hands
    <3> HIDE DEF e, w
    <3> QED
      BY <2>5, <3>1, <3>2 DEF Hands
  <2> HIDE DEF w
  <2> SUFFICES ASSUME NEW t \in h.occ, t \in h.acted, t \notin g.acted,
                      g.street = h.street, g.phase = "acting"
               PROVE  /\ g.aggressor # t
                      /\ g.betCur - h.betCur >= h.raiseFull
                      /\ g.raiseFull = g.betCur - h.betCur
                      /\ g.raiseFull >= h.bb
    BY DEF Reopening
  <2>8. /\ g.acted = open /\ g.betCur = amt
        /\ g.raiseFull = more /\ g.aggressor = s
    BY <2>3, <2>6, <2>7, AfterActionKeepsWord
  <2>9. full /\ t # s
    BY <2>4, <2>8 DEF open
  <2> QED
    BY <1>1, <1>2, <1>4, <2>2, <2>8, <2>9 DEF more
<1> QED
  BY <1>10, <1>11, <1>12, <1>13, <1>14 DEF Verbs, g

\* For any number of seats, only a full raise by another seat lets a seat that
\* has acted raise again.
THEOREM HandReopens == Spec => ReopensOnlyByFullRaise
<1>1. ASSUME HandInv, [Next]_vars
      PROVE  [Reopening(hand, hand')]_vars
  <2> DEFINE occ == hand.occ
  <2>1. /\ occ \in SUBSET (Nat \ {0}) /\ opening \in [occ -> Nat]
        /\ Good(occ, hand, opening) /\ hand \in Hands(occ)
    BY <1>1, OccupiedSeats DEF HandInv, Good
  <2> HIDE DEF occ
  <2>2. ASSUME NEW s \in hand.occ, Ante(s)
        PROVE  Reopening(hand, hand')
    <3>1. hand'.acted = hand.acted
      BY <2>1, <2>2 DEF Ante, PostAnte, PayDead, Quiet, Hands
    <3> QED
      BY <3>1 DEF Reopening
  <2>3. CASE SmallBlind
    <3>1. hand'.acted = hand.acted
      BY <2>1, <2>3 DEF SmallBlind, PostSB, Pay, PayDead, Quiet, Hands
    <3> QED
      BY <3>1 DEF Reopening
  <2>4. CASE BigBlind
    <3> DEFINE s == hand.bbSeat
               p == Pay(Quiet(hand), s, Least(hand.bb, hand.stackBy[s]))
               r == [p EXCEPT !.betCur = hand.bb, !.raiseFull = hand.bb, !.phase = "acting"]
    <3>1. hand' = AfterAction(r, s)
      BY <2>4 DEF BigBlind, PostBB
    <3>2. p \in Hands(occ) /\ hand.bb \in Nat
      <4>1. /\ Quiet(hand) \in Hands(occ) /\ Conserved(Quiet(hand), opening)
            /\ Quiet(hand).stackBy = hand.stackBy
        BY <2>1, QuietKeeps DEF Good, Conserved, SameTable
      <4>2. s \in occ /\ hand.bb \in Nat /\ hand.stackBy[s] \in Nat
        BY <2>1 DEF Hands
      <4>3. Least(hand.bb, hand.stackBy[s]) \in Nat
              /\ Least(hand.bb, hand.stackBy[s]) <= Quiet(hand).stackBy[s]
        BY <4>1, <4>2, LeastOfTwo
      <4> QED
        BY <2>1, <4>1, <4>2, <4>3, PayKeeps DEF Paid
    <3>3. r.acted = hand.acted /\ r.street = hand.street /\ r.phase = "acting"
      BY <2>1 DEF Pay, PayDead, Quiet, Hands
    <3>4. r \in Hands(occ)
      <4> DEFINE e == [p EXCEPT !.betCur = hand.bb, !.raiseFull = hand.bb]
      <4> HIDE DEF p
      <4>1. e \in Hands(occ)
        BY <3>2, BetSet, Zenon
      <4>2. r = [e EXCEPT !.phase = "acting"]
        OBVIOUS
      <4> HIDE DEF e, r
      <4> QED
        BY <4>1, <4>2 DEF Hands, Phases
    <3> HIDE DEF r, s
    <3>5. ASSUME hand'.street = hand.street, hand'.phase = "acting"
          PROVE  hand'.acted = hand.acted
      BY <3>1, <3>3, <3>4, <3>5, AfterActionKeepsWord
    <3> QED
      BY <3>5 DEF Reopening
  <2>5. ASSUME NEW s \in hand.occ, NEW verb \in Verbs, NEW amt \in AmountsOf(s),
               SeatActs(s, verb, amt)
        PROVE  Reopening(hand, hand')
    <3>1. s \in occ
      BY DEF occ
    <3>2. amt \in Nat
      BY <2>1, <3>1 DEF AmountsOf, Reach, Hands
    <3> QED
      BY <2>1, <2>5, <3>1, <3>2, ActReopens DEF SeatActs
  <2>6. CASE TimesOut
    <3> DEFINE verb == TimeoutVerb(hand, hand.toAct)
    <3>1. verb \in Verbs
      BY DEF TimeoutVerb, Verbs
    <3>2. hand.toAct \in occ /\ TakesAct(hand, hand.toAct, verb, 0)
            /\ hand' = Act(hand, hand.toAct, verb, 0)
      BY <2>1, <2>6 DEF TimesOut, Hands
    <3> HIDE DEF verb
    <3> QED
      BY <2>1, <3>1, <3>2, ActReopens
  <2>7. CASE DealBoard
    <3>1. hand'.phase # "acting"
      BY <2>1, <2>7 DEF DealBoard, Board, Quiet, Hands
    <3> QED
      BY <3>1 DEF Reopening
  <2> QED
    BY <1>1, <2>2, <2>3, <2>4, <2>5, <2>6, <2>7 DEF Next, Posts, Acts
<1>2. HandInv /\ [Next]_vars => [Reopening(hand, hand')]_vars
  BY <1>1
<1>3. [Reopening(hand, hand')]_vars <=>
        [ \A s \in hand.occ :
            s \in hand.acted /\ s \notin hand'.acted /\ hand'.street = hand.street
                /\ hand'.phase = "acting"
            => /\ hand'.aggressor # s
               /\ hand'.betCur - hand.betCur >= hand.raiseFull
               /\ hand'.raiseFull = hand'.betCur - hand.betCur
               /\ hand'.raiseFull >= hand.bb ]_vars
  BY DEF Reopening
<1> QED
  BY <1>2, <1>3, HandInvariant, PTL DEF Spec, ReopensOnlyByFullRaise

----------------------------------------------------------------------------------
(* Stakes.                                                                   *)

\* A street is level: what a seat in the hand put in before it is at most
\* what every seat that can still bet did.
LevelAt(h, base) ==
    \A s \in InHand(h) :
       /\ h.handBy[s] <= base + h.streetBy[s]
       /\ s \notin h.allin => h.handBy[s] = base + h.streetBy[s]

Level(h) == \E base \in Nat : LevelAt(h, base)

\* Before the big blind a seat has put in its ante, or is all-in with less.
Anted(h, s) ==
    /\ h.handBy[s] <= h.ante + h.streetBy[s]
    /\ s \notin h.allin => h.handBy[s] = h.ante + h.streetBy[s]

Antes(h) ==
    /\ \A s \in h.occ : IF s \in h.antePosted THEN Anted(h, s) ELSE h.handBy[s] = h.streetBy[s]
    /\ h.sbPosted => ~AntesDue(h)

Even(h) ==
    /\ h.phase = "blinds" => Antes(h)
    /\ h.phase \in {"acting", "runout", "showdown"} => Level(h)
    /\ h.phase \in {"runout", "showdown"} => Within(h, 0)

EvenInv == HandInv /\ Even(hand)

\* A payment moves the chips it counts, and puts nobody back into the betting.
LEMMA PayHand ==
    ASSUME NEW occ, NEW h \in Hands(occ), NEW s \in occ, NEW n
    PROVE  /\ Pay(h, s, n).handBy = [h.handBy EXCEPT ![s] = @ + n]
           /\ Pay(h, s, n).streetBy = [h.streetBy EXCEPT ![s] = @ + n]
           /\ h.allin \subseteq Pay(h, s, n).allin
           /\ Pay(h, s, n).occ = h.occ /\ Pay(h, s, n).folded = h.folded
           /\ Pay(h, s, n).antePosted = h.antePosted /\ Pay(h, s, n).ante = h.ante
BY DEF Pay, PayDead, Hands

\* What counts for the street counts for the hand: a payment keeps the level.
LEMMA LevelPays ==
    ASSUME NEW occ, NEW h \in Hands(occ), Level(h), NEW s \in occ, NEW n \in Nat,
           NEW g, g.occ = h.occ, g.folded = h.folded, h.allin \subseteq g.allin,
           g.handBy = [h.handBy EXCEPT ![s] = @ + n],
           g.streetBy = [h.streetBy EXCEPT ![s] = @ + n]
    PROVE  Level(g)
<1>1. PICK base \in Nat : LevelAt(h, base)
  BY DEF Level
<1>2. h.occ = occ /\ h.handBy \in [occ -> Nat] /\ h.streetBy \in [occ -> Nat]
  BY DEF Hands
<1>3. ASSUME NEW t \in InHand(g)
      PROVE  /\ g.handBy[t] <= base + g.streetBy[t]
             /\ t \notin g.allin => g.handBy[t] = base + g.streetBy[t]
  <2>1. t \in InHand(h) /\ t \in occ
    BY <1>2, <1>3 DEF InHand
  <2>2. PICK x, y : x = h.handBy[t] /\ y = h.streetBy[t]
    OBVIOUS
  <2>3. x \in Nat /\ y \in Nat /\ x <= base + y /\ (t \notin h.allin => x = base + y)
    BY <1>1, <1>2, <2>1, <2>2 DEF LevelAt
  <2>4. \/ g.handBy[t] = x + n /\ g.streetBy[t] = y + n
        \/ g.handBy[t] = x /\ g.streetBy[t] = y
    BY <1>2, <2>1, <2>2
  <2>5. x + n <= base + (y + n) /\ (x = base + y => x + n = base + (y + n))
    BY <2>3
  <2>6. t \notin g.allin => t \notin h.allin
    OBVIOUS
  <2> QED
    BY <2>3, <2>4, <2>5, <2>6
<1> QED
  BY <1>1, <1>3 DEF Level, LevelAt

\* The same chips, bets and seats are as level.
LEMMA LevelSame ==
    ASSUME NEW h, Level(h),
           NEW g, InHand(g) \subseteq InHand(h), g.allin = h.allin,
           g.handBy = h.handBy, g.streetBy = h.streetBy
    PROVE  Level(g)
BY DEF Level, LevelAt

\* When nobody is left to ask, everybody who can still bet has met the bet.
LEMMA CloseStreetEven ==
    ASSUME NEW occ, NEW h \in Hands(occ), Level(h), Within(h, h.betCur),
           \A s \in occ : ~SeatPending(h, s)
    PROVE  Even(CloseStreet(h))
<1> DEFINE c == Cleared(h)
           g == CloseStreet(h)
<1>1. PICK base \in Nat : LevelAt(h, base)
  BY DEF Level
<1>2. /\ h.occ = occ /\ h.handBy \in [occ -> Nat] /\ h.streetBy \in [occ -> Nat]
      /\ h.betCur \in Nat
  BY DEF Hands
<1>3. /\ c.occ = occ /\ c.handBy = h.handBy /\ c.folded = h.folded /\ c.allin = h.allin
      /\ c.streetBy = [s \in occ |-> 0]
  BY <1>2 DEF Cleared, Hands
<1>4. /\ g.occ = c.occ /\ g.handBy = c.handBy /\ g.folded = c.folded /\ g.allin = c.allin
      /\ g.streetBy = c.streetBy /\ g.phase \in {"showdown", "runout", "acting"}
  BY DEF CloseStreet, Cleared, Hands
<1> HIDE DEF c, g
<1>5. Within(g, 0)
  BY <1>3, <1>4 DEF Within
<1>6. ASSUME NEW s \in InHand(g)
      PROVE  /\ g.handBy[s] <= (base + h.betCur) + g.streetBy[s]
             /\ s \notin g.allin => g.handBy[s] = (base + h.betCur) + g.streetBy[s]
  <2>1. s \in InHand(h) /\ s \in occ /\ g.streetBy[s] = 0 /\ g.handBy[s] = h.handBy[s]
    BY <1>2, <1>3, <1>4, <1>6 DEF InHand
  <2>2. PICK x, y, z : x = h.handBy[s] /\ y = h.streetBy[s] /\ z = h.betCur
    OBVIOUS
  <2>3. x \in Nat /\ y \in Nat /\ z \in Nat /\ y <= z /\ x <= base + y
    BY <1>1, <1>2, <2>1, <2>2 DEF LevelAt, Within
  <2>4. s \notin g.allin => x = base + y /\ ~(y < z)
    BY <1>1, <1>3, <1>4, <2>1, <2>2 DEF LevelAt, SeatPending, Live
  <2>5. x <= (base + z) + 0 /\ (s \notin g.allin => x = (base + z) + 0)
    BY <2>3, <2>4
  <2> QED
    BY <2>1, <2>2, <2>5
<1>7. base + h.betCur \in Nat
  BY <1>2
<1>8. LevelAt(g, base + h.betCur)
  BY <1>6 DEF LevelAt
<1> QED
  BY <1>4, <1>5, <1>7, <1>8 DEF Even, Level, g

\* Passing the turn on leaves the hand even.
LEMMA AfterActionEven ==
    ASSUME NEW occ \in SUBSET (Nat \ {0}), NEW h \in Hands(occ), Level(h),
           Within(h, h.betCur), h.phase = "acting", NEW s \in occ
    PROVE  Even(AfterAction(h, s))
<1> DEFINE next == NextPending(h, s)
           a == [h EXCEPT !.toAct = next]
<1>1. CASE next = 0
  <2>1. \A t \in occ : ~SeatPending(h, t)
    BY <1>1, NextPendingIsPending
  <2> QED
    BY <1>1, <2>1, CloseStreetEven DEF AfterAction
<1>2. CASE next # 0
  <2>1. AfterAction(h, s) = a
    BY <1>2 DEF AfterAction
  <2>2. /\ a.occ = h.occ /\ a.folded = h.folded /\ a.allin = h.allin
        /\ a.handBy = h.handBy /\ a.streetBy = h.streetBy /\ a.phase = "acting"
    BY DEF Hands
  <2> HIDE DEF a
  <2>3. Level(a)
    BY <2>2, LevelSame DEF InHand
  <2> QED
    BY <2>1, <2>2, <2>3 DEF Even
<1> QED
  BY <1>1, <1>2

\* The note does not count.
LEMMA QuietEven ==
    ASSUME NEW occ, NEW h \in Hands(occ)
    PROVE  /\ Quiet(h).occ = h.occ /\ Quiet(h).folded = h.folded /\ Quiet(h).allin = h.allin
           /\ Quiet(h).handBy = h.handBy /\ Quiet(h).streetBy = h.streetBy
           /\ Quiet(h).stackBy = h.stackBy
           /\ Quiet(h).antePosted = h.antePosted /\ Quiet(h).ante = h.ante
           /\ Quiet(h).sbPosted = h.sbPosted /\ Quiet(h).phase = h.phase
           /\ Quiet(h).betCur = h.betCur /\ Quiet(h).street = h.street
BY DEF Quiet, Hands

\* Nobody has put anything in.
LEMMA NewHandEven ==
    ASSUME NEW stakes, NEW stacks, NEW occ, NEW button
    PROVE  Even(NewHand(stakes, stacks, occ, button))
<1> DEFINE h == NewHand(stakes, stacks, occ, button)
<1>1. /\ h.occ = occ /\ h.phase = "blinds" /\ h.antePosted = {} /\ h.sbPosted = FALSE
      /\ h.handBy = [s \in occ |-> 0] /\ h.streetBy = [s \in occ |-> 0]
  BY DEF NewHand
<1> HIDE DEF h
<1>2. Antes(h)
  BY <1>1 DEF Antes
<1>3. Even(h)
  BY <1>1, <1>2 DEF Even
<1> QED
  BY <1>3 DEF h

\* An ante, which a short stack posts with its last chips.
LEMMA PostAnteEven ==
    ASSUME NEW occ, NEW h \in Hands(occ), Even(h), NEW s \in occ, h.ante > 0, TakesAnte(h, s)
    PROVE  Even(PostAnte(h, s))
<1> DEFINE g == PostAnte(h, s)
           n == Least(h.ante, h.stackBy[s])
<1>1. /\ h.occ = occ /\ h.handBy \in [occ -> Nat] /\ h.streetBy \in [occ -> Nat]
      /\ h.stackBy \in [occ -> Nat] /\ h.ante \in Nat /\ h.antePosted \subseteq occ
  BY DEF Hands
<1>2. /\ g.occ = occ /\ g.phase = h.phase /\ g.ante = h.ante /\ g.sbPosted = h.sbPosted
      /\ g.handBy = [h.handBy EXCEPT ![s] = @ + n] /\ g.streetBy = h.streetBy
      /\ g.antePosted = h.antePosted \cup {s}
      /\ g.allin = IF h.stackBy[s] = n THEN h.allin \cup {s} ELSE h.allin
  BY <1>1 DEF PostAnte, PayDead, Quiet, Hands
<1>3. n \in Nat /\ n <= h.ante /\ (n # h.ante => h.stackBy[s] = n)
  BY <1>1 DEF Least
<1>4. h.phase = "blinds" /\ s \notin h.antePosted /\ Antes(h)
  BY DEF TakesAnte, Even
<1> HIDE DEF g, n
<1>5. Anted(g, s)
  <2>1. PICK x : x = h.handBy[s]
    OBVIOUS
  <2>2. x \in Nat /\ h.streetBy[s] = x
    BY <1>1, <1>4, <2>1 DEF Antes
  <2>3. g.handBy[s] = x + n /\ g.streetBy[s] = x
    BY <1>1, <1>2, <2>1, <2>2
  <2>4. x + n <= h.ante + x /\ (n = h.ante => x + n = h.ante + x)
    BY <1>1, <1>3, <2>2
  <2>5. s \notin g.allin => n = h.ante
    BY <1>2, <1>3
  <2> QED
    BY <1>2, <2>3, <2>4, <2>5 DEF Anted
<1>6. ASSUME NEW t \in occ, t # s
      PROVE  IF t \in g.antePosted THEN Anted(g, t) ELSE g.handBy[t] = g.streetBy[t]
  <2>1. /\ g.handBy[t] = h.handBy[t] /\ g.streetBy[t] = h.streetBy[t] /\ g.ante = h.ante
        /\ t \in g.allin <=> t \in h.allin
        /\ t \in g.antePosted <=> t \in h.antePosted
    BY <1>1, <1>2, <1>6
  <2> QED
    BY <1>1, <1>4, <2>1 DEF Antes, Anted
<1>7. ~g.sbPosted
  BY <1>1, <1>2, <1>4 DEF Antes, AntesDue
<1>8. Antes(g)
  BY <1>2, <1>5, <1>6, <1>7 DEF Antes
<1> QED
  BY <1>2, <1>4, <1>8 DEF Even, g

\* The small blind counts for the street, and comes after the antes.
LEMMA PostSBEven ==
    ASSUME NEW occ, NEW h \in Hands(occ), Even(h), ~AntesDue(h), TakesSB(h, h.sbSeat)
    PROVE  Even(PostSB(h, h.sbSeat))
<1> DEFINE s == h.sbSeat
           g == PostSB(h, s)
           n == Least(h.sb, h.stackBy[s])
<1>1. /\ h.occ = occ /\ h.handBy \in [occ -> Nat] /\ h.streetBy \in [occ -> Nat]
      /\ h.stackBy \in [occ -> Nat] /\ h.ante \in Nat /\ h.sb \in Nat /\ s \in occ
  BY DEF Hands
<1>2. /\ g.occ = occ /\ g.phase = h.phase /\ g.ante = h.ante
      /\ g.handBy = [h.handBy EXCEPT ![s] = @ + n]
      /\ g.streetBy = [h.streetBy EXCEPT ![s] = @ + n]
      /\ g.antePosted = h.antePosted /\ h.allin \subseteq g.allin
  BY <1>1 DEF PostSB, Pay, PayDead, Quiet, Hands
<1>3. n \in Nat
  BY <1>1 DEF Least
<1>4. h.phase = "blinds" /\ Antes(h)
  BY DEF TakesSB, Even
<1> HIDE DEF g, n
<1>5. ASSUME NEW t \in occ
      PROVE  IF t \in g.antePosted THEN Anted(g, t) ELSE g.handBy[t] = g.streetBy[t]
  <2>1. PICK x, y : x = h.handBy[t] /\ y = h.streetBy[t]
    OBVIOUS
  <2>2. x \in Nat /\ y \in Nat
    BY <1>1, <2>1
  <2>3. \/ g.handBy[t] = x + n /\ g.streetBy[t] = y + n
        \/ g.handBy[t] = x /\ g.streetBy[t] = y
    BY <1>1, <1>2, <2>1
  <2>4. t \notin h.antePosted => x = y
    BY <1>1, <1>4, <2>1 DEF Antes
  <2>5. t \in h.antePosted => x <= h.ante + y /\ (t \notin h.allin => x = h.ante + y)
    BY <1>1, <1>4, <2>1 DEF Antes, Anted
  <2>6. CASE t \notin h.antePosted
    BY <1>2, <2>3, <2>4, <2>6
  <2>7. CASE t \in h.antePosted
    <3>1. /\ x <= h.ante + y => x + n <= h.ante + (y + n)
          /\ x = h.ante + y => x + n = h.ante + (y + n)
      BY <1>1, <1>3, <2>2
    <3>2. t \notin g.allin => t \notin h.allin
      BY <1>2
    <3> QED
      BY <1>2, <2>3, <2>5, <2>7, <3>1, <3>2 DEF Anted
  <2> QED
    BY <2>6, <2>7
<1>6. ~AntesDue(g)
  BY <1>1, <1>2 DEF AntesDue
<1>7. Antes(g)
  BY <1>2, <1>5, <1>6 DEF Antes
<1> QED
  BY <1>2, <1>4, <1>7 DEF Even, g

\* With the antes and the small blind in, the first street starts level.
LEMMA AntesLevel ==
    ASSUME NEW occ, NEW h \in Hands(occ), Antes(h), h.sbPosted
    PROVE  Level(h)
<1>1. h.occ = occ /\ h.ante \in Nat /\ h.handBy \in [occ -> Nat] /\ h.streetBy \in [occ -> Nat]
  BY DEF Hands
<1>2. CASE h.ante = 0
  <2>1. ASSUME NEW s \in InHand(h)
        PROVE  h.handBy[s] <= 0 + h.streetBy[s] /\ (s \notin h.allin => h.handBy[s] = 0 + h.streetBy[s])
    <3>1. PICK x, y : x = h.handBy[s] /\ y = h.streetBy[s]
      OBVIOUS
    <3>2. s \in occ /\ x \in Nat /\ y \in Nat
      BY <1>1, <2>1, <3>1 DEF InHand
    <3>3. x = y \/ (x <= 0 + y /\ (s \notin h.allin => x = 0 + y))
      BY <1>1, <1>2, <3>1, <3>2 DEF Antes, Anted
    <3> QED
      BY <3>1, <3>2, <3>3
  <2> QED
    BY <2>1 DEF Level, LevelAt
<1>3. CASE h.ante # 0
  <2>1. h.antePosted = h.occ
    BY <1>1, <1>3 DEF Antes, AntesDue
  <2>2. LevelAt(h, h.ante)
    BY <1>1, <2>1 DEF LevelAt, Antes, Anted, InHand
  <2> QED
    BY <1>1, <2>2 DEF Level
<1> QED
  BY <1>2, <1>3

\* The big blind opens a street that is level.
LEMMA PostBBEven ==
    ASSUME NEW occ \in SUBSET (Nat \ {0}), NEW h, NEW o \in [occ -> Nat], Good(occ, h, o),
           Even(h), h.sbPosted, TakesBB(h, h.bbSeat)
    PROVE  Even(PostBB(h, h.bbSeat))
<1> DEFINE s == h.bbSeat
           q == Quiet(h)
           n == Least(h.bb, h.stackBy[s])
           p == Pay(q, s, n)
           g == [p EXCEPT !.betCur = h.bb, !.raiseFull = h.bb, !.phase = "acting"]
<1>1. /\ h \in Hands(occ) /\ h.occ = occ /\ s \in occ /\ h.streetBy \in [occ -> Nat]
      /\ h.bb \in Nat /\ h.sb \in Nat /\ h.stackBy \in [occ -> Nat] /\ Conserved(h, o)
  BY DEF Good, Hands
<1>2. h.phase = "blinds" /\ Level(h)
  BY <1>1, AntesLevel DEF TakesBB, Even
<1>3. q \in Hands(occ) /\ Level(q) /\ q.streetBy = h.streetBy /\ q.occ = occ
        /\ q.stackBy = h.stackBy /\ q.handBy = h.handBy
  <2>1. q \in Hands(occ)
    BY <1>1, QuietKeeps
  <2> QED
    BY <1>1, <1>2, <2>1, QuietEven, LevelSame DEF InHand
<1>4. n \in Nat /\ n <= h.stackBy[s] /\ n <= h.bb
  <2>1. h.bb \in Nat /\ h.stackBy[s] \in Nat
    BY <1>1
  <2> QED
    BY <2>1, LeastOfTwo
<1>5. PostBB(h, s) = AfterAction(g, s)
  BY DEF PostBB
<1> HIDE DEF q, n
<1>6. p \in Hands(occ)
  <2>1. Conserved(q, o)
    BY <1>1, <1>3 DEF Conserved
  <2> QED
    BY <1>1, <1>3, <1>4, <2>1, PayKeeps DEF Paid
<1>7. /\ p.handBy = [q.handBy EXCEPT ![s] = @ + n] /\ p.streetBy = [q.streetBy EXCEPT ![s] = @ + n]
      /\ q.allin \subseteq p.allin /\ p.occ = q.occ /\ p.folded = q.folded
  BY <1>1, <1>3, PayHand
<1>8. Level(p)
  BY <1>1, <1>3, <1>4, <1>7, LevelPays
<1> HIDE DEF p
<1>9. /\ g \in Hands(occ) /\ g.occ = p.occ /\ g.folded = p.folded /\ g.allin = p.allin
      /\ g.handBy = p.handBy /\ g.streetBy = p.streetBy /\ g.betCur = h.bb /\ g.phase = "acting"
  <2> DEFINE e == [p EXCEPT !.betCur = h.bb, !.raiseFull = h.bb]
  <2>1. e \in Hands(occ)
    BY <1>1, <1>6, BetSet, Zenon
  <2>2. g = [e EXCEPT !.phase = "acting"]
    OBVIOUS
  <2>3. /\ e.occ = p.occ /\ e.folded = p.folded /\ e.allin = p.allin
        /\ e.handBy = p.handBy /\ e.streetBy = p.streetBy /\ e.betCur = h.bb
    BY <1>6 DEF Hands
  <2> HIDE DEF e, g
  <2> QED
    BY <2>1, <2>2, <2>3 DEF Hands, Phases
<1> HIDE DEF g
<1>10. Level(g)
  BY <1>8, <1>9, LevelSame DEF InHand
<1>11. Within(g, g.betCur)
  <2>1. BlindsOwed(h)
    BY DEF Good
  <2>2. ASSUME NEW t \in occ
        PROVE  g.streetBy[t] <= h.bb
    <3>1. PICK x, y : x = h.streetBy[t] /\ y = h.streetBy[s]
      OBVIOUS
    <3>2. x \in Nat /\ x <= h.bb /\ y = 0
      BY <1>1, <1>2, <2>1, <3>1 DEF BlindsOwed, Within
    <3>3. g.streetBy[t] = IF t = s THEN x + n ELSE x
      BY <1>1, <1>3, <1>7, <1>9, <3>1
    <3>4. t = s => x = 0
      BY <3>1, <3>2
    <3>5. 0 + n <= h.bb
      BY <1>4
    <3> QED
      BY <3>2, <3>3, <3>4, <3>5
  <2> QED
    BY <1>3, <1>7, <1>9, <2>2 DEF Within
<1>12. Even(AfterAction(g, s))
  BY <1>1, <1>9, <1>10, <1>11, AfterActionEven
<1> QED
  BY <1>5, <1>12 DEF s

\* A street in which the bet is still open.
Open(occ, h, o) == Betting(occ, h, o) /\ Level(h)

\* Saying a word changes no chip.
LEMMA ActedEven ==
    ASSUME NEW occ \in SUBSET (Nat \ {0}), NEW h, NEW o, Open(occ, h, o), NEW s \in occ
    PROVE  Even(AfterAction(Acted(h, s), s))
<1>1. h \in Hands(occ)
  BY DEF Open, Betting
<1>2. /\ Acted(h, s) \in Hands(occ) /\ Acted(h, s).streetBy = h.streetBy
      /\ Acted(h, s).handBy = h.handBy /\ Acted(h, s).occ = h.occ
      /\ Acted(h, s).folded = h.folded /\ Acted(h, s).betCur = h.betCur
      /\ Acted(h, s).phase = h.phase
  BY <1>1, ActedKeeps
<1>3. Acted(h, s).allin = h.allin
  BY <1>1 DEF Acted, Hands
<1>4. Level(Acted(h, s))
  BY <1>2, <1>3, LevelSame DEF InHand, Open
<1>5. Within(Acted(h, s), Acted(h, s).betCur) /\ Acted(h, s).phase = "acting"
  BY <1>2 DEF Open, Betting, Within
<1> QED
  BY <1>2, <1>4, <1>5, AfterActionEven

\* A call, or an all-in for no more than the bet.
LEMMA CallEven ==
    ASSUME NEW occ \in SUBSET (Nat \ {0}), NEW h, NEW o \in [occ -> Nat], Open(occ, h, o),
           NEW s \in occ, NEW n \in Nat, n <= h.stackBy[s], n <= Owe(h, s)
    PROVE  Open(occ, Pay(h, s, n), o)
<1>1. h \in Hands(occ) /\ Level(h)
  BY DEF Open, Betting
<1>2. Betting(occ, Pay(h, s, n), o)
  BY CallBetting DEF Open
<1>3. PICK g : g = Pay(h, s, n)
  OBVIOUS
<1>4. /\ g.handBy = [h.handBy EXCEPT ![s] = @ + n] /\ g.streetBy = [h.streetBy EXCEPT ![s] = @ + n]
      /\ h.allin \subseteq g.allin /\ g.occ = h.occ /\ g.folded = h.folded
  BY <1>1, <1>3, PayHand
<1>5. Level(g)
  BY <1>1, <1>4, LevelPays
<1> QED
  BY <1>2, <1>3, <1>5 DEF Open

\* A bet, a raise, or an all-in above the bet: what it adds counts twice.
LEMMA WagerEven ==
    ASSUME NEW occ \in SUBSET (Nat \ {0}), NEW h, NEW o \in [occ -> Nat], Open(occ, h, o),
           NEW s \in occ, NEW to \in Nat, h.betCur < to, to <= Reach(h, s)
    PROVE  Even(Wager(h, s, to))
<1> DEFINE n == to - h.streetBy[s]
           p == Pay(h, s, n)
           full == to - h.betCur >= h.raiseFull
           more == IF full THEN to - h.betCur ELSE p.raiseFull
           open == IF full THEN {s} ELSE p.acted \cup {s}
           e == [p EXCEPT !.betCur = to, !.raiseFull = more]
           w == [e EXCEPT !.aggressor = s, !.acted = open]
           v == [p EXCEPT !.betCur = to, !.aggressor = s, !.raiseFull = more, !.acted = open]
<1>1. h \in Hands(occ) /\ Conserved(h, o) /\ Level(h) /\ Within(h, h.betCur) /\ h.phase = "acting"
  BY DEF Open, Betting
<1>2. h.streetBy \in [occ -> Nat] /\ h.stackBy \in [occ -> Nat] /\ h.betCur \in Nat
        /\ h.occ = occ /\ h.raiseFull \in Nat
  BY <1>1 DEF Hands
<1>3. n \in Nat /\ n <= h.stackBy[s] /\ h.streetBy[s] + n = to
  <2>1. h.streetBy[s] <= h.betCur
    BY <1>1, <1>2 DEF Within
  <2>2. h.streetBy[s] \in Nat /\ h.stackBy[s] \in Nat
    BY <1>2
  <2> QED
    BY <1>2, <2>1, <2>2 DEF Reach
<1>4. Wager(h, s, to) = AfterAction(v, s)
  BY DEF Wager
<1>5. p \in Hands(occ) /\ SameTable(p, h)
  BY <1>1, <1>3, PayKeeps DEF Paid
<1>6. /\ p.handBy = [h.handBy EXCEPT ![s] = @ + n] /\ p.streetBy = [h.streetBy EXCEPT ![s] = @ + n]
      /\ h.allin \subseteq p.allin /\ p.occ = h.occ /\ p.folded = h.folded
  BY <1>1, PayHand
<1>7. Level(p)
  BY <1>1, <1>3, <1>6, LevelPays
<1> HIDE DEF n, p
<1>8. p.raiseFull \in Nat /\ p.acted \in SUBSET occ
  BY <1>5 DEF Hands
<1>9. more \in Nat /\ open \in SUBSET occ
  BY <1>2, <1>8
<1> HIDE DEF more, open
<1>10. v = w
  BY <1>5 DEF Hands
<1>11. /\ e \in Hands(occ) /\ e.occ = p.occ /\ e.folded = p.folded /\ e.allin = p.allin
       /\ e.handBy = p.handBy /\ e.streetBy = p.streetBy /\ e.phase = p.phase /\ e.betCur = to
  <2>1. e \in Hands(occ)
    BY <1>5, <1>9, BetSet, Zenon
  <2> QED
    BY <1>5, <2>1 DEF Hands
<1> HIDE DEF e, v
<1>12. /\ w \in Hands(occ) /\ w.occ = e.occ /\ w.folded = e.folded /\ w.allin = e.allin
       /\ w.handBy = e.handBy /\ w.streetBy = e.streetBy /\ w.phase = e.phase
       /\ w.betCur = e.betCur
  BY <1>9, <1>11 DEF Hands
<1> HIDE DEF w
<1>13. Level(w)
  BY <1>7, <1>11, <1>12, LevelSame DEF InHand
<1>14. ASSUME NEW t \in occ
       PROVE  w.streetBy[t] <= to
  BY <1>1, <1>2, <1>3, <1>6, <1>11, <1>12 DEF Within
<1>15. Within(w, w.betCur) /\ w.phase = "acting"
  BY <1>1, <1>2, <1>5, <1>11, <1>12, <1>14 DEF Within, SameTable
<1>16. Even(AfterAction(w, s))
  BY <1>12, <1>13, <1>15, AfterActionEven
<1> QED
  BY <1>4, <1>10, <1>16

\* A fold leaves fewer seats to compare.
LEMMA FoldEven ==
    ASSUME NEW occ \in SUBSET (Nat \ {0}), NEW h, NEW o \in [occ -> Nat], Open(occ, h, o),
           NEW s \in occ
    PROVE  Even(FoldSeat(h, s))
<1> DEFINE g == [h EXCEPT !.folded = @ \cup {s}]
           f == Acted(g, s)
           d == [f EXCEPT !.phase = "handdone", !.toAct = 0, !.note = "foldwin"]
<1>1. h \in Hands(occ) /\ Level(h) /\ Within(h, h.betCur) /\ h.phase = "acting"
  BY DEF Open, Betting
<1>2. /\ g \in Hands(occ) /\ g.streetBy = h.streetBy /\ g.handBy = h.handBy /\ g.occ = h.occ
      /\ g.betCur = h.betCur /\ g.phase = h.phase /\ g.allin = h.allin
      /\ g.folded = h.folded \cup {s}
  BY <1>1 DEF Hands
<1> HIDE DEF g
<1>3. /\ f \in Hands(occ) /\ f.streetBy = h.streetBy /\ f.handBy = h.handBy /\ f.occ = h.occ
      /\ f.betCur = h.betCur /\ f.phase = h.phase /\ f.folded = h.folded \cup {s}
  BY <1>2, ActedKeeps
<1>4. f.allin = h.allin
  BY <1>2 DEF Acted, Hands
<1>5. FoldSeat(h, s) = IF Cardinality(InHand(f)) = 1 THEN d ELSE AfterAction(f, s)
  BY DEF FoldSeat, g
<1> HIDE DEF f
<1>6. Level(f) /\ Within(f, f.betCur)
  BY <1>1, <1>3, <1>4, LevelSame DEF InHand, Within
<1>7. Even(AfterAction(f, s))
  BY <1>1, <1>3, <1>6, AfterActionEven
<1>8. Even(d)
  BY <1>3 DEF Even, Hands
<1> QED
  BY <1>5, <1>7, <1>8

\* Any act the engine takes.
LEMMA ActEven ==
    ASSUME NEW occ \in SUBSET (Nat \ {0}), NEW h, NEW o \in [occ -> Nat], Good(occ, h, o), Even(h),
           NEW s \in occ, NEW verb \in Verbs, NEW amt \in Nat, TakesAct(h, s, verb, amt)
    PROVE  Even(Act(h, s, verb, amt))
<1> DEFINE q == Counted(h)
<1>1. h \in Hands(occ) /\ Conserved(h, o) /\ h.phase = "acting" /\ Within(h, h.betCur)
        /\ BlindsOwed(h) /\ TurnOwed(h) /\ h.bb <= h.raiseFull /\ Level(h)
  BY DEF Good, TakesAct, Even
<1>2. q \in Hands(occ) /\ SameTable(q, h)
        /\ q.stackBy = h.stackBy /\ q.streetBy = h.streetBy /\ q.handBy = h.handBy
  BY <1>1, CountedKeeps
<1>3. q.allin = h.allin
  BY <1>1 DEF Counted, Quiet, Hands
<1>4. h.streetBy \in [occ -> Nat] /\ h.stackBy \in [occ -> Nat] /\ h.betCur \in Nat
        /\ h.occ = occ
  BY <1>1 DEF Hands
<1>5. Act(h, s, verb, amt) =
        CASE verb = "fold" -> FoldSeat(q, s)
          [] verb = "check" -> AfterAction(Acted(q, s), s)
          [] verb = "call" -> AfterAction(Acted(Pay(q, s, amt), s), s)
          [] verb = "allin" /\ amt <= h.betCur ->
                AfterAction(Acted(Pay(q, s, h.stackBy[s]), s), s)
          [] OTHER -> Wager(q, s, amt)
  BY DEF Act, Counted
<1> HIDE DEF q
<1>6. Betting(occ, q, o)
  BY <1>1, <1>2 DEF Betting, Conserved, Within, Contested, InHand, SameTable, TurnOwed, BlindsOwed
<1>7. Level(q)
  BY <1>1, <1>2, <1>3, LevelSame DEF InHand, SameTable
<1>8. Open(occ, q, o)
  BY <1>6, <1>7 DEF Open
<1>9. Owe(q, s) = Owe(h, s) /\ Reach(q, s) = Reach(h, s)
  BY <1>2 DEF Owe, Reach, SameTable
<1>10. CASE verb = "fold"
  BY <1>5, <1>8, <1>10, FoldEven
<1>11. CASE verb = "check"
  BY <1>5, <1>8, <1>11, ActedEven
<1>12. CASE verb = "call"
  <2>1. Owe(h, s) > 0 /\ amt = Least(Owe(h, s), h.stackBy[s])
    BY <1>12 DEF TakesAct
  <2>2. Owe(h, s) \in Nat /\ h.stackBy[s] \in Nat
    <3>1. PICK x, y : x = h.betCur /\ y = h.streetBy[s]
      OBVIOUS
    <3>2. x \in Nat /\ y \in Nat /\ h.stackBy[s] \in Nat
      BY <1>4, <3>1
    <3>3. Owe(h, s) = x - y
      BY <3>1 DEF Owe
    <3> QED
      BY <2>1, <3>2, <3>3
  <2>3. amt <= q.stackBy[s] /\ amt <= Owe(q, s)
    BY <1>2, <1>9, <2>1, <2>2, LeastOfTwo
  <2>4. Open(occ, Pay(q, s, amt), o)
    BY <1>8, <2>3, CallEven
  <2> QED
    BY <1>5, <1>12, <2>4, ActedEven
<1>13. CASE verb = "allin" /\ amt <= h.betCur
  <2> DEFINE n == h.stackBy[s]
  <2>1. amt = Reach(h, s)
    BY <1>13 DEF TakesAct
  <2>2. n \in Nat /\ n <= q.stackBy[s] /\ n <= Owe(q, s)
    BY <1>2, <1>4, <1>9, <1>13, <2>1 DEF Owe, Reach
  <2>3. Act(h, s, verb, amt) = AfterAction(Acted(Pay(q, s, n), s), s)
    BY <1>5, <1>13
  <2> HIDE DEF n
  <2>4. Open(occ, Pay(q, s, n), o)
    BY <1>8, <2>2, CallEven
  <2> QED
    BY <2>3, <2>4, ActedEven
<1>14. CASE verb \in {"bet", "raise"} \/ (verb = "allin" /\ ~(amt <= h.betCur))
  <2>1. Opens(h, s, amt)
    BY <1>14 DEF TakesAct
  <2>2. q.betCur < amt /\ amt <= Reach(q, s)
    BY <1>2, <1>4, <1>9, <2>1 DEF Opens, SameTable
  <2>3. Even(Wager(q, s, amt))
    BY <1>8, <2>2, WagerEven
  <2> QED
    BY <1>5, <1>14, <2>3
<1> QED
  BY <1>10, <1>11, <1>12, <1>13, <1>14 DEF Verbs

\* A board that runs out moves no chip.
LEMMA BoardEven ==
    ASSUME NEW occ, NEW h \in Hands(occ), Even(h), h.phase = "runout"
    PROVE  Even(Board(h))
<1> DEFINE g == Board(h)
<1>1. /\ g.occ = h.occ /\ g.folded = h.folded /\ g.allin = h.allin
      /\ g.handBy = h.handBy /\ g.streetBy = h.streetBy /\ g.phase \in {"runout", "showdown"}
  BY DEF Board, Quiet, Hands
<1> HIDE DEF g
<1>2. Level(g)
  BY <1>1, LevelSame DEF Even, InHand
<1>3. Within(g, 0)
  BY <1>1 DEF Even, Within
<1>4. Even(g)
  BY <1>1, <1>2, <1>3 DEF Even
<1> QED
  BY <1>4 DEF g

\* Every message keeps the hand even.
LEMMA EvenStep == EvenInv /\ [Next]_vars => EvenInv'
<1> SUFFICES ASSUME EvenInv, [Next]_vars
             PROVE  EvenInv'
  OBVIOUS
<1>0. HandInv /\ HandInv'
  BY HandInvStep DEF EvenInv
<1> SUFFICES Even(hand')
  BY <1>0 DEF EvenInv
<1>1. PICK occ : occ = hand.occ
  OBVIOUS
<1>2. /\ occ \in SUBSET (Nat \ {0}) /\ opening \in [occ -> Nat] /\ Good(occ, hand, opening)
      /\ Even(hand)
  BY <1>0, <1>1, OccupiedSeats DEF HandInv, EvenInv
<1>3. hand \in Hands(occ)
  BY <1>2 DEF Good
<1>4. ASSUME NEW s \in hand.occ, Ante(s)
      PROVE  Even(hand')
  BY <1>1, <1>2, <1>3, <1>4, PostAnteEven DEF Ante
<1>5. CASE SmallBlind
  BY <1>2, <1>3, <1>5, PostSBEven DEF SmallBlind
<1>6. CASE BigBlind
  BY <1>2, <1>6, PostBBEven DEF BigBlind
<1>7. ASSUME NEW s \in hand.occ, NEW verb \in Verbs, NEW amt \in AmountsOf(s),
             SeatActs(s, verb, amt)
      PROVE  Even(hand')
  <2>1. s \in occ
    BY <1>1
  <2>2. amt \in Nat
    BY <1>3, <2>1 DEF AmountsOf, Reach, Hands
  <2> QED
    BY <1>2, <1>7, <2>1, <2>2, ActEven DEF SeatActs
<1>8. CASE TimesOut
  <2>1. PICK verb : verb = TimeoutVerb(hand, hand.toAct)
    OBVIOUS
  <2>2. verb \in Verbs
    BY <2>1 DEF TimeoutVerb, Verbs
  <2>3. hand.toAct \in occ /\ TakesAct(hand, hand.toAct, verb, 0)
          /\ hand' = Act(hand, hand.toAct, verb, 0)
    BY <1>3, <1>8, <2>1 DEF TimesOut, Hands
  <2> QED
    BY <1>2, <2>2, <2>3, ActEven
<1>9. CASE DealBoard
  BY <1>2, <1>3, <1>9, BoardEven DEF DealBoard
<1>10. CASE UNCHANGED vars
  BY <1>2, <1>10 DEF vars
<1> QED
  BY <1>4, <1>5, <1>6, <1>7, <1>8, <1>9, <1>10 DEF Next, Posts, Acts

\* A hand starts even.
LEMMA EvenInit == Init => EvenInv
<1> SUFFICES ASSUME Init PROVE EvenInv
  OBVIOUS
<1>1. Even(hand)
  BY NewHandEven DEF Init
<1> QED
  BY <1>1, HandInvInit DEF EvenInv

\* What each seat has put in before the open street, what it has put into the
\* street, and who is all-in fit together, through antes and short posts too.
THEOREM HandStaysEven == Spec => []EvenInv
  BY EvenInit, EvenStep, PTL DEF Spec

\* For any table, stacks and stakes, nobody sees a card of the next street, or
\* the others' at the showdown, without having matched the bet or being all-in
\* for less.
THEOREM HandStakesMatched == Spec => []StakesMatched
<1>1. EvenInv => StakesMatched
  <2> SUFFICES ASSUME EvenInv,
                      \/ hand.phase \in {"runout", "showdown"}
                      \/ hand.phase = "acting" /\ hand.betCur = 0,
                      NEW s \in Live(hand), NEW t \in InHand(hand)
               PROVE  /\ t \in Live(hand) => hand.handBy[t] = hand.handBy[s]
                      /\ hand.handBy[t] <= hand.handBy[s]
    BY DEF StakesMatched, Live
  <2>1. PICK occ : occ = hand.occ
    OBVIOUS
  <2>2. Good(occ, hand, opening) /\ Even(hand)
    BY <2>1 DEF EvenInv, HandInv
  <2>3. /\ hand.handBy \in [occ -> Nat] /\ hand.streetBy \in [occ -> Nat]
        /\ Level(hand) /\ Within(hand, 0)
    BY <2>2 DEF Good, Hands, Even
  <2>4. PICK base \in Nat : LevelAt(hand, base)
    BY <2>3 DEF Level
  <2>5. /\ s \in occ /\ t \in occ /\ hand.streetBy[s] = 0 /\ hand.streetBy[t] = 0
    BY <2>1, <2>3 DEF Live, InHand, Within
  <2>6. PICK x, y : x = hand.handBy[s] /\ y = hand.handBy[t]
    OBVIOUS
  <2>7. x \in Nat /\ y \in Nat /\ x = base + 0 /\ y <= base + 0
        /\ (t \in Live(hand) => y = base + 0)
    BY <2>3, <2>4, <2>5, <2>6 DEF LevelAt, Live
  <2> QED
    BY <2>6, <2>7
<1> QED
  BY <1>1, HandStaysEven, PTL

----------------------------------------------------------------------------------
(* The settlement: heSettleOf pays each layer whole, and a layer's slices    *)
(* and shares are sums over the seats.                                       *)

\* What the settlement needs of a hand: finitely many seats, each with what it
\* put in.
Payable(h) ==
    /\ IsFiniteSet(h.occ) /\ h.occ \subseteq Nat
    /\ h.handBy \in [h.occ -> Nat]
    /\ h.buttonSeat \in Nat

\* A finite set of naturals that is not empty has a highest element.
LEMMA HighestIsGreatest ==
    ASSUME NEW S, S \subseteq Nat, IsFiniteSet(S), S # {}
    PROVE  Highest(S) \in S /\ \A t \in S : t <= Highest(S)
<1>1. PICK f : f = [x \in S |-> x]
  OBVIOUS
<1>2. \A x \in S : f[x] \in Nat /\ f[x] = x
  BY <1>1
<1>3. SumFunctionOnSet(f, S) \in Nat /\ \A x \in S : x <= SumFunctionOnSet(f, S)
  BY <1>2, SumNat
<1> DEFINE Bounds == {n \in Nat : \A x \in S : x <= n}
<1>4. PICK m \in Bounds : \A n \in Bounds : m <= n
  BY <1>3, LeastNatural
<1>5. m \in S
  <2>1. SUFFICES ASSUME m \notin S PROVE FALSE
    OBVIOUS
  <2>2. PICK x \in S : TRUE
    OBVIOUS
  <2>3. x <= m /\ x # m /\ x \in Nat /\ m \in Nat
    BY <1>4, <2>1
  <2>4. m - 1 \in Nat
    BY <2>3
  <2>5. \A y \in S : y <= m - 1
    BY <1>4, <2>1
  <2> QED
    BY <1>4, <2>4, <2>5
<1>6. \E s \in S : \A t \in S : t <= s
  BY <1>4, <1>5
<1> QED
  BY <1>6 DEF Highest

\* The levels are finitely many, and every commitment is one or nothing.
LEMMA LevelsFinite ==
    ASSUME NEW h, Payable(h)
    PROVE  /\ IsFiniteSet(Levels(h)) /\ Levels(h) \subseteq Nat \ {0}
           /\ \A s \in h.occ : h.handBy[s] = 0 \/ h.handBy[s] \in Levels(h)
<1>1. PICK R : R = {h.handBy[s] : s \in h.occ}
  OBVIOUS
<1>2. h.handBy \in Surjection(h.occ, R)
  BY <1>1 DEF Payable, Surjection
<1>3. IsFiniteSet(R)
  BY <1>2, FS_Surjection DEF Payable
<1>4. R \subseteq Nat /\ \A s \in h.occ : h.handBy[s] \in R
  BY <1>1 DEF Payable
<1>5. Levels(h) = R \ {0}
  BY <1>1 DEF Levels
<1>6. IsFiniteSet(R \ {0})
  BY <1>3, FS_RemoveElement
<1> QED
  BY <1>4, <1>5, <1>6

\* The level below one is the last level before it.
LEMMA BelowIsNext ==
    ASSUME NEW h, Payable(h), NEW level \in Levels(h)
    PROVE  /\ LevelBelow(h, level) \in Nat /\ LevelBelow(h, level) < level
           /\ \A l \in Levels(h) : l < level => l <= LevelBelow(h, level)
<1>1. PICK lower : lower = {l \in Levels(h) : l < level}
  OBVIOUS
<1>2. lower \in SUBSET Levels(h) /\ lower \subseteq Nat /\ IsFiniteSet(lower) /\ level \in Nat \ {0}
  BY <1>1, LevelsFinite, FS_Subset
<1>3. LevelBelow(h, level) = IF lower = {} THEN 0 ELSE Highest(lower)
  BY <1>1 DEF LevelBelow
<1>4. lower # {} => Highest(lower) \in lower /\ \A t \in lower : t <= Highest(lower)
  BY <1>2, HighestIsGreatest
<1> QED
  BY <1>1, <1>2, <1>3, <1>4

\* A seat puts a slice into every layer, an empty one into those it does not reach.
LEMMA ContribType ==
    ASSUME NEW h, Payable(h), NEW level \in Levels(h), NEW s \in h.occ
    PROVE  /\ Contrib(h, level, s) \in Nat
           /\ h.handBy[s] < level => Contrib(h, level, s) = 0
<1>1. /\ level \in Nat \ {0} /\ h.handBy[s] \in Nat
      /\ h.handBy[s] = 0 \/ h.handBy[s] \in Levels(h)
  BY LevelsFinite DEF Payable
<1>2. PICK b \in Nat : b = LevelBelow(h, level)
  BY BelowIsNext
<1>3. h.handBy[s] < level => h.handBy[s] <= b
  BY <1>1, <1>2, BelowIsNext
<1>4. PICK c : c = Least(h.handBy[s], level) - b
  OBVIOUS
<1>5. c \in Int /\ (h.handBy[s] < level => c <= 0)
  BY <1>1, <1>2, <1>3, <1>4 DEF Least
<1>6. Contrib(h, level, s) = IF c > 0 THEN c ELSE 0
  BY <1>2, <1>4 DEF Contrib
<1> QED
  BY <1>5, <1>6

\* The levels up to x, and the last of them.
UpTo(h, x) == {l \in Levels(h) : l <= x}
Top(h, x) == IF UpTo(h, x) = {} THEN 0 ELSE Highest(UpTo(h, x))

LEMMA TopIsLast ==
    ASSUME NEW h, Payable(h), NEW x \in Nat
    PROVE  /\ IsFiniteSet(UpTo(h, x)) /\ UpTo(h, x) \subseteq Nat
           /\ Top(h, x) \in Nat /\ Top(h, x) <= x
           /\ \A l \in UpTo(h, x) : l <= Top(h, x)
           /\ x \in Levels(h) => Top(h, x) = x
<1>1. PICK U : U = UpTo(h, x)
  OBVIOUS
<1>2. U \in SUBSET Levels(h) /\ U \subseteq Nat /\ \A l \in U : l <= x
  BY <1>1, LevelsFinite DEF UpTo
<1>3. IsFiniteSet(U)
  BY <1>2, LevelsFinite, FS_Subset
<1>4. U # {} => Highest(U) \in U /\ \A t \in U : t <= Highest(U)
  BY <1>2, <1>3, HighestIsGreatest
<1>5. Top(h, x) = IF U = {} THEN 0 ELSE Highest(U)
  BY <1>1 DEF Top
<1>6. x \in Levels(h) => x \in U
  BY <1>1 DEF UpTo
<1> QED
  BY <1>1, <1>2, <1>3, <1>4, <1>5, <1>6

\* The next level: it joins those before it, and the last of them is below it.
LEMMA NextLevel ==
    ASSUME NEW h, Payable(h), NEW x \in Nat
    PROVE  /\ x + 1 \notin Levels(h) => UpTo(h, x + 1) = UpTo(h, x)
           /\ x + 1 \in Levels(h) => /\ UpTo(h, x + 1) = UpTo(h, x) \cup {x + 1}
                                     /\ LevelBelow(h, x + 1) = Top(h, x)
<1>1. Levels(h) \subseteq Nat
  BY LevelsFinite
<1>2. {l \in Levels(h) : l < x + 1} = {l \in Levels(h) : l <= x}
  BY <1>1
<1>3. ASSUME x + 1 \notin Levels(h) PROVE UpTo(h, x + 1) = UpTo(h, x)
  BY <1>1, <1>3 DEF UpTo
<1>4. ASSUME x + 1 \in Levels(h) PROVE UpTo(h, x + 1) = UpTo(h, x) \cup {x + 1}
  BY <1>1, <1>4 DEF UpTo
<1>5. LevelBelow(h, x + 1) = Top(h, x)
  BY <1>2 DEF LevelBelow, Top, UpTo
<1> QED
  BY <1>3, <1>4, <1>5

\* The slices a seat puts into the layers up to x are worth what it put in, as
\* far as the last level up to x: by induction on x.
LEMMA ContribsUpTo ==
    ASSUME NEW h, Payable(h), NEW t \in h.occ,
           NEW f, \A l \in Levels(h) : f[l] = Contrib(h, l, t)
    PROVE  \A x \in Nat : SumFunctionOnSet(f, UpTo(h, x)) = Least(h.handBy[t], Top(h, x))
<1> DEFINE T == {x \in Nat : SumFunctionOnSet(f, UpTo(h, x)) = Least(h.handBy[t], Top(h, x))}
<1>1. PICK b \in Nat : b = h.handBy[t]
  BY DEF Payable
<1>2. 0 \in T
  <2>1. UpTo(h, 0) = {}
    BY LevelsFinite DEF UpTo
  <2>2. Top(h, 0) = 0
    BY <2>1 DEF Top
  <2>3. Least(b, 0) = 0
    BY <1>1 DEF Least
  <2> QED
    BY <1>1, <2>1, <2>2, <2>3, SumOfNone
<1>3. ASSUME NEW x \in Nat, x \in T PROVE x + 1 \in T
  <2>1. CASE x + 1 \notin Levels(h)
    <3>1. UpTo(h, x + 1) = UpTo(h, x)
      BY <2>1, NextLevel
    <3>2. Top(h, x + 1) = Top(h, x)
      BY <3>1 DEF Top
    <3> QED
      BY <1>3, <3>1, <3>2
  <2>2. CASE x + 1 \in Levels(h)
    <3>1. PICK m \in Nat : m = Top(h, x)
      BY TopIsLast
    <3>2. UpTo(h, x + 1) = UpTo(h, x) \cup {x + 1} /\ LevelBelow(h, x + 1) = m
      BY <2>2, <3>1, NextLevel
    <3>3. Top(h, x + 1) = x + 1 /\ m <= x
      BY <2>2, <3>1, TopIsLast
    <3>4. b > m => b >= x + 1
      <4>1. b = 0 \/ b \in Levels(h)
        BY <1>1, LevelsFinite
      <4>2. b \in Levels(h) /\ b <= x => b \in UpTo(h, x)
        BY DEF UpTo
      <4>3. \A l \in UpTo(h, x) : l <= m
        BY <3>1, TopIsLast
      <4> QED
        BY <1>1, <3>1, <4>1, <4>2, <4>3
    <3>5. f[x + 1] = Least(b, x + 1) - Least(b, m) /\ f[x + 1] \in Int
      <4>1. f[x + 1] = IF Least(b, x + 1) - m > 0 THEN Least(b, x + 1) - m ELSE 0
        BY <1>1, <2>2, <3>2 DEF Contrib
      <4> QED
        BY <1>1, <3>1, <3>3, <3>4, <4>1 DEF Least
    <3>6. SumFunctionOnSet(f, UpTo(h, x) \cup {x + 1}) = f[x + 1] + SumFunctionOnSet(f, UpTo(h, x))
      <4>1. IsFiniteSet(UpTo(h, x)) /\ x + 1 \notin UpTo(h, x)
        BY TopIsLast DEF UpTo
      <4>2. \A l \in UpTo(h, x) \cup {x + 1} : f[l] \in Int
        BY <2>2, ContribType DEF UpTo
      <4> QED
        BY <4>1, <4>2, SumAdd
    <3>7. SumFunctionOnSet(f, UpTo(h, x)) = Least(b, m)
      BY <1>1, <1>3, <3>1
    <3>8. Least(b, m) \in Int /\ Least(b, x + 1) \in Int
      BY <1>1, <3>1 DEF Least
    <3>9. f[x + 1] + SumFunctionOnSet(f, UpTo(h, x)) = Least(b, x + 1)
      <4>1. PICK c, d : c = Least(b, x + 1) /\ d = Least(b, m)
        OBVIOUS
      <4>2. c \in Int /\ d \in Int /\ (c - d) + d = c
        BY <3>8, <4>1
      <4> QED
        BY <3>5, <3>7, <4>1, <4>2
    <3>10. SumFunctionOnSet(f, UpTo(h, x + 1)) = Least(b, x + 1)
      BY <3>2, <3>6, <3>9
    <3> QED
      BY <1>1, <3>3, <3>10
  <2> QED
    BY <2>1, <2>2
<1>4. Nat \subseteq T
  <2> HIDE DEF T
  <2> QED
    BY <1>2, <1>3, NaturalInduction
<1> QED
  BY <1>4

\* Into the layers another seat reaches a seat puts what it matches of that
\* seat's commitment; into all layers, all it put in.
LEMMA ContribsSum ==
    ASSUME NEW h, Payable(h), NEW t \in h.occ,
           NEW f, \A l \in Levels(h) : f[l] = Contrib(h, l, t)
    PROVE  /\ \A s \in h.occ : SumFunctionOnSet(f, UpTo(h, h.handBy[s])) = Least(h.handBy[t], h.handBy[s])
           /\ SumFunctionOnSet(f, Levels(h)) = h.handBy[t]
<1>1. ASSUME NEW s \in h.occ
      PROVE  SumFunctionOnSet(f, UpTo(h, h.handBy[s])) = Least(h.handBy[t], h.handBy[s])
  <2>1. PICK x \in Nat : x = h.handBy[s]
    BY DEF Payable
  <2>2. Top(h, x) = x
    BY <2>1, LevelsFinite, TopIsLast
  <2>3. SumFunctionOnSet(f, UpTo(h, x)) = Least(h.handBy[t], Top(h, x))
    BY <2>1, ContribsUpTo
  <2> QED
    BY <2>1, <2>2, <2>3
<1>2. PICK U : U = UpTo(h, h.handBy[t])
  OBVIOUS
<1>3. U \in SUBSET Levels(h) /\ \A l \in Levels(h) \ U : h.handBy[t] < l
  BY <1>2, LevelsFinite DEF UpTo, Payable
<1>4. \A l \in Levels(h) : f[l] \in Int
  BY ContribType
<1>5. \A l \in Levels(h) \ U : f[l] = 0
  BY <1>3, ContribType
<1>6. SumFunctionOnSet(f, Levels(h)) = SumFunctionOnSet(f, U)
  BY <1>3, <1>4, <1>5, LevelsFinite, SumWhere
<1>7. Least(h.handBy[t], h.handBy[t]) = h.handBy[t]
  BY DEF Least, Payable
<1> QED
  BY <1>1, <1>2, <1>6, <1>7

\* A layer's pot is the sum of what the seats put into it.
LEMMA LayerPotSum ==
    ASSUME NEW h, Payable(h), NEW level \in Levels(h),
           NEW f, \A s \in h.occ : f[s] = Contrib(h, level, s)
    PROVE  /\ LayerPot(h, level) = SumFunctionOnSet(f, h.occ)
           /\ LayerPot(h, level) \in Nat
           /\ \A s \in h.occ : Contrib(h, level, s) <= LayerPot(h, level)
<1>1. PICK g : g = [s \in h.occ |-> Contrib(h, level, s)]
  OBVIOUS
<1>2. LayerPot(h, level) = SumFunctionOnSet(g, h.occ)
  <2>1. DOMAIN g = h.occ
    BY <1>1
  <2>2. LayerPot(h, level) = SumFunction(g)
    BY <1>1 DEF LayerPot, SumOver
  <2> QED
    BY <2>1, <2>2 DEF SumFunction
<1>3. \A s \in h.occ : g[s] = f[s] /\ g[s] = Contrib(h, level, s) /\ g[s] \in Nat
  BY <1>1, ContribType
<1>4. IsFiniteSet(h.occ)
  BY DEF Payable
<1>5. SumFunctionOnSet(g, h.occ) = SumFunctionOnSet(f, h.occ)
  BY <1>3, <1>4, SumAgrees
<1>6. SumFunctionOnSet(g, h.occ) \in Nat /\ \A s \in h.occ : g[s] <= SumFunctionOnSet(g, h.occ)
  BY <1>3, <1>4, SumNat
<1> QED
  BY <1>2, <1>3, <1>5, <1>6

\* Clockwise from the button the seats are in a strict order.
LEMMA ClockwiseIsOrder ==
    ASSUME NEW b \in Nat, NEW S, S \subseteq Nat
    PROVE  /\ \A s \in S : ~Clockwise(b, s, s)
           /\ \A s, t \in S : s = t \/ Clockwise(b, s, t) \/ Clockwise(b, t, s)
           /\ \A s, t, u \in S : Clockwise(b, s, t) /\ Clockwise(b, t, u) => Clockwise(b, s, u)
<1>1. ASSUME NEW s \in S PROVE s \in Nat
  OBVIOUS
<1>2. ASSUME NEW s \in S PROVE ~Clockwise(b, s, s)
  BY <1>1 DEF Clockwise
<1>3. ASSUME NEW s \in S, NEW t \in S PROVE s = t \/ Clockwise(b, s, t) \/ Clockwise(b, t, s)
  BY <1>1 DEF Clockwise
<1>4. ASSUME NEW s \in S, NEW t \in S, NEW u \in S, Clockwise(b, s, t), Clockwise(b, t, u)
      PROVE  Clockwise(b, s, u)
  BY <1>1, <1>4 DEF Clockwise
<1> QED
  BY <1>2, <1>3, <1>4

\* The place of a winner: how many of the winners come before it.
Place(b, W, s) == Cardinality({t \in W : Clockwise(b, t, s)})

\* The places of the winners, counted clockwise, are 0, 1, 2 and so on, each
\* of one winner.
LEMMA PlacesAreDistinct ==
    ASSUME NEW b \in Nat, NEW W, W \subseteq Nat, IsFiniteSet(W), NEW k \in Nat, k = Cardinality(W),
           NEW place, place = [s \in W |-> Place(b, W, s)]
    PROVE  place \in Bijection(W, 0 .. k - 1)
<1> DEFINE Ahead(s) == {t \in W : Clockwise(b, t, s)}
<1>1. ASSUME NEW s \in W
      PROVE  /\ Ahead(s) \in SUBSET W /\ IsFiniteSet(Ahead(s)) /\ Cardinality(Ahead(s)) \in Nat
             /\ s \notin Ahead(s)
             /\ place[s] = Cardinality(Ahead(s))
  <2>1. Ahead(s) \in SUBSET W
    OBVIOUS
  <2>2. s \notin Ahead(s)
    BY ClockwiseIsOrder
  <2>3. IsFiniteSet(Ahead(s)) /\ Cardinality(Ahead(s)) \in Nat
    <3> HIDE DEF Ahead
    <3> QED
      BY <2>1, FS_Subset, FS_CardinalityType
  <2>4. place[s] = Cardinality(Ahead(s))
    BY DEF Place
  <2> QED
    BY <2>1, <2>2, <2>3, <2>4
<1>2. ASSUME NEW s \in W, NEW A \in SUBSET W, s \notin A
      PROVE  Cardinality(A) \in Nat /\ Cardinality(A) < Cardinality(W)
  <2>1. PICK R : R = W \ {s}
    OBVIOUS
  <2>2. IsFiniteSet(R) /\ Cardinality(R) = k - 1 /\ A \in SUBSET R
    BY <1>2, <2>1, FS_RemoveElement
  <2>3. IsFiniteSet(A) /\ Cardinality(A) <= Cardinality(R)
    BY <2>2, FS_Subset
  <2>4. Cardinality(A) \in Nat
    BY <2>3, FS_CardinalityType
  <2> QED
    BY <2>2, <2>3, <2>4
<1>3. place \in [W -> 0 .. k - 1]
  <2>1. ASSUME NEW s \in W PROVE place[s] \in 0 .. k - 1
    <3> HIDE DEF Ahead
    <3>1. place[s] \in Nat /\ place[s] < k
      BY <1>1, <1>2
    <3> QED
      BY <3>1
  <2> QED
    BY <2>1
<1>4. ASSUME NEW s \in W, NEW t \in W, Clockwise(b, s, t) PROVE place[s] < place[t]
  <2>1. Ahead(s) \in SUBSET Ahead(t) /\ s \in Ahead(t) /\ s \notin Ahead(s)
    <3>1. ASSUME NEW u \in W, Clockwise(b, u, s) PROVE Clockwise(b, u, t)
      BY <1>4, <3>1, ClockwiseIsOrder
    <3> QED
      BY <1>1, <1>4, <3>1
  <2> HIDE DEF Ahead
  <2>2. PICK R : R = Ahead(t) \ {s}
    OBVIOUS
  <2>3. IsFiniteSet(R) /\ Cardinality(R) = Cardinality(Ahead(t)) - 1 /\ Ahead(s) \in SUBSET R
    BY <1>1, <2>1, <2>2, FS_RemoveElement
  <2>4. Cardinality(Ahead(s)) <= Cardinality(R)
    BY <2>3, FS_Subset
  <2> QED
    BY <1>1, <2>3, <2>4
<1>5. ASSUME NEW s \in W, NEW t \in W, place[s] = place[t] PROVE s = t
  <2>1. place[s] \in Nat /\ place[t] \in Nat
    BY <1>1
  <2>2. s = t \/ Clockwise(b, s, t) \/ Clockwise(b, t, s)
    BY ClockwiseIsOrder
  <2>3. ~Clockwise(b, s, t)
    BY <1>4, <1>5, <2>1
  <2>4. ~Clockwise(b, t, s)
    BY <1>4, <1>5, <2>1
  <2> QED
    BY <2>2, <2>3, <2>4
<1>6. place \in Injection(W, 0 .. k - 1)
  BY <1>3, <1>5 DEF Injection, IsInjective
<1>7. IsFiniteSet(0 .. k - 1) /\ Cardinality(0 .. k - 1) = k
  <2>1. PICK m \in Int : m = k - 1
    OBVIOUS
  <2>2. PICK z \in Int : z = 0
    OBVIOUS
  <2>3. IsFiniteSet(z .. m) /\ Cardinality(z .. m) = IF z > m THEN 0 ELSE m - z + 1
    BY FS_Interval
  <2> QED
    BY <2>1, <2>2, <2>3
<1>8. place \in Surjection(W, 0 .. k - 1)
  BY <1>6, <1>7, FS_Injection
<1> QED
  BY <1>6, <1>8 DEF Bijection

\* Of elements numbered 0, 1, 2 and so on, r have a number below r.
LEMMA FirstPlaces ==
    ASSUME NEW W, IsFiniteSet(W), NEW k \in Nat, NEW e \in Bijection(W, 0 .. k - 1),
           NEW r \in Nat, r <= k, NEW f, \A s \in W : f[s] = IF e[s] < r THEN 1 ELSE 0
    PROVE  SumFunctionOnSet(f, W) = r
<1>1. PICK S : S = 0 .. k - 1
  OBVIOUS
<1>2. /\ e \in [W -> S] /\ \A s, t \in W : e[s] = e[t] => s = t
      /\ \A i \in S : \E s \in W : i = e[s]
  BY <1>1 DEF Bijection, Injection, Surjection, IsInjective
<1>3. PICK g : g = [i \in S |-> IF i < r THEN 1 ELSE 0]
  OBVIOUS
<1>4. \A s \in W : f[s] = g[e[s]] /\ f[s] \in Int
  BY <1>2, <1>3
<1>5. SumFunctionOnSet(f, W) = SumFunctionOnSet(g, S)
  BY <1>2, <1>4, SumReindexed
<1>6. PICK A : A = 0 .. r - 1
  OBVIOUS
<1>7. IsFiniteSet(S) /\ IsFiniteSet(A) /\ Cardinality(A) = r
  BY <1>1, <1>6, FS_Interval
<1>8. A \in SUBSET S /\ \A i \in S : g[i] \in Int /\ (i \in A => g[i] = 1) /\ (i \notin A => g[i] = 0)
  BY <1>1, <1>3, <1>6
<1>9. SumFunctionOnSet(g, S) = SumFunctionOnSet(g, A)
  BY <1>7, <1>8, SumWhere
<1>10. SumFunctionOnSet(g, A) = Cardinality(A) * 1
  BY <1>7, <1>8, SumConstant
<1> QED
  BY <1>5, <1>7, <1>9, <1>10

\* The odd chips go to as many winners as there are odd chips.
LEMMA OddChips ==
    ASSUME NEW b \in Nat, NEW W, W \subseteq Nat, IsFiniteSet(W), NEW r \in Nat, r <= Cardinality(W),
           NEW f, \A s \in W : f[s] = IF Place(b, W, s) < r THEN 1 ELSE 0
    PROVE  SumFunctionOnSet(f, W) = r
<1>1. PICK k \in Nat : k = Cardinality(W)
  BY FS_CardinalityType
<1>2. PICK place : place = [s \in W |-> Place(b, W, s)]
  OBVIOUS
<1>3. place \in Bijection(W, 0 .. k - 1)
  BY <1>1, <1>2, PlacesAreDistinct
<1>4. \A s \in W : f[s] = IF place[s] < r THEN 1 ELSE 0
  BY <1>2
<1> QED
  BY <1>1, <1>3, <1>4, FirstPlaces

LEMMA Division ==
    ASSUME NEW n \in Nat, NEW k \in Nat \ {0}
    PROVE  n \div k \in Nat /\ n % k \in 0 .. k - 1 /\ n = k * (n \div k) + (n % k)
  OBVIOUS

\* What a winner gets of a pot.
Share(b, W, pot, s) ==
    (pot \div Cardinality(W)) + (IF Place(b, W, s) < pot % Cardinality(W) THEN 1 ELSE 0)

\* Shared by the winners, the odd chips going round, a pot is paid out whole.
LEMMA SharesAddUp ==
    ASSUME NEW b \in Nat, NEW W, W \subseteq Nat, IsFiniteSet(W), W # {}, NEW pot \in Nat,
           NEW f, \A s \in W : f[s] = Share(b, W, pot, s)
    PROVE  SumFunctionOnSet(f, W) = pot /\ \A s \in W : f[s] \in Nat /\ f[s] <= pot
<1>1. PICK k \in Nat \ {0} : k = Cardinality(W)
  BY FS_CardinalityType, FS_EmptySet
<1>2. PICK q, r : q = pot \div k /\ r = pot % k
  OBVIOUS
<1>3. q \in Nat /\ r \in 0 .. k - 1 /\ pot = k * q + r
  BY <1>2, Division
<1>4. PICK g, o : /\ g = [s \in W |-> q]
                  /\ o = [s \in W |-> IF Place(b, W, s) < r THEN 1 ELSE 0]
  OBVIOUS
<1>5. \A s \in W : o[s] = IF Place(b, W, s) < r THEN 1 ELSE 0
  BY <1>4
<1>6. \A s \in W : g[s] = q
  BY <1>4
<1>7. \A s \in W : g[s] \in Int /\ o[s] \in Int /\ f[s] = g[s] + o[s] /\ f[s] \in Nat
  <2>1. ASSUME NEW s \in W
        PROVE  g[s] \in Int /\ o[s] \in Int /\ f[s] = g[s] + o[s] /\ f[s] \in Nat
    <3>1. f[s] = q + (IF Place(b, W, s) < r THEN 1 ELSE 0)
      BY <1>1, <1>2 DEF Share
    <3>2. o[s] \in {0, 1} /\ f[s] = q + o[s]
      BY <1>5, <3>1
    <3> QED
      BY <1>3, <1>6, <3>2
  <2> QED
    BY <2>1
<1>8. SumFunctionOnSet(g, W) = k * q
  <2>1. q \in Int
    BY <1>3
  <2>2. SumFunctionOnSet(g, W) = Cardinality(W) * q
    BY <1>6, <2>1, SumConstant
  <2> QED
    BY <1>1, <2>2
<1>9. SumFunctionOnSet(o, W) = r
  <2>1. r \in Nat /\ r <= Cardinality(W)
    BY <1>1, <1>3
  <2> QED
    BY <1>5, <2>1, OddChips
<1>10. SumFunctionOnSet(f, W) = SumFunctionOnSet(g, W) + SumFunctionOnSet(o, W)
  BY <1>7, SumPlus
<1>11. SumFunctionOnSet(f, W) = pot
  BY <1>3, <1>8, <1>9, <1>10
<1>12. \A s \in W : f[s] <= SumFunctionOnSet(f, W)
  BY <1>7, SumNat
<1> QED
  BY <1>7, <1>11, <1>12

\* The winners of a layer somebody left in the hand covers.
LEMMA WinnersWin ==
    ASSUME NEW h, Payable(h), NEW level \in Levels(h), NEW ranks \in [h.occ -> Nat],
           Eligible(h, level) # {}
    PROVE  LET W == Winners(h, level, ranks)
           IN  W # {} /\ W \in SUBSET Eligible(h, level) /\ W \in SUBSET h.occ /\ W \subseteq Nat /\ IsFiniteSet(W)
<1>1. PICK E : E = Eligible(h, level)
  OBVIOUS
<1>2. E \in SUBSET h.occ /\ E # {}
  BY <1>1 DEF Eligible, InHand
<1>3. IsFiniteSet(E)
  BY <1>2, FS_Subset DEF Payable
<1>4. PICK W : W = Winners(h, level, ranks)
  OBVIOUS
<1>5. W = IF Cardinality(E) = 1 THEN E ELSE {s \in E : \A t \in E : ranks[t] <= ranks[s]}
  BY <1>1, <1>4 DEF Winners
<1>6. PICK R : R = {ranks[t] : t \in E}
  OBVIOUS
<1>7. PICK f : f = [t \in E |-> ranks[t]]
  OBVIOUS
<1>8. f \in Surjection(E, R)
  BY <1>6, <1>7 DEF Surjection
<1>9. IsFiniteSet(R) /\ R \subseteq Nat /\ R # {}
  BY <1>2, <1>3, <1>6, <1>8, FS_Surjection
<1>10. PICK m \in R : \A n \in R : n <= m
  BY <1>9, HighestIsGreatest
<1>11. PICK s \in E : m = ranks[s]
  BY <1>6, <1>10
<1>12. \A t \in E : ranks[t] <= ranks[s]
  BY <1>6, <1>10, <1>11
<1>13. W # {} /\ W \in SUBSET E
  BY <1>2, <1>5, <1>12
<1>14. IsFiniteSet(W)
  BY <1>3, <1>13, FS_Subset
<1>15. W \subseteq Nat /\ W \in SUBSET h.occ
  BY <1>2, <1>13 DEF Payable
<1> QED
  BY <1>1, <1>4, <1>13, <1>14, <1>15

\* A winner gets its share.
LEMMA PotShareIs ==
    ASSUME NEW h, NEW level, NEW ranks, NEW s
    PROVE  PotShare(h, level, ranks, s) = Share(h.buttonSeat, Winners(h, level, ranks), LayerPot(h, level), s)
BY DEF PotShare, Share, Place

\* A layer is paid out whole; nobody gets more than the layer, and those who do
\* not reach it get nothing of it.
LEMMA LayerIsPaid ==
    ASSUME NEW h, Payable(h), NEW level \in Levels(h), NEW ranks \in [h.occ -> Nat],
           NEW f, \A s \in h.occ : f[s] = Gain(h, level, ranks, s)
    PROVE  /\ SumFunctionOnSet(f, h.occ) = LayerPot(h, level)
           /\ \A s \in h.occ : /\ f[s] \in Nat /\ f[s] <= LayerPot(h, level)
                               /\ h.handBy[s] < level => f[s] = 0
<1>0. IsFiniteSet(h.occ)
  BY DEF Payable
<1>1. PICK pot : pot = LayerPot(h, level)
  OBVIOUS
<1>2. CASE Eligible(h, level) = {}
  <2>1. \A s \in h.occ : f[s] = Contrib(h, level, s)
    BY <1>2 DEF Gain
  <2>2. SumFunctionOnSet(f, h.occ) = LayerPot(h, level)
    BY <2>1, LayerPotSum
  <2>3. \A s \in h.occ : f[s] <= LayerPot(h, level)
    BY <2>1, LayerPotSum
  <2> QED
    BY <2>1, <2>2, <2>3, ContribType
<1>3. CASE Eligible(h, level) # {}
  <2>1. PICK W : W = Winners(h, level, ranks)
    OBVIOUS
  <2>2. W # {} /\ W \in SUBSET Eligible(h, level) /\ W \in SUBSET h.occ /\ W \subseteq Nat /\ IsFiniteSet(W)
    BY <1>3, <2>1, WinnersWin
  <2>3. pot \in Nat
    <3>1. PICK g : g = [s \in h.occ |-> Contrib(h, level, s)]
      OBVIOUS
    <3>2. \A s \in h.occ : g[s] = Contrib(h, level, s)
      BY <3>1
    <3> QED
      BY <1>1, <3>2, LayerPotSum
  <2>4. PICK b \in Nat : b = h.buttonSeat
    BY DEF Payable
  <2>5. \A s \in W : f[s] = Share(b, W, pot, s)
    BY <1>1, <1>3, <2>1, <2>2, <2>4, PotShareIs DEF Gain
  <2>6. SumFunctionOnSet(f, W) = pot /\ \A s \in W : f[s] \in Nat /\ f[s] <= pot
    BY <2>2, <2>3, <2>5, SharesAddUp
  <2>7. \A s \in h.occ \ W : f[s] = 0
    BY <1>3, <2>1 DEF Gain
  <2>8. \A s \in h.occ : f[s] \in Int
    BY <2>6, <2>7
  <2>9. SumFunctionOnSet(f, h.occ) = pot
    BY <1>0, <2>2, <2>6, <2>7, <2>8, SumWhere
  <2>10. ASSUME NEW s \in h.occ, h.handBy[s] < level PROVE f[s] = 0
    <3>1. s \notin Eligible(h, level)
      <4>1. h.handBy[s] \in Nat /\ level \in Nat
        BY LevelsFinite DEF Payable
      <4> QED
        BY <2>10, <4>1 DEF Eligible
    <3> QED
      BY <2>2, <2>7, <3>1
  <2>11. \A s \in h.occ : f[s] \in Nat /\ f[s] <= pot
    BY <2>3, <2>6, <2>7
  <2> QED
    BY <1>1, <2>9, <2>10, <2>11
<1> QED
  BY <1>2, <1>3

\* A seat that alone has the best hand takes every layer it reaches.
LEMMA BestTakesLayer ==
    ASSUME NEW h, Payable(h), NEW level \in Levels(h), NEW ranks \in [h.occ -> Nat],
           NEW s \in InHand(h), \A t \in InHand(h) \ {s} : ranks[t] < ranks[s],
           level <= h.handBy[s]
    PROVE  Gain(h, level, ranks, s) = LayerPot(h, level)
<1>1. PICK E : E = Eligible(h, level)
  OBVIOUS
<1>2. s \in h.occ /\ s \in E /\ E \subseteq InHand(h) /\ E \subseteq h.occ
  <2>1. h.handBy[s] \in Nat /\ level \in Nat
    BY LevelsFinite DEF Payable, InHand
  <2> QED
    BY <1>1, <2>1 DEF Eligible, InHand
<1>3. PICK W : W = Winners(h, level, ranks)
  OBVIOUS
<1>4. W = {s}
  <2>1. W = IF Cardinality(E) = 1 THEN E ELSE {u \in E : \A t \in E : ranks[t] <= ranks[u]}
    BY <1>1, <1>3 DEF Winners
  <2>2. CASE Cardinality(E) = 1
    <3>1. IsFiniteSet(E)
      BY <1>2, FS_Subset DEF Payable
    <3>2. PICK x : E = {x}
      BY <2>2, <3>1, FS_Singleton
    <3> QED
      BY <1>2, <2>1, <2>2, <3>2
  <2>3. CASE Cardinality(E) # 1
    <3>1. \A t \in E : ranks[t] \in Nat
      BY <1>2
    <3>2. s \in W
      BY <1>2, <2>1, <2>3, <3>1
    <3>3. ASSUME NEW u \in W PROVE u = s
      <4>1. u \in E /\ ranks[s] <= ranks[u]
        BY <1>2, <2>1, <2>3
      <4>2. u # s => ranks[u] < ranks[s]
        BY <1>2, <4>1
      <4> QED
        BY <1>2, <3>1, <4>1, <4>2
    <3> QED
      BY <3>2, <3>3
  <2> QED
    BY <2>2, <2>3
<1>5. PICK f : f = [t \in h.occ |-> Gain(h, level, ranks, t)]
  OBVIOUS
<1>6. \A t \in h.occ : f[t] = Gain(h, level, ranks, t)
  BY <1>5
<1>7. SumFunctionOnSet(f, h.occ) = LayerPot(h, level) /\ \A t \in h.occ : f[t] \in Int
  BY <1>6, LayerIsPaid
<1>8. \A t \in h.occ \ {s} : f[t] = 0
  BY <1>1, <1>2, <1>3, <1>4, <1>6 DEF Gain
<1>9. {s} \in SUBSET h.occ /\ IsFiniteSet(h.occ) /\ IsFiniteSet({s})
  BY <1>2, FS_Singleton DEF Payable
<1>10. SumFunctionOnSet(f, h.occ) = SumFunctionOnSet(f, {s})
  BY <1>7, <1>8, <1>9, SumWhere
<1>11. SumFunctionOnSet(f, {s}) = f[s]
  <2>1. {s} \ {s} = {} /\ s \in {s} /\ \A t \in {s} : f[t] \in Int
    BY <1>2, <1>7
  <2>2. SumFunctionOnSet(f, {s}) = f[s] + SumFunctionOnSet(f, {s} \ {s})
    BY <1>9, <2>1, SumRemove
  <2> QED
    BY <2>1, <2>2, SumOfNone
<1> QED
  BY <1>2, <1>6, <1>7, <1>10, <1>11

\* What a seat is paid from all layers, and what the others match of its
\* commitment.
Gains(h, ranks, s) == SumOver(Levels(h), LAMBDA level : Gain(h, level, ranks, s))
Matched(h, s) == SumOver(h.occ \ {s}, LAMBDA t : Least(h.handBy[t], h.handBy[s]))

LEMMA GainsSum ==
    ASSUME NEW h, Payable(h), NEW ranks, NEW s, NEW f, \A l \in Levels(h) : f[l] = Gain(h, l, ranks, s)
    PROVE  Gains(h, ranks, s) = SumFunctionOnSet(f, Levels(h))
<1>1. PICK g : g = [l \in Levels(h) |-> Gain(h, l, ranks, s)]
  OBVIOUS
<1>2. DOMAIN g = Levels(h) /\ Gains(h, ranks, s) = SumFunction(g)
  BY <1>1 DEF Gains, SumOver
<1>3. \A l \in Levels(h) : g[l] = f[l]
  BY <1>1
<1>4. SumFunctionOnSet(g, Levels(h)) = SumFunctionOnSet(f, Levels(h))
  BY <1>3, LevelsFinite, SumAgrees
<1> QED
  BY <1>2, <1>4 DEF SumFunction

\* Together the seats are paid what together they put in.
LEMMA GainsAddUp ==
    ASSUME NEW h, Payable(h), NEW ranks \in [h.occ -> Nat],
           NEW g, \A s \in h.occ : g[s] = Gains(h, ranks, s)
    PROVE  SumFunctionOnSet(g, h.occ) = SumFunctionOnSet(h.handBy, h.occ)
<1>1. PICK S, L : S = h.occ /\ L = Levels(h)
  OBVIOUS
<1>2. IsFiniteSet(S) /\ IsFiniteSet(L)
  BY <1>1, LevelsFinite DEF Payable
<1>3. PICK pots : pots = [l \in L |-> LayerPot(h, l)]
  OBVIOUS
<1>4. SumFunctionOnSet(g, S) = SumFunctionOnSet(pots, L)
  <2>1. PICK r, c : /\ r = [s \in S |-> [l \in L |-> Gain(h, l, ranks, s)]]
                    /\ c = [l \in L |-> [s \in S |-> Gain(h, l, ranks, s)]]
    OBVIOUS
  <2>2. \A s \in S : \A l \in L : r[s][l] = Gain(h, l, ranks, s) /\ c[l][s] = Gain(h, l, ranks, s)
    BY <2>1
  <2>3. \A l \in L : pots[l] = SumFunctionOnSet(c[l], S) /\ \A s \in S : c[l][s] \in Int
    BY <1>1, <1>3, <2>2, LayerIsPaid
  <2>4. \A s \in S : g[s] = SumFunctionOnSet(r[s], L)
    BY <1>1, <2>2, GainsSum
  <2>5. \A s \in S : \A l \in L : r[s][l] \in Int /\ c[l][s] = r[s][l]
    BY <2>2, <2>3
  <2>6. Transposed(r, c, S, L) /\ RowSums(r, S, L, g) /\ RowSums(c, L, S, pots)
    BY <2>3, <2>4, <2>5 DEF Transposed, RowSums
  <2> QED
    BY <1>2, <2>6, SumSwap
<1>5. SumFunctionOnSet(h.handBy, S) = SumFunctionOnSet(pots, L)
  <2>1. PICK r, c : /\ r = [s \in S |-> [l \in L |-> Contrib(h, l, s)]]
                    /\ c = [l \in L |-> [s \in S |-> Contrib(h, l, s)]]
    OBVIOUS
  <2>2. \A s \in S : \A l \in L : r[s][l] = Contrib(h, l, s) /\ c[l][s] = Contrib(h, l, s)
    BY <2>1
  <2>3. \A l \in L : pots[l] = SumFunctionOnSet(c[l], S)
    BY <1>1, <1>3, <2>2, LayerPotSum
  <2>4. \A s \in S : h.handBy[s] = SumFunctionOnSet(r[s], L)
    BY <1>1, <2>2, ContribsSum
  <2>5. \A s \in S : \A l \in L : r[s][l] \in Int /\ c[l][s] = r[s][l]
    BY <1>1, <2>2, ContribType
  <2>6. Transposed(r, c, S, L) /\ RowSums(r, S, L, h.handBy) /\ RowSums(c, L, S, pots)
    BY <2>3, <2>4, <2>5 DEF Transposed, RowSums
  <2> QED
    BY <1>2, <2>6, SumSwap
<1> QED
  BY <1>1, <1>4, <1>5

\* What the layers a seat reaches hold: its own commitment and what the others
\* match of it.
LEMMA ReachedHold ==
    ASSUME NEW h, Payable(h), NEW s \in h.occ, NEW pots, \A l \in Levels(h) : pots[l] = LayerPot(h, l)
    PROVE  SumFunctionOnSet(pots, UpTo(h, h.handBy[s])) = h.handBy[s] + Matched(h, s)
<1>1. PICK S, U : S = h.occ /\ U = UpTo(h, h.handBy[s])
  OBVIOUS
<1>2. IsFiniteSet(S) /\ IsFiniteSet(U) /\ U \subseteq Levels(h) /\ s \in S
  <2>1. h.handBy[s] \in Nat
    BY DEF Payable
  <2> QED
    BY <1>1, <2>1, TopIsLast DEF UpTo, Payable
<1>3. PICK m : m = [t \in S |-> Least(h.handBy[t], h.handBy[s])]
  OBVIOUS
<1>4. SumFunctionOnSet(m, S) = SumFunctionOnSet(pots, U)
  <2>1. PICK r, c : /\ r = [t \in S |-> [l \in Levels(h) |-> Contrib(h, l, t)]]
                    /\ c = [l \in Levels(h) |-> [t \in S |-> Contrib(h, l, t)]]
    OBVIOUS
  <2>2. \A t \in S : \A l \in Levels(h) : r[t][l] = Contrib(h, l, t) /\ c[l][t] = Contrib(h, l, t)
    BY <2>1
  <2>3. \A l \in U : pots[l] = SumFunctionOnSet(c[l], S)
    BY <1>1, <1>2, <2>2, LayerPotSum
  <2>4. \A t \in S : m[t] = SumFunctionOnSet(r[t], U)
    BY <1>1, <1>2, <1>3, <2>2, ContribsSum
  <2>5. \A t \in S : \A l \in U : r[t][l] \in Int /\ c[l][t] = r[t][l]
    BY <1>1, <1>2, <2>2, ContribType
  <2>6. Transposed(r, c, S, U) /\ RowSums(r, S, U, m) /\ RowSums(c, U, S, pots)
    BY <2>3, <2>4, <2>5 DEF Transposed, RowSums
  <2> QED
    BY <1>2, <2>6, SumSwap
<1>5. \A t \in S : m[t] \in Int
  BY <1>1, <1>3 DEF Payable, Least
<1>6. SumFunctionOnSet(m, S) = m[s] + SumFunctionOnSet(m, S \ {s})
  BY <1>2, <1>5, SumRemove
<1>7. m[s] = h.handBy[s]
  BY <1>2, <1>3 DEF Least
<1>8. SumFunctionOnSet(m, S \ {s}) = Matched(h, s)
  <2>1. PICK q : q = [t \in S \ {s} |-> Least(h.handBy[t], h.handBy[s])]
    OBVIOUS
  <2>2. DOMAIN q = S \ {s} /\ Matched(h, s) = SumFunction(q)
    BY <1>1, <2>1 DEF Matched, SumOver
  <2>3. \A t \in S \ {s} : m[t] = q[t]
    BY <1>3, <2>1
  <2>4. IsFiniteSet(S \ {s})
    BY <1>2, FS_RemoveElement
  <2>5. SumFunctionOnSet(m, S \ {s}) = SumFunctionOnSet(q, S \ {s})
    BY <2>3, <2>4, SumAgrees
  <2> QED
    BY <2>2, <2>5 DEF SumFunction
<1> QED
  BY <1>1, <1>4, <1>6, <1>7, <1>8

\* A seat is paid its own commitment and what the others match of it at most,
\* and all of that when it alone has the best hand.
LEMMA GainsWithin ==
    ASSUME NEW h, Payable(h), NEW ranks \in [h.occ -> Nat], NEW s \in h.occ
    PROVE  /\ Gains(h, ranks, s) \in Nat
           /\ Gains(h, ranks, s) <= h.handBy[s] + Matched(h, s)
           /\ s \in InHand(h) /\ (\A t \in InHand(h) \ {s} : ranks[t] < ranks[s])
                => Gains(h, ranks, s) = h.handBy[s] + Matched(h, s)
<1>1. PICK L, U : L = Levels(h) /\ U = UpTo(h, h.handBy[s])
  OBVIOUS
<1>2. /\ IsFiniteSet(L) /\ IsFiniteSet(U) /\ U \in SUBSET L
      /\ \A l \in U : l <= h.handBy[s]
      /\ \A l \in L \ U : h.handBy[s] < l
  <2>1. h.handBy[s] \in Nat /\ Levels(h) \subseteq Nat
    BY LevelsFinite DEF Payable
  <2> QED
    BY <1>1, <2>1, LevelsFinite, TopIsLast DEF UpTo
<1>3. PICK f, pots : f = [l \in L |-> Gain(h, l, ranks, s)] /\ pots = [l \in L |-> LayerPot(h, l)]
  OBVIOUS
<1>4. \A l \in L : f[l] = Gain(h, l, ranks, s) /\ pots[l] = LayerPot(h, l)
  BY <1>3
<1>5. ASSUME NEW l \in L
      PROVE  f[l] \in Nat /\ f[l] <= pots[l] /\ pots[l] \in Int /\ (h.handBy[s] < l => f[l] = 0)
  <2>1. PICK g, c : g = [t \in h.occ |-> Gain(h, l, ranks, t)] /\ c = [t \in h.occ |-> Contrib(h, l, t)]
    OBVIOUS
  <2>2. \A t \in h.occ : g[t] = Gain(h, l, ranks, t)
    BY <2>1
  <2>3. \A t \in h.occ : c[t] = Contrib(h, l, t)
    BY <2>1
  <2>4. g[s] \in Nat /\ g[s] <= LayerPot(h, l) /\ (h.handBy[s] < l => g[s] = 0)
    BY <1>1, <2>2, LayerIsPaid
  <2>5. LayerPot(h, l) \in Nat
    BY <1>1, <2>3, LayerPotSum
  <2> QED
    BY <1>4, <2>2, <2>4, <2>5
<1>6. Gains(h, ranks, s) = SumFunctionOnSet(f, L)
  BY <1>1, <1>4, GainsSum
<1>7. SumFunctionOnSet(f, L) = SumFunctionOnSet(f, U)
  <2>1. (\A l \in L : f[l] \in Int) /\ (\A l \in L \ U : f[l] = 0)
    BY <1>2, <1>5
  <2> QED
    BY <1>2, <2>1, SumWhere
<1>8. SumFunctionOnSet(f, L) \in Nat
  BY <1>2, <1>5, SumNat
<1>9. SumFunctionOnSet(pots, U) = h.handBy[s] + Matched(h, s)
  BY <1>1, <1>4, ReachedHold
<1>10. SumFunctionOnSet(f, U) <= SumFunctionOnSet(pots, U)
  <2>1. \A l \in U : f[l] \in Int /\ pots[l] \in Int /\ f[l] <= pots[l]
    BY <1>2, <1>5
  <2> QED
    BY <1>2, <2>1, SumAtMost
<1>11. ASSUME s \in InHand(h), \A t \in InHand(h) \ {s} : ranks[t] < ranks[s]
       PROVE  SumFunctionOnSet(f, U) = SumFunctionOnSet(pots, U)
  <2>1. \A l \in U : f[l] = pots[l]
    BY <1>1, <1>2, <1>4, <1>11, BestTakesLayer
  <2> QED
    BY <1>2, <2>1, SumAgrees
<1> QED
  BY <1>6, <1>7, <1>8, <1>9, <1>10, <1>11

\* The settlement of a payable hand: the deltas add up to zero, and each is
\* within what the seat risked and what it may win.
LEMMA SettlesFairly ==
    ASSUME NEW h, Payable(h), NEW ranks \in [h.occ -> Nat], NEW d, d = SettleOf(h, ranks)
    PROVE  /\ SumFunction([s \in h.occ |-> d[s]]) = 0
           /\ \A s \in h.occ : 0 - h.handBy[s] <= d[s] /\ d[s] <= Matched(h, s)
           /\ \A s \in InHand(h) :
                 (\A t \in InHand(h) \ {s} : ranks[t] < ranks[s]) => d[s] = Matched(h, s)
<1>1. d = [s \in h.occ |-> Gains(h, ranks, s) - h.handBy[s]]
  BY DEF SettleOf, Gains
<1>2. ASSUME NEW s \in h.occ
      PROVE  /\ h.handBy[s] \in Nat /\ Gains(h, ranks, s) \in Nat /\ Matched(h, s) \in Int
             /\ Gains(h, ranks, s) <= h.handBy[s] + Matched(h, s)
             /\ d[s] = Gains(h, ranks, s) - h.handBy[s] /\ d[s] \in Int
  <2>1. h.handBy[s] \in Nat
    BY DEF Payable
  <2>2. Matched(h, s) \in Int
    <3>1. PICK q : q = [t \in h.occ \ {s} |-> Least(h.handBy[t], h.handBy[s])]
      OBVIOUS
    <3>2. DOMAIN q = h.occ \ {s} /\ Matched(h, s) = SumFunction(q)
      BY <3>1 DEF Matched, SumOver
    <3>3. IsFiniteSet(h.occ \ {s}) /\ \A t \in h.occ \ {s} : q[t] \in Int
      BY <3>1, FS_RemoveElement DEF Payable, Least
    <3> QED
      BY <3>2, <3>3, SumInt DEF SumFunction
  <2>3. Gains(h, ranks, s) \in Nat /\ Gains(h, ranks, s) <= h.handBy[s] + Matched(h, s)
    BY GainsWithin
  <2> QED
    BY <1>1, <2>1, <2>2, <2>3
<1>3. SumFunction([s \in h.occ |-> d[s]]) = 0
  <2>1. PICK g : g = [s \in h.occ |-> Gains(h, ranks, s)]
    OBVIOUS
  <2>2. SumFunctionOnSet(g, h.occ) = SumFunctionOnSet(h.handBy, h.occ)
    BY <2>1, GainsAddUp
  <2>3. IsFiniteSet(h.occ)
    BY DEF Payable
  <2>4. \A s \in h.occ : h.handBy[s] \in Int /\ d[s] \in Int /\ g[s] = h.handBy[s] + d[s]
    BY <1>2, <2>1
  <2>5. SumFunctionOnSet(g, h.occ) = SumFunctionOnSet(h.handBy, h.occ) + SumFunctionOnSet(d, h.occ)
    BY <2>3, <2>4, SumPlus
  <2>6. SumFunctionOnSet(h.handBy, h.occ) \in Int /\ SumFunctionOnSet(d, h.occ) \in Int
    BY <2>3, <2>4, SumInt
  <2>7. SumFunctionOnSet(d, h.occ) = 0
    BY <2>2, <2>5, <2>6
  <2>8. [s \in h.occ |-> d[s]] = d /\ DOMAIN d = h.occ
    BY <1>1
  <2> QED
    BY <2>7, <2>8 DEF SumFunction
<1>4. \A s \in h.occ : 0 - h.handBy[s] <= d[s] /\ d[s] <= Matched(h, s)
  BY <1>2
<1>5. ASSUME NEW s \in InHand(h), \A t \in InHand(h) \ {s} : ranks[t] < ranks[s]
      PROVE  d[s] = Matched(h, s)
  <2>1. s \in h.occ
    BY DEF InHand
  <2>2. Gains(h, ranks, s) = h.handBy[s] + Matched(h, s)
    BY <1>5, <2>1, GainsWithin
  <2> QED
    BY <1>2, <2>1, <2>2
<1> QED
  BY <1>3, <1>4, <1>5

\* What a seat may take from the others is what they match of its commitment.
LEMMA MayWinIsMatched ==
    ASSUME NEW s
    PROVE  MayWin(s) = Matched(hand, s)
BY DEF MayWin, Matched

LEMMA HandSettles == HandInv => SettlementFair
<1> SUFFICES ASSUME HandInv, NEW ranks \in RankMaps
             PROVE  LET d == SettleOf(hand, ranks)
                    IN  /\ SumOver(hand.occ, LAMBDA s : d[s]) = 0
                        /\ \A s \in hand.occ : 0 - hand.handBy[s] <= d[s] /\ d[s] <= MayWin(s)
                        /\ \A s \in InHand(hand) :
                              (\A t \in InHand(hand) \ {s} : ranks[t] < ranks[s])
                                => d[s] = MayWin(s)
  BY DEF SettlementFair
<1>1. Payable(hand)
  <2>1. hand.occ \in Occupied /\ hand \in Hands(hand.occ)
    BY DEF HandInv, Good
  <2>2. hand.occ \in SUBSET (Nat \ {0}) /\ IsFiniteSet(hand.occ)
    BY <2>1, OccupiedSeats
  <2>3. hand.handBy \in [hand.occ -> Nat] /\ hand.buttonSeat \in hand.occ
    BY <2>1 DEF Hands
  <2> QED
    BY <2>2, <2>3 DEF Payable
<1>2. ranks \in [hand.occ -> Nat]
  <2>1. PICK k \in Nat : k = Cardinality(hand.occ)
    BY <1>1, FS_CardinalityType DEF Payable
  <2> QED
    BY <2>1 DEF RankMaps
<1>3. PICK d : d = SettleOf(hand, ranks)
  OBVIOUS
<1>4. /\ SumFunction([s \in hand.occ |-> d[s]]) = 0
      /\ \A s \in hand.occ : 0 - hand.handBy[s] <= d[s] /\ d[s] <= Matched(hand, s)
      /\ \A s \in InHand(hand) :
            (\A t \in InHand(hand) \ {s} : ranks[t] < ranks[s]) => d[s] = Matched(hand, s)
  BY <1>1, <1>2, <1>3, SettlesFairly
<1> QED
  BY <1>3, <1>4, MayWinIsMatched DEF SumOver

\* However the showdown ranks the hands, heSettleOf moves chips and makes none,
\* takes from no seat more than it put in, gives none more than the others
\* match of its commitment, and all of that to a seat that alone is best.
THEOREM HandSettlesFairly == Spec => []SettlementFair
<1>1. HandInv => SettlementFair
  BY HandSettles
<1> QED
  BY <1>1, HandInvariant, PTL
==================================================================================
