------------------------------ MODULE BettingEngine ------------------------------
(***************************************************************************)
(* The betting engine of holde-em: a pure state machine over the messages  *)
(* of a hand.  Its state is a record h; every operator takes a record and  *)
(* returns one, as heBetApply does.  A seat whose flag the code keeps as   *)
(* foldedBy[s] = "true" is a member of h.folded, and so for allin, acted   *)
(* and antePosted.  "acted" means: has acted since the last full raise.    *)
(*                                                                         *)
(* A definition marked "Planted bug" is not part of the model: it is a     *)
(* plausible mistake in the definition after it.                           *)
(*                                                                         *)
(* A refused message leaves the state alone, so each message comes as a    *)
(* predicate (may the engine accept it) and an operator (what it does      *)
(* then).                                                                  *)
(***************************************************************************)
EXTENDS SeatRing

Least(a, b) == IF a <= b THEN a ELSE b

Phases == {"blinds", "acting", "runout", "showdown", "handdone"}
Streets == {"preflop", "flop", "turn", "river"}
Notes == {"none", "advance", "runout", "showdown", "foldwin"}
Verbs == {"fold", "check", "call", "bet", "raise", "allin"}

NewHand(stakes, stacks, occ, button) ==
    LET sbSeat == IF Cardinality(occ) = 2 THEN button ELSE NextAfter(occ, button)
    IN  [sb |-> stakes.sb, bb |-> stakes.bb, ante |-> stakes.ante,
         occ |-> occ, buttonSeat |-> button,
         sbSeat |-> sbSeat, bbSeat |-> NextAfter(occ, sbSeat),
         street |-> "preflop", phase |-> "blinds", note |-> "none",
         toAct |-> 0, betCur |-> 0, raiseFull |-> stakes.bb,
         aggressor |-> 0, sdFirst |-> 0, actN |-> 0,
         stackBy |-> [s \in occ |-> stacks[s]],
         streetBy |-> [s \in occ |-> 0],
         handBy |-> [s \in occ |-> 0],
         folded |-> {}, allin |-> {}, acted |-> {},
         antePosted |-> {}, sbPosted |-> FALSE]

InHand(h) == h.occ \ h.folded

\* In the hand with chips behind: the seats that can still bet.
Live(h) == InHand(h) \ h.allin

Owe(h, s) == h.betCur - h.streetBy[s]

\* What the seat's whole stack would make its bet of this street.
Reach(h, s) == h.streetBy[s] + h.stackBy[s]

\* Planted bug: a seat that is all-in is asked too.
PendingAllIn(h, s) == s \in InHand(h) /\ (h.streetBy[s] < h.betCur \/ s \notin h.acted)

\* Planted bug: a seat that has acted is not asked about a bigger bet.
PendingOnce(h, s) == s \in Live(h) /\ s \notin h.acted

\* A seat owes action if it can bet and either faces a bigger bet or has not
\* acted since the last full raise.
SeatPending(h, s) == s \in Live(h) /\ (h.streetBy[s] < h.betCur \/ s \notin h.acted)

NextPending(h, after) ==
    LET pending == {s \in h.occ : SeatPending(h, s)}
    IN  IF pending = {} THEN 0 ELSE NextAfter(pending, after)

\* Chips from behind the line into the pot: PayDead for an ante, which does
\* not count towards the street's bet, Pay for everything else.
PayDead(h, s, n) ==
    [h EXCEPT !.stackBy[s] = @ - n, !.handBy[s] = @ + n,
              !.allin = IF h.stackBy[s] = n THEN @ \cup {s} ELSE @]

\* Planted bug: the chips never reach the pot.
PayStreetOnly(h, s, n) ==
    [h EXCEPT !.stackBy[s] = @ - n, !.streetBy[s] = @ + n,
              !.allin = IF h.stackBy[s] = n THEN @ \cup {s} ELSE @]

Pay(h, s, n) == [PayDead(h, s, n) EXCEPT !.streetBy[s] = @ + n]

NextStreet(street) ==
    CASE street = "preflop" -> "flop"
      [] street = "flop" -> "turn"
      [] OTHER -> "river"

\* Who shows first if this street is the last: its last aggressor, else the
\* first seat in the hand after the button.
FirstToShow(h) ==
    IF h.aggressor > 0 THEN h.aggressor
    ELSE IF InHand(h) = {} THEN 0 ELSE NextAfter(InHand(h), h.buttonSeat)

Cleared(h) ==
    [h EXCEPT !.sdFirst = FirstToShow(h), !.aggressor = 0, !.betCur = 0,
              !.raiseFull = h.bb, !.acted = {}, !.streetBy = [s \in h.occ |-> 0]]

\* A closed street is cleared; then the hand goes to the showdown after the
\* river, runs out when at most one seat can still bet, or moves on.
CloseStreet(h) ==
    LET c == Cleared(h)
    IN  IF h.street = "river"
        THEN [c EXCEPT !.phase = "showdown", !.toAct = 0, !.note = "showdown"]
        ELSE IF Cardinality(Live(c)) <= 1
        THEN [c EXCEPT !.phase = "runout", !.toAct = 0, !.note = "runout"]
        ELSE [c EXCEPT !.phase = "acting", !.street = NextStreet(@), !.note = "advance",
                       !.toAct = NextPending(c, h.buttonSeat)]

AfterAction(h, s) ==
    IF NextPending(h, s) = 0 THEN CloseStreet(h)
    ELSE [h EXCEPT !.toAct = NextPending(h, s)]

\* Every message starts from the state with the last message's note cleared.
Quiet(h) == [h EXCEPT !.note = "none"]

----------------------------------------------------------------------------------
(* Forced posts.  The amount a post must carry is fixed by the state, and    *)
(* any other amount is refused: it is not a parameter here.                  *)

TakesAnte(h, s) == h.phase = "blinds" /\ s \in h.occ /\ s \notin h.antePosted

PostAnte(h, s) ==
    [PayDead(Quiet(h), s, Least(h.ante, h.stackBy[s])) EXCEPT !.antePosted = @ \cup {s}]

TakesSB(h, s) == h.phase = "blinds" /\ s = h.sbSeat /\ ~h.sbPosted

\* Planted bug: a short stack posts the whole small blind.
PostSBUncapped(h, s) == [Pay(Quiet(h), s, h.sb) EXCEPT !.sbPosted = TRUE]

PostSB(h, s) == [Pay(Quiet(h), s, Least(h.sb, h.stackBy[s])) EXCEPT !.sbPosted = TRUE]

TakesBB(h, s) == h.phase = "blinds" /\ s = h.bbSeat

\* Planted bug: a big blind posted short opens at what was posted.
PostBBShort(h, s) ==
    LET pay == Least(h.bb, h.stackBy[s])
    IN  AfterAction([Pay(Quiet(h), s, pay)
                        EXCEPT !.betCur = pay, !.raiseFull = h.bb, !.phase = "acting"], s)

\* The full big blind is the bet to match, even when posted short.
PostBB(h, s) ==
    AfterAction([Pay(Quiet(h), s, Least(h.bb, h.stackBy[s]))
                    EXCEPT !.betCur = h.bb, !.raiseFull = h.bb, !.phase = "acting"], s)

----------------------------------------------------------------------------------
(* Board messages move the engine only while the board runs out.             *)

Board(h) ==
    IF h.phase # "runout" THEN Quiet(h)
    ELSE LET b == [Quiet(h) EXCEPT !.street = NextStreet(@)]
         IN  IF b.street = "river"
             THEN [b EXCEPT !.phase = "showdown", !.note = "showdown"]
             ELSE b

----------------------------------------------------------------------------------
(* Acts.                                                                     *)

\* Planted bug: a short all-in reopens the betting.
OpensAnyTime(h, s, to) ==
    /\ to > h.betCur
    /\ to <= Reach(h, s)
    /\ to - h.betCur >= h.raiseFull \/ to = Reach(h, s)

\* What a bet, a raise and an all-in above the bet have in common: over the
\* bet, within the stack, a full raise unless all-in, and betting is open to
\* this seat (a short all-in since it acted does not reopen it).
Opens(h, s, to) ==
    /\ to > h.betCur
    /\ to <= Reach(h, s)
    /\ to - h.betCur >= h.raiseFull \/ to = Reach(h, s)
    /\ s \notin h.acted

TakesAct(h, s, verb, amt) ==
    /\ h.phase = "acting" /\ s = h.toAct
    /\ \/ verb = "fold"
       \/ verb = "check" /\ h.streetBy[s] >= h.betCur
       \/ verb = "call" /\ Owe(h, s) > 0 /\ amt = Least(Owe(h, s), h.stackBy[s])
       \/ verb = "bet" /\ h.betCur = 0 /\ Opens(h, s, amt)
       \/ verb = "raise" /\ h.betCur # 0 /\ Opens(h, s, amt)
       \/ verb = "allin" /\ amt = Reach(h, s) /\ (amt <= h.betCur \/ Opens(h, s, amt))

Acted(h, s) == [h EXCEPT !.acted = @ \cup {s}]

FoldSeat(h, s) ==
    LET f == Acted([h EXCEPT !.folded = @ \cup {s}], s)
    IN  IF Cardinality(InHand(f)) = 1
        THEN [f EXCEPT !.phase = "handdone", !.toAct = 0, !.note = "foldwin"]
        ELSE AfterAction(f, s)

\* Planted bug: every raise, short ones included, asks everybody again.
WagerReopening(h, s, to) ==
    AfterAction([Pay(h, s, to - h.streetBy[s])
        EXCEPT !.betCur = to, !.aggressor = s, !.acted = {s},
               !.raiseFull = IF to - h.betCur >= @ THEN to - h.betCur ELSE @], s)

\* A full raise takes away everyone else's "acted"; a short all-in does not.
Wager(h, s, to) ==
    LET full == to - h.betCur >= h.raiseFull
    IN  AfterAction([Pay(h, s, to - h.streetBy[s])
            EXCEPT !.betCur = to, !.aggressor = s,
                   !.raiseFull = IF full THEN to - h.betCur ELSE @,
                   !.acted = IF full THEN {s} ELSE @ \cup {s}], s)

Act(h, s, verb, amt) ==
    LET q == [Quiet(h) EXCEPT !.actN = @ + 1]
    IN  CASE verb = "fold" -> FoldSeat(q, s)
          [] verb = "check" -> AfterAction(Acted(q, s), s)
          [] verb = "call" -> AfterAction(Acted(Pay(q, s, amt), s), s)
          [] verb = "allin" /\ amt <= h.betCur ->
                AfterAction(Acted(Pay(q, s, h.stackBy[s]), s), s)
          [] OTHER -> Wager(q, s, amt)

----------------------------------------------------------------------------------
(* What the table tells a player it may do, and what the clock does when a   *)
(* player does nothing.                                                      *)

Offer(verb, lo, hi) == [verb |-> verb, lo |-> lo, hi |-> hi]

Legal(h, s) ==
    LET hi == Reach(h, s)
        open == s \notin h.acted
    IN  IF h.phase # "acting" \/ h.toAct # s THEN {}
        ELSE {Offer("fold", 0, 0)}
             \cup (IF Owe(h, s) <= 0 THEN {Offer("check", 0, 0)}
                   ELSE {Offer("call", Least(Owe(h, s), h.stackBy[s]),
                                       Least(Owe(h, s), h.stackBy[s]))})
             \cup (IF open /\ hi > h.betCur
                   THEN {Offer(IF h.betCur = 0 THEN "bet" ELSE "raise",
                               Least(h.betCur + h.raiseFull, hi), hi)}
                   ELSE {})
             \cup (IF open \/ hi <= h.betCur THEN {Offer("allin", hi, hi)} ELSE {})

\* Planted bug: the clock checks whatever is owed.
TimeoutVerbCheck(h, s) == "check"

\* heTimeoutVerbOf: never fold a seat that could check.
TimeoutVerb(h, s) == IF Owe(h, s) > 0 THEN "fold" ELSE "check"
==================================================================================
