------------------------------- MODULE Settlement -------------------------------
(***************************************************************************)
(* How a finished hand is paid (heSettleOf): every distinct commitment is  *)
(* a layer, each layer is a pot of its own, and each pot goes to the best  *)
(* ranks among the seats still in the hand that cover the layer.  The      *)
(* layers do not depend on each other, so what a seat is paid is a sum     *)
(* over them.  ranks gives each seat in the hand a number, higher wins.    *)
(***************************************************************************)
EXTENDS BettingEngine, Functions

SumOver(S, f(_)) == SumFunction([x \in S |-> f(x)])

Levels(h) == {h.handBy[s] : s \in h.occ} \ {0}

LevelBelow(h, level) ==
    LET lower == {l \in Levels(h) : l < level} IN IF lower = {} THEN 0 ELSE Highest(lower)

\* The slice of a layer a seat put in.
Contrib(h, level, s) ==
    LET c == Least(h.handBy[s], level) - LevelBelow(h, level)
    IN  IF c > 0 THEN c ELSE 0

LayerPot(h, level) == SumOver(h.occ, LAMBDA s : Contrib(h, level, s))

Eligible(h, level) == {s \in InHand(h) : h.handBy[s] >= level}

Winners(h, level, ranks) ==
    LET E == Eligible(h, level)
    IN  IF Cardinality(E) = 1 THEN E
        ELSE {s \in E : \A t \in E : ranks[t] <= ranks[s]}

\* t comes before s, clockwise from the button's left.
Clockwise(button, t, s) ==
    IF (t > button) = (s > button) THEN t < s ELSE t > button

\* The odd chips go one each to the first winners clockwise from the button.
PotShare(h, level, ranks, s) ==
    LET W == Winners(h, level, ranks)
        odd == LayerPot(h, level) % Cardinality(W)
        ahead == {t \in W : Clockwise(h.buttonSeat, t, s)}
    IN  (LayerPot(h, level) \div Cardinality(W))
            + (IF Cardinality(ahead) < odd THEN 1 ELSE 0)

\* Planted bug: a layer nobody left in the hand covers is lost.
GainNoRefund(h, level, ranks, s) ==
    IF s \in Winners(h, level, ranks) THEN PotShare(h, level, ranks, s) ELSE 0

\* A layer nobody left in the hand covers goes back to those who paid it.
Gain(h, level, ranks, s) ==
    IF Eligible(h, level) = {} THEN Contrib(h, level, s)
    ELSE IF s \in Winners(h, level, ranks) THEN PotShare(h, level, ranks, s)
    ELSE 0

SettleOf(h, ranks) ==
    [s \in h.occ |->
        SumOver(Levels(h), LAMBDA level : Gain(h, level, ranks, s)) - h.handBy[s]]
=================================================================================
