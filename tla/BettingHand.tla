------------------------------- MODULE BettingHand -------------------------------
(***************************************************************************)
(* One hand of holde-em: the engine's state, driven by every message it    *)
(* may receive.  Forced posts come in the order both tables keep: antes,   *)
(* then the small blind, then the big blind (heHandStart posts them so;    *)
(* heNetGameReact sends each only once it has seen the earlier ones).      *)
(***************************************************************************)
EXTENDS Settlement

CONSTANTS
    Seats,      \* the chairs, numbered from 1
    Occupied,   \* the sets of seats a hand may be dealt to
    Stacks,     \* the stacks a seat may start the hand with
    Stakes      \* the records [sb, bb, ante] a table may be configured with

ASSUME HandAssumption ==
    /\ Seats \subseteq Nat \ {0}
    /\ IsFiniteSet(Seats)
    /\ Occupied \subseteq {occ \in SUBSET Seats : \E s, t \in occ : s # t}
    /\ Stacks \subseteq Nat \ {0}
    /\ Stakes \subseteq [sb : Nat, bb : Nat \ {0}, ante : Nat]
    /\ \A k \in Stakes : k.sb <= k.bb

VARIABLES
    hand,       \* gGame["state"]: the record heBetApply takes and returns
    opening     \* the stacks the hand was dealt with (history)

vars == <<hand, opening>>

Init ==
    \E occ \in Occupied, stakes \in Stakes :
        \E button \in occ, stacks \in [occ -> Stacks] :
            /\ hand = NewHand(stakes, stacks, occ, button)
            /\ opening = stacks

AntesDue(h) == h.ante > 0 /\ h.antePosted # h.occ

Ante(s) ==
    /\ hand.ante > 0 /\ TakesAnte(hand, s)
    /\ hand' = PostAnte(hand, s)
    /\ UNCHANGED opening

SmallBlind ==
    /\ ~AntesDue(hand) /\ TakesSB(hand, hand.sbSeat)
    /\ hand' = PostSB(hand, hand.sbSeat)
    /\ UNCHANGED opening

BigBlind ==
    /\ hand.sbPosted /\ TakesBB(hand, hand.bbSeat)
    /\ hand' = PostBB(hand, hand.bbSeat)
    /\ UNCHANGED opening

\* A player acts; the engine takes the act or leaves the state alone.
SeatActs(s, verb, amt) ==
    /\ TakesAct(hand, s, verb, amt)
    /\ hand' = Act(hand, s, verb, amt)
    /\ UNCHANGED opening

\* The clock runs out on the seat to act.
TimesOut ==
    /\ hand.phase = "acting" /\ hand.toAct # 0
    /\ LET verb == TimeoutVerb(hand, hand.toAct)
       IN  TakesAct(hand, hand.toAct, verb, 0) /\ hand' = Act(hand, hand.toAct, verb, 0)
    /\ UNCHANGED opening

\* The next street of a board that runs out.
DealBoard ==
    /\ hand.phase = "runout"
    /\ hand' = Board(hand)
    /\ UNCHANGED opening

\* Amounts worth trying: anything up to the seat's reach, and one chip over.
AmountsOf(s) == 0 .. (Reach(hand, s) + 1)

Posts == (\E s \in hand.occ : Ante(s)) \/ SmallBlind \/ BigBlind

Acts == \E s \in hand.occ, verb \in Verbs : \E amt \in AmountsOf(s) : SeatActs(s, verb, amt)

Next == Posts \/ Acts \/ TimesOut \/ DealBoard

\* Nobody has to act: posts and acts that do not come are made by the clock.
Fairness == WF_vars(Posts) /\ WF_vars(TimesOut) /\ WF_vars(DealBoard)

Spec == Init /\ [][Next]_vars /\ Fairness

Over == hand.phase \in {"showdown", "handdone"}

----------------------------------------------------------------------------------
\* The engine's state is well-formed: stacks are never negative, and whoever
\* is to act, posted, folded or is all-in sits at the table.
Hands(occ) ==
    [sb : Nat, bb : Nat \ {0}, ante : Nat,
     occ : {occ}, buttonSeat : occ, sbSeat : occ, bbSeat : occ,
     street : Streets, phase : Phases, note : Notes,
     toAct : occ \cup {0}, betCur : Nat, raiseFull : Nat,
     aggressor : occ \cup {0}, sdFirst : occ \cup {0}, actN : Nat,
     stackBy : [occ -> Nat], streetBy : [occ -> Nat], handBy : [occ -> Nat],
     folded : SUBSET occ, allin : SUBSET occ, acted : SUBSET occ,
     antePosted : SUBSET occ, sbPosted : BOOLEAN]

TypeOK ==
    /\ hand.occ \in Occupied
    /\ hand \in Hands(hand.occ)
    /\ opening \in [hand.occ -> Nat]

\* Chips only move from a seat's stack to its own part of the pot: through
\* antes, short blinds, calls for less and raises, the two always add up to
\* the stack the seat sat down with.
ChipsConserved ==
    \A s \in hand.occ : hand.stackBy[s] + hand.handBy[s] = opening[s]

\* While a bet is open nobody has more on the street than the bet: a call or a
\* raise never asks for a negative amount.
StreetWithinBet ==
    hand.phase = "acting" => \A s \in hand.occ : hand.streetBy[s] <= hand.betCur

\* The hand never waits for nobody, nor for a seat that has nothing to do: the
\* seat to act is in the hand, has chips, and owes a call or a first word; and
\* outside the betting no seat is to act.
TurnIsOwed ==
    /\ hand.phase = "acting" =>
          /\ hand.toAct \in hand.occ \ (hand.folded \cup hand.allin)
          /\ \/ hand.streetBy[hand.toAct] < hand.betCur
             \/ hand.toAct \notin hand.acted
    /\ hand.phase # "acting" => hand.toAct = 0
    /\ hand.phase = "handdone" <=> Cardinality(InHand(hand)) = 1

\* When a street has closed, everyone still able to bet has put the same into
\* the pot over the whole hand, and no all-in seat that is still in the hand
\* has put in more than they have: nobody saw a card without matching the bet.
StakesMatched ==
    LET closed == \/ hand.phase \in {"runout", "showdown"}
                  \/ hand.phase = "acting" /\ hand.street # "preflop"
                        /\ hand.betCur = 0 /\ hand.acted = {}
    IN  closed =>
            \A s \in Live(hand) :
                /\ \A t \in Live(hand) : hand.handBy[t] = hand.handBy[s]
                /\ \A t \in InHand(hand) : hand.handBy[t] <= hand.handBy[s]

\* heBetLegal offers exactly what heBetApply takes: every amount inside an
\* offer is accepted and no other amount of that verb is; no player is shown
\* an act the engine refuses, or denied one it would take.
LegalIsExact ==
    \A s \in hand.occ : \A verb \in Verbs : \A amt \in AmountsOf(s) :
        TakesAct(hand, s, verb, amt)
            <=> \E o \in Legal(hand, s) :
                    /\ o.verb = verb
                    /\ verb \in {"fold", "check"} \/ amt \in o.lo .. o.hi

\* Betting reopens for a seat that has acted only when another seat makes a
\* full raise, at least as large as the largest of the street; a short all-in
\* never reopens it.
ReopensOnlyByFullRaise ==
    [][ \A s \in hand.occ :
            s \in hand.acted /\ s \notin hand'.acted /\ hand'.street = hand.street
                /\ hand'.phase = "acting"
            => /\ hand'.aggressor # s
               /\ hand'.betCur - hand.betCur >= hand.raiseFull
               /\ hand'.raiseFull = hand'.betCur - hand.betCur
               /\ hand'.raiseFull >= hand.bb ]_vars

\* The ranks a showdown may find: every order of the seats, ties included.
RankMaps == [hand.occ -> 0 .. Cardinality(hand.occ) - 1]

\* The most a seat may take from the others: as much from each as it put in
\* itself.
MayWin(s) == SumOver(hand.occ \ {s}, LAMBDA t : Least(hand.handBy[t], hand.handBy[s]))

\* However the showdown ranks the hands, the settlement moves chips and makes
\* none: the deltas add up to zero, no seat loses more than it put in, and no
\* seat, short stacks and refunds included, takes more from the others than
\* it matched; and a seat that alone has the best hand takes all of that.
SettlementFair ==
    Over =>
        \A ranks \in RankMaps :
            LET d == SettleOf(hand, ranks)
            IN  /\ SumOver(hand.occ, LAMBDA s : d[s]) = 0
                /\ \A s \in hand.occ : 0 - hand.handBy[s] <= d[s] /\ d[s] <= MayWin(s)
                /\ \A s \in InHand(hand) :
                      (\A t \in InHand(hand) \ {s} : ranks[t] < ranks[s])
                        => d[s] = MayWin(s)

\* Every hand ends, in a showdown or with one seat left, whatever the players
\* do, as long as the clock acts for those who do nothing.
EveryHandEnds == <>Over
==================================================================================
