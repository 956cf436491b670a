-------------------------------- MODULE SeatRing --------------------------------
(***************************************************************************)
(* Seats are the numbers of the chairs around the table; a list of seats   *)
(* is ascending everywhere in the program, so the set says as much as the  *)
(* list does.  Clockwise is upwards, from the highest seat back to the     *)
(* lowest.                                                                 *)
(***************************************************************************)
EXTENDS Integers, FiniteSets

Lowest(S) == CHOOSE s \in S : \A t \in S : s <= t
Highest(S) == CHOOSE s \in S : \A t \in S : t <= s

\* The first seat of S strictly clockwise of position p (the list rotated to
\* start after p), p itself coming last.
NextAfter(S, p) ==
    IF \E s \in S : s > p THEN Lowest({s \in S : s > p}) ELSE Lowest(S)
=================================================================================
