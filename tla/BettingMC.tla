------------------------------- MODULE BettingMC -------------------------------
EXTENDS BettingHand, TLC
\* Heads-up and three-handed.
SmallTables == {{1, 3}, {1, 2, 3}}
SmallStakes == {[sb |-> 1, bb |-> 2, ante |-> 0], [sb |-> 1, bb |-> 2, ante |-> 1]}
================================================================================
