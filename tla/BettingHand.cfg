SPECIFICATION Spec
CONSTANTS
    Seats = {1, 2, 3}
    Occupied <- SmallTables
    Stacks = {1, 3, 5}
    Stakes <- SmallStakes
CHECK_DEADLOCK FALSE
INVARIANTS
    TypeOK
    ChipsConserved
    StreetWithinBet
    TurnIsOwed
    StakesMatched
    LegalIsExact
    SettlementFair
PROPERTIES
    ReopensOnlyByFullRaise
    EveryHandEnds
