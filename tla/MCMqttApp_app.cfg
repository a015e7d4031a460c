CONSTANTS
    MaxFlaps = 3
    Proc = {p1, p2}
    Publishes = 2
SPECIFICATION AppFairSpec
INVARIANTS BitsExclusive BitsSettle StartHonest TakenDownInOrder
PROPERTIES AwaitEnds MainEnds
CHECK_DEADLOCK FALSE
