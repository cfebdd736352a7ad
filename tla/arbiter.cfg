CONSTANTS
    Requests = {"r1", "r2", "r3"}
    Key <- SharedKey
    NoKey = "none"
    MaxBatch = 2
    ChanCap = 2
    Scenarios <- WhatMayHappen
SPECIFICATION FairSpec
CHECK_DEADLOCK FALSE
INVARIANTS AnsweredIdIsUsable OneRowPerKey
PROPERTIES EveryRequestAnswered DoneReachesTable
