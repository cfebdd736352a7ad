CONSTANTS
    Rules <- SomeRules
    MaxTime = 3
    MaxEdits = 2
    Events = {{"toggle", "dispatchfail"}, {"trigger"}, {"put", "patch", "delete"}, {"crash", "dispatchfail"}, {"patch", "unscheduled"}}
SPECIFICATION FairSpec
CHECK_DEADLOCK FALSE
INVARIANTS RunsAreCounted ExpiredIsDisabled
PROPERTIES NoOverlap DueIsHandled
