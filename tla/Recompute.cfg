SPECIFICATION Spec
CONSTANTS
    MAX_ATTEMPTS = 2
    MaxFaults = 2
    Bucket = 2
    MaxTriggers = 2
    Times = {1, 2}
    Horizon = 3
    Leadtime = 2
    Demands = {0, 2}
    Deliveries = {0, 2}
    LostQtys = {0, 1, 3}
    Stocks = {0, 1}
INVARIANTS
    PendingIsArmed
    AlarmsAreRequested
    PlansAreAudited
    ViewIsCurrent
    SignalsFollowPlans
    PlansBalance
    PlansSuggestInTime
PROPERTY ImplementsDebounce
CHECK_DEADLOCK FALSE
