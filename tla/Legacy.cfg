SPECIFICATION MCSpec
CONSTANTS
    FINISH = FINISH
    NONE = NONE
    Behaviors <- MCBehaviors
    ConditionOf <- MCConditionOf
    PeriodOf <- MCPeriodOf
    ArgumentOf <- MCArgumentOf
    Infos <- MCInfos
    RealName <- MCRealName
    ThingValues <- MCThingValues
    ThingFunctions <- MCThingFunctions
    Text <- MCText
    Messages = {0, 1, 2}
    Threads = {1, 2}
    MaxCalls = 2
INVARIANTS PostfixMeansInfix LinkedAsWritten VerifiedStatementsRun
PROPERTIES StopEndsTheThread RunsTheScenario
CHECK_DEADLOCK FALSE
