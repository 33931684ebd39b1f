SPECIFICATION Spec
CONSTANTS
    d1 = d1
    d2 = d2
    e1 = e1
    e2 = e2
    Devices = {d1, d2}
    Paired = {d1}
    NoDevice = NoDevice
    Ecas = {e1, e2}
    ConditionEcas <- MCConditionEcas
    ActionEcas <- MCActionEcas
    AliveCycle <- MCAliveCycle
    SECOND = 2
    Messages <- MCMessages
    NoMessage = NoMessage
    MaxTime = 4
    MaxMessages = 2
    MaxErrors = 1
INVARIANTS TypeOK DisabledDeviceHasNoEca UnregisterAnswerIsTrue NeverTooEarly AnsweredInOrder
CHECK_DEADLOCK FALSE
