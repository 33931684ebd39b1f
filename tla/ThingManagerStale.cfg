SPECIFICATION Spec
CONSTANTS
    d1 = d1
    d2 = d2
    e1 = e1
    e2 = e2
    Devices = {d1, d2}
    Paired = {d1}
    NoDevice = NoDevice
    Ecas = {e1, e2}
    ConditionEcas <- MCConditionEcas
    ActionEcas <- MCActionEcas
    AliveCycle <- MCAliveCycle
    SECOND = 2
    Messages <- MCFewMessages
    NoMessage = NoMessage
    MaxTime = 5
    MaxMessages = 2
    MaxErrors = 0
PROPERTIES DisabledForSilence
CHECK_DEADLOCK FALSE
