SPECIFICATION Spec
CONSTANTS
    d1 = d1
    d2 = d2
    s1 = s1
    e1 = e1
    e2 = e2
    e3 = e3
    a1 = a1
    a2 = a2
    a3 = a3
    u1 = u1
    u2 = u2
    Devices = {d1, d2}
    Paired = {d1, d2}
    NoDevice = NoDevice
    Ecas = {e1, e2, e3}
    ConditionEcas <- MCConditionEcas
    ActionEcas <- MCActionEcas
    Services = {s1}
    Users = {u1, u2}
    EveryUser = EveryUser
    Conditions <- MCConditions
    EcaOf <- MCEcaOf
    CondThing <- MCCondThing
    CondVariable <- MCCondVariable
    Expression <- MCExpression
    Variables = {"temp", "sky"}
    VariableType <- MCVariableType
    Values <- MCValues
    EcaOperator <- MCEcaOperator
    EcaUser <- MCEcaUser
    Actions = {a1, a2, a3}
    ActionEca <- MCActionEca
    Messages <- MCMessages
    NoMessage = NoMessage
    NoEca = NoEca
    Functions = {"f"}
    MaxMessages = 2
    MaxErrors = 1
    MaxDisables = 1
INVARIANTS TypeOK ActuatedOncePerMeeting RequestedWasUsable
CHECK_DEADLOCK FALSE
