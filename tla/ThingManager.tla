---------------------------- MODULE ThingManager ----------------------------
(***************************************************************************)
(* middleware/ThingManager.c over DBHandler.c: the thread that handles the  *)
(* devices' REGISTER, UNREGISTER, ALIVE and SEND_VARIABLE messages and the  *)
(* thread that disables the devices that went silent.  Both work on the     *)
(* same tables, one SQL statement at a time.                                *)
(***************************************************************************)
EXTENDS DBHandler, Integers, Sequences

CONSTANTS
    AliveCycle,     \* [Devices -> Nat]: things_product.alive_cycle, in ticks
    SECOND,         \* ticks in a second: updated_at is kept in whole seconds
    Messages,       \* the device messages that may arrive
    NoMessage,
    MaxTime,        \* bound on the clock
    MaxMessages,    \* bound on the messages handled
    MaxErrors       \* bound on the statements that fail

ASSUME ThingManagerAssumption ==
    /\ AliveCycle \in [Devices -> Nat]
    /\ SECOND \in Nat \ {0}
    /\ NoMessage \notin Messages
    /\ Messages \subseteq [category : {"REGISTER", "UNREGISTER", "ALIVE", "SEND_VARIABLE"},
                            device : Devices \cup {NoDevice},
                            apikey : {"right", "wrong", "none"},
                            pincode : Devices \cup {NoDevice, "none"}]
    /\ MaxTime \in Nat /\ MaxMessages \in Nat /\ MaxErrors \in Nat

(* A message: its topic's category and device, whether its api key is the   *)
(* vendor's, and the device whose pin code it carries: NoDevice for a pin   *)
(* code that is in no row, "none" when the payload has none.                *)
VARIABLES
    Now,            \* the clock, in ticks
    g_bExit,        \* set by CentralManager's signal handler
    pc,             \* where the "alive" and the "mqtt" thread are
    target,         \* the device each of them is disabling
    nArrayNum,      \* the alive thread's COUNT(*)
    aliveInfo,      \* the devices of pstThingAliveInfoArray still to be looked at
    llLatestTime,   \* their updated_at in that array
    llCurrTime,     \* the time the rows are compared with
    msg,            \* the message being handled
    result_save,    \* the code to be published
    recorded,       \* rows in things_variablehistory, by device
    nErrors,        \* statements that failed
    nMessages,      \* messages handled
    asked, replies, \* history: requests that call for an answer, answers
    heard,          \* history: when a device was last heard, to the tick
    snapAt          \* history: when the alive thread read its rows

vars == <<is_connected, updated_at, usable, Now, g_bExit, pc, target, nArrayNum, aliveInfo,
          llLatestTime, llCurrTime, msg, result_save, recorded, nErrors, nMessages, asked, replies, heard, snapAt>>

Threads == {"alive", "mqtt"}

Requests == {"REGISTER", "UNREGISTER"}

DisablePlaces == {DisableStatements[i] : i \in 1..3}

AlivePlaces == {"top", "wait", "count", "rows", "time", "check", "dead", "done"} \cup DisablePlaces

MqttPlaces == {"idle", "verify", "register_check", "register", "unregister_check",
               "alive_check", "alive", "variable_check", "variable_find", "variable",
               "publish"} \cup DisablePlaces

Results == {"NOERROR", "NO_DATA", "DUPLICATED", "INVALID_DATA", "DB_ERROR"}

\* What the alive thread and the MQTT thread own besides the tables.
aliveVars == <<nArrayNum, aliveInfo, llLatestTime, llCurrTime, snapAt>>
mqttVars == <<nMessages, msg, result_save, recorded, asked, replies, heard>>
worldVars == <<Now, g_bExit, nErrors>>

Goto(t, place) == pc' = [pc EXCEPT ![t] = place]

\* MySQL's now(): whole seconds.
WholeSeconds(t) == (t \div SECOND) * SECOND

Init ==
    /\ is_connected \in [Devices -> BOOLEAN]
    /\ updated_at = [d \in Devices |-> 0]
    /\ usable = [e \in Ecas |-> \A d \in Devices : e \in RelatedEcas(d) => is_connected[d]]
    /\ Now = 0
    /\ g_bExit = FALSE
    /\ pc = [t \in Threads |-> IF t = "alive" THEN "top" ELSE "idle"]
    /\ target = [t \in Threads |-> NoDevice]
    /\ nArrayNum = 0
    /\ aliveInfo = {}
    /\ llLatestTime = [d \in Devices |-> 0]
    /\ llCurrTime = 0
    /\ msg = NoMessage
    /\ result_save = "NOERROR"
    /\ recorded = [d \in Devices |-> 0]
    /\ nErrors = 0
    /\ nMessages = 0
    /\ asked = <<>>
    /\ replies = <<>>
    /\ heard = [d \in Devices |-> 0]
    /\ snapAt = 0

-----------------------------------------------------------------------------
(* The clock, the signal handler and the database server *)

Tick ==
    /\ Now < MaxTime
    /\ Now' = Now + 1
    /\ UNCHANGED <<tables, g_bExit, pc, target, aliveVars, mqttVars, nErrors>>

Exit ==
    /\ ~g_bExit
    /\ g_bExit' = TRUE
    /\ UNCHANGED <<tables, Now, pc, target, aliveVars, mqttVars, nErrors>>

\* The places where a thread runs a statement, which may fail: the server may
\* be away, and the two threads share one MYSQL handle without a lock.
StatementPlaces == (AlivePlaces \ {"top", "wait", "time", "check", "dead", "done"})
                     \cup (MqttPlaces \ {"idle"})

\* The alive thread ends, for good; a request is answered with an error, other
\* messages are dropped, and a failure inside PublishErrorCode loses the answer.
StatementFails(t) ==
    /\ pc[t] \in StatementPlaces
    /\ nErrors < MaxErrors
    /\ nErrors' = nErrors + 1
    /\ IF t = "alive"
       THEN Goto(t, "dead") /\ UNCHANGED <<msg, result_save>>
       ELSE IF msg.category \in Requests /\ pc[t] # "publish"
       THEN Goto(t, "publish") /\ result_save' = "DB_ERROR" /\ UNCHANGED msg
       ELSE Goto(t, "idle") /\ msg' = NoMessage /\ UNCHANGED result_save
    /\ target' = [target EXCEPT ![t] = NoDevice]
    /\ UNCHANGED <<tables, Now, g_bExit, aliveVars, nMessages, recorded, asked, replies, heard>>

\* DBHandler_DisableDeviceAndEca, run by either thread, statement by statement.
Disable(t) ==
    \E i \in 1..3 :
       /\ pc[t] = DisableStatements[i]
       /\ DisableStatement(DisableStatements[i], target[t])
       /\ IF i < 3
          THEN Goto(t, DisableStatements[i + 1]) /\ UNCHANGED <<target, result_save>>
          ELSE /\ Goto(t, IF t = "alive" THEN "check" ELSE "publish")
               /\ target' = [target EXCEPT ![t] = NoDevice]
               /\ result_save' = IF t = "alive" THEN result_save ELSE "NOERROR"
       /\ UNCHANGED <<worldVars, aliveVars, nMessages, msg, recorded, asked, replies, heard>>

-----------------------------------------------------------------------------
(* aliveHandlingThread *)

LoopTest ==
    /\ pc["alive"] = "top"
    /\ Goto("alive", IF g_bExit THEN "done" ELSE "wait")
    /\ UNCHANGED <<tables, worldVars, target, aliveVars, mqttVars>>

\* CAPThreadEvent_WaitTimeEvent: the period expires or the event is set.
WaitEnds ==
    /\ pc["alive"] = "wait"
    /\ Goto("alive", "count")
    /\ UNCHANGED <<tables, worldVars, target, aliveVars, mqttVars>>

\* DBHandler_MakeThingAliveInfoArray: COUNT(*), then the rows.
CountDevices ==
    /\ pc["alive"] = "count"
    /\ nArrayNum' = Cardinality(Connected)
    /\ Goto("alive", "rows")
    /\ UNCHANGED <<tables, worldVars, target, aliveInfo, llLatestTime, llCurrTime, snapAt, mqttVars>>

\* More rows than were counted: ERR_CAP_DB_ERROR, and the thread ends.  Fewer:
\* the rest of the array has no device id.
RetrieveRows ==
    LET rows == Connected \cap Paired IN
    /\ pc["alive"] = "rows"
    /\ IF Cardinality(rows) > nArrayNum
       THEN Goto("alive", "dead") /\ UNCHANGED <<aliveInfo, llLatestTime, snapAt>>
       ELSE /\ Goto("alive", "time")
            /\ aliveInfo' = rows \cup (IF Cardinality(rows) < nArrayNum THEN {NoDevice} ELSE {})
            /\ llLatestTime' = [d \in Devices |-> IF d \in rows THEN updated_at[d] ELSE 0]
            /\ snapAt' = Now
    /\ UNCHANGED <<tables, worldVars, target, nArrayNum, llCurrTime, mqttVars>>

ReadClock ==
    /\ pc["alive"] = "time"
    /\ llCurrTime' = Now
    /\ Goto("alive", "check")
    /\ UNCHANGED <<tables, worldVars, target, nArrayNum, aliveInfo, llLatestTime, snapAt, mqttVars>>

\* Mutant: no allowance for the network.
IsSilentNoAllowance(d) == d = NoDevice \/ llCurrTime - llLatestTime[d] > AliveCycle[d]

\* Mutant: the operands of the subtraction swapped.
IsSilentSwapped(d) == d = NoDevice \/ llLatestTime[d] - llCurrTime > AliveCycle[d] + SECOND

\* An entry without a device has a latest time and a cycle of zero.
IsSilent(d) == d = NoDevice \/ llCurrTime - llLatestTime[d] > AliveCycle[d] + SECOND

CheckDeviceAlive(d) ==
    /\ pc["alive"] = "check"
    /\ d \in aliveInfo
    /\ aliveInfo' = aliveInfo \ {d}
    /\ IF IsSilent(d)
       THEN /\ Goto("alive", DisableStatements[1])
            /\ target' = [target EXCEPT !["alive"] = d]
       ELSE UNCHANGED <<pc, target>>
    /\ UNCHANGED <<tables, worldVars, nArrayNum, llLatestTime, llCurrTime, snapAt, mqttVars>>

RoundEnds ==
    /\ pc["alive"] = "check"
    /\ aliveInfo = {}
    /\ Goto("alive", "top")
    /\ UNCHANGED <<tables, worldVars, target, aliveVars, mqttVars>>

AliveStep ==
    \/ LoopTest \/ WaitEnds \/ CountDevices \/ RetrieveRows \/ ReadClock
    \/ (\E d \in Devices \cup {NoDevice} : CheckDeviceAlive(d)) \/ RoundEnds
    \/ Disable("alive")

-----------------------------------------------------------------------------
(* handleDeviceMessage, called by the MQTT message handling thread *)

\* Leave handleDeviceMessage without publishing.
Done == Goto("mqtt", "idle") /\ msg' = NoMessage /\ UNCHANGED result_save

\* Leave a database function with a code that will be published.
Answer(code) == Goto("mqtt", "publish") /\ result_save' = code /\ UNCHANGED msg

Proceed(place) == Goto("mqtt", place) /\ UNCHANGED <<msg, result_save>>

\* A request is answered unless its payload lacks what the handler looks up.
CallsForAnswer(m) ==
    /\ m.category \in Requests
    /\ m.apikey # "none"
    /\ m.apikey = "right" /\ m.device \in Paired => m.pincode # "none"

\* A payload without an api key is given up before the first statement.
Receive(m) ==
    /\ pc["mqtt"] = "idle"
    /\ ~g_bExit
    /\ nMessages < MaxMessages
    /\ nMessages' = nMessages + 1
    /\ IF m.apikey = "none"
       THEN UNCHANGED <<pc, msg>>
       ELSE Goto("mqtt", "verify") /\ msg' = m
    /\ asked' = IF CallsForAnswer(m) THEN Append(asked, m) ELSE asked
    /\ UNCHANGED <<tables, worldVars, target, aliveVars, result_save, recorded, replies, heard>>

\* DBHandler_VerifyDeviceApiKey
KeyResult(m) ==
    IF m.device \notin Paired THEN "NO_DATA"
    ELSE IF m.apikey = "wrong" THEN "INVALID_DATA" ELSE "NOERROR"

\* Mutant: a request whose api key is refused is dropped like the others.
RefuseSilently == Done

\* What follows an api key error.
Refuse == IF msg.category \in Requests THEN Answer(KeyResult(msg)) ELSE Done

VerifyApiKey ==
    /\ pc["mqtt"] = "verify"
    /\ IF KeyResult(msg) # "NOERROR" THEN Refuse
       ELSE IF msg.category \in Requests /\ msg.pincode = "none" THEN Done
       ELSE Proceed(CASE msg.category = "REGISTER" -> "register_check"
                      [] msg.category = "UNREGISTER" -> "unregister_check"
                      [] msg.category = "ALIVE" -> "alive_check"
                      [] msg.category = "SEND_VARIABLE" -> "variable_check")
    /\ UNCHANGED <<tables, worldVars, target, aliveVars, nMessages, recorded, asked, replies, heard>>

\* DBHandler_RegisterDevice goes by the pin code, not by the device id.
CheckRegister ==
    /\ pc["mqtt"] = "register_check"
    /\ IF msg.pincode \notin Devices THEN Answer("NO_DATA")
       ELSE IF is_connected[msg.pincode] THEN Answer("DUPLICATED")
       ELSE Proceed("register")
    /\ UNCHANGED <<tables, worldVars, target, aliveVars, nMessages, recorded, asked, replies, heard>>

Register ==
    /\ pc["mqtt"] = "register"
    /\ is_connected' = [is_connected EXCEPT ![msg.pincode] = TRUE]
    /\ updated_at' = [updated_at EXCEPT ![msg.pincode] = WholeSeconds(Now)]
    /\ heard' = [heard EXCEPT ![msg.pincode] = Now]
    /\ Answer("NOERROR")
    /\ UNCHANGED <<usable, worldVars, target, aliveVars, nMessages, recorded, asked, replies>>

\* Mutant: the answer does not wait for the statements to run.
CheckUnregisterEarly ==
    /\ pc["mqtt"] = "unregister_check"
    /\ Answer(CheckDevice(msg.device))
    /\ UNCHANGED <<tables, worldVars, target, aliveVars, nMessages, recorded, asked, replies, heard>>

\* DBHandler_UnregisterDeviceAndEca
CheckUnregister ==
    /\ pc["mqtt"] = "unregister_check"
    /\ IF CheckDevice(msg.device) = "NOERROR"
       THEN /\ Proceed(DisableStatements[1])
            /\ target' = [target EXCEPT !["mqtt"] = msg.device]
       ELSE Answer(CheckDevice(msg.device)) /\ UNCHANGED target
    /\ UNCHANGED <<tables, worldVars, aliveVars, nMessages, recorded, asked, replies, heard>>

\* DBHandler_UpdateLatestTime and InsertDeviceVariableHistory begin alike.
CheckConnected(place, next) ==
    /\ pc["mqtt"] = place
    /\ IF CheckDevice(msg.device) = "NOERROR" THEN Proceed(next) ELSE Done
    /\ UNCHANGED <<tables, worldVars, target, aliveVars, nMessages, recorded, asked, replies, heard>>

UpdateLatestTime ==
    /\ pc["mqtt"] = "alive"
    /\ updated_at' = [updated_at EXCEPT ![msg.device] = WholeSeconds(Now)]
    /\ heard' = [heard EXCEPT ![msg.device] = Now]
    /\ Done
    /\ UNCHANGED <<is_connected, usable, worldVars, target, aliveVars, nMessages, recorded,
                   asked, replies>>

\* The variable, and the customer the device belongs to, exist or not.
FindVariable ==
    /\ pc["mqtt"] = "variable_find"
    /\ Proceed("variable") \/ Done
    /\ UNCHANGED <<tables, worldVars, target, aliveVars, nMessages, recorded, asked, replies, heard>>

InsertVariable ==
    /\ pc["mqtt"] = "variable"
    /\ recorded' = [recorded EXCEPT ![msg.device] = @ + 1]
    /\ Done
    /\ UNCHANGED <<tables, worldVars, target, aliveVars, nMessages, asked, replies, heard>>

ConviotErrors == {"ERR_CONVIOT_NOERROR", "ERR_CONVIOT_DUPLICATED",
                  "ERR_CONVIOT_INVALID_REQUEST", "ERR_CONVIOT_FAIL"}

\* Mutant: the internal code is published as it is.
ErrorCodeRaw(result) == result

\* The codes of ThingManager_PublishErrorCode.
ErrorCode(result) ==
    CASE result = "NOERROR" -> "ERR_CONVIOT_NOERROR"
      [] result = "DUPLICATED" -> "ERR_CONVIOT_DUPLICATED"
      [] result = "INVALID_DATA" -> "ERR_CONVIOT_INVALID_REQUEST"
      [] OTHER -> "ERR_CONVIOT_FAIL"

PublishErrorCode ==
    /\ pc["mqtt"] = "publish"
    /\ replies' = Append(replies, [to |-> msg, error |-> ErrorCode(result_save)])
    /\ Goto("mqtt", "idle")
    /\ msg' = NoMessage
    /\ result_save' = "NOERROR"
    /\ UNCHANGED <<tables, worldVars, target, aliveVars, nMessages, recorded, asked, heard>>

MqttStep ==
    \/ VerifyApiKey \/ CheckRegister \/ Register \/ CheckUnregister
    \/ CheckConnected("alive_check", "alive") \/ UpdateLatestTime
    \/ CheckConnected("variable_check", "variable_find") \/ FindVariable \/ InsertVariable
    \/ PublishErrorCode \/ Disable("mqtt")

-----------------------------------------------------------------------------
Next ==
    \/ Tick \/ Exit
    \/ \E t \in Threads : StatementFails(t)
    \/ AliveStep
    \/ \E m \in Messages : Receive(m)
    \/ MqttStep

Spec == Init /\ [][Next]_vars

\* Time passes, and both threads run; nobody has to send a message, to stop the
\* program or to make a statement fail.
FairSpec == Spec /\ WF_vars(Tick) /\ WF_vars(AliveStep) /\ WF_vars(MqttStep)

-----------------------------------------------------------------------------
(* Properties *)

TypeOK ==
    /\ is_connected \in [Devices -> BOOLEAN]
    /\ updated_at \in [Devices -> Nat]
    /\ usable \in [Ecas -> BOOLEAN]
    /\ Now \in Nat
    /\ g_bExit \in BOOLEAN
    /\ pc \in [Threads -> AlivePlaces \cup MqttPlaces]
    /\ pc["alive"] \in AlivePlaces /\ pc["mqtt"] \in MqttPlaces
    /\ target \in [Threads -> Devices \cup {NoDevice}]
    /\ nArrayNum \in Nat
    /\ aliveInfo \in SUBSET (Devices \cup {NoDevice})
    /\ llLatestTime \in [Devices -> Nat]
    /\ llCurrTime \in Nat
    /\ msg \in Messages \cup {NoMessage}
    /\ msg = NoMessage <=> pc["mqtt"] = "idle"
    /\ result_save \in Results
    /\ recorded \in [Devices -> Nat]
    /\ nErrors \in Nat
    /\ nMessages \in Nat
    /\ asked \in Seq(Messages)
    /\ replies \in Seq([to : Messages, error : ConviotErrors])
    /\ heard \in [Devices -> Nat]
    /\ snapAt \in Nat

NoUsableEca(d) == \A e \in RelatedEcas(d) : ~usable[e]

BeingDisabled(d) ==
    \E t \in Threads : target[t] = d /\ pc[t] \in {DisableStatements[2], DisableStatements[3]}

\* A device that is not connected has no usable ECA, neither through a condition
\* nor through an action, once whoever disconnected it is done: whatever the
\* alive thread and the MQTT thread do to the same device at the same time, and
\* as long as no statement fails half-way.
DisabledDeviceHasNoEca ==
    nErrors = 0 => \A d \in Devices : is_connected[d] \/ BeingDisabled(d) \/ NoUsableEca(d)

\* UNREGISTER is answered without an error only when the device is disconnected
\* and all its ECAs are removed, even if earlier statements failed.
UnregisterAnswerIsTrue ==
    pc["mqtt"] = "publish" /\ msg.category = "UNREGISTER" /\ result_save = "NOERROR"
       => ~is_connected[msg.device] /\ NoUsableEca(msg.device)

\* The alive thread never disables a device that was heard within its cycle
\* before the rows were read: the truncation of updated_at to whole seconds does
\* not use up more than the second added for the network.
NeverTooEarly ==
    LET d == target["alive"] IN
    pc["alive"] = DisableStatements[1] /\ d # NoDevice
       => heard[d] >= snapAt \/ llCurrTime - heard[d] > AliveCycle[d]

\* Every REGISTER and UNREGISTER that calls for an answer gets one, once, and in
\* the order of the requests, unless a statement fails.
AnsweredInOrder ==
    nErrors = 0 =>
       LET n == Len(replies) IN
       /\ Len(asked) = n + (IF pc["mqtt"] # "idle" /\ CallsForAnswer(msg) THEN 1 ELSE 0)
       /\ \A i \in 1..n : replies[i].to = asked[i]

Silent(d) == is_connected[d] /\ Now - updated_at[d] > AliveCycle[d] + SECOND

\* A connected device that stays silent is disabled, unless it is heard again,
\* the program is told to exit or the alive thread ended on an error.
SilentIsDisabled ==
    \A d \in Paired : Silent(d) ~> ~Silent(d) \/ g_bExit \/ pc["alive"] = "dead"

\* Violated: what the log says of a disabled device, "has disabled %s and removed
\* related ECAs for not receiving alive message".  At the moment the device is
\* disconnected it may have been heard, or registered, after the rows were read.
DisabledForSilence ==
    [][\A d \in Devices :
          is_connected[d] /\ ~is_connected'[d] /\ target["alive"] = d /\ pc'["alive"] # pc["alive"]
             => Silent(d)]_vars

=============================================================================
