------------------------- MODULE ThingManager_proofs -------------------------
(***************************************************************************)
(* Theorems about ThingManager, for any tables, messages, cycles and bounds. *)
(***************************************************************************)
EXTENDS ThingManager, FiniteSetTheorems, SequenceTheorems, TLAPS

LEMMA WholeSecondsType == \A t \in Nat : WholeSeconds(t) \in Nat
BY ThingManagerAssumption DEF WholeSeconds

LEMMA CardinalityIsNat == \A S \in SUBSET Devices : Cardinality(S) \in Nat
BY TablesAssumption, FS_Subset, FS_CardinalityType

LEMMA PlacesAre ==
    /\ DisablePlaces = {"disable_device", "disable_condition_ecas", "disable_action_ecas"}
    /\ AlivePlaces = {"top", "wait", "count", "rows", "time", "check", "dead", "done",
                      "disable_device", "disable_condition_ecas", "disable_action_ecas"}
    /\ MqttPlaces = {"idle", "verify", "register_check", "register", "unregister_check",
                     "alive_check", "alive", "variable_check", "variable_find", "variable", "publish",
                     "disable_device", "disable_condition_ecas", "disable_action_ecas"}
<1>1. DisablePlaces = {"disable_device", "disable_condition_ecas", "disable_action_ecas"}
  BY DEF DisablePlaces, DisableStatements
<1> QED
  BY <1>1 DEF AlivePlaces, MqttPlaces

(* Where the threads are. *)
PcType ==
    /\ pc \in [Threads -> AlivePlaces \cup MqttPlaces]
    /\ pc["alive"] \in AlivePlaces /\ pc["mqtt"] \in MqttPlaces

LEMMA GotoAlive ==
    ASSUME PcType, NEW place \in AlivePlaces, Goto("alive", place)
    PROVE  PcType' /\ pc'["alive"] = place /\ pc'["mqtt"] = pc["mqtt"]
BY DEF PcType, Goto, Threads

LEMMA GotoMqtt ==
    ASSUME PcType, NEW place \in MqttPlaces, Goto("mqtt", place)
    PROVE  PcType' /\ pc'["mqtt"] = place /\ pc'["alive"] = pc["alive"]
BY DEF PcType, Goto, Threads

LEMMA PcStays == ASSUME PcType, UNCHANGED pc PROVE PcType'
BY DEF PcType

(* The rest of the type invariant. *)
TablesType ==
    /\ is_connected \in [Devices -> BOOLEAN]
    /\ updated_at \in [Devices -> Nat]
    /\ usable \in [Ecas -> BOOLEAN]

AliveType ==
    /\ nArrayNum \in Nat
    /\ aliveInfo \in SUBSET (Devices \cup {NoDevice})
    /\ llLatestTime \in [Devices -> Nat]
    /\ llCurrTime \in Nat
    /\ snapAt \in Nat

MsgType ==
    /\ msg \in Messages \cup {NoMessage}
    /\ msg = NoMessage <=> pc["mqtt"] = "idle"
    /\ result_save \in Results

HistoryType ==
    /\ recorded \in [Devices -> Nat]
    /\ nMessages \in Nat
    /\ asked \in Seq(Messages)
    /\ replies \in Seq([to : Messages, error : ConviotErrors])
    /\ heard \in [Devices -> Nat]

WorldType ==
    /\ Now \in Nat
    /\ g_bExit \in BOOLEAN
    /\ nErrors \in Nat
    /\ target \in [Threads -> Devices \cup {NoDevice}]

TypeInv == PcType /\ TablesType /\ AliveType /\ MsgType /\ HistoryType /\ WorldType

LEMMA TypeParts == TypeOK <=> TypeInv
BY DEF TypeOK, TypeInv, PcType, TablesType, AliveType, MsgType, HistoryType, WorldType

(* The three steps of DBHandler_DisableDeviceAndEca, one after the other. *)
FirstStatement(t) ==
    /\ pc[t] = "disable_device"
    /\ is_connected' = [x \in Devices |-> is_connected[x] /\ x # target[t]]
    /\ UNCHANGED <<updated_at, usable, target, result_save>>
    /\ Goto(t, "disable_condition_ecas")

SecondStatement(t) ==
    /\ pc[t] = "disable_condition_ecas"
    /\ usable' = [e \in Ecas |-> usable[e] /\ ~(target[t] \in Devices /\ e \in ConditionEcas[target[t]])]
    /\ UNCHANGED <<is_connected, updated_at, target, result_save>>
    /\ Goto(t, "disable_action_ecas")

ThirdStatement(t) ==
    /\ pc[t] = "disable_action_ecas"
    /\ usable' = [e \in Ecas |-> usable[e] /\ ~(target[t] \in Devices /\ e \in ActionEcas[target[t]])]
    /\ UNCHANGED <<is_connected, updated_at>>
    /\ Goto(t, IF t = "alive" THEN "check" ELSE "publish")
    /\ target' = [target EXCEPT ![t] = NoDevice]
    /\ result_save' = IF t = "alive" THEN result_save ELSE "NOERROR"

DisableLeaves == UNCHANGED <<worldVars, aliveVars, nMessages, msg, recorded, asked, replies, heard>>

LEMMA DisableIs ==
    ASSUME NEW t \in Threads, Disable(t)
    PROVE  DisableLeaves /\ (FirstStatement(t) \/ SecondStatement(t) \/ ThirdStatement(t))
<1>1. PICK i \in 1..3 :
         /\ pc[t] = DisableStatements[i]
         /\ DisableStatement(DisableStatements[i], target[t])
         /\ IF i < 3
            THEN Goto(t, DisableStatements[i + 1]) /\ UNCHANGED <<target, result_save>>
            ELSE /\ Goto(t, IF t = "alive" THEN "check" ELSE "publish")
                 /\ target' = [target EXCEPT ![t] = NoDevice]
                 /\ result_save' = IF t = "alive" THEN result_save ELSE "NOERROR"
         /\ DisableLeaves
  BY DEF Disable, DisableLeaves
<1>2. CASE i = 1
  BY <1>1, <1>2 DEF DisableStatements, DisableStatement, DisconnectDevice, FirstStatement
<1>3. CASE i = 2
  BY <1>1, <1>3 DEF DisableStatements, DisableStatement, RemoveEcas, SecondStatement
<1>4. CASE i = 3
  BY <1>1, <1>4 DEF DisableStatements, DisableStatement, RemoveEcas, ThirdStatement
<1> QED
  BY <1>1, <1>2, <1>3, <1>4

-----------------------------------------------------------------------------
LEMMA TypeStep == TypeInv /\ [Next]_vars => TypeInv'
<1> SUFFICES ASSUME TypeInv, [Next]_vars PROVE TypeInv'
  OBVIOUS
<1> USE TablesAssumption, ThingManagerAssumption, PlacesAre, GotoAlive, GotoMqtt, PcStays
<1> USE DEF TypeInv, TablesType, AliveType, MsgType, HistoryType, WorldType, Results,
            tables, worldVars, aliveVars, mqttVars
<1>1. ASSUME Tick PROVE TypeInv'
  BY <1>1 DEF Tick
<1>2. ASSUME Exit PROVE TypeInv'
  BY <1>2 DEF Exit
<1>3. ASSUME NEW t \in Threads, StatementFails(t) PROVE TypeInv'
  <2>1. CASE t = "alive"
    BY <1>3, <2>1 DEF StatementFails, StatementPlaces
  <2>2. CASE t = "mqtt"
    BY <1>3, <2>2 DEF StatementFails, StatementPlaces
  <2> QED
    BY <2>1, <2>2 DEF Threads
<1>4. ASSUME NEW t \in Threads, Disable(t) PROVE TypeInv'
  <2>1. DisableLeaves /\ (FirstStatement(t) \/ SecondStatement(t) \/ ThirdStatement(t))
    BY <1>4, DisableIs
  <2>2. CASE t = "alive"
    BY <2>1, <2>2 DEF FirstStatement, SecondStatement, ThirdStatement, DisableLeaves
  <2>3. CASE t = "mqtt"
    BY <2>1, <2>3 DEF FirstStatement, SecondStatement, ThirdStatement, DisableLeaves
  <2> QED
    BY <2>2, <2>3 DEF Threads
<1>5. ASSUME LoopTest \/ WaitEnds PROVE TypeInv'
  BY <1>5 DEF LoopTest, WaitEnds
<1>6. ASSUME CountDevices PROVE TypeInv'
  BY <1>6, CardinalityIsNat DEF CountDevices, Connected
<1>7. ASSUME RetrieveRows PROVE TypeInv'
  <2>1. PcType' /\ pc'["mqtt"] = pc["mqtt"]
    BY <1>7 DEF RetrieveRows
  <2> DEFINE rows == Connected \cap Paired
  <2>2. /\ rows \in SUBSET Devices
        /\ [d \in Devices |-> IF d \in rows THEN updated_at[d] ELSE 0] \in [Devices -> Nat]
    BY DEF Connected
  <2> HIDE DEF rows
  <2>3. CASE Cardinality(rows) > nArrayNum
    BY <1>7, <2>1, <2>2, <2>3 DEF RetrieveRows, rows
  <2>4. CASE ~(Cardinality(rows) > nArrayNum)
    <3>1. /\ aliveInfo' = rows \cup (IF Cardinality(rows) < nArrayNum THEN {NoDevice} ELSE {})
          /\ llLatestTime' = [d \in Devices |-> IF d \in rows THEN updated_at[d] ELSE 0]
          /\ snapAt' = Now
      BY <1>7, <2>4 DEF RetrieveRows, rows
    <3>2. aliveInfo' \in SUBSET (Devices \cup {NoDevice})
      BY <2>2, <3>1
    <3> QED
      BY <1>7, <2>1, <2>2, <3>1, <3>2 DEF RetrieveRows
  <2> QED
    BY <2>3, <2>4
<1>8. ASSUME ReadClock PROVE TypeInv'
  BY <1>8 DEF ReadClock
<1>9. ASSUME NEW d \in Devices \cup {NoDevice}, CheckDeviceAlive(d) PROVE TypeInv'
  BY <1>9 DEF CheckDeviceAlive, DisableStatements
<1>10. ASSUME RoundEnds PROVE TypeInv'
  BY <1>10 DEF RoundEnds
<1>11. ASSUME NEW m \in Messages, Receive(m) PROVE TypeInv'
  BY <1>11, AppendProperties DEF Receive
<1>12. ASSUME VerifyApiKey PROVE TypeInv'
  BY <1>12 DEF VerifyApiKey, Refuse, KeyResult, Done, Answer, Proceed, Requests
<1>13. ASSUME CheckRegister PROVE TypeInv'
  BY <1>13 DEF CheckRegister, Answer, Proceed
<1>14. ASSUME Register PROVE TypeInv'
  BY <1>14, WholeSecondsType DEF Register, Answer
<1>15. ASSUME CheckUnregister PROVE TypeInv'
  BY <1>15 DEF CheckUnregister, CheckDevice, Answer, Proceed, DisableStatements
<1>16. ASSUME CheckConnected("alive_check", "alive") \/ CheckConnected("variable_check", "variable_find")
       PROVE  TypeInv'
  BY <1>16 DEF CheckConnected, Done, Proceed
<1>17. ASSUME UpdateLatestTime PROVE TypeInv'
  BY <1>17, WholeSecondsType DEF UpdateLatestTime, Done
<1>18. ASSUME FindVariable \/ InsertVariable PROVE TypeInv'
  <2>1. CASE FindVariable /\ Proceed("variable")
    BY <2>1 DEF FindVariable, Proceed
  <2>2. CASE FindVariable /\ Done
    BY <2>2 DEF FindVariable, Done
  <2>3. CASE InsertVariable
    <3>1. \A r \in [Devices -> Nat] : \A x : [r EXCEPT ![x] = @ + 1] \in [Devices -> Nat]
      <4> SUFFICES ASSUME NEW r \in [Devices -> Nat], NEW x, NEW d \in Devices
                   PROVE  [r EXCEPT ![x] = r[x] + 1][d] \in Nat
        OBVIOUS
      <4> QED
        BY r[d] \in Nat
    <3>2. recorded' = [recorded EXCEPT ![msg.device] = @ + 1]
      BY <2>3 DEF InsertVariable
    <3>3. recorded' \in [Devices -> Nat]
      BY <3>1, <3>2
    <3> QED
      BY <2>3, <3>3 DEF InsertVariable, Done
  <2> QED
    BY <1>18, <2>1, <2>2, <2>3 DEF FindVariable
<1>19. ASSUME PublishErrorCode PROVE TypeInv'
  <2>1. [to |-> msg, error |-> ErrorCode(result_save)] \in [to : Messages, error : ConviotErrors]
    BY <1>19 DEF PublishErrorCode, ErrorCode, ConviotErrors
  <2> QED
    BY <1>19, <2>1, AppendProperties DEF PublishErrorCode
<1>20. ASSUME UNCHANGED vars PROVE TypeInv'
  BY <1>20 DEF vars
<1> HIDE DEF TypeInv, TablesType, AliveType, MsgType, HistoryType, WorldType, Results,
            tables, worldVars, aliveVars, mqttVars
<1> QED
  BY <1>1, <1>2, <1>3, <1>4, <1>5, <1>6, <1>7, <1>8, <1>9, <1>10, <1>11, <1>12, <1>13, <1>14, <1>15,
     <1>16, <1>17, <1>18, <1>19, <1>20
     DEF Next, AliveStep, MqttStep, Threads

LEMMA InitType == Init => TypeInv
<1> SUFFICES ASSUME Init PROVE TypeInv
  OBVIOUS
<1>1. PcType
  BY PlacesAre DEF Init, PcType, Threads
<1>2. TablesType /\ AliveType /\ WorldType
  BY TablesAssumption DEF Init, TablesType, AliveType, WorldType, Threads
<1>3. MsgType /\ HistoryType
  BY EmptySeq DEF Init, MsgType, HistoryType, Results, Threads
<1> QED
  BY <1>1, <1>2, <1>3 DEF TypeInv

(* Type correctness of the thing manager: the message being handled is there  *)
(* exactly while the MQTT thread is inside handleDeviceMessage, and every code *)
(* that is published is one of the codes devices know.                         *)
THEOREM TypeCorrect == Spec => []TypeOK
<1>1. TypeInv => TypeOK
  BY TypeParts
<1> QED
  BY InitType, <1>1, TypeStep, PTL DEF Spec

-----------------------------------------------------------------------------
(* While the MQTT thread disables a device it does so for an UNREGISTER of   *)
(* that device; once a statement has run, what it wrote stays true.  ECAs are *)
(* never made usable again and only REGISTER, handled by the same thread,     *)
(* connects a device.                                                         *)
MqttDisables ==
    /\ pc["mqtt"] \in DisablePlaces
         => msg.category = "UNREGISTER" /\ msg.device \in Devices /\ target["mqtt"] = msg.device
    /\ pc["mqtt"] \in {"register_check", "register"} => msg.category = "REGISTER"
    /\ pc["mqtt"] = "unregister_check" => msg.category = "UNREGISTER"
    /\ pc["mqtt"] = "publish" /\ msg.category = "UNREGISTER" /\ result_save = "NOERROR" => msg.device \in Devices
    /\ pc["mqtt"] \in {"disable_condition_ecas", "disable_action_ecas"} => ~is_connected[msg.device]

ConditionsGone ==
    \A t \in Threads : \A e \in Ecas :
       pc[t] = "disable_action_ecas" /\ target[t] \in Devices /\ e \in ConditionEcas[target[t]] => ~usable[e]

UnregisterInv == TypeInv /\ MqttDisables /\ ConditionsGone /\ UnregisterAnswerIsTrue

(* What the alive thread, the clock and the signal handler never do. *)
AliveSide == Tick \/ Exit \/ StatementFails("alive") \/ AliveStep \/ UNCHANGED vars

OnlyDisables ==
    /\ \A d \in Devices : is_connected'[d] => is_connected[d]
    /\ \A e \in Ecas : usable'[e] => usable[e]

LEMMA NextIs ==
    [Next]_vars <=> AliveSide \/ StatementFails("mqtt") \/ (\E m \in Messages : Receive(m)) \/ MqttStep
BY DEF Next, AliveSide, Threads

LEMMA AliveSideLeaves ==
    ASSUME TypeInv, AliveSide
    PROVE  /\ pc'["mqtt"] = pc["mqtt"] /\ target'["mqtt"] = target["mqtt"]
           /\ UNCHANGED <<msg, result_save>>
           /\ OnlyDisables
           /\ pc'["alive"] = "disable_action_ecas" /\ pc["alive"] # "disable_action_ecas"
                => SecondStatement("alive")
           /\ pc'["alive"] = "disable_action_ecas" => target'["alive"] = target["alive"]
<1> USE PlacesAre, GotoAlive, PcStays
<1> USE DEF TypeInv, TablesType, WorldType, OnlyDisables, tables, worldVars, aliveVars, mqttVars, Threads
<1>1. CASE Tick \/ Exit
  BY <1>1 DEF Tick, Exit
<1>2. CASE StatementFails("alive")
  BY <1>2 DEF StatementFails
<1>3. CASE Disable("alive")
  <2>1. DisableLeaves /\ (FirstStatement("alive") \/ SecondStatement("alive") \/ ThirdStatement("alive"))
    BY <1>3, DisableIs
  <2> QED
    BY <2>1 DEF FirstStatement, SecondStatement, ThirdStatement, DisableLeaves
<1>4. CASE LoopTest \/ WaitEnds \/ ReadClock \/ RoundEnds \/ CountDevices
  BY <1>4 DEF LoopTest, WaitEnds, ReadClock, RoundEnds, CountDevices
<1>5. CASE RetrieveRows
  BY <1>5 DEF RetrieveRows
<1>6. CASE \E d \in Devices \cup {NoDevice} : CheckDeviceAlive(d)
  BY <1>6 DEF CheckDeviceAlive, DisableStatements
<1>7. CASE UNCHANGED vars
  BY <1>7 DEF vars
<1> QED
  BY <1>1, <1>2, <1>3, <1>4, <1>5, <1>6, <1>7 DEF AliveSide, AliveStep

LEMMA UnregisterStep ==
    UnregisterInv /\ [Next]_vars => (MqttDisables /\ ConditionsGone /\ UnregisterAnswerIsTrue)'
<1> SUFFICES ASSUME UnregisterInv, [Next]_vars
             PROVE  (MqttDisables /\ ConditionsGone /\ UnregisterAnswerIsTrue)'
  OBVIOUS
<1> DEFINE Goal == MqttDisables /\ ConditionsGone /\ UnregisterAnswerIsTrue
<1>0. TypeInv'
  BY TypeStep DEF UnregisterInv
<1> USE TablesAssumption, ThingManagerAssumption, PlacesAre, GotoMqtt, PcStays
<1> USE DEF UnregisterInv, MqttDisables, ConditionsGone, UnregisterAnswerIsTrue, NoUsableEca, RelatedEcas,
            TypeInv, TablesType, MsgType, WorldType, Threads, tables, worldVars, aliveVars, mqttVars
<1>1. CASE AliveSide
  <2>1. MqttDisables'
    BY <1>0, <1>1, AliveSideLeaves DEF OnlyDisables
  <2>2. UnregisterAnswerIsTrue'
    <3> SUFFICES ASSUME (pc["mqtt"] = "publish" /\ msg.category = "UNREGISTER" /\ result_save = "NOERROR")'
                 PROVE  ~is_connected'[msg.device] /\ \A e \in RelatedEcas(msg.device) : ~usable'[e]
      BY <1>1, AliveSideLeaves
    <3>1. ~is_connected[msg.device] /\ NoUsableEca(msg.device) /\ msg.device \in Devices
      BY <1>1, AliveSideLeaves
    <3>2. RelatedEcas(msg.device) \subseteq Ecas
      BY <3>1
    <3> QED
      BY <1>1, <3>1, <3>2, AliveSideLeaves DEF OnlyDisables
  <2>3. ConditionsGone'
    BY <1>0, <1>1, AliveSideLeaves DEF OnlyDisables, SecondStatement
  <2> QED
    BY <2>1, <2>2, <2>3
<1>2. CASE StatementFails("mqtt")
  BY <1>2 DEF StatementFails, StatementPlaces
<1>3. CASE Disable("mqtt")
  <2>1. DisableLeaves /\ (FirstStatement("mqtt") \/ SecondStatement("mqtt") \/ ThirdStatement("mqtt"))
    BY <1>3, DisableIs
  <2>2. CASE FirstStatement("mqtt")
    BY <2>1, <2>2 DEF FirstStatement, DisableLeaves
  <2>3. CASE SecondStatement("mqtt")
    BY <2>1, <2>3 DEF SecondStatement, DisableLeaves
  <2>4. CASE ThirdStatement("mqtt")
    BY <2>1, <2>4 DEF ThirdStatement, DisableLeaves
  <2> QED
    BY <2>1, <2>2, <2>3, <2>4
<1>4. ASSUME NEW m \in Messages, Receive(m) PROVE Goal'
  BY <1>4 DEF Receive
<1>5. CASE VerifyApiKey
  BY <1>5 DEF VerifyApiKey, Refuse, KeyResult, Done, Answer, Proceed, Requests
<1>6. CASE CheckRegister
  BY <1>6 DEF CheckRegister, Answer, Proceed
<1>7. CASE Register
  BY <1>7 DEF Register, Answer
<1>8. CASE CheckUnregister
  <2>1. CASE CheckDevice(msg.device) = "NOERROR"
    BY <1>8, <2>1 DEF CheckUnregister, CheckDevice, Proceed, DisableStatements
  <2>2. CASE CheckDevice(msg.device) # "NOERROR"
    BY <1>8, <2>2 DEF CheckUnregister, CheckDevice, Answer
  <2> QED
    BY <2>1, <2>2
<1>9. CASE CheckConnected("alive_check", "alive") \/ CheckConnected("variable_check", "variable_find")
  BY <1>9 DEF CheckConnected, Done, Proceed
<1>10. CASE UpdateLatestTime
  BY <1>10 DEF UpdateLatestTime, Done
<1>11. CASE FindVariable \/ InsertVariable
  BY <1>11 DEF FindVariable, InsertVariable, Done, Proceed
<1>12. CASE PublishErrorCode
  BY <1>12 DEF PublishErrorCode
<1> HIDE DEF UnregisterInv, MqttDisables, ConditionsGone, UnregisterAnswerIsTrue
<1> QED
  BY <1>1, <1>2, <1>3, <1>4, <1>5, <1>6, <1>7, <1>8, <1>9, <1>10, <1>11, <1>12, NextIs
     DEF MqttStep

LEMMA UnregisterHolds == Spec => []UnregisterInv
<1>1. Init => UnregisterInv
  <2> SUFFICES ASSUME Init PROVE UnregisterInv
    OBVIOUS
  <2>1. TypeInv
    BY InitType
  <2> QED
    BY <2>1, PlacesAre
       DEF Init, UnregisterInv, MqttDisables, ConditionsGone, UnregisterAnswerIsTrue, Threads
<1>2. UnregisterInv /\ [Next]_vars => UnregisterInv'
  BY TypeStep, UnregisterStep DEF UnregisterInv
<1> QED
  BY <1>1, <1>2, PTL DEF Spec

(* An UNREGISTER is answered without an error only when the device is          *)
(* disconnected and none of its ECAs is usable, whatever the alive thread does *)
(* and whichever statements failed before.                                     *)
THEOREM UnregisterIsTrue == Spec => []UnregisterAnswerIsTrue
<1>1. UnregisterInv => UnregisterAnswerIsTrue
  BY DEF UnregisterInv
<1> QED
  BY <1>1, UnregisterHolds, PTL

-----------------------------------------------------------------------------
(* Steps that neither write the tables nor move a thread that is disabling. *)
Harmless ==
    /\ UNCHANGED <<is_connected, usable>>
    /\ \A t \in Threads : pc[t] \in {"disable_condition_ecas", "disable_action_ecas"}
                            => pc'[t] = pc[t] /\ target'[t] = target[t]

LEMMA VerifyGoes ==
    ASSUME TypeInv, VerifyApiKey
    PROVE  \E place \in MqttPlaces : Goto("mqtt", place)
<1> USE PlacesAre
<1>1. CASE KeyResult(msg) # "NOERROR"
  BY <1>1 DEF VerifyApiKey, Refuse, Done, Answer
<1>2. CASE KeyResult(msg) = "NOERROR" /\ msg.category \in Requests /\ msg.pincode = "none"
  BY <1>2 DEF VerifyApiKey, Done
<1>3. CASE KeyResult(msg) = "NOERROR" /\ ~(msg.category \in Requests /\ msg.pincode = "none")
  <2>1. msg \in Messages
    BY DEF VerifyApiKey, TypeInv, MsgType
  <2>2. msg.category \in {"REGISTER", "UNREGISTER", "ALIVE", "SEND_VARIABLE"}
    BY <2>1, ThingManagerAssumption
  <2> QED
    BY <1>3, <2>2 DEF VerifyApiKey, Proceed
<1> QED
  BY <1>1, <1>2, <1>3

LEMMA HarmlessSteps ==
    ASSUME TypeInv, [Next]_vars
    PROVE  \/ Harmless \/ Register \/ \E t \in Threads : StatementFails(t) \/ Disable(t)
<1> USE PlacesAre, GotoAlive, GotoMqtt, PcStays
<1> USE DEF TypeInv, WorldType, Harmless, tables, worldVars, aliveVars, mqttVars, Threads
<1>1. CASE Tick \/ Exit \/ UNCHANGED vars
  BY <1>1 DEF Tick, Exit, vars
<1>2. CASE LoopTest \/ WaitEnds \/ ReadClock \/ RoundEnds \/ CountDevices
  BY <1>2 DEF LoopTest, WaitEnds, ReadClock, RoundEnds, CountDevices
<1>3. CASE RetrieveRows
  BY <1>3 DEF RetrieveRows
<1>4. CASE \E d \in Devices \cup {NoDevice} : CheckDeviceAlive(d)
  BY <1>4 DEF CheckDeviceAlive, DisableStatements
<1>5. ASSUME NEW m \in Messages, Receive(m) PROVE Harmless
  BY <1>5 DEF Receive
<1>6. CASE VerifyApiKey
  <2>1. \E place \in MqttPlaces : Goto("mqtt", place)
    BY <1>6, VerifyGoes
  <2> QED
    BY <1>6, <2>1 DEF VerifyApiKey
<1>7. CASE CheckRegister
  BY <1>7 DEF CheckRegister, Answer, Proceed
<1>8. CASE CheckUnregister
  <2>1. \E place \in MqttPlaces : Goto("mqtt", place)
    BY <1>8 DEF CheckUnregister, Answer, Proceed, DisableStatements
  <2>2. target'["alive"] = target["alive"]
    BY <1>8 DEF CheckUnregister
  <2> QED
    BY <1>8, <2>1, <2>2 DEF CheckUnregister
<1>9. CASE CheckConnected("alive_check", "alive") \/ CheckConnected("variable_check", "variable_find")
  BY <1>9 DEF CheckConnected, Done, Proceed
<1>10. CASE UpdateLatestTime \/ FindVariable \/ InsertVariable \/ PublishErrorCode
  BY <1>10 DEF UpdateLatestTime, FindVariable, InsertVariable, PublishErrorCode, Done, Proceed
<1> QED
  BY <1>1, <1>2, <1>3, <1>4, <1>5, <1>6, <1>7, <1>8, <1>9, <1>10 DEF Next, AliveStep, MqttStep

LEMMA ErrorsOnlyGrow == ASSUME TypeInv, [Next]_vars PROVE nErrors' = nErrors \/ nErrors' = nErrors + 1
BY DEF Next, AliveStep, MqttStep, Tick, Exit, StatementFails, Disable, LoopTest, WaitEnds, CountDevices,
       RetrieveRows, ReadClock, CheckDeviceAlive, RoundEnds, Receive, VerifyApiKey, CheckRegister,
       Register, CheckUnregister, CheckConnected, UpdateLatestTime, FindVariable, InsertVariable,
       PublishErrorCode, worldVars, vars

LEMMA DisabledStep ==
    UnregisterInv /\ DisabledDeviceHasNoEca /\ [Next]_vars => DisabledDeviceHasNoEca'
<1> SUFFICES ASSUME UnregisterInv, DisabledDeviceHasNoEca, [Next]_vars, nErrors' = 0, NEW d \in Devices
             PROVE  (is_connected[d] \/ BeingDisabled(d) \/ NoUsableEca(d))'
  BY DEF DisabledDeviceHasNoEca
<1>1. TypeInv /\ ConditionsGone
  BY DEF UnregisterInv
<1>2. nErrors = 0 /\ nErrors' = nErrors
  BY <1>1, ErrorsOnlyGrow DEF TypeInv, WorldType
<1>3. is_connected[d] \/ BeingDisabled(d) \/ NoUsableEca(d)
  BY <1>2 DEF DisabledDeviceHasNoEca
<1> USE PlacesAre, GotoAlive, GotoMqtt, PcStays, TablesAssumption
<1> USE DEF TypeInv, TablesType, WorldType, PcType, BeingDisabled, NoUsableEca, RelatedEcas, DisableStatements, Threads
<1>4. CASE Harmless
  BY <1>3, <1>4 DEF Harmless
<1>5. CASE Register
  BY <1>1, <1>3, <1>5 DEF Register, Answer
<1>6. ASSUME NEW t \in Threads, StatementFails(t) PROVE FALSE
  BY <1>1, <1>2, <1>6 DEF StatementFails
<1>7. ASSUME NEW t \in Threads, Disable(t)
      PROVE  (is_connected[d] \/ BeingDisabled(d) \/ NoUsableEca(d))'
  <2>1. DisableLeaves /\ (FirstStatement(t) \/ SecondStatement(t) \/ ThirdStatement(t))
    BY <1>7, DisableIs
  <2>2. CASE FirstStatement(t)
    BY <1>1, <1>3, <2>2 DEF FirstStatement, Goto
  <2>3. CASE SecondStatement(t)
    BY <1>1, <1>3, <2>3 DEF SecondStatement, Goto
  <2>4. CASE ThirdStatement(t) /\ target[t] = d
    BY <1>1, <1>3, <2>4 DEF ThirdStatement, ConditionsGone
  <2>5. CASE ThirdStatement(t) /\ target[t] # d
    BY <1>1, <1>3, <2>5 DEF ThirdStatement, Goto
  <2> QED
    BY <2>1, <2>2, <2>3, <2>4, <2>5
<1> QED
  BY <1>1, <1>4, <1>5, <1>6, <1>7, HarmlessSteps

(* As long as no statement fails, a device that is not connected has no usable *)
(* ECA, unless one of the threads is between the statements that disable it.   *)
THEOREM DisabledHasNoEca == Spec => []DisabledDeviceHasNoEca
<1>1. Init => DisabledDeviceHasNoEca
  BY TablesAssumption DEF Init, DisabledDeviceHasNoEca, NoUsableEca, RelatedEcas
<1> QED
  BY <1>1, UnregisterHolds, DisabledStep, PTL DEF Spec

-----------------------------------------------------------------------------
LEMMA WholeSecondsBounds ==
    \A t \in Nat : WholeSeconds(t) <= t /\ t < WholeSeconds(t) + SECOND
<1> SUFFICES ASSUME NEW t \in Nat PROVE WholeSeconds(t) <= t /\ t < WholeSeconds(t) + SECOND
  OBVIOUS
<1> DEFINE q == t \div SECOND
<1>1. SECOND \in Nat \ {0}
  BY ThingManagerAssumption
<1>2. q \in Nat /\ t % SECOND \in 0..(SECOND - 1) /\ t = SECOND * q + (t % SECOND)
  BY <1>1
<1> QED
  BY <1>1, <1>2 DEF WholeSeconds

(* updated_at is when the device was last heard, in whole seconds; what the   *)
(* alive thread read of it is still so unless the device was heard since.     *)
SnapshotInv ==
    /\ snapAt <= Now
    /\ \A d \in Devices : updated_at[d] = WholeSeconds(heard[d]) /\ heard[d] <= Now
    /\ \A d \in Devices :
          d \in aliveInfo \/ (pc["alive"] = "disable_device" /\ target["alive"] = d)
            => heard[d] >= snapAt \/ llLatestTime[d] = WholeSeconds(heard[d])
    /\ pc["alive"] = "disable_device" /\ target["alive"] # NoDevice
         => llCurrTime - llLatestTime[target["alive"]] > AliveCycle[target["alive"]] + SECOND

(* Steps that hear no device and neither read the rows nor judge one. *)
Unheard ==
    /\ UNCHANGED <<updated_at, heard, Now, snapAt, aliveInfo, llLatestTime>>
    /\ pc'["alive"] = "disable_device"
         => pc["alive"] = "disable_device" /\ target'["alive"] = target["alive"] /\ llCurrTime' = llCurrTime

LEMMA UnheardSteps ==
    ASSUME TypeInv, [Next]_vars
    PROVE  \/ Unheard \/ Tick \/ Register \/ UpdateLatestTime \/ RetrieveRows
           \/ \E d \in Devices \cup {NoDevice} : CheckDeviceAlive(d)
<1> USE PlacesAre, GotoAlive, GotoMqtt, PcStays
<1> USE DEF TypeInv, WorldType, Unheard, tables, worldVars, aliveVars, mqttVars, Threads
<1>1. CASE Exit \/ UNCHANGED vars
  BY <1>1 DEF Exit, vars
<1>2. CASE LoopTest \/ WaitEnds \/ ReadClock \/ RoundEnds \/ CountDevices
  BY <1>2 DEF LoopTest, WaitEnds, ReadClock, RoundEnds, CountDevices
<1>3. CASE StatementFails("alive")
  BY <1>3 DEF StatementFails
<1>4. CASE StatementFails("mqtt")
  BY <1>4 DEF StatementFails
<1>5. ASSUME NEW t \in Threads, Disable(t) PROVE Unheard
  <2>1. DisableLeaves /\ (FirstStatement(t) \/ SecondStatement(t) \/ ThirdStatement(t))
    BY <1>5, DisableIs
  <2>2. CASE t = "alive"
    BY <2>1, <2>2 DEF FirstStatement, SecondStatement, ThirdStatement, DisableLeaves
  <2>3. CASE t = "mqtt"
    BY <2>1, <2>3 DEF FirstStatement, SecondStatement, ThirdStatement, DisableLeaves
  <2> QED
    BY <2>2, <2>3
<1>6. ASSUME NEW m \in Messages, Receive(m) PROVE Unheard
  BY <1>6 DEF Receive
<1>7. CASE VerifyApiKey
  <2>1. \E place \in MqttPlaces : Goto("mqtt", place)
    BY <1>7, VerifyGoes
  <2> QED
    BY <1>7, <2>1 DEF VerifyApiKey
<1>8. CASE CheckRegister
  BY <1>8 DEF CheckRegister, Answer, Proceed
<1>9. CASE CheckUnregister
  <2>1. \E place \in MqttPlaces : Goto("mqtt", place)
    BY <1>9 DEF CheckUnregister, Answer, Proceed, DisableStatements
  <2>2. target'["alive"] = target["alive"]
    BY <1>9 DEF CheckUnregister
  <2> QED
    BY <1>9, <2>1, <2>2 DEF CheckUnregister
<1>10. CASE CheckConnected("alive_check", "alive") \/ CheckConnected("variable_check", "variable_find")
  BY <1>10 DEF CheckConnected, Done, Proceed
<1>11. CASE FindVariable \/ InsertVariable \/ PublishErrorCode
  BY <1>11 DEF FindVariable, InsertVariable, PublishErrorCode, Done, Proceed
<1> HIDE DEF Unheard
<1> QED
  BY <1>1, <1>2, <1>3, <1>4, <1>5, <1>6, <1>7, <1>8, <1>9, <1>10, <1>11 DEF Next, AliveStep, MqttStep

LEMMA SnapshotStep == TypeInv /\ SnapshotInv /\ [Next]_vars => SnapshotInv'
<1> SUFFICES ASSUME TypeInv, SnapshotInv, [Next]_vars PROVE SnapshotInv'
  OBVIOUS
<1> USE PlacesAre, GotoAlive, GotoMqtt, PcStays, TablesAssumption
<1> USE DEF TypeInv, TablesType, AliveType, HistoryType, WorldType, SnapshotInv, Threads,
            tables, worldVars, aliveVars, mqttVars
<1>1. CASE Unheard
  BY <1>1 DEF Unheard
<1>2. CASE Tick
  BY <1>2 DEF Tick
<1>3. CASE Register
  BY <1>3 DEF Register, Answer
<1>4. CASE UpdateLatestTime
  BY <1>4 DEF UpdateLatestTime, Done
<1>5. CASE RetrieveRows
  <2> DEFINE rows == Connected \cap Paired
  <2> HIDE DEF rows
  <2>1. CASE Cardinality(rows) > nArrayNum
    BY <1>5, <2>1 DEF RetrieveRows, rows
  <2>2. CASE ~(Cardinality(rows) > nArrayNum)
    <3>1. /\ aliveInfo' = rows \cup (IF Cardinality(rows) < nArrayNum THEN {NoDevice} ELSE {})
          /\ llLatestTime' = [d \in Devices |-> IF d \in rows THEN updated_at[d] ELSE 0]
          /\ snapAt' = Now
          /\ Goto("alive", "time")
      BY <1>5, <2>2 DEF RetrieveRows, rows
    <3>2. \A d \in Devices : d \in aliveInfo' => llLatestTime'[d] = WholeSeconds(heard[d])
      BY <3>1
    <3> QED
      BY <1>5, <3>1, <3>2 DEF RetrieveRows
  <2> QED
    BY <2>1, <2>2
<1>6. ASSUME NEW d \in Devices \cup {NoDevice}, CheckDeviceAlive(d) PROVE SnapshotInv'
  <2>1. CASE IsSilent(d)
    BY <1>6, <2>1 DEF CheckDeviceAlive, IsSilent, DisableStatements
  <2>2. CASE ~IsSilent(d)
    BY <1>6, <2>2 DEF CheckDeviceAlive
  <2> QED
    BY <2>1, <2>2
<1> HIDE DEF SnapshotInv
<1> QED
  BY <1>1, <1>2, <1>3, <1>4, <1>5, <1>6, UnheardSteps

(* The alive thread never disables a device that was heard within its cycle   *)
(* before the rows were read: keeping updated_at in whole seconds costs less  *)
(* than the second IsSilent allows for the network.                           *)
THEOREM NeverDisabledTooEarly == Spec => []NeverTooEarly
<1>1. Init => SnapshotInv
  BY PlacesAre, WholeSecondsBounds, WholeSecondsType DEF Init, SnapshotInv, Threads
<1>2. TypeInv /\ SnapshotInv => NeverTooEarly
  <2> SUFFICES ASSUME TypeInv, SnapshotInv, pc["alive"] = "disable_device", target["alive"] # NoDevice,
                      ~(heard[target["alive"]] >= snapAt)
               PROVE  llCurrTime - heard[target["alive"]] > AliveCycle[target["alive"]]
    BY DEF NeverTooEarly, DisableStatements
  <2> DEFINE d == target["alive"]
  <2>1. d \in Devices
    BY DEF TypeInv, WorldType, Threads
  <2>2. llLatestTime[d] = WholeSeconds(heard[d])
        /\ llCurrTime - llLatestTime[d] > AliveCycle[d] + SECOND
    BY <2>1 DEF SnapshotInv
  <2>3. llLatestTime[d] <= heard[d] /\ heard[d] < llLatestTime[d] + SECOND
    BY <2>1, <2>2, WholeSecondsBounds DEF TypeInv, HistoryType
  <2> QED
    BY <2>1, <2>2, <2>3, ThingManagerAssumption DEF TypeInv, HistoryType, AliveType
<1> QED
  BY <1>1, <1>2, InitType, TypeStep, SnapshotStep, PTL DEF Spec

-----------------------------------------------------------------------------
(* Where the MQTT thread is tells whether its message calls for an answer. *)
WaitsForAnswer == pc["mqtt"] # "idle" /\ CallsForAnswer(msg)

AnswerPlaces ==
    /\ pc["mqtt"] = "verify" => msg.apikey # "none"
    /\ pc["mqtt"] \in {"alive_check", "alive", "variable_check", "variable_find", "variable"}
         => ~CallsForAnswer(msg)
    /\ pc["mqtt"] \in {"register_check", "register", "unregister_check", "publish"} \cup DisablePlaces
         => CallsForAnswer(msg)

InOrder ==
    /\ Len(asked) = Len(replies) + (IF WaitsForAnswer THEN 1 ELSE 0)
    /\ \A i \in 1..Len(replies) : replies[i].to = asked[i]
    /\ WaitsForAnswer => asked[Len(asked)] = msg

AnswerInv == nErrors = 0 => AnswerPlaces /\ InOrder

(* Steps that neither receive a message nor answer one. *)
Between ==
    /\ UNCHANGED <<asked, replies>>
    /\ \/ UNCHANGED msg /\ (pc["mqtt"] = "idle" <=> pc'["mqtt"] = "idle")
       \/ pc'["mqtt"] = "idle" /\ ~WaitsForAnswer

LEMMA AnswerStep == TypeInv /\ AnswerInv /\ [Next]_vars => AnswerInv'
<1> SUFFICES ASSUME TypeInv, AnswerInv, [Next]_vars, nErrors' = 0 PROVE (AnswerPlaces /\ InOrder)'
  BY DEF AnswerInv
<1>0. nErrors = 0 /\ AnswerPlaces /\ InOrder
  BY ErrorsOnlyGrow DEF TypeInv, WorldType, AnswerInv
<1>b. ASSUME Between PROVE InOrder'
  BY <1>0, <1>b DEF Between, InOrder, WaitsForAnswer, CallsForAnswer
<1> USE PlacesAre, GotoAlive, GotoMqtt, PcStays
<1> USE DEF TypeInv, MsgType, HistoryType, WorldType, AnswerPlaces, Threads,
            tables, worldVars, aliveVars, mqttVars
<1>1. CASE AliveSide
  <2>1. pc'["mqtt"] = pc["mqtt"] /\ UNCHANGED msg
    BY <1>1, AliveSideLeaves
  <2>2. UNCHANGED <<asked, replies>>
    BY <1>1 DEF AliveSide, AliveStep, Tick, Exit, StatementFails, Disable, LoopTest, WaitEnds, CountDevices,
                RetrieveRows, ReadClock, CheckDeviceAlive, RoundEnds, vars
  <2> QED
    BY <1>0, <1>b, <2>1, <2>2 DEF Between, CallsForAnswer
<1>2. CASE StatementFails("mqtt")
  BY <1>0, <1>2 DEF StatementFails
<1>3. CASE Disable("mqtt")
  <2>1. DisableLeaves /\ (FirstStatement("mqtt") \/ SecondStatement("mqtt") \/ ThirdStatement("mqtt"))
    BY <1>3, DisableIs
  <2>2. CASE FirstStatement("mqtt")
    BY <1>0, <1>b, <2>1, <2>2 DEF FirstStatement, DisableLeaves, Between, CallsForAnswer
  <2>3. CASE SecondStatement("mqtt")
    BY <1>0, <1>b, <2>1, <2>3 DEF SecondStatement, DisableLeaves, Between, CallsForAnswer
  <2>4. CASE ThirdStatement("mqtt")
    BY <1>0, <1>b, <2>1, <2>4 DEF ThirdStatement, DisableLeaves, Between, CallsForAnswer
  <2> QED
    BY <2>1, <2>2, <2>3, <2>4
<1>4. ASSUME NEW m \in Messages, Receive(m) PROVE (AnswerPlaces /\ InOrder)'
  <2>1. pc["mqtt"] = "idle" /\ Len(asked) = Len(replies) /\ UNCHANGED replies
    BY <1>0, <1>4 DEF Receive, InOrder, WaitsForAnswer
  <2>2. CASE m.apikey = "none"
    <3>1. UNCHANGED <<pc, msg, asked>>
      BY <1>4, <2>2 DEF Receive, CallsForAnswer
    <3> QED
      BY <1>0, <1>b, <2>1, <3>1 DEF Between, CallsForAnswer
  <2>3. CASE m.apikey # "none"
    <3>1. pc'["mqtt"] = "verify" /\ msg' = m
      BY <1>4, <2>3 DEF Receive
    <3>2. CASE CallsForAnswer(m)
      <4>1. /\ asked' = Append(asked, m)
            /\ Len(asked') = Len(asked) + 1
            /\ asked'[Len(asked')] = m
            /\ \A i \in 1..Len(asked) : asked'[i] = asked[i]
        BY <1>4, <3>2, AppendProperties DEF Receive
      <4> QED
        BY <1>0, <2>1, <2>3, <3>1, <3>2, <4>1 DEF InOrder, WaitsForAnswer, CallsForAnswer
    <3>3. CASE ~CallsForAnswer(m)
      <4>1. asked' = asked
        BY <1>4, <3>3 DEF Receive
      <4> QED
        BY <1>0, <2>1, <2>3, <3>1, <3>3, <4>1 DEF InOrder, WaitsForAnswer, CallsForAnswer
    <3> QED
      BY <3>2, <3>3
  <2> QED
    BY <2>2, <2>3
<1>5. CASE VerifyApiKey
  <2>1. pc["mqtt"] = "verify" /\ msg \in Messages /\ msg.apikey # "none" /\ UNCHANGED <<asked, replies>>
    BY <1>0, <1>5 DEF VerifyApiKey
  <2>2. /\ msg.category \in {"REGISTER", "UNREGISTER", "ALIVE", "SEND_VARIABLE"}
        /\ msg.apikey \in {"right", "wrong"}
    BY <2>1, ThingManagerAssumption
  <2>3. CallsForAnswer(msg) <=>
          msg.category \in Requests /\ (KeyResult(msg) = "NOERROR" => msg.pincode # "none")
    BY <2>1, <2>2 DEF CallsForAnswer, KeyResult
  <2>4. CASE KeyResult(msg) # "NOERROR"
    BY <1>b, <1>5, <2>1, <2>3, <2>4
       DEF VerifyApiKey, Refuse, Done, Answer, Between, WaitsForAnswer, CallsForAnswer
  <2>5. CASE KeyResult(msg) = "NOERROR" /\ msg.category \in Requests /\ msg.pincode = "none"
    BY <1>b, <1>5, <2>1, <2>3, <2>5 DEF VerifyApiKey, Done, Between, WaitsForAnswer, CallsForAnswer
  <2>6. CASE KeyResult(msg) = "NOERROR" /\ ~(msg.category \in Requests /\ msg.pincode = "none")
    BY <1>b, <1>5, <2>1, <2>2, <2>3, <2>6 DEF VerifyApiKey, Proceed, Between, CallsForAnswer, Requests
  <2> QED
    BY <2>4, <2>5, <2>6
<1>6. CASE CheckRegister
  BY <1>0, <1>b, <1>6 DEF CheckRegister, Answer, Proceed, Between, CallsForAnswer
<1>7. CASE Register
  BY <1>0, <1>b, <1>7 DEF Register, Answer, Between, CallsForAnswer
<1>8. CASE CheckUnregister
  <2>1. CASE CheckDevice(msg.device) = "NOERROR"
    BY <1>0, <1>b, <1>8, <2>1 DEF CheckUnregister, Proceed, DisableStatements, Between, CallsForAnswer
  <2>2. CASE CheckDevice(msg.device) # "NOERROR"
    BY <1>0, <1>b, <1>8, <2>2 DEF CheckUnregister, Answer, Between, CallsForAnswer
  <2> QED
    BY <2>1, <2>2
<1>9. CASE CheckConnected("alive_check", "alive") \/ CheckConnected("variable_check", "variable_find")
  BY <1>0, <1>b, <1>9 DEF CheckConnected, Done, Proceed, Between, WaitsForAnswer, CallsForAnswer
<1>10. CASE UpdateLatestTime
  BY <1>0, <1>b, <1>10 DEF UpdateLatestTime, Done, Between, WaitsForAnswer, CallsForAnswer
<1>11. CASE FindVariable \/ InsertVariable
  BY <1>0, <1>b, <1>11 DEF FindVariable, InsertVariable, Done, Proceed, Between, WaitsForAnswer, CallsForAnswer
<1>12. CASE PublishErrorCode
  <2>1. /\ WaitsForAnswer
        /\ pc'["mqtt"] = "idle" /\ UNCHANGED asked
        /\ replies' = Append(replies, [to |-> msg, error |-> ErrorCode(result_save)])
    BY <1>0, <1>12 DEF PublishErrorCode, WaitsForAnswer
  <2>2. /\ Len(replies') = Len(replies) + 1
        /\ replies'[Len(replies) + 1].to = msg
        /\ \A i \in 1..Len(replies) : replies'[i] = replies[i]
    BY <2>1, AppendProperties
  <2>3. Len(replies) \in Nat /\ Len(asked) = Len(replies) + 1 /\ asked[Len(asked)] = msg
    BY <1>0, <2>1, LenProperties DEF InOrder
  <2>4. \A i \in 1..Len(replies') : replies'[i].to = asked'[i]
    BY <1>0, <2>1, <2>2, <2>3 DEF InOrder
  <2> QED
    BY <2>1, <2>2, <2>3, <2>4 DEF InOrder, WaitsForAnswer
<1> HIDE DEF AnswerPlaces
<1> QED
  BY <1>1, <1>2, <1>3, <1>4, <1>5, <1>6, <1>7, <1>8, <1>9, <1>10, <1>11, <1>12, NextIs DEF MqttStep

(* As long as no statement fails, every REGISTER and UNREGISTER that calls for *)
(* an answer gets one, once, in the order of the requests.                     *)
THEOREM EveryRequestIsAnswered == Spec => []AnsweredInOrder
<1>1. Init => AnswerInv
  BY PlacesAre DEF Init, AnswerInv, AnswerPlaces, InOrder, WaitsForAnswer, Threads
<1>2. AnswerInv => AnsweredInOrder
  BY DEF AnswerInv, AnsweredInOrder, InOrder, WaitsForAnswer
<1> QED
  BY <1>1, <1>2, InitType, TypeStep, AnswerStep, PTL DEF Spec

=============================================================================
