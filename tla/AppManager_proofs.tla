-------------------------- MODULE AppManager_proofs --------------------------
(***************************************************************************)
(* For any rules, messages, failing statements and disabled devices: the    *)
(* application manager's variables have their types, an "all" rule is       *)
(* actuated once for each time its conditions are met, and as long as no    *)
(* statement fails only rules that were in use are actuated, and the        *)
(* handler implements the one-step engine of EcaEngine.                     *)
(***************************************************************************)
EXTENDS AppManager, FiniteSetTheorems, TLAPS

-----------------------------------------------------------------------------
(* The inductive invariants *)

TablesType ==
    /\ is_connected \in [Devices -> BOOLEAN]
    /\ updated_at \in [Devices -> Nat]
    /\ usable \in [Ecas -> BOOLEAN]
    /\ is_satisfied \in [Conditions -> BOOLEAN]
    /\ appHistory \in [Ecas \X {"success", "failed"} -> Nat]
    /\ disabling \in [device : Devices \cup {NoDevice}, next : 1..3]

BoundsType == nErrors \in Nat /\ nMessages \in Nat /\ nDisables \in Nat

HistoryType ==
    /\ requests \in [Actions -> Nat]
    /\ metSince \in [Conditions -> BOOLEAN]
    /\ usableAtStart \in SUBSET Ecas
    /\ atStart \in [is_satisfied : [Conditions -> BOOLEAN], requests : [Actions -> Nat]]

HandlingType ==
    /\ pc \in Places
    /\ msg \in Messages \cup {NoMessage}
    /\ msg = NoMessage <=> pc = "idle"
    /\ IF pc \in Requesting THEN nEcaId \in Ecas ELSE nEcaId = NoEca

\* Lists are made from the database; what is still to be done is part of them.
ListsType ==
    /\ hRelatedConditionList \in SUBSET Conditions
    /\ todo \in SUBSET hRelatedConditionList
    /\ bIsSatisfied \in SUBSET hRelatedConditionList
    /\ hSatisfiedEcaList \in SUBSET Ecas
    /\ ecaTodo \in SUBSET Ecas
    /\ hActionList \in SUBSET Actions

TypeInv == TablesType /\ BoundsType /\ HistoryType /\ HandlingType /\ ListsType

\* No list outlives its message, and none but those of the loops before is filled.
ListsFilledInTurn ==
    /\ pc \notin Processing => hRelatedConditionList = {}
    /\ pc \in {"idle", "verify", "check", "list", "result_check", "result_find", "result",
               "compute", "compute_actions", "compute_request", "insert"}
          => ecaTodo = {} /\ hSatisfiedEcaList = {}

\* What the database has as satisfied was found satisfied.
RecordedWasMet == \A c \in Conditions : is_satisfied[c] => metSince[c]

\* So was what the handler is about to record,
ComputedWasMet ==
    pc \in {"compute", "compute_actions", "compute_request", "insert"} => \A c \in bIsSatisfied : metSince[c]

\* what it is about to list or has listed,
ListedWasMet ==
    pc = "reset" =>
       /\ \A e \in ecaTodo : \A c \in ConditionsOf(e) : metSince[c]
       /\ \A e \in hSatisfiedEcaList : \A c \in ConditionsOf(e) : metSince[c] /\ ~is_satisfied[c]

\* and what it is about to actuate, which is not recorded any more.
ToActuateWasMet ==
    pc \in {"actuate", "actuate_actions", "actuate_request"} =>
       \A e \in ecaTodo : \A c \in ConditionsOf(e) : metSince[c] /\ ~is_satisfied[c]

MetInv == RecordedWasMet /\ ComputedWasMet /\ ListedWasMet /\ ToActuateWasMet

\* While a message is handled, rules are removed but none is added.
NoneIsAdded == pc # "idle" => \A e \in Ecas : usable[e] => e \in usableAtStart

RelatedWasUsable == \A c \in hRelatedConditionList : EcaOf[c] \in usableAtStart

\* No statement has failed, and no rule is met without a condition.
NothingFailed == nErrors = 0 /\ \A e \in Ecas : ConditionsOf(e) # {}

Unmet(e) == \E c \in ConditionsOf(e) : ~is_satisfied[c]

\* Rules are met only through the message being handled: they are recorded by
\* its conditions, then listed and reset.
OnlyHeardAreMet ==
    NothingFailed =>
       /\ pc \notin {"insert", "reset"} => \A e \in Ecas : Unmet(e)
       /\ pc = "insert" => \A e \in Ecas : Unmet(e) \/ \E c \in hRelatedConditionList : EcaOf[c] = e
       /\ pc = "reset"  => \A e \in Ecas : Unmet(e) \/ e \in ecaTodo

ListedWasUsable == NothingFailed => ecaTodo \cup hSatisfiedEcaList \subseteq usableAtStart

UsableInv == NoneIsAdded /\ RelatedWasUsable /\ OnlyHeardAreMet /\ ListedWasUsable /\ RequestedWasUsable

IInv == TypeInv /\ ListsFilledInTurn /\ MetInv /\ UsableInv

-----------------------------------------------------------------------------
(* The initial states *)

LEMMA InitEstablishes == Init => IInv
<1> SUFFICES ASSUME Init PROVE IInv
  OBVIOUS
<1> USE DEF Init
<1>1. TablesType /\ BoundsType
  BY DEF TablesType, BoundsType
<1>2. HistoryType /\ ListsType
  BY DEF HistoryType, ListsType
<1>3. HandlingType
  BY DEF HandlingType, Places, Requesting
<1>4. ListsFilledInTurn /\ MetInv
  BY DEF ListsFilledInTurn, Processing, MetInv, RecordedWasMet, ComputedWasMet, ListedWasMet, ToActuateWasMet
<1>5. UsableInv
  BY DEF UsableInv, NoneIsAdded, RelatedWasUsable, OnlyHeardAreMet, NothingFailed, Unmet, ListedWasUsable,
         RequestedWasUsable
<1>6. QED  BY <1>1, <1>2, <1>3, <1>4, <1>5 DEF IInv, TypeInv

-----------------------------------------------------------------------------
(* Every step keeps the types *)

USE DEF Goto, Proceed, StartRequest, ActionsPlace, RequestPlace, handling, history, bounds, tables

\* Of the steps that handle a message, three write a table.
HandleReads ==
    \/ VerifyApiKey \/ CheckSource("check", "list") \/ MakeConditionList
    \/ (\E c \in Conditions : ComputeCondition(c)) \/ Request("compute") \/ ConditionsComputed
    \/ RetrieveSatisfiedEcas \/ SatisfiedEcasListed
    \/ (\E e \in Ecas : ActuateSatisfiedEca(e)) \/ Request("actuate") \/ EcasActuated
    \/ CheckSource("result_check", "result_find") \/ FindFunction

HandleWrites ==
    \/ \E c \in Conditions : InsertSatisfiedCondition(c)
    \/ \E e \in Ecas : AddSatisfiedEca(e)
    \/ InsertApplicationHistory

LEMMA Steps ==
    [Next]_vars => \/ \E m \in Messages : Receive(m)
                   \/ HandleReads \/ HandleWrites \/ Disable \/ StatementFails \/ UNCHANGED vars
BY DEF Next, Handle, HandleReads, HandleWrites

\* What reads leaves the tables and the bounds alone.
LEMMA ReadsOnly == HandleReads => UNCHANGED <<tables, is_satisfied, appHistory, disabling, bounds>>
BY DEF HandleReads, VerifyApiKey, CheckSource, MakeConditionList, ComputeCondition, Request, RetrieveActionList,
       RequestFunction, RequestsEnd, ConditionsComputed, RetrieveSatisfiedEcas, SatisfiedEcasListed,
       ActuateSatisfiedEca, EcasActuated, FindFunction

\* What the ThingManager does leaves the handler alone, and adds no rule.
LEMMA DisableKeeps ==
    Disable => UNCHANGED <<is_satisfied, appHistory, pc, handling, nMessages, history>>
BY DEF Disable, StartDisabling, RegisterDevice, DisableNext, DisableFails

LEMMA TablesTypeKept == IInv /\ [Next]_vars => TablesType'
<1> SUFFICES ASSUME IInv, [Next]_vars PROVE TablesType'
  OBVIOUS
<1> USE TablesAssumption DEF IInv, TypeInv, TablesType
<1>1. CASE UNCHANGED <<tables, is_satisfied, appHistory, disabling>>
  BY <1>1
<1>2. CASE HandleReads \/ StatementFails \/ (\E m \in Messages : Receive(m)) \/ UNCHANGED vars
  BY <1>1, <1>2, ReadsOnly DEF StatementFails, Receive, vars
<1>3. ASSUME NEW c \in Conditions, InsertSatisfiedCondition(c) PROVE TablesType'
  BY <1>3 DEF InsertSatisfiedCondition
<1>4. ASSUME NEW e \in Ecas, AddSatisfiedEca(e) PROVE TablesType'
  BY <1>4 DEF AddSatisfiedEca
<1>5. CASE InsertApplicationHistory
  <2>1. IsInserted => Row \in Ecas \X {"success", "failed"}
    BY DEF IsInserted, Row
  <2>2. appHistory' \in [Ecas \X {"success", "failed"} -> Nat]
    BY <1>5, <2>1 DEF InsertApplicationHistory
  <2>3. QED  BY <1>5, <2>2 DEF InsertApplicationHistory
<1>6. ASSUME NEW d \in Devices, StartDisabling(d) \/ RegisterDevice(d) PROVE TablesType'
  <2>1. disabling' \in [device : Devices \cup {NoDevice}, next : 1..3] /\ UNCHANGED <<updated_at, usable>>
    BY <1>6 DEF StartDisabling, RegisterDevice
  <2>2. is_connected' \in [Devices -> BOOLEAN] /\ UNCHANGED <<is_satisfied, appHistory>>
    BY <1>6 DEF StartDisabling, RegisterDevice
  <2>3. QED  BY <2>1, <2>2
<1>7. CASE DisableNext
  <2>1. disabling' \in [device : Devices \cup {NoDevice}, next : 1..3]
    BY <1>7 DEF DisableNext
  <2>2. is_connected' \in [Devices -> BOOLEAN] /\ usable' \in [Ecas -> BOOLEAN] /\ updated_at' = updated_at
    BY <1>7 DEF DisableNext, DisableStatement, DisconnectDevice, RemoveEcas
  <2>3. QED  BY <1>7, <2>1, <2>2 DEF DisableNext
<1>8. CASE DisableFails
  BY <1>8 DEF DisableFails
<1>9. QED
  BY <1>2, <1>3, <1>4, <1>5, <1>6, <1>7, <1>8, Steps DEF HandleWrites, Disable

LEMMA BoundsTypeKept == IInv /\ [Next]_vars => BoundsType'
<1> SUFFICES ASSUME IInv, [Next]_vars PROVE BoundsType'
  OBVIOUS
<1> USE DEF IInv, TypeInv, BoundsType
<1>1. CASE HandleReads \/ HandleWrites \/ UNCHANGED vars
  BY <1>1, ReadsOnly DEF HandleWrites, InsertSatisfiedCondition, AddSatisfiedEca, InsertApplicationHistory, vars
<1>2. CASE StatementFails \/ (\E m \in Messages : Receive(m))
  BY <1>2 DEF StatementFails, Receive
<1>3. CASE Disable
  BY <1>3 DEF Disable, StartDisabling, RegisterDevice, DisableNext, DisableFails
<1>4. QED  BY <1>1, <1>2, <1>3, Steps

LEMMA HistoryTypeKept == IInv /\ [Next]_vars => HistoryType'
<1> SUFFICES ASSUME IInv, [Next]_vars PROVE HistoryType'
  OBVIOUS
<1> USE DEF IInv, TypeInv, HistoryType
<1>1. CASE UNCHANGED history
  BY <1>1
<1>2. CASE Disable \/ HandleWrites \/ StatementFails \/ UNCHANGED vars
  BY <1>1, <1>2, DisableKeeps DEF HandleWrites, InsertSatisfiedCondition, AddSatisfiedEca,
                                  InsertApplicationHistory, StatementFails, vars
<1>3. ASSUME NEW m \in Messages, Receive(m) PROVE HistoryType'
  BY <1>3 DEF Receive
<1>4. CASE MakeConditionList
  BY <1>4 DEF MakeConditionList, TablesType
<1>5. ASSUME NEW c \in Conditions, ComputeCondition(c) PROVE HistoryType'
  <2>1. metSince' \in [Conditions -> BOOLEAN] /\ UNCHANGED <<requests, usableAtStart, atStart>>
    BY <1>5 DEF ComputeCondition
  <2>2. QED  BY <2>1
<1>6. ASSUME NEW loop \in {"compute", "actuate"}, Request(loop) PROVE HistoryType'
  <2>1. requests' \in [Actions -> Nat] /\ UNCHANGED <<metSince, usableAtStart, atStart>>
    BY <1>6 DEF Request, RetrieveActionList, RequestFunction, RequestsEnd
  <2>2. QED  BY <2>1
<1>7. ASSUME NEW e \in Ecas, ActuateSatisfiedEca(e) PROVE HistoryType'
  BY <1>7 DEF ActuateSatisfiedEca
<1>8. CASE VerifyApiKey \/ CheckSource("check", "list") \/ ConditionsComputed \/ RetrieveSatisfiedEcas
           \/ SatisfiedEcasListed \/ EcasActuated \/ CheckSource("result_check", "result_find") \/ FindFunction
  BY <1>1, <1>8 DEF VerifyApiKey, CheckSource, ConditionsComputed, RetrieveSatisfiedEcas, SatisfiedEcasListed,
                    EcasActuated, FindFunction
<1>9. QED
  BY <1>2, <1>3, <1>4, <1>5, <1>6, <1>7, <1>8, Steps DEF HandleReads
\* Where each kind of step goes, and what it makes of the message and the rule.
LEMMA HandlingTypeKept == IInv /\ [Next]_vars => HandlingType'
<1> SUFFICES ASSUME IInv, [Next]_vars PROVE HandlingType'
  OBVIOUS
<1> USE DEF IInv, TypeInv, HandlingType, Requesting
<1> HIDE DEF handling
<1>1. CASE UNCHANGED <<pc, msg, nEcaId>>
  BY <1>1
<1>2. ASSUME NEW place \in Places \ ({"idle"} \cup Requesting), pc # "idle", pc \notin Requesting,
             pc' = place, UNCHANGED <<msg, nEcaId>>
      PROVE  HandlingType'
  BY <1>2
<1>3. CASE Leave
  BY <1>3 DEF Leave, Places
<1>4. CASE Disable \/ UNCHANGED vars
  BY <1>1, <1>4, DisableKeeps DEF vars, handling
<1>5. ASSUME NEW m \in Messages, Receive(m) PROVE HandlingType'
  BY <1>5, RulesAssumption DEF Receive, Places
<1>6. CASE VerifyApiKey \/ CheckSource("check", "list") \/ CheckSource("result_check", "result_find")
           \/ FindFunction
  BY <1>3, <1>6 DEF VerifyApiKey, CheckSource, FindFunction, Places, handling
<1>7. CASE MakeConditionList \/ ConditionsComputed \/ RetrieveSatisfiedEcas \/ SatisfiedEcasListed
  BY <1>7 DEF MakeConditionList, ConditionsComputed, RetrieveSatisfiedEcas, SatisfiedEcasListed, Places
<1>8. ASSUME NEW c \in Conditions, ComputeCondition(c) PROVE HandlingType'
  BY <1>8, RulesAssumption DEF ComputeCondition, Places
<1>9. ASSUME NEW loop \in {"compute", "actuate"}, Request(loop) PROVE HandlingType'
  BY <1>9 DEF Request, RetrieveActionList, RequestFunction, RequestsEnd, Places
<1>10. ASSUME NEW c \in Conditions, InsertSatisfiedCondition(c) PROVE HandlingType'
  BY <1>10 DEF InsertSatisfiedCondition
<1>11. ASSUME NEW e \in Ecas, AddSatisfiedEca(e) \/ ActuateSatisfiedEca(e) PROVE HandlingType'
  BY <1>11 DEF AddSatisfiedEca, ActuateSatisfiedEca, Places
<1>12. CASE EcasActuated \/ InsertApplicationHistory \/ StatementFails
  BY <1>3, <1>12 DEF EcasActuated, InsertApplicationHistory, StatementFails
<1>13. QED
  BY <1>4, <1>5, <1>6, <1>7, <1>8, <1>9, <1>10, <1>11, <1>12, Steps DEF HandleReads, HandleWrites

LEMMA ListsKept == IInv /\ [Next]_vars => (ListsType /\ ListsFilledInTurn)'
<1> SUFFICES ASSUME IInv, [Next]_vars PROVE (ListsType /\ ListsFilledInTurn)'
  OBVIOUS
<1> USE DEF IInv, TypeInv, ListsType, ListsFilledInTurn, Processing
<1>1. CASE UNCHANGED <<pc, hRelatedConditionList, todo, bIsSatisfied, hSatisfiedEcaList, ecaTodo, hActionList>>
  BY <1>1
<1>2. CASE Leave
  BY <1>2 DEF Leave
<1>3. CASE Disable \/ UNCHANGED vars
  BY <1>1, <1>3, DisableKeeps DEF vars
<1>4. ASSUME NEW m \in Messages, Receive(m) PROVE (ListsType /\ ListsFilledInTurn)'
  BY <1>4 DEF Receive
<1>5. CASE VerifyApiKey
  BY <1>2, <1>5 DEF VerifyApiKey
<1>6. CASE CheckSource("check", "list") \/ CheckSource("result_check", "result_find") \/ FindFunction
  BY <1>2, <1>6 DEF CheckSource, FindFunction
<1>7. CASE MakeConditionList
  BY <1>7 DEF MakeConditionList, Listed, Concerned
<1>8. ASSUME NEW c \in Conditions, ComputeCondition(c) PROVE (ListsType /\ ListsFilledInTurn)'
  <2>1. pc' \in {"compute", "compute_actions"} /\ pc = "compute"
        /\ todo' = todo \ {c} /\ c \in todo /\ bIsSatisfied' \in {bIsSatisfied \cup {c}, bIsSatisfied}
        /\ UNCHANGED <<hRelatedConditionList, hSatisfiedEcaList, ecaTodo, hActionList>>
    BY <1>8 DEF ComputeCondition
  <2>2. QED  BY <2>1
<1>9. ASSUME NEW loop \in {"compute", "actuate"}, Request(loop) PROVE (ListsType /\ ListsFilledInTurn)'
  BY <1>9 DEF Request, RetrieveActionList, RequestFunction, RequestsEnd, ActionsOf
<1>10. CASE ConditionsComputed \/ RetrieveSatisfiedEcas \/ SatisfiedEcasListed
  BY <1>10 DEF ConditionsComputed, RetrieveSatisfiedEcas, SatisfiedEcasListed
<1>11. ASSUME NEW c \in Conditions, InsertSatisfiedCondition(c) PROVE (ListsType /\ ListsFilledInTurn)'
  BY <1>11 DEF InsertSatisfiedCondition
<1>12. ASSUME NEW e \in Ecas, AddSatisfiedEca(e) \/ ActuateSatisfiedEca(e) PROVE (ListsType /\ ListsFilledInTurn)'
  BY <1>12 DEF AddSatisfiedEca, ActuateSatisfiedEca
<1>13. CASE EcasActuated \/ InsertApplicationHistory \/ StatementFails
  BY <1>2, <1>13 DEF EcasActuated, InsertApplicationHistory, StatementFails
<1>14. QED
  BY <1>3, <1>4, <1>5, <1>6, <1>7, <1>8, <1>9, <1>10, <1>11, <1>12, <1>13, Steps DEF HandleReads, HandleWrites

LEMMA TypeKept == IInv /\ [Next]_vars => TypeInv'
BY TablesTypeKept, BoundsTypeKept, HistoryTypeKept, HandlingTypeKept, ListsKept DEF TypeInv
-----------------------------------------------------------------------------
(* What is listed or actuated was met *)

LEMMA MetKept == IInv /\ [Next]_vars => MetInv'
<1> SUFFICES ASSUME IInv, [Next]_vars PROVE MetInv'
  OBVIOUS
<1> USE DEF IInv, TypeInv, ListsType, ListsFilledInTurn, MetInv, RecordedWasMet, ComputedWasMet, ListedWasMet,
            ToActuateWasMet, ConditionsOf
<1>t. is_satisfied \in [Conditions -> BOOLEAN] /\ metSince \in [Conditions -> BOOLEAN]
  BY DEF TablesType, HistoryType
<1>1. CASE /\ UNCHANGED <<is_satisfied, metSince, bIsSatisfied, hSatisfiedEcaList, ecaTodo>>
           /\ pc' \in {"compute", "compute_actions", "compute_request", "insert"}
                 => pc \in {"compute", "compute_actions", "compute_request", "insert"} \/ bIsSatisfied = {}
           /\ pc' = "reset" => pc = "reset" \/ ecaTodo \cup hSatisfiedEcaList = {}
           /\ pc' \in {"actuate", "actuate_actions", "actuate_request"}
                 => pc \in {"actuate", "actuate_actions", "actuate_request"} \/ ecaTodo = {}
  BY <1>1
<1>2. CASE Leave /\ UNCHANGED <<is_satisfied, metSince>>
  BY <1>2 DEF Leave
<1>3. CASE Disable \/ UNCHANGED vars
  BY <1>1, <1>3, DisableKeeps DEF vars
<1>4. ASSUME NEW m \in Messages, Receive(m) PROVE MetInv'
  BY <1>4 DEF Receive
<1>5. CASE VerifyApiKey \/ CheckSource("check", "list") \/ CheckSource("result_check", "result_find")
           \/ FindFunction
  BY <1>1, <1>2, <1>5 DEF VerifyApiKey, CheckSource, FindFunction
<1>6. CASE MakeConditionList \/ ConditionsComputed
  BY <1>1, <1>6 DEF MakeConditionList, ConditionsComputed, Processing
<1>7. ASSUME NEW c \in Conditions, ComputeCondition(c) PROVE MetInv'
  <2> DEFINE holds == computeSingleCondition(c, msg.value, Expression[c])
  <2>1. /\ pc = "compute" /\ pc' \in {"compute", "compute_actions"}
        /\ UNCHANGED <<is_satisfied, hSatisfiedEcaList, ecaTodo>>
        /\ metSince' = [metSince EXCEPT ![c] = @ \/ holds]
        /\ bIsSatisfied' = IF holds THEN bIsSatisfied \cup {c} ELSE bIsSatisfied
    BY <1>7 DEF ComputeCondition
  <2> HIDE DEF holds
  <2>2. \A x \in Conditions : metSince[x] => metSince'[x]
    BY <2>1, <1>t
  <2>3. \A x \in bIsSatisfied' : x \in bIsSatisfied \/ (x = c /\ metSince'[c])
    BY <2>1, <1>t
  <2>4. QED  BY <2>1, <2>2, <2>3, <1>t
<1>8. ASSUME NEW loop \in {"compute", "actuate"}, Request(loop) PROVE MetInv'
  BY <1>1, <1>8 DEF Request, RetrieveActionList, RequestFunction, RequestsEnd
<1>9. ASSUME NEW c \in Conditions, InsertSatisfiedCondition(c) PROVE MetInv'
  BY <1>9, <1>t DEF InsertSatisfiedCondition
<1>10. CASE RetrieveSatisfiedEcas
  BY <1>10 DEF RetrieveSatisfiedEcas
<1>11. ASSUME NEW e \in Ecas, AddSatisfiedEca(e) PROVE MetInv'
  BY <1>11, <1>t DEF AddSatisfiedEca
<1>12. CASE SatisfiedEcasListed
  BY <1>12 DEF SatisfiedEcasListed
<1>13. ASSUME NEW e \in Ecas, ActuateSatisfiedEca(e) PROVE MetInv'
  BY <1>13, <1>t DEF ActuateSatisfiedEca
<1>14. CASE EcasActuated \/ InsertApplicationHistory \/ StatementFails
  BY <1>2, <1>14 DEF EcasActuated, InsertApplicationHistory, StatementFails
<1>15. QED
  BY <1>3, <1>4, <1>5, <1>6, <1>7, <1>8, <1>9, <1>10, <1>11, <1>12, <1>13, <1>14, Steps
     DEF HandleReads, HandleWrites

-----------------------------------------------------------------------------
(* What is actuated was in use *)

LEMMA UsableKept == IInv /\ [Next]_vars => (NoneIsAdded /\ RelatedWasUsable)'
<1> SUFFICES ASSUME IInv, [Next]_vars PROVE (NoneIsAdded /\ RelatedWasUsable)'
  OBVIOUS
<1> USE DEF IInv, TypeInv, UsableInv, NoneIsAdded, RelatedWasUsable
<1>1. CASE /\ UNCHANGED <<usable, usableAtStart>> /\ hRelatedConditionList' \in {hRelatedConditionList, {}}
           /\ pc' # "idle" => pc # "idle"
  BY <1>1
<1>2. CASE (HandleReads /\ ~MakeConditionList) \/ StatementFails \/ UNCHANGED vars
  <2>1. /\ UNCHANGED <<usable, usableAtStart>> /\ hRelatedConditionList' \in {hRelatedConditionList, {}}
        /\ pc' # "idle" => pc # "idle"
    BY <1>2 DEF HandleReads, VerifyApiKey, CheckSource, ComputeCondition, Request, RetrieveActionList,
       RequestFunction, RequestsEnd, ConditionsComputed, RetrieveSatisfiedEcas, SatisfiedEcasListed,
       ActuateSatisfiedEca, EcasActuated, FindFunction, Leave, StatementFails, vars
  <2>2. QED  BY <1>1, <2>1
<1>3. CASE HandleWrites
  BY <1>1, <1>3 DEF HandleWrites, InsertSatisfiedCondition, AddSatisfiedEca, InsertApplicationHistory, Leave
<1>4. CASE MakeConditionList
  BY <1>4, RulesAssumption DEF MakeConditionList, Listed, Concerned
<1>5. ASSUME NEW m \in Messages, Receive(m) PROVE (NoneIsAdded /\ RelatedWasUsable)'
  BY <1>5 DEF Receive, ListsFilledInTurn, Processing
<1>6. CASE Disable
  <2>1. \A e \in Ecas : usable'[e] => usable[e]
    BY <1>6 DEF Disable, StartDisabling, RegisterDevice, DisableNext, DisableFails, DisableStatement,
                DisconnectDevice, RemoveEcas
  <2>2. QED  BY <1>6, <2>1, DisableKeeps
<1>7. QED  BY <1>2, <1>3, <1>4, <1>5, <1>6, Steps

\* As long as nothing failed, rules are met through what was heard.
LEMMA HeardKept == IInv /\ [Next]_vars => (OnlyHeardAreMet /\ ListedWasUsable)'
<1> SUFFICES ASSUME IInv, [Next]_vars, NothingFailed' PROVE (OnlyHeardAreMet /\ ListedWasUsable)'
  BY DEF OnlyHeardAreMet, ListedWasUsable
<1> USE DEF IInv, TypeInv, ListsType, ListsFilledInTurn, UsableInv, OnlyHeardAreMet, ListedWasUsable
<1>n. nErrors = 0 /\ NothingFailed /\ ~StatementFails /\ ~DisableFails
  <2>1. nErrors \in Nat /\ (nErrors' = nErrors \/ nErrors' = nErrors + 1)
    BY Steps, ReadsOnly DEF BoundsType, HandleWrites, InsertSatisfiedCondition, AddSatisfiedEca,
       InsertApplicationHistory, StatementFails, Receive, Disable, StartDisabling, RegisterDevice, DisableNext,
       DisableFails, vars
  <2>2. QED  BY <2>1 DEF NothingFailed, StatementFails, DisableFails
<1>t. is_satisfied \in [Conditions -> BOOLEAN]
  BY DEF TablesType
<1>1. CASE /\ UNCHANGED <<is_satisfied, hRelatedConditionList, ecaTodo, hSatisfiedEcaList, usableAtStart>>
           /\ pc' = pc \/ (pc \notin {"insert", "reset"} /\ pc' # "reset")
  BY <1>n, <1>1 DEF Unmet
<1>2. CASE Leave /\ is_satisfied' = is_satisfied /\ pc \notin {"insert", "reset"}
  BY <1>n, <1>2 DEF Unmet, Leave
<1>3. CASE Disable \/ UNCHANGED vars
  <2>1. UNCHANGED <<is_satisfied, hRelatedConditionList, ecaTodo, hSatisfiedEcaList, usableAtStart, pc>>
    BY <1>3, DisableKeeps DEF vars
  <2>2. QED  BY <2>1, <1>1
<1>4. ASSUME NEW m \in Messages, Receive(m) PROVE (OnlyHeardAreMet /\ ListedWasUsable)'
  BY <1>n, <1>4 DEF Receive, Unmet
<1>5. CASE VerifyApiKey \/ CheckSource("check", "list") \/ CheckSource("result_check", "result_find")
           \/ FindFunction
  BY <1>1, <1>2, <1>5 DEF VerifyApiKey, CheckSource, FindFunction
<1>6. CASE MakeConditionList \/ ConditionsComputed
  BY <1>n, <1>6 DEF MakeConditionList, ConditionsComputed, Unmet
<1>7. ASSUME NEW c \in Conditions, ComputeCondition(c) PROVE (OnlyHeardAreMet /\ ListedWasUsable)'
  BY <1>1, <1>7 DEF ComputeCondition
<1>8. ASSUME NEW loop \in {"compute", "actuate"}, Request(loop) PROVE (OnlyHeardAreMet /\ ListedWasUsable)'
  BY <1>1, <1>8 DEF Request, RetrieveActionList, RequestFunction, RequestsEnd
<1>9. ASSUME NEW c \in Conditions, InsertSatisfiedCondition(c) PROVE (OnlyHeardAreMet /\ ListedWasUsable)'
  <2>1. /\ pc = "insert" /\ c \in hRelatedConditionList
        /\ \A x \in Conditions : x # c => is_satisfied'[x] = is_satisfied[x]
        /\ UNCHANGED <<pc, hRelatedConditionList, ecaTodo, hSatisfiedEcaList, usableAtStart>>
    BY <1>9, <1>t DEF InsertSatisfiedCondition
  <2>2. ASSUME NEW e \in Ecas, ~Unmet(e)' PROVE \E x \in hRelatedConditionList : EcaOf[x] = e
    <3>1. CASE EcaOf[c] = e
      BY <2>1, <3>1
    <3>2. CASE EcaOf[c] # e
      <4>1. ~Unmet(e)
        BY <2>1, <2>2, <3>2 DEF Unmet, ConditionsOf
      <4>2. QED  BY <4>1, <2>1, <1>n
    <3>3. QED  BY <3>1, <3>2
  <2>3. QED  BY <1>n, <2>1, <2>2
<1>10. CASE RetrieveSatisfiedEcas
  <2>1. ASSUME NEW e \in Ecas PROVE Unmet(e)' \/ e \in ecaTodo'
    BY <1>10 DEF RetrieveSatisfiedEcas, Unmet
  <2>2. ASSUME NEW e \in ecaTodo' PROVE e \in usableAtStart
    <3>1. e \in Ecas /\ ~Unmet(e) /\ pc = "insert"
      BY <1>10, <1>t DEF RetrieveSatisfiedEcas, Unmet
    <3>2. QED  BY <3>1, <1>n DEF RelatedWasUsable
  <2>3. QED  BY <1>10, <1>n, <2>1, <2>2 DEF RetrieveSatisfiedEcas
<1>11. ASSUME NEW e \in Ecas, AddSatisfiedEca(e) PROVE (OnlyHeardAreMet /\ ListedWasUsable)'
  <2>1. \A x \in Conditions : is_satisfied'[x] => is_satisfied[x] /\ EcaOf[x] # e
    BY <1>11 DEF AddSatisfiedEca
  <2>2. ASSUME NEW f \in Ecas PROVE Unmet(f)' \/ f \in ecaTodo'
    <3>1. CASE f = e
      BY <3>1, <2>1, <1>n DEF Unmet, NothingFailed, ConditionsOf
    <3>2. CASE f # e
      BY <3>2, <2>1, <1>n, <1>11 DEF Unmet, AddSatisfiedEca, ConditionsOf
    <3>3. QED  BY <3>1, <3>2
  <2>3. QED  BY <1>11, <1>n, <2>2 DEF AddSatisfiedEca
<1>12. CASE SatisfiedEcasListed
  BY <1>n, <1>12 DEF SatisfiedEcasListed, Unmet
<1>13. ASSUME NEW e \in Ecas, ActuateSatisfiedEca(e) PROVE (OnlyHeardAreMet /\ ListedWasUsable)'
  BY <1>n, <1>13 DEF ActuateSatisfiedEca, Unmet
<1>14. CASE EcasActuated \/ InsertApplicationHistory
  BY <1>2, <1>14 DEF EcasActuated, InsertApplicationHistory
<1>15. QED
  BY <1>n, <1>3, <1>4, <1>5, <1>6, <1>7, <1>8, <1>9, <1>10, <1>11, <1>12, <1>13, <1>14, Steps
     DEF HandleReads, HandleWrites

LEMMA RequestedKept == IInv /\ [Next]_vars => RequestedWasUsable'
<1> SUFFICES ASSUME IInv, [Next]_vars, NothingFailed' PROVE nEcaId' \in usableAtStart' \cup {NoEca}
  BY DEF RequestedWasUsable, NothingFailed
<1> USE DEF IInv, TypeInv, UsableInv, RequestedWasUsable, NothingFailed
<1>n. NothingFailed
  <2>1. nErrors \in Nat /\ (nErrors' = nErrors \/ nErrors' = nErrors + 1)
    BY Steps, ReadsOnly DEF BoundsType, HandleWrites, InsertSatisfiedCondition, AddSatisfiedEca,
       InsertApplicationHistory, StatementFails, Receive, Disable, StartDisabling, RegisterDevice, DisableNext,
       DisableFails, vars
  <2>2. QED  BY <2>1
<1>1. CASE UNCHANGED usableAtStart /\ nEcaId' \in {nEcaId, NoEca}
  BY <1>n, <1>1
<1>2. ASSUME NEW m \in Messages, Receive(m) PROVE nEcaId' \in usableAtStart' \cup {NoEca}
  BY <1>2 DEF Receive, HandlingType, Requesting
<1>3. ASSUME NEW c \in Conditions, ComputeCondition(c) PROVE nEcaId' \in usableAtStart' \cup {NoEca}
  <2>1. EcaOf[c] \in usableAtStart
    BY <1>3 DEF ComputeCondition, ListsType, RelatedWasUsable
  <2>2. nEcaId' \in {nEcaId, EcaOf[c]} /\ usableAtStart' = usableAtStart
    BY <1>3 DEF ComputeCondition
  <2>3. QED  BY <1>n, <2>1, <2>2
<1>4. ASSUME NEW e \in Ecas, ActuateSatisfiedEca(e) PROVE nEcaId' \in usableAtStart' \cup {NoEca}
  BY <1>n, <1>4 DEF ActuateSatisfiedEca, ListedWasUsable
<1>5. CASE HandleReads /\ ~(\E c \in Conditions : ComputeCondition(c)) /\ ~(\E e \in Ecas : ActuateSatisfiedEca(e))
  BY <1>1, <1>5 DEF HandleReads, VerifyApiKey, CheckSource, MakeConditionList, Request, RetrieveActionList,
       RequestFunction, RequestsEnd, ConditionsComputed, RetrieveSatisfiedEcas, SatisfiedEcasListed,
       EcasActuated, FindFunction, Leave
<1>6. CASE HandleWrites \/ Disable \/ StatementFails \/ UNCHANGED vars
  BY <1>1, <1>6, DisableKeeps DEF HandleWrites, InsertSatisfiedCondition, AddSatisfiedEca,
     InsertApplicationHistory, StatementFails, Leave, vars
<1>7. QED  BY <1>2, <1>3, <1>4, <1>5, <1>6, Steps

-----------------------------------------------------------------------------
(* The theorems *)

LEMMA IInvHolds == Spec => []IInv
<1>1. IInv /\ [Next]_vars => IInv'
  BY TypeKept, ListsKept, MetKept, UsableKept, HeardKept, RequestedKept DEF IInv, UsableInv
<1>2. QED  BY InitEstablishes, <1>1, PTL DEF Spec

\* Every variable has its type; in particular a rule's number is kept exactly
\* while requestAction runs, and no list outlives its message.
THEOREM TypeCorrect == Spec => []TypeOK
<1>1. IInv => TypeOK
  BY DEF IInv, TypeInv, TablesType, BoundsType, HistoryType, HandlingType, ListsType, TypeOK
<1>2. QED  BY IInvHolds, <1>1, PTL

\* actuateSatisfiedEcaList requests the actions of a rule at most once for each
\* time all its conditions were found satisfied.
THEOREM ActuationsWereMet == Spec => []ActuatedOncePerMeeting
<1>1. IInv => ActuatedOncePerMeeting
  BY DEF IInv, MetInv, ToActuateWasMet, ActuatedOncePerMeeting
<1>2. QED  BY IInvHolds, <1>1, PTL

\* As long as no statement fails, requestAction runs for rules that were in use
\* when the message arrived.
THEOREM RequestsWereUsable == Spec => []RequestedWasUsable
<1>1. IInv => RequestedWasUsable
  BY DEF IInv, UsableInv
<1>2. QED  BY IInvHolds, <1>1, PTL

-----------------------------------------------------------------------------
(* The reaction to a message, statement by statement *)

\* What the promise of EcaEngine is for: no statement fails, every rule has a
\* condition, and none has so many that strncmp takes their number for 1.
Promised ==
    /\ MaxErrors = 0
    /\ \A e \in Ecas : /\ ConditionsOf(e) # {}
                       /\ IsSingleCondition(e) <=> Cardinality(ConditionsOf(e)) = 1

Holding(c) == computeSingleCondition(c, msg.value, Expression[c])

\* The conditions that the message satisfies and, with their rule, what is to
\* be recorded of all conditions.
Recorded(c) ==
    IF c \in hRelatedConditionList /\ ~IsImmediate(EcaOf[c]) THEN Holding(c) ELSE atStart.is_satisfied[c]

RuleMet(e) == \A c \in ConditionsOf(e) : Recorded(c)

Computing == {"compute", "compute_actions", "compute_request"}
Actuating == {"actuate", "actuate_actions", "actuate_request"}

\* Immediate rules have nothing recorded.
ImmediateUnrecorded == \A c \in Conditions : is_satisfied[c] => ~IsImmediate(EcaOf[c])

\* So it was when the message's list was made, and no rule was met.
StartUnmet ==
    pc \in Processing =>
       /\ \A c \in Conditions : atStart.is_satisfied[c] => ~IsImmediate(EcaOf[c])
       /\ \A e \in Ecas : \E c \in ConditionsOf(e) : ~atStart.is_satisfied[c]

\* What was computed so far,
ComputedSoFar ==
    /\ pc \notin Processing => bIsSatisfied = {}
    /\ pc \in Computing => bIsSatisfied = {c \in hRelatedConditionList \ todo : Holding(c)}
    /\ pc \in Processing \ Computing => bIsSatisfied = {c \in hRelatedConditionList : Holding(c)}

\* what was recorded,
RecordedSoFar ==
    /\ pc \in Computing => is_satisfied = atStart.is_satisfied
    /\ pc = "insert" => \A c \in todo : ~IsImmediate(EcaOf[c])
    /\ pc = "insert" =>
          \A c \in Conditions : is_satisfied[c] <=> IF c \in todo THEN atStart.is_satisfied[c] ELSE Recorded(c)
    /\ pc \in {"reset"} \cup Actuating =>
          \A c \in Conditions : is_satisfied[c] <=> (Recorded(c) /\ EcaOf[c] \notin hSatisfiedEcaList)

\* what was listed,
ListedSoFar ==
    /\ pc = "reset" => /\ \A e \in Ecas : e \in hSatisfiedEcaList \cup ecaTodo <=> RuleMet(e)
                       /\ hSatisfiedEcaList \cap ecaTodo = {}
    /\ pc \in Actuating => /\ \A e \in Ecas : e \in hSatisfiedEcaList <=> RuleMet(e)
                           /\ ecaTodo \subseteq hSatisfiedEcaList

\* and what was requested: all actions of a rule as often as it fired, but for
\* those of the rule at hand that are still to be requested.
Fired(e) ==
    IF IsImmediate(e) THEN Cardinality(bIsSatisfied \cap ConditionsOf(e))
    ELSE IF pc \in Actuating /\ e \in hSatisfiedEcaList \ ecaTodo THEN 1 ELSE 0

Pending ==
    IF pc \in {"compute_actions", "actuate_actions"} THEN ActionsOf(nEcaId)
    ELSE IF pc \in {"compute_request", "actuate_request"} THEN hActionList ELSE {}

RequestedSoFar ==
    pc \in Processing =>
       \A a \in Actions : requests[a] + (IF a \in Pending THEN 1 ELSE 0)
                              = atStart.requests[a] + Fired(ActionEca[a])

EngineInv ==
    /\ ImmediateUnrecorded /\ StartUnmet
    /\ ComputedSoFar /\ RecordedSoFar /\ ListedSoFar /\ RequestedSoFar

\* All of it is inductive together, as long as nothing failed.
EInv == IInv /\ NothingFailed /\ EngineInv

LEMMA EngineInit == ASSUME Promised, Init PROVE EInv
<1>1. NothingFailed
  BY DEF Init, NothingFailed, Promised
<1>2. EngineInv
  BY DEF Init, EngineInv, ImmediateUnrecorded, StartUnmet, ComputedSoFar, RecordedSoFar, ListedSoFar,
         RequestedSoFar, Processing, Computing, Actuating
<1>3. QED  BY <1>1, <1>2, InitEstablishes DEF EInv

LEMMA NothingFails ==
    ASSUME Promised, EInv, [Next]_vars
    PROVE  NothingFailed' /\ ~StatementFails /\ ~DisableFails
<1>1. nErrors = 0 /\ MaxErrors = 0
  BY DEF EInv, NothingFailed, Promised
<1>2. ~StatementFails /\ ~DisableFails
  BY <1>1 DEF StatementFails, DisableFails
<1>3. nErrors' = nErrors
  BY <1>2, Steps, ReadsOnly DEF HandleWrites, InsertSatisfiedCondition, AddSatisfiedEca,
     InsertApplicationHistory, Receive, Disable, StartDisabling, RegisterDevice, DisableNext, vars
<1>4. QED  BY <1>1, <1>2, <1>3 DEF EInv, NothingFailed

\* What the reaction is about.
reaction == <<pc, msg, is_satisfied, hRelatedConditionList, todo, bIsSatisfied, hSatisfiedEcaList, ecaTodo, nEcaId,
              hActionList, requests, atStart>>

\* The steps that lead to, or stay in, the handling of a variable.
ReactionStep ==
    \/ MakeConditionList
    \/ (\E c \in Conditions : ComputeCondition(c)) \/ Request("compute") \/ ConditionsComputed
    \/ (\E c \in Conditions : InsertSatisfiedCondition(c)) \/ RetrieveSatisfiedEcas
    \/ (\E e \in Ecas : AddSatisfiedEca(e)) \/ SatisfiedEcasListed
    \/ (\E e \in Ecas : ActuateSatisfiedEca(e)) \/ Request("actuate")

LEMMA OtherSteps ==
    ASSUME Promised, EInv, [Next]_vars
    PROVE  \/ ReactionStep
           \/ UNCHANGED reaction
           \/ /\ pc \in {"idle", "verify", "check", "result_check", "result_find", "result"} \/ EcasActuated
              /\ pc' \notin Processing /\ bIsSatisfied' = {} /\ UNCHANGED <<is_satisfied, requests>>
<1> USE DEF reaction
<1>0. pc \notin Processing => bIsSatisfied = {}
  BY DEF EInv, EngineInv, ComputedSoFar
<1>1. CASE Disable \/ UNCHANGED vars
  BY <1>1, DisableKeeps DEF vars
<1>2. ASSUME NEW m \in Messages, Receive(m)
      PROVE  /\ pc = "idle" /\ pc' \notin Processing /\ bIsSatisfied' = {} /\ UNCHANGED <<is_satisfied, requests>>
  BY <1>0, <1>2 DEF Receive, Processing
<1>3. CASE VerifyApiKey \/ CheckSource("result_check", "result_find") \/ FindFunction \/ InsertApplicationHistory
  BY <1>0, <1>3 DEF VerifyApiKey, CheckSource, FindFunction, InsertApplicationHistory, Leave, Processing
<1>4. CASE CheckSource("check", "list")
  BY <1>0, <1>4 DEF CheckSource, Leave, Processing
<1>5. CASE EcasActuated
  BY <1>5 DEF EcasActuated, Leave, Processing
<1>6. QED
  BY <1>1, <1>2, <1>3, <1>4, <1>5, NothingFails, Steps DEF HandleReads, HandleWrites, ReactionStep

LEMMA ImmediateKept == ASSUME Promised, EInv, [Next]_vars PROVE ImmediateUnrecorded'
<1> USE DEF EInv, EngineInv, ImmediateUnrecorded
<1>t. is_satisfied \in [Conditions -> BOOLEAN]
  BY DEF IInv, TypeInv, TablesType
<1>1. CASE UNCHANGED is_satisfied
  BY <1>1
<1>2. ASSUME NEW c \in Conditions, InsertSatisfiedCondition(c) PROVE ImmediateUnrecorded'
  BY <1>2, <1>t DEF InsertSatisfiedCondition, RecordedSoFar
<1>3. ASSUME NEW e \in Ecas, AddSatisfiedEca(e) PROVE ImmediateUnrecorded'
  BY <1>3, <1>t DEF AddSatisfiedEca
<1>4. QED
  BY <1>1, <1>2, <1>3, Steps, ReadsOnly, DisableKeeps DEF HandleWrites, InsertApplicationHistory, StatementFails,
     Receive, vars

\* From its list on, the message, the list and what was recorded before it stay.
LEMMA StartStays ==
    ASSUME ReactionStep, ~MakeConditionList
    PROVE  pc \in Processing /\ pc' \in Processing /\ UNCHANGED <<msg, hRelatedConditionList, atStart>>
BY DEF ReactionStep, ComputeCondition, Request, RetrieveActionList, RequestFunction, RequestsEnd, ConditionsComputed,
       InsertSatisfiedCondition, RetrieveSatisfiedEcas, AddSatisfiedEca, SatisfiedEcasListed, ActuateSatisfiedEca,
       Processing

LEMMA StartKept == ASSUME Promised, EInv, [Next]_vars PROVE StartUnmet'
<1> USE DEF EInv, EngineInv
<1>1. CASE pc' \notin Processing
  BY <1>1 DEF StartUnmet
<1>2. CASE UNCHANGED reaction
  BY <1>2 DEF StartUnmet, reaction
<1>3. CASE MakeConditionList
  <2>1. pc = "list" /\ atStart'.is_satisfied = is_satisfied
    BY <1>3 DEF MakeConditionList
  <2>2. \A e \in Ecas : \E c \in ConditionsOf(e) : ~is_satisfied[c]
    BY <2>1 DEF IInv, UsableInv, OnlyHeardAreMet, Unmet
  <2>3. QED  BY <2>1, <2>2 DEF StartUnmet, ImmediateUnrecorded
<1>4. CASE ReactionStep /\ ~MakeConditionList
  BY <1>4, StartStays DEF StartUnmet
<1>5. QED  BY <1>1, <1>2, <1>3, <1>4, OtherSteps

\* So it stays what is to be recorded.
LEMMA RecordedStays ==
    ASSUME UNCHANGED <<msg, hRelatedConditionList, atStart>>
    PROVE  /\ \A c \in Conditions : (Holding(c)' <=> Holding(c)) /\ (Recorded(c)' <=> Recorded(c))
           /\ \A e \in Ecas : RuleMet(e)' <=> RuleMet(e)
<1>1. \A c \in Conditions : (Holding(c)' <=> Holding(c)) /\ (Recorded(c)' <=> Recorded(c))
  BY DEF Holding, Recorded
<1>2. QED  BY <1>1 DEF RuleMet, ConditionsOf

\* The loops before the requests: what one of them made, the next one relies on.
SoFar == ComputedSoFar /\ RecordedSoFar /\ ListedSoFar

LEMMA SoFarKept == ASSUME Promised, EInv, [Next]_vars PROVE SoFar'
<1> USE DEF EInv, EngineInv, SoFar, Processing, Computing, Actuating
<1>t. /\ is_satisfied \in [Conditions -> BOOLEAN] /\ hRelatedConditionList \subseteq Conditions
      /\ todo \subseteq hRelatedConditionList /\ bIsSatisfied \subseteq hRelatedConditionList
      /\ hSatisfiedEcaList \subseteq Ecas /\ ecaTodo \subseteq Ecas
      /\ pc \in Computing \cup {"insert"} => ecaTodo = {} /\ hSatisfiedEcaList = {}
  BY DEF IInv, TypeInv, TablesType, ListsType, ListsFilledInTurn
<1>1. CASE pc' \notin Processing /\ bIsSatisfied' = {}
  BY <1>1 DEF ComputedSoFar, RecordedSoFar, ListedSoFar
<1>2. CASE UNCHANGED reaction
  <2>1. UNCHANGED <<msg, hRelatedConditionList, atStart>>
    BY <1>2 DEF reaction
  <2> USE <1>2, <2>1, RecordedStays DEF reaction
  <2>2. ComputedSoFar'
    BY <1>t DEF ComputedSoFar
  <2>3. RecordedSoFar'
    BY <1>t DEF RecordedSoFar
  <2>4. ListedSoFar'
    BY DEF ListedSoFar
  <2>5. QED  BY <2>2, <2>3, <2>4
<1>3. CASE MakeConditionList
  <2>1. pc = "list" /\ pc' = "compute" /\ hRelatedConditionList' = todo' /\ bIsSatisfied' = {}
        /\ is_satisfied' = atStart'.is_satisfied
    BY <1>3 DEF MakeConditionList, ComputedSoFar
  <2>2. QED  BY <2>1 DEF ComputedSoFar, RecordedSoFar, ListedSoFar
<1>4. ASSUME NEW c \in Conditions, ComputeCondition(c) PROVE SoFar'
  <2>1. UNCHANGED <<msg, hRelatedConditionList, atStart, is_satisfied>>
    BY <1>4 DEF ComputeCondition
  <2>2. pc = "compute" /\ pc' \in Computing /\ c \in todo /\ todo' = todo \ {c}
        /\ bIsSatisfied' = IF Holding(c) THEN bIsSatisfied \cup {c} ELSE bIsSatisfied
    BY <1>4 DEF ComputeCondition, Holding
  <2>3. bIsSatisfied' = {x \in hRelatedConditionList' \ todo' : Holding(x)'}
    <3>1. bIsSatisfied = {x \in hRelatedConditionList \ todo : Holding(x)}
      BY <2>2 DEF ComputedSoFar
    <3>2. \A x \in Conditions : Holding(x)' <=> Holding(x)
      BY <2>1, RecordedStays
    <3>3. QED  BY <2>1, <2>2, <3>1, <3>2, <1>t
  <2>4. QED  BY <2>1, <2>2, <2>3 DEF ComputedSoFar, RecordedSoFar, ListedSoFar
<1>5. ASSUME NEW loop \in {"compute", "actuate"}, Request(loop) PROVE SoFar'
  <2>1. UNCHANGED <<msg, hRelatedConditionList, atStart, is_satisfied, todo, bIsSatisfied, hSatisfiedEcaList,
                    ecaTodo>>
    BY <1>5 DEF Request, RetrieveActionList, RequestFunction, RequestsEnd
  <2>2. (pc \in Computing /\ pc' \in Computing) \/ (pc \in Actuating /\ pc' \in Actuating)
    BY <1>5 DEF Request, RetrieveActionList, RequestFunction, RequestsEnd
  <2> USE <2>1, <2>2, RecordedStays
  <2>3. ComputedSoFar'
    BY <1>t DEF ComputedSoFar
  <2>4. RecordedSoFar'
    BY <1>t DEF RecordedSoFar
  <2>5. ListedSoFar'
    BY DEF ListedSoFar
  <2>6. QED  BY <2>3, <2>4, <2>5
<1>6. CASE ConditionsComputed
  <2>1. UNCHANGED <<msg, hRelatedConditionList, atStart, is_satisfied, bIsSatisfied>> /\ pc = "compute" /\ todo = {}
        /\ pc' = "insert" /\ todo' = {c \in hRelatedConditionList : ~IsImmediate(EcaOf[c])}
    BY <1>6 DEF ConditionsComputed
  <2>2. bIsSatisfied' = {c \in hRelatedConditionList' : Holding(c)'}
    BY <2>1, <1>t, RecordedStays DEF ComputedSoFar
  <2>3. \A c \in Conditions : c \notin todo' => (is_satisfied[c] <=> Recorded(c))
    BY <2>1 DEF RecordedSoFar, Recorded
  <2>4. RecordedSoFar'
    BY <2>1, <2>3, RecordedStays DEF RecordedSoFar
  <2>5. QED  BY <2>1, <2>2, <2>4 DEF ComputedSoFar, ListedSoFar
<1>7. ASSUME NEW c \in Conditions, InsertSatisfiedCondition(c) PROVE SoFar'
  <2>1. UNCHANGED <<msg, hRelatedConditionList, atStart, bIsSatisfied>> /\ pc = "insert" /\ pc' = "insert"
        /\ c \in todo /\ todo' = todo \ {c} /\ is_satisfied' = [is_satisfied EXCEPT ![c] = c \in bIsSatisfied]
    BY <1>7 DEF InsertSatisfiedCondition
  <2>2. c \in bIsSatisfied <=> Recorded(c)
    BY <2>1, <1>t DEF ComputedSoFar, RecordedSoFar, Recorded
  <2>3. ComputedSoFar'
    BY <2>1, <1>t, RecordedStays DEF ComputedSoFar
  <2>4. RecordedSoFar'
    BY <2>1, <2>2, <1>t, RecordedStays DEF RecordedSoFar
  <2>5. QED  BY <2>1, <2>3, <2>4 DEF ListedSoFar
<1>8. CASE RetrieveSatisfiedEcas
  <2>1. /\ UNCHANGED <<msg, hRelatedConditionList, atStart, bIsSatisfied, is_satisfied, hSatisfiedEcaList>>
        /\ pc = "insert" /\ pc' = "reset" /\ todo = {}
        /\ ecaTodo' = {e \in Ecas : \A c \in ConditionsOf(e) : is_satisfied[c]}
    BY <1>8 DEF RetrieveSatisfiedEcas
  <2>2. \A c \in Conditions : is_satisfied[c] <=> Recorded(c)
    BY <2>1 DEF RecordedSoFar
  <2>3. ComputedSoFar'
    BY <2>1, <1>t, RecordedStays DEF ComputedSoFar
  <2>4. RecordedSoFar'
    BY <2>1, <2>2, <1>t, RecordedStays DEF RecordedSoFar
  <2>5. \A e \in Ecas : e \in ecaTodo' <=> RuleMet(e)
    BY <2>1, <2>2 DEF RuleMet, ConditionsOf
  <2>6. QED  BY <2>1, <2>3, <2>4, <2>5, <1>t, RecordedStays DEF ListedSoFar
<1>9. ASSUME NEW e \in Ecas, AddSatisfiedEca(e) PROVE SoFar'
  <2>1. /\ UNCHANGED <<msg, hRelatedConditionList, atStart, bIsSatisfied>>
        /\ pc = "reset" /\ pc' = "reset" /\ e \in ecaTodo /\ ecaTodo' = ecaTodo \ {e}
        /\ hSatisfiedEcaList' = hSatisfiedEcaList \cup {e}
        /\ is_satisfied' = [c \in Conditions |-> is_satisfied[c] /\ EcaOf[c] # e]
    BY <1>9 DEF AddSatisfiedEca
  <2>3. ComputedSoFar'
    BY <2>1, <1>t, RecordedStays DEF ComputedSoFar
  <2>4. RecordedSoFar'
    BY <2>1, <1>t, RecordedStays DEF RecordedSoFar
  <2>5. ListedSoFar'
    BY <2>1, <1>t, RecordedStays DEF ListedSoFar
  <2>6. QED  BY <2>3, <2>4, <2>5
<1>10. CASE SatisfiedEcasListed
  <2>1. /\ UNCHANGED <<msg, hRelatedConditionList, atStart, bIsSatisfied, is_satisfied, hSatisfiedEcaList>>
        /\ pc = "reset" /\ pc' = "actuate" /\ ecaTodo = {} /\ ecaTodo' = hSatisfiedEcaList
    BY <1>10 DEF SatisfiedEcasListed
  <2>3. ComputedSoFar'
    BY <2>1, <1>t, RecordedStays DEF ComputedSoFar
  <2>4. RecordedSoFar'
    BY <2>1, <1>t, RecordedStays DEF RecordedSoFar
  <2>5. ListedSoFar'
    BY <2>1, <1>t, RecordedStays DEF ListedSoFar
  <2>6. QED  BY <2>3, <2>4, <2>5
<1>11. ASSUME NEW e \in Ecas, ActuateSatisfiedEca(e) PROVE SoFar'
  <2>1. /\ UNCHANGED <<msg, hRelatedConditionList, atStart, bIsSatisfied, is_satisfied, hSatisfiedEcaList>>
        /\ pc = "actuate" /\ pc' = "actuate_actions" /\ ecaTodo' = ecaTodo \ {e}
    BY <1>11 DEF ActuateSatisfiedEca
  <2>3. ComputedSoFar'
    BY <2>1, <1>t, RecordedStays DEF ComputedSoFar
  <2>4. RecordedSoFar'
    BY <2>1, <1>t, RecordedStays DEF RecordedSoFar
  <2>5. ListedSoFar'
    BY <2>1, <1>t, RecordedStays DEF ListedSoFar
  <2>6. QED  BY <2>3, <2>4, <2>5
<1>12. QED
  BY <1>1, <1>2, <1>3, <1>4, <1>5, <1>6, <1>7, <1>8, <1>9, <1>10, <1>11, OtherSteps DEF ReactionStep

LEMMA FiredIsNat ==
    ASSUME NEW e \in Ecas, NEW S \in SUBSET Conditions
    PROVE  Cardinality(S \cap ConditionsOf(e)) \in Nat
BY FS_Subset, FS_CardinalityType, RulesAssumption DEF ConditionsOf

\* Only "all" rules are met by what is recorded.
LEMMA MetIsNotImmediate ==
    ASSUME EInv, pc \in Processing, NEW e \in Ecas, RuleMet(e)
    PROVE  ~IsImmediate(e)
BY DEF EInv, EngineInv, StartUnmet, RuleMet, Recorded, ConditionsOf

\* The requests of a rule are due when it fires and made one by one.
LEMMA RequestsKept == ASSUME Promised, EInv, [Next]_vars PROVE RequestedSoFar'
<1> USE DEF EInv, EngineInv, Processing, Computing, Actuating
<1>t. /\ requests \in [Actions -> Nat] /\ atStart.requests \in [Actions -> Nat]
      /\ todo \subseteq hRelatedConditionList /\ hRelatedConditionList \subseteq Conditions
      /\ bIsSatisfied \subseteq Conditions
      /\ hSatisfiedEcaList \subseteq Ecas /\ ecaTodo \subseteq Ecas
      /\ hActionList \subseteq Actions
  BY DEF IInv, TypeInv, HistoryType, ListsType
<1>a. \A a \in Actions : ActionEca[a] \in Ecas
  BY RulesAssumption
<1>1. CASE pc' \notin Processing
  BY <1>1 DEF RequestedSoFar
<1>2. CASE UNCHANGED reaction
  BY <1>2 DEF RequestedSoFar, Pending, Fired, reaction
<1>3. CASE MakeConditionList
  <2>1. /\ pc = "list" /\ pc' = "compute" /\ bIsSatisfied' = {} /\ requests' = requests
        /\ atStart'.requests = requests
    BY <1>3 DEF MakeConditionList, ComputedSoFar
  <2>2. \A e \in Ecas : Fired(e)' = 0
    BY <2>1, FS_EmptySet DEF Fired
  <2>3. Pending' = {}
    BY <2>1 DEF Pending
  <2>4. QED  BY <2>1, <2>2, <2>3, <1>t, <1>a DEF RequestedSoFar
<1>4. ASSUME NEW c \in Conditions, ComputeCondition(c) PROVE RequestedSoFar'
  <2> DEFINE r == EcaOf[c]
  <2>1. /\ pc = "compute" /\ c \in todo /\ UNCHANGED <<requests, atStart, hActionList>>
        /\ bIsSatisfied' = IF Holding(c) THEN bIsSatisfied \cup {c} ELSE bIsSatisfied
    BY <1>4 DEF ComputeCondition, Holding
  <2>2. IF Holding(c) /\ IsImmediate(r) THEN nEcaId' = r /\ pc' = "compute_actions" ELSE pc' = "compute"
    BY <1>4 DEF ComputeCondition, Holding
  <2>3. c \notin bIsSatisfied
    BY <2>1 DEF ComputedSoFar
  <2>4. \A a \in Actions : requests[a] = atStart.requests[a] + Fired(ActionEca[a])
    <3>1. Pending = {}
      BY <2>1 DEF Pending
    <3>2. QED  BY <3>1, <2>1, <1>t DEF RequestedSoFar
  <2>5. CASE ~Holding(c) \/ ~IsImmediate(r)
    <3>1. Pending' = {}
      BY <2>2, <2>5 DEF Pending
    <3>2. ASSUME NEW e \in Ecas PROVE Fired(e)' = Fired(e)
      <4>1. IsImmediate(e) => bIsSatisfied' \cap ConditionsOf(e) = bIsSatisfied \cap ConditionsOf(e)
        BY <2>1, <2>5 DEF ConditionsOf
      <4>2. QED  BY <4>1, <2>1, <2>2, <2>5 DEF Fired
    <3>3. QED  BY <3>1, <3>2, <2>1, <2>4, <1>t, <1>a DEF RequestedSoFar
  <2>6. CASE Holding(c) /\ IsImmediate(r)
    <3>1. Pending' = ActionsOf(r)
      BY <2>2, <2>6 DEF Pending
    <3>2. ASSUME NEW e \in Ecas, e # r PROVE Fired(e)' = Fired(e)
      <4>1. bIsSatisfied' \cap ConditionsOf(e) = bIsSatisfied \cap ConditionsOf(e)
        BY <2>1, <3>2 DEF ConditionsOf
      <4>2. QED  BY <4>1, <2>1, <2>2, <2>6 DEF Fired
    <3>3. Fired(r)' = Fired(r) + 1
      <4> DEFINE S == bIsSatisfied \cap ConditionsOf(r)
      <4>1. bIsSatisfied' \cap ConditionsOf(r) = S \cup {c} /\ c \notin S
        BY <2>1, <2>3, <2>6 DEF ConditionsOf
      <4>2. IsFiniteSet(S)
        BY <1>t, RulesAssumption, FS_Subset
      <4> HIDE DEF S
      <4>3. Cardinality(S \cup {c}) = Cardinality(S) + 1
        BY <4>1, <4>2, FS_AddElement
      <4>4. Fired(r)' = Cardinality(S \cup {c})
        BY <4>1, <2>6 DEF Fired
      <4>5. Fired(r) = Cardinality(S)
        BY <2>6 DEF Fired, S
      <4>6. QED  BY <4>3, <4>4, <4>5
    <3>4. \A e \in Ecas : Fired(e) \in Nat
      BY FiredIsNat, <1>t, <2>1 DEF Fired
    <3> HIDE DEF r
    <3>5. ASSUME NEW a \in Actions
          PROVE  requests'[a] + (IF a \in Pending' THEN 1 ELSE 0) = atStart'.requests[a] + Fired(ActionEca[a])'
      <4>1. requests'[a] = atStart'.requests[a] + Fired(ActionEca[a])
        BY <2>1, <2>4
      <4>2. CASE ActionEca[a] = r
        <5>1. a \in Pending' /\ Fired(ActionEca[a])' = Fired(ActionEca[a]) + 1
          BY <4>2, <3>1, <3>3 DEF ActionsOf
        <5>2. atStart'.requests[a] \in Nat /\ Fired(ActionEca[a]) \in Nat
          BY <1>t, <1>a, <2>1, <3>4
        <5>3. QED  BY <5>1, <5>2, <4>1
      <4>3. CASE ActionEca[a] # r
        <5>1. a \notin Pending' /\ Fired(ActionEca[a])' = Fired(ActionEca[a])
          BY <4>3, <3>1, <3>2, <1>a DEF ActionsOf
        <5>2. requests'[a] \in Nat
          BY <1>t, <2>1
        <5>3. QED  BY <5>1, <5>2, <4>1
      <4>4. QED  BY <4>2, <4>3
    <3>6. QED  BY <3>5 DEF RequestedSoFar
  <2>7. QED  BY <2>5, <2>6
<1>5. ASSUME NEW loop \in {"compute", "actuate"}, Request(loop) PROVE RequestedSoFar'
  <2>1. UNCHANGED <<atStart, bIsSatisfied, hSatisfiedEcaList, ecaTodo>>
    BY <1>5 DEF Request, RetrieveActionList, RequestFunction, RequestsEnd
  <2>2. (pc \in Computing /\ pc' \in Computing) \/ (pc \in Actuating /\ pc' \in Actuating)
    BY <1>5 DEF Request, RetrieveActionList, RequestFunction, RequestsEnd
  <2>3. ASSUME NEW e \in Ecas PROVE Fired(e)' = Fired(e)
    BY <2>1, <2>2 DEF Fired
  <2>4. CASE RetrieveActionList(loop)
    <3>1. UNCHANGED requests /\ Pending' = Pending
      BY <2>4 DEF RetrieveActionList, Pending
    <3>2. QED  BY <3>1, <2>1, <2>2, <2>3, <1>a DEF RequestedSoFar
  <2>5. ASSUME NEW b \in Actions, RequestFunction(loop, b) PROVE RequestedSoFar'
    <3>1. /\ requests' = [requests EXCEPT ![b] = @ + 1]
          /\ b \in Pending /\ Pending' = Pending \ {b}
      BY <2>5 DEF RequestFunction, Pending
    <3>2. ASSUME NEW a \in Actions
          PROVE  requests'[a] + (IF a \in Pending' THEN 1 ELSE 0) = requests[a] + (IF a \in Pending THEN 1 ELSE 0)
      BY <3>1, <1>t
    <3>3. QED  BY <3>2, <2>1, <2>2, <2>3, <1>a DEF RequestedSoFar
  <2>6. CASE RequestsEnd(loop)
    <3>1. UNCHANGED requests /\ Pending' = Pending
      BY <2>6 DEF RequestsEnd, Pending
    <3>2. QED  BY <3>1, <2>1, <2>2, <2>3, <1>a DEF RequestedSoFar
  <2>7. QED  BY <1>5, <2>4, <2>5, <2>6 DEF Request
<1>6. CASE \/ ConditionsComputed \/ (\E c \in Conditions : InsertSatisfiedCondition(c)) \/ RetrieveSatisfiedEcas
           \/ (\E e \in Ecas : AddSatisfiedEca(e)) \/ SatisfiedEcasListed
  <2>1. /\ UNCHANGED <<atStart, requests, bIsSatisfied>>
        /\ pc \in {"compute", "insert", "reset"} /\ pc' \in {"insert", "reset", "actuate"}
        /\ pc' = "actuate" => ecaTodo' = hSatisfiedEcaList'
    BY <1>6 DEF ConditionsComputed, InsertSatisfiedCondition, RetrieveSatisfiedEcas, AddSatisfiedEca,
                SatisfiedEcasListed
  <2>2. \A e \in Ecas : Fired(e)' = Fired(e)
    BY <2>1 DEF Fired
  <2>3. Pending = {} /\ Pending' = {}
    BY <2>1 DEF Pending
  <2>4. QED  BY <2>1, <2>2, <2>3, <1>a DEF RequestedSoFar
<1>7. ASSUME NEW e \in Ecas, ActuateSatisfiedEca(e) PROVE RequestedSoFar'
  <2>1. /\ UNCHANGED <<atStart, requests, bIsSatisfied, hSatisfiedEcaList>>
        /\ pc = "actuate" /\ pc' = "actuate_actions" /\ e \in ecaTodo /\ ecaTodo' = ecaTodo \ {e} /\ nEcaId' = e
    BY <1>7 DEF ActuateSatisfiedEca
  <2>2. e \in hSatisfiedEcaList /\ RuleMet(e)
    BY <2>1 DEF ListedSoFar
  <2>3. ~IsImmediate(e)
    BY <2>1, <2>2, MetIsNotImmediate
  <2>4. Pending = {} /\ Pending' = ActionsOf(e)
    BY <2>1 DEF Pending
  <2>5. Fired(e) = 0 /\ Fired(e)' = 1 /\ \A f \in Ecas : f # e => Fired(f)' = Fired(f)
    BY <2>1, <2>2, <2>3, <1>t DEF Fired
  <2>6. ASSUME NEW a \in Actions
        PROVE  requests'[a] + (IF a \in Pending' THEN 1 ELSE 0) = atStart'.requests[a] + Fired(ActionEca[a])'
    <3>1. requests'[a] + 0 = atStart'.requests[a] + Fired(ActionEca[a])
      BY <2>1, <2>4 DEF RequestedSoFar
    <3>2. CASE ActionEca[a] = e
      BY <3>1, <3>2, <2>1, <2>4, <2>5, <1>t DEF ActionsOf
    <3>3. CASE ActionEca[a] # e
      <4>1. a \notin Pending' /\ Fired(ActionEca[a])' = Fired(ActionEca[a])
        BY <3>3, <2>4, <2>5, <1>a DEF ActionsOf
      <4>2. QED  BY <3>1, <4>1
    <3>4. QED  BY <3>2, <3>3
  <2>7. QED  BY <2>6 DEF RequestedSoFar
<1>8. QED  BY <1>1, <1>2, <1>3, <1>4, <1>5, <1>6, <1>7, OtherSteps DEF ReactionStep

LEMMA EngineInvKept == ASSUME Promised, EInv, [Next]_vars PROVE EInv'
<1>1. IInv'
  BY TypeKept, ListsKept, MetKept, UsableKept, HeardKept, RequestedKept DEF EInv, IInv, UsableInv
<1>2. EngineInv'
  BY ImmediateKept, StartKept, SoFarKept, RequestsKept DEF EngineInv, SoFar
<1>3. QED  BY <1>1, <1>2, NothingFails DEF EInv

-----------------------------------------------------------------------------
(* The reaction is that of EcaEngine *)

\* What the engine is mapped to.
Heard ==
    IF pc \in Processing
    THEN [conditions |-> hRelatedConditionList, value |-> msg.value]
    ELSE [conditions |-> {}, value |-> NoMessage]

Satisfied == IF pc \in Processing THEN atStart.is_satisfied ELSE is_satisfied
Requests == IF pc \in Processing THEN atStart.requests ELSE requests

\* A condition is compared as it is meant, whichever of its operands comes first.
LEMMA ComputedAsMeant ==
    ASSUME NEW c \in Conditions, NEW value \in Values
    PROVE  computeSingleCondition(c, value, Expression[c]) <=> Engine!Meets(value, Expression[c], c)
<1> DEFINE w == Expression[c]
<1>1. w \in Seq(Words) /\ value \in Words
  BY RulesAssumption
<1> HIDE DEF w
<1>2. value.number \in Int /\ \A i \in 1..Len(w) : w[i].number \in Int
  <2>1. \A i \in 1..Len(w) : w[i] \in Words
    BY <1>1
  <2>2. \A x \in Words : x.number \in Int
    BY DEF Words
  <2>3. QED  BY <2>1, <2>2, <1>1
<1>3. ASSUME NEW x \in Int, NEW y \in Int, NEW t
      PROVE  checkDoubleCondition(x, convertStringOperatorToEnum(t, 1), y) <=> Engine!Compares(y, t, x)
  BY DEF checkDoubleCondition, convertStringOperatorToEnum, Engine!Compares
<1>4. ASSUME NEW x \in Int, NEW y \in Int, NEW t
      PROVE  checkDoubleCondition(x, convertStringOperatorToEnum(t, 2), y)
                <=> t \in {<<"<">>, <<"<=">>} /\ Engine!Compares(x, t, y)
  BY DEF checkDoubleCondition, convertStringOperatorToEnum, Engine!Compares
<1>5. ASSUME NEW x, NEW y, NEW t
      PROVE  checkTextCondition(x, convertStringOperatorToEnum(t, 1), y)
                <=> (t = <<"isEqual">> /\ y = x) \/ (t = <<"contains">> /\ Occurs(y, x))
  BY DEF checkTextCondition, convertStringOperatorToEnum
<1>6. Len(w) = 3 \/ Len(w) = 5 =>
         (checkDoubleCondition(value.number, convertStringOperatorToEnum(w[2].text, 1), w[1].number)
             <=> Engine!Compares(w[1].number, w[2].text, value.number))
  BY <1>2, <1>3
<1>7. Len(w) = 5 =>
         (checkDoubleCondition(value.number, convertStringOperatorToEnum(w[4].text, 2), w[5].number)
             <=> w[4].text \in {<<"<">>, <<"<=">>} /\ Engine!Compares(value.number, w[4].text, w[5].number))
  BY <1>2, <1>4
<1>8. checkTextCondition(value.text, convertStringOperatorToEnum(w[2].text, 1), w[3].text)
         <=> (w[2].text = <<"isEqual">> /\ w[3].text = value.text)
             \/ (w[2].text = <<"contains">> /\ Occurs(w[3].text, value.text))
  BY <1>5
<1> DEFINE ByNumber == /\ Engine!Compares(w[1].number, w[2].text, value.number)
                       /\ \/ Len(w) = 3
                          \/ /\ Len(w) = 5
                             /\ w[4].text \in {<<"<">>, <<"<=">>}
                             /\ Engine!Compares(value.number, w[4].text, w[5].number)
           ByText == \/ w[2].text = <<"isEqual">> /\ w[3].text = value.text
                     \/ w[2].text = <<"contains">> /\ Occurs(w[3].text, value.text)
<1>9. computeSingleCondition(c, value, w)
         <=> w[1].text = <<"event">> \/ (IsNumeric(c) /\ ByNumber) \/ (IsTextual(c) /\ ByText)
  <2>1. ByNumber <=>
           /\ Len(w) \in {3, 5}
           /\ checkDoubleCondition(value.number, convertStringOperatorToEnum(w[2].text, 1), w[1].number)
           /\ Len(w) = 5 =>
                 checkDoubleCondition(value.number, convertStringOperatorToEnum(w[4].text, 2), w[5].number)
    BY <1>6, <1>7
  <2> HIDE DEF ByNumber
  <2>2. QED  BY <2>1, <1>8 DEF computeSingleCondition
<1>10. Engine!Meets(value, w, c)
         <=> w[1].text = <<"event">> \/ (IsNumeric(c) /\ ByNumber) \/ (IsTextual(c) /\ ByText)
  BY DEF Engine!Meets, Engine!IsNumeric, Engine!IsTextual, IsNumeric, IsTextual, Engine!Occurs, Occurs
<1>11. QED  BY <1>9, <1>10 DEF w

\* The engine counts as the handler does.
LEMMA SameCardinality == ASSUME NEW S PROVE Engine!Cardinality(S) = Cardinality(S)
BY DEF Engine!Cardinality, Cardinality

LEMMA ImmediateAsMeant == ASSUME Promised, NEW e \in Ecas PROVE IsImmediate(e) <=> Engine!Immediate(e)
<1>1. Engine!ConditionsOf(e) = ConditionsOf(e)
  BY DEF Engine!ConditionsOf, ConditionsOf
<1>2. QED  BY <1>1, SameCardinality DEF Promised, IsImmediate, Engine!Immediate

LEMMA InitIsInit == ASSUME Promised, Init PROVE Engine!Init
<1>1. pc = "idle" /\ pc \notin Processing
  BY DEF Init, Processing
<1>2. Heard = Engine!Silence /\ Satisfied = is_satisfied /\ Requests = requests
  BY <1>1 DEF Heard, Satisfied, Requests, Engine!Silence
<1>3. \A c \in Conditions : is_satisfied[c] => ~Engine!Immediate(EcaOf[c])
  BY ImmediateAsMeant, RulesAssumption DEF Init
<1>4. is_satisfied \in [Conditions -> BOOLEAN] /\ usable \in [Ecas -> BOOLEAN] /\ requests = [a \in Actions |-> 0]
  BY DEF Init
<1>5. \A e \in Ecas : \E c \in Engine!ConditionsOf(e) : ~is_satisfied[c]
  BY DEF Init, Promised, Engine!ConditionsOf, ConditionsOf
<1>6. QED  BY <1>2, <1>3, <1>4, <1>5 DEF Engine!Init, Heard, Satisfied, Requests

\* The steps that only prepare the reaction, or its end, are none of the engine's.
LEMMA Silent ==
    ASSUME EInv, UNCHANGED usable,
           \/ ReactionStep /\ ~MakeConditionList
           \/ UNCHANGED reaction
           \/ pc \notin Processing /\ pc' \notin Processing /\ UNCHANGED <<is_satisfied, requests>>
    PROVE  UNCHANGED Engine!vars
<1>1. UNCHANGED <<Heard, Satisfied, Requests>>
  <2>1. CASE ReactionStep /\ ~MakeConditionList
    BY <2>1, StartStays DEF Heard, Satisfied, Requests
  <2>2. CASE UNCHANGED reaction
    BY <2>2 DEF Heard, Satisfied, Requests, reaction
  <2>3. CASE pc \notin Processing /\ pc' \notin Processing /\ UNCHANGED <<is_satisfied, requests>>
    BY <2>3 DEF Heard, Satisfied, Requests
  <2>4. QED  BY <2>1, <2>2, <2>3
<1>2. QED  BY <1>1 DEF Engine!vars, Heard, Satisfied, Requests

\* The list of its conditions is what the engine hears of a message.
LEMMA ListIsHeard == ASSUME EInv, MakeConditionList PROVE \E m \in Messages : Engine!Hear(m)
<1>1. pc = "list" /\ pc \notin Processing /\ pc' = "compute" /\ pc' \in Processing
  BY DEF MakeConditionList, Processing
<1>2. msg \in Messages
  BY <1>1 DEF EInv, IInv, TypeInv, HandlingType
<1>3. Heard = Engine!Silence /\ Satisfied = is_satisfied /\ Requests = requests
  BY <1>1 DEF Heard, Satisfied, Requests, Engine!Silence
<1>4. Satisfied' = is_satisfied /\ Requests' = requests /\ usable' = usable
  BY <1>1 DEF Satisfied, Requests, MakeConditionList
<1>5. Heard' = [conditions |-> {c \in Engine!Concerned(msg) : usable[EcaOf[c]]}, value |-> msg.value]
  BY <1>1 DEF Heard, MakeConditionList, Listed, Engine!Concerned, Concerned
<1>6. Engine!Hear(msg)
  BY <1>3, <1>4, <1>5 DEF Engine!Hear, Heard, Satisfied, Requests
<1>7. QED  BY <1>2, <1>6

\* What was recorded and requested by then is what the engine does at once.
LEMMA EndIsReaction == ASSUME Promised, EInv, EcasActuated PROVE Engine!React
<1>1. /\ pc = "actuate" /\ pc \in Processing /\ ecaTodo = {} /\ pc' = "idle" /\ pc' \notin Processing
      /\ UNCHANGED <<usable, is_satisfied, requests>>
  BY DEF EcasActuated, Leave, Processing
<1>2. msg \in Messages /\ msg.value \in Values /\ msg.value # NoMessage
  <2>1. msg \in Messages
    BY <1>1 DEF EInv, IInv, TypeInv, HandlingType
  <2>2. QED  BY <2>1, RulesAssumption
<1>3. Heard = [conditions |-> hRelatedConditionList, value |-> msg.value] /\ Heard # Engine!Silence
  BY <1>1, <1>2 DEF Heard, Engine!Silence
<1>4. Heard' = Engine!Silence /\ Satisfied' = is_satisfied /\ Requests' = requests
  BY <1>1 DEF Heard, Satisfied, Requests, Engine!Silence
<1>5. Satisfied = atStart.is_satisfied /\ Requests = atStart.requests
  BY <1>1 DEF Satisfied, Requests
<1>t. /\ is_satisfied \in [Conditions -> BOOLEAN] /\ requests \in [Actions -> Nat]
      /\ atStart.is_satisfied \in [Conditions -> BOOLEAN] /\ atStart.requests \in [Actions -> Nat]
      /\ hRelatedConditionList \subseteq Conditions
  BY DEF EInv, IInv, TypeInv, TablesType, HistoryType, ListsType
<1>6. ASSUME NEW c \in Conditions PROVE Engine!Holds(c) <=> Holding(c)
  <2>1. Engine!Holds(c) <=> Engine!Meets(msg.value, Expression[c], c)
    BY <1>3 DEF Engine!Holds, Heard
  <2>2. QED  BY <2>1, <1>2, ComputedAsMeant DEF Holding
<1>7. ASSUME NEW c \in Conditions PROVE Engine!Updated(c) <=> Recorded(c)
  <2>1. EcaOf[c] \in Ecas
    BY RulesAssumption
  <2>2. IsImmediate(EcaOf[c]) <=> Engine!Immediate(EcaOf[c])
    BY <2>1, ImmediateAsMeant
  <2>3. QED  BY <1>3, <1>5, <1>6, <2>2 DEF Engine!Updated, Recorded, Heard, Satisfied
<1>8. \A e \in Ecas : e \in hSatisfiedEcaList <=> RuleMet(e)
  BY <1>1 DEF EInv, EngineInv, ListedSoFar, Actuating
<1>9. ASSUME NEW e \in Ecas PROVE Engine!Firings(e) = Fired(e)
  <2>1. IsImmediate(e) <=> Engine!Immediate(e)
    BY ImmediateAsMeant
  <2>2. CASE IsImmediate(e)
    <3>1. bIsSatisfied = {c \in hRelatedConditionList : Holding(c)}
      BY <1>1 DEF EInv, EngineInv, ComputedSoFar, Computing
    <3>2. {c \in hRelatedConditionList \cap Engine!ConditionsOf(e) : Engine!Holds(c)}
             = bIsSatisfied \cap ConditionsOf(e)
      BY <3>1, <1>6, <1>t DEF Engine!ConditionsOf, ConditionsOf
    <3>3. Engine!Firings(e)
             = Cardinality({c \in hRelatedConditionList \cap Engine!ConditionsOf(e) : Engine!Holds(c)})
      BY <2>1, <2>2, <1>3, SameCardinality DEF Engine!Firings, Heard
    <3>4. QED  BY <3>2, <3>3, <2>2 DEF Fired
  <2>3. CASE ~IsImmediate(e)
    <3>1. (\A c \in Engine!ConditionsOf(e) : Engine!Updated(c)) <=> RuleMet(e)
      BY <1>7 DEF RuleMet, Engine!ConditionsOf, ConditionsOf
    <3>2. Engine!Firings(e) = IF RuleMet(e) THEN 1 ELSE 0
      BY <2>1, <2>3, <3>1 DEF Engine!Firings
    <3>3. Fired(e) = IF RuleMet(e) THEN 1 ELSE 0
      BY <1>1, <1>8, <2>3 DEF Fired, Actuating
    <3>4. QED  BY <3>2, <3>3
  <2>4. QED  BY <2>2, <2>3
<1>10. ASSUME NEW c \in Conditions
       PROVE  is_satisfied[c] = (Engine!Updated(c) /\ Engine!Firings(EcaOf[c]) = 0)
  <2> DEFINE e == EcaOf[c]
  <2>1. e \in Ecas /\ c \in ConditionsOf(e)
    BY RulesAssumption DEF ConditionsOf
  <2>2. is_satisfied[c] <=> Recorded(c) /\ e \notin hSatisfiedEcaList
    BY <1>1 DEF EInv, EngineInv, RecordedSoFar, Actuating
  <2>3. is_satisfied[c] <=> Recorded(c) /\ ~RuleMet(e)
    BY <2>1, <2>2, <1>8
  <2>4. Recorded(c) => ~IsImmediate(e)
    BY <1>1 DEF EInv, EngineInv, StartUnmet, Recorded
  <2>5. ~IsImmediate(e) => (Fired(e) = 0 <=> ~RuleMet(e))
    BY <1>1, <1>8, <2>1 DEF Fired, Actuating
  <2>6. is_satisfied[c] <=> Recorded(c) /\ Fired(e) = 0
    BY <2>3, <2>4, <2>5
  <2>7. is_satisfied[c] \in BOOLEAN
    BY <1>t
  <2>8. QED  BY <2>1, <2>6, <2>7, <1>7, <1>9
<1>11. is_satisfied = [c \in Conditions |-> Engine!Updated(c) /\ Engine!Firings(EcaOf[c]) = 0]
  BY <1>10, <1>t
<1>12. ASSUME NEW a \in Actions PROVE requests[a] = atStart.requests[a] + Engine!Firings(ActionEca[a])
  <2>1. Pending = {}
    BY <1>1 DEF Pending
  <2>2. ActionEca[a] \in Ecas
    BY RulesAssumption
  <2>3. requests[a] + 0 = atStart.requests[a] + Fired(ActionEca[a])
    BY <1>1, <2>1 DEF EInv, EngineInv, RequestedSoFar
  <2>4. QED  BY <2>2, <2>3, <1>9, <1>t
<1>13. requests = [a \in Actions |-> atStart.requests[a] + Engine!Firings(ActionEca[a])]
  BY <1>12, <1>t
<1>14. QED
  BY <1>1, <1>3, <1>4, <1>5, <1>11, <1>13 DEF Engine!React, Heard, Satisfied, Requests

\* A device that goes takes its rules with it.
LEMMA DisableIsRemoval ==
    ASSUME EInv, Disable
    PROVE  UNCHANGED Engine!vars \/ \E E \in SUBSET Ecas : Engine!Remove(E)
<1>1. UNCHANGED reaction
  BY DisableKeeps DEF reaction
<1>2. UNCHANGED <<Heard, Satisfied, Requests>>
  BY <1>1 DEF Heard, Satisfied, Requests, reaction
<1>3. CASE UNCHANGED usable
  BY <1>1, <1>3, Silent
<1>4. ASSUME NEW related, NEW d, RemoveEcas(related, d) PROVE \E E \in SUBSET Ecas : Engine!Remove(E)
  <2> DEFINE E == {e \in Ecas : d \in Devices /\ e \in related[d]}
  <2>1. usable' = [e \in Ecas |-> usable[e] /\ e \notin E]
    BY <1>4 DEF RemoveEcas
  <2>2. Engine!Remove(E)
    BY <2>1, <1>2 DEF Engine!Remove, Heard, Satisfied, Requests
  <2>3. E \in SUBSET Ecas
    OBVIOUS
  <2>4. QED  BY <2>2, <2>3
<1>5. UNCHANGED usable \/ \E d : RemoveEcas(ConditionEcas, d) \/ RemoveEcas(ActionEcas, d)
  BY DEF Disable, StartDisabling, RegisterDevice, DisableNext, DisableFails, DisableStatement, DisconnectDevice
<1>6. QED  BY <1>3, <1>4, <1>5

LEMMA StepIsStep == ASSUME Promised, EInv, [Next]_vars PROVE [Engine!Next]_(Engine!vars)
<1>1. CASE Disable
  BY <1>1, DisableIsRemoval DEF Engine!Next
<1>2. CASE ~Disable
  <2>1. UNCHANGED usable
    BY <1>2, Steps, ReadsOnly DEF HandleWrites, InsertSatisfiedCondition, AddSatisfiedEca,
       InsertApplicationHistory, StatementFails, Receive, vars
  <2>2. CASE MakeConditionList
    BY <2>2, ListIsHeard DEF Engine!Next
  <2>3. CASE EcasActuated
    BY <2>3, EndIsReaction DEF Engine!Next
  <2>4. CASE ~MakeConditionList /\ ~EcasActuated
    BY <2>1, <2>4, OtherSteps, Silent DEF Processing
  <2>5. QED  BY <2>2, <2>3, <2>4
<1>3. QED  BY <1>1, <1>2

\* As long as no statement fails, the handler does, statement by statement and
\* with devices disabled in between, what the engine does in one step: every
\* message meets the conditions it should, each rule's actions are requested as
\* often as it fires, and what it remembers is what the latest values satisfy.
THEOREM EngineIsImplemented == ASSUME Promised PROVE Spec => Engine!Spec
<1>1. Init => EInv /\ Engine!Init
  BY EngineInit, InitIsInit
<1>2. EInv /\ [Next]_vars => EInv'
  BY EngineInvKept
<1>3. EInv /\ [Next]_vars => [Engine!Next]_(Engine!vars)
  BY StepIsStep
<1>4. QED  BY <1>1, <1>2, <1>3, PTL DEF Spec, Engine!Spec

=============================================================================
