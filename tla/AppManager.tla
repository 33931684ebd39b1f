----------------------------- MODULE AppManager -----------------------------
(***************************************************************************)
(* middleware/AppManager.c over DBHandler.c: the thread that computes the   *)
(* conditions a variable is in, requests the actions of the rules that are  *)
(* met and records the results of those actions.  Every action below is one *)
(* SQL statement (or one turn of a loop), between which the ThingManager    *)
(* may disconnect devices and remove their rules.                           *)
(***************************************************************************)
EXTENDS DBHandler, EcaRules

CONSTANTS
    NoEca,
    Functions,      \* things_function rows, by identifier
    MaxMessages,    \* bound on the messages handled
    MaxErrors,      \* bound on the statements that fail
    MaxDisables     \* bound on the devices the ThingManager disables

ASSUME AppManagerAssumption ==
    /\ NoEca \notin Ecas
    /\ MaxMessages \in Nat /\ MaxErrors \in Nat /\ MaxDisables \in Nat

(* A message: its category, the thing in its topic, whether its api key is   *)
(* the vendor's, and then the user (services only), variable and value, or  *)
(* the function, the rule and the error code it reports, "zero" or          *)
(* "nonzero".  A field that the payload lacks is "none".                    *)
VARIABLES
    is_satisfied,   \* things_condition.is_satisfied
    appHistory,     \* things_applicationhistory: rows by rule and status
    pc,             \* where the handler is
    msg,            \* the message being handled
    hRelatedConditionList,
    todo,           \* its conditions still to be computed, then to be inserted
    bIsSatisfied,   \* the conditions in it found satisfied
    hSatisfiedEcaList,
    ecaTodo,        \* rules still to be reset, then to be actuated
    nEcaId,         \* the rule whose actions are being requested
    hActionList,    \* its actions still to be requested
    disabling,      \* the ThingManager's current device and next statement
    nErrors, nMessages, nDisables,
    requests,       \* history: how often each action was requested
    metSince,       \* history: conditions met since their rule was last actuated
    usableAtStart,  \* history: the rules in use when the message arrived
    atStart         \* history: is_satisfied and requests when its list was made

handling == <<msg, hRelatedConditionList, todo, bIsSatisfied, hSatisfiedEcaList, ecaTodo,
              nEcaId, hActionList>>
history == <<requests, metSince, usableAtStart, atStart>>
bounds == <<nErrors, nMessages, nDisables>>

vars == <<tables, is_satisfied, appHistory, pc, handling, disabling, bounds, history>>

Places == {"idle", "verify", "check", "list", "compute", "insert", "reset", "actuate",
           "compute_actions", "compute_request", "actuate_actions", "actuate_request",
           "result_check", "result_find", "result"}

Processing == {"compute", "insert", "reset", "actuate", "compute_actions",
               "compute_request", "actuate_actions", "actuate_request"}

Goto(place) == pc' = place

-----------------------------------------------------------------------------
(* The condition lists of DBHandler.c *)

LeadingDigit[n \in Nat] == IF n < 10 THEN n ELSE LeadingDigit[n \div 10]

\* strncmp(cnt, "1", 1) == 0
IsSingleCondition(e) == LeadingDigit[Cardinality(ConditionsOf(e))] = 1

IsImmediate(e) == IsSingleCondition(e) \/ EcaOperator[e] = "any"

-----------------------------------------------------------------------------
Init ==
    /\ is_connected \in [Devices -> BOOLEAN]
    /\ updated_at = [d \in Devices |-> 0]
    /\ usable = [e \in Ecas |-> \A d \in Devices : e \in RelatedEcas(d) => is_connected[d]]
    /\ is_satisfied \in {s \in [Conditions -> BOOLEAN] :
           /\ \A c \in Conditions : s[c] => ~IsImmediate(EcaOf[c])
           /\ \A e \in Ecas : ConditionsOf(e) # {} => \E c \in ConditionsOf(e) : ~s[c]}
    /\ appHistory = [x \in Ecas \X {"success", "failed"} |-> 0]
    /\ pc = "idle"
    /\ msg = NoMessage
    /\ hRelatedConditionList = {} /\ todo = {} /\ bIsSatisfied = {}
    /\ hSatisfiedEcaList = {} /\ ecaTodo = {}
    /\ nEcaId = NoEca /\ hActionList = {}
    /\ disabling = [device |-> NoDevice, next |-> 1]
    /\ nErrors = 0 /\ nMessages = 0 /\ nDisables = 0
    /\ requests = [a \in Actions |-> 0]
    /\ metSince = is_satisfied
    /\ usableAtStart = {}
    /\ atStart = [is_satisfied |-> is_satisfied, requests |-> requests]

-----------------------------------------------------------------------------
(* The ThingManager: DBHandler_DisableDeviceAndEca and DBHandler_RegisterDevice *)

StartDisabling(d) ==
    /\ disabling.device = NoDevice
    /\ nDisables < MaxDisables
    /\ disabling' = [device |-> d, next |-> 1]
    /\ nDisables' = nDisables + 1
    /\ UNCHANGED <<tables, is_satisfied, appHistory, pc, handling, nErrors, nMessages, history>>

DisableNext ==
    LET d == disabling.device IN
    /\ d # NoDevice
    /\ DisableStatement(DisableStatements[disabling.next], d)
    /\ disabling' = IF disabling.next = 3 THEN [device |-> NoDevice, next |-> 1]
                    ELSE [disabling EXCEPT !.next = @ + 1]
    /\ UNCHANGED <<is_satisfied, appHistory, pc, handling, bounds, history>>

DisableFails ==
    /\ disabling.device # NoDevice
    /\ nErrors < MaxErrors
    /\ nErrors' = nErrors + 1
    /\ disabling' = [device |-> NoDevice, next |-> 1]
    /\ UNCHANGED <<tables, is_satisfied, appHistory, pc, handling, nMessages, nDisables, history>>

RegisterDevice(d) ==
    /\ ~is_connected[d]
    /\ is_connected' = [is_connected EXCEPT ![d] = TRUE]
    /\ UNCHANGED <<updated_at, usable, is_satisfied, appHistory, pc, handling, disabling, bounds, history>>

-----------------------------------------------------------------------------
(* handleDeviceMessage and handleServiceMessage *)

\* Leave the handler; the lists are destroyed.
Leave ==
    /\ Goto("idle")
    /\ msg' = NoMessage
    /\ hRelatedConditionList' = {} /\ todo' = {} /\ bIsSatisfied' = {}
    /\ hSatisfiedEcaList' = {} /\ ecaTodo' = {}
    /\ nEcaId' = NoEca /\ hActionList' = {}

Proceed(place) == Goto(place) /\ UNCHANGED handling

FromService(m) == m.source \in Services

\* A payload without what the handler looks up first is given up at once.
Receive(m) ==
    /\ pc = "idle"
    /\ nMessages < MaxMessages
    /\ nMessages' = nMessages + 1
    /\ IF m.apikey = "none" \/ (FromService(m) /\ m.user = "none")
       THEN UNCHANGED <<pc, msg>>
       ELSE Goto("verify") /\ msg' = m
    /\ usableAtStart' = {e \in Ecas : usable[e]}
    /\ UNCHANGED <<tables, is_satisfied, appHistory, hRelatedConditionList, todo, bIsSatisfied,
                   hSatisfiedEcaList, ecaTodo, nEcaId, hActionList, disabling, nErrors,
                   nDisables, requests, metSince, atStart>>

\* DBHandler_VerifyDeviceApiKey, DBHandler_VerifyServiceApiKey
KeyIsRight(m) == m.apikey = "right" /\ m.source \in Paired \cup Services

VerifyApiKey ==
    /\ pc = "verify"
    /\ IF ~KeyIsRight(msg) THEN Leave
       ELSE \/ /\ msg.category = "SEND_VARIABLE"
               /\ IF msg.variable = "none" THEN Leave ELSE Proceed("check")
            \/ /\ msg.category = "FUNCTION_RESULT"
               /\ IF "none" \in {msg.eca, msg.error} THEN Leave
                  ELSE Proceed(IF FromService(msg) THEN "result_find" ELSE "result_check")
    /\ UNCHANGED <<tables, is_satisfied, appHistory, disabling, bounds, history>>

\* checkServiceWithName, checkDeviceWithId: a service whose key was found exists.
CheckSource(place, next) ==
    /\ pc = place
    /\ IF FromService(msg) \/ CheckDevice(msg.source) = "NOERROR" THEN Proceed(next) ELSE Leave
    /\ UNCHANGED <<tables, is_satisfied, appHistory, disabling, bounds, history>>

\* Mutant: rules that are not in use are listed too.
ListedUnusable(m) == Concerned(m)

Listed(m) == {c \in Concerned(m) : usable[EcaOf[c]]}

\* DBHandler_MakeConditionListWithService, DBHandler_MakeConditionListWithDevice
MakeConditionList ==
    /\ pc = "list"
    /\ Goto("compute")
    /\ hRelatedConditionList' = Listed(msg)
    /\ todo' = Listed(msg)
    /\ atStart' = [is_satisfied |-> is_satisfied, requests |-> requests]
    /\ UNCHANGED <<tables, is_satisfied, appHistory, msg, bIsSatisfied, hSatisfiedEcaList,
                   ecaTodo, nEcaId, hActionList, disabling, bounds, requests, metSince, usableAtStart>>

-----------------------------------------------------------------------------
(* handleUserApplicationWithDevice and handleUserApplicationWithService *)

\* The operator stands right of the first operand and left of the second one.
convertStringOperatorToEnum(pszOperator, nOperatorIndex) ==
    CASE pszOperator = <<"<=">> -> IF nOperatorIndex = 1 THEN "GREATER_EQUAL" ELSE "LESS_EQUAL"
      [] pszOperator = <<"<">>  -> IF nOperatorIndex = 1 THEN "GREATER" ELSE "LESS"
      [] pszOperator = <<">=">> -> IF nOperatorIndex = 1 THEN "LESS_EQUAL" ELSE "NONE"
      [] pszOperator = <<">">>  -> IF nOperatorIndex = 1 THEN "LESS" ELSE "NONE"
      [] pszOperator = <<"isEqual">>  -> "STRING_IS_EQUAL"
      [] pszOperator = <<"contains">> -> "STRING_CONTAINS"
      [] OTHER -> "NONE"

checkDoubleCondition(dbVariable, enOperator, dbOperand) ==
    \/ enOperator = "GREATER" /\ dbVariable > dbOperand
    \/ enOperator = "LESS" /\ dbVariable < dbOperand
    \/ enOperator = "GREATER_EQUAL" /\ dbVariable >= dbOperand
    \/ enOperator = "LESS_EQUAL" /\ dbVariable <= dbOperand

checkTextCondition(text, enOperator, operand) ==
    \/ enOperator = "STRING_IS_EQUAL" /\ text = operand
    \/ enOperator = "STRING_CONTAINS" /\ Occurs(operand, text)

\* The word "event", operand1 operator1 "value" [operator2 operand2], or
\* "value" operator operand.
computeSingleCondition(c, pszVariable, words) ==
    \/ words[1].text = <<"event">>
    \/ /\ IsNumeric(c)
       /\ Len(words) \in {3, 5}
       /\ checkDoubleCondition(pszVariable.number, convertStringOperatorToEnum(words[2].text, 1),
                               words[1].number)
       /\ Len(words) = 5 =>
              checkDoubleCondition(pszVariable.number, convertStringOperatorToEnum(words[4].text, 2),
                                   words[5].number)
    \/ /\ IsTextual(c)
       /\ checkTextCondition(pszVariable.text, convertStringOperatorToEnum(words[2].text, 1),
                             words[3].text)

\* requestAction, entered from either loop.
StartRequest(e, place) == nEcaId' = e /\ Goto(place)

\* Its two places, for the loop that called it.
ActionsPlace(loop) == IF loop = "compute" THEN "compute_actions" ELSE "actuate_actions"
RequestPlace(loop) == IF loop = "compute" THEN "compute_request" ELSE "actuate_request"

\* One turn of computeConditionsThenActuateIfPossible.
ComputeCondition(c) ==
    LET holds == computeSingleCondition(c, msg.value, Expression[c]) IN
    /\ pc = "compute"
    /\ c \in todo
    /\ todo' = todo \ {c}
    /\ bIsSatisfied' = IF holds THEN bIsSatisfied \cup {c} ELSE bIsSatisfied
    /\ metSince' = [metSince EXCEPT ![c] = @ \/ holds]
    /\ IF holds /\ IsImmediate(EcaOf[c])
       THEN StartRequest(EcaOf[c], "compute_actions")
       ELSE UNCHANGED <<pc, nEcaId>>
    /\ UNCHANGED <<tables, is_satisfied, appHistory, msg, hRelatedConditionList,
                   hSatisfiedEcaList, ecaTodo, hActionList, disabling, bounds, requests,
                   usableAtStart, atStart>>

\* DBHandler_RetrieveActionList
RetrieveActionList(loop) ==
    /\ pc = ActionsPlace(loop)
    /\ Goto(RequestPlace(loop))
    /\ hActionList' = ActionsOf(nEcaId)
    /\ UNCHANGED <<tables, is_satisfied, appHistory, msg, hRelatedConditionList, todo,
                   bIsSatisfied, hSatisfiedEcaList, ecaTodo, nEcaId, disabling, bounds, history>>

\* One turn of requestAction's loop: the receiver's api key, then the publication.
RequestFunction(loop, a) ==
    /\ pc = RequestPlace(loop)
    /\ a \in hActionList
    /\ hActionList' = hActionList \ {a}
    /\ requests' = [requests EXCEPT ![a] = @ + 1]
    /\ UNCHANGED <<tables, is_satisfied, appHistory, pc, msg, hRelatedConditionList, todo,
                   bIsSatisfied, hSatisfiedEcaList, ecaTodo, nEcaId, disabling, bounds,
                   metSince, usableAtStart, atStart>>

\* Mutant: the loop goes on with the rule it has just actuated.
RequestsEndKeepsEca(loop) ==
    /\ pc = RequestPlace(loop)
    /\ hActionList = {}
    /\ Goto(loop)
    /\ UNCHANGED <<tables, is_satisfied, appHistory, handling, disabling, bounds, history>>

RequestsEnd(loop) ==
    /\ pc = RequestPlace(loop)
    /\ hActionList = {}
    /\ Goto(loop)
    /\ nEcaId' = NoEca
    /\ UNCHANGED <<tables, is_satisfied, appHistory, msg, hRelatedConditionList, todo,
                   bIsSatisfied, hSatisfiedEcaList, ecaTodo, hActionList, disabling, bounds,
                   history>>

ConditionsComputed ==
    /\ pc = "compute"
    /\ todo = {}
    /\ Goto("insert")
    /\ todo' = {c \in hRelatedConditionList : ~IsImmediate(EcaOf[c])}
    /\ UNCHANGED <<tables, is_satisfied, appHistory, msg, hRelatedConditionList, bIsSatisfied,
                   hSatisfiedEcaList, ecaTodo, nEcaId, hActionList, disabling, bounds, history>>

\* Mutant: only satisfied conditions are written.
InsertOnlySatisfied(c) ==
    /\ pc = "insert"
    /\ c \in todo
    /\ todo' = todo \ {c}
    /\ is_satisfied' = [is_satisfied EXCEPT ![c] = @ \/ c \in bIsSatisfied]
    /\ UNCHANGED <<tables, appHistory, pc, msg, hRelatedConditionList, bIsSatisfied,
                   hSatisfiedEcaList, ecaTodo, nEcaId, hActionList, disabling, bounds, history>>

\* One turn of DBHandler_InsertSatisfiedCondition.
InsertSatisfiedCondition(c) ==
    /\ pc = "insert"
    /\ c \in todo
    /\ todo' = todo \ {c}
    /\ is_satisfied' = [is_satisfied EXCEPT ![c] = c \in bIsSatisfied]
    /\ UNCHANGED <<tables, appHistory, pc, msg, hRelatedConditionList, bIsSatisfied,
                   hSatisfiedEcaList, ecaTodo, nEcaId, hActionList, disabling, bounds, history>>

\* DBHandler_RetrieveSatisfiedEcaList: every rule without an unsatisfied condition,
\* in use or not,
RetrieveSatisfiedEcas ==
    /\ pc = "insert"
    /\ todo = {}
    /\ Goto("reset")
    /\ ecaTodo' = {e \in Ecas : \A c \in ConditionsOf(e) : is_satisfied[c]}
    /\ UNCHANGED <<tables, is_satisfied, appHistory, msg, hRelatedConditionList, todo,
                   bIsSatisfied, hSatisfiedEcaList, nEcaId, hActionList, disabling, bounds, history>>

\* Mutant: the conditions of a listed rule keep their value.
AddSatisfiedEcaOnly(e) ==
    /\ pc = "reset"
    /\ e \in ecaTodo
    /\ ecaTodo' = ecaTodo \ {e}
    /\ hSatisfiedEcaList' = hSatisfiedEcaList \cup {e}
    /\ UNCHANGED <<tables, is_satisfied, appHistory, pc, msg, hRelatedConditionList, todo,
                   bIsSatisfied, nEcaId, hActionList, disabling, bounds, history>>

\* ... each listed and its conditions reset.
AddSatisfiedEca(e) ==
    /\ pc = "reset"
    /\ e \in ecaTodo
    /\ ecaTodo' = ecaTodo \ {e}
    /\ hSatisfiedEcaList' = hSatisfiedEcaList \cup {e}
    /\ is_satisfied' = [c \in Conditions |-> is_satisfied[c] /\ EcaOf[c] # e]
    /\ UNCHANGED <<tables, appHistory, pc, msg, hRelatedConditionList, todo, bIsSatisfied,
                   nEcaId, hActionList, disabling, bounds, history>>

SatisfiedEcasListed ==
    /\ pc = "reset"
    /\ ecaTodo = {}
    /\ Goto("actuate")
    /\ ecaTodo' = hSatisfiedEcaList
    /\ UNCHANGED <<tables, is_satisfied, appHistory, msg, hRelatedConditionList, todo,
                   bIsSatisfied, hSatisfiedEcaList, nEcaId, hActionList, disabling, bounds, history>>

\* One turn of actuateSatisfiedEcaList.
ActuateSatisfiedEca(e) ==
    /\ pc = "actuate"
    /\ e \in ecaTodo
    /\ ecaTodo' = ecaTodo \ {e}
    /\ StartRequest(e, "actuate_actions")
    /\ metSince' = [c \in Conditions |-> metSince[c] /\ EcaOf[c] # e]
    /\ UNCHANGED <<tables, is_satisfied, appHistory, msg, hRelatedConditionList, todo,
                   bIsSatisfied, hSatisfiedEcaList, hActionList, disabling, bounds, requests,
                   usableAtStart, atStart>>

EcasActuated ==
    /\ pc = "actuate"
    /\ ecaTodo = {}
    /\ Leave
    /\ UNCHANGED <<tables, is_satisfied, appHistory, disabling, bounds, history>>

-----------------------------------------------------------------------------
(* DBHandler_InsertDeviceApplicationHistory, DBHandler_InsertServiceApplicationHistory *)

FindFunction ==
    /\ pc = "result_find"
    /\ IF msg.function \in Functions /\ (FromService(msg) => msg.eca \in Ecas)
       THEN Proceed("result") ELSE Leave
    /\ UNCHANGED <<tables, is_satisfied, appHistory, disabling, bounds, history>>

Row == <<msg.eca, IF msg.error = "zero" THEN "success" ELSE "failed">>

\* A device's failure is inserted with the bare word failed, which no column has;
\* the rule a device names has to exist as a foreign key.
IsInserted == msg.eca \in Ecas /\ (msg.error = "zero" \/ FromService(msg))

InsertApplicationHistory ==
    /\ pc = "result"
    /\ appHistory' = IF IsInserted THEN [appHistory EXCEPT ![Row] = @ + 1] ELSE appHistory
    /\ Leave
    /\ UNCHANGED <<tables, is_satisfied, disabling, bounds, requests, metSince, usableAtStart, atStart>>

-----------------------------------------------------------------------------
\* A statement, or a publication, fails and the handler is left.
StatementFails ==
    /\ \/ pc \in {"verify", "check", "list", "compute_actions", "actuate_actions",
                  "result_check", "result_find", "result"}
       \/ pc \in {"compute_request", "actuate_request"} /\ hActionList # {}
       \/ pc = "insert"
       \/ pc = "reset" /\ ecaTodo # {}
    /\ nErrors < MaxErrors
    /\ nErrors' = nErrors + 1
    /\ Leave
    /\ UNCHANGED <<tables, is_satisfied, appHistory, disabling, nMessages, nDisables, history>>

Request(loop) ==
    RetrieveActionList(loop) \/ (\E a \in Actions : RequestFunction(loop, a)) \/ RequestsEnd(loop)

Handle ==
    \/ VerifyApiKey \/ CheckSource("check", "list") \/ MakeConditionList
    \/ (\E c \in Conditions : ComputeCondition(c)) \/ Request("compute") \/ ConditionsComputed
    \/ (\E c \in Conditions : InsertSatisfiedCondition(c)) \/ RetrieveSatisfiedEcas
    \/ (\E e \in Ecas : AddSatisfiedEca(e)) \/ SatisfiedEcasListed
    \/ (\E e \in Ecas : ActuateSatisfiedEca(e)) \/ Request("actuate") \/ EcasActuated
    \/ CheckSource("result_check", "result_find") \/ FindFunction \/ InsertApplicationHistory

Disable ==
    (\E d \in Devices : StartDisabling(d) \/ RegisterDevice(d)) \/ DisableNext \/ DisableFails

Next == (\E m \in Messages : Receive(m)) \/ Handle \/ Disable \/ StatementFails

Spec == Init /\ [][Next]_vars

\* The handling thread runs.
FairSpec == Spec /\ WF_vars(Handle)

-----------------------------------------------------------------------------
(* Properties *)

Requesting == {"compute_actions", "compute_request", "actuate_actions", "actuate_request"}

TypeOK ==
    /\ is_connected \in [Devices -> BOOLEAN]
    /\ updated_at \in [Devices -> Nat]
    /\ usable \in [Ecas -> BOOLEAN]
    /\ is_satisfied \in [Conditions -> BOOLEAN]
    /\ appHistory \in [Ecas \X {"success", "failed"} -> Nat]
    /\ pc \in Places
    /\ msg \in Messages \cup {NoMessage}
    /\ msg = NoMessage <=> pc = "idle"
    /\ hRelatedConditionList \in SUBSET Conditions
    /\ todo \in SUBSET hRelatedConditionList
    /\ bIsSatisfied \in SUBSET hRelatedConditionList
    /\ hSatisfiedEcaList \in SUBSET Ecas
    /\ ecaTodo \in SUBSET Ecas
    /\ IF pc \in Requesting THEN nEcaId \in Ecas ELSE nEcaId = NoEca
    /\ hActionList \in SUBSET Actions
    /\ disabling \in [device : Devices \cup {NoDevice}, next : 1..3]
    /\ nErrors \in Nat /\ nMessages \in Nat /\ nDisables \in Nat
    /\ requests \in [Actions -> Nat]
    /\ metSince \in [Conditions -> BOOLEAN]
    /\ usableAtStart \in SUBSET Ecas
    /\ atStart \in [is_satisfied : [Conditions -> BOOLEAN], requests : [Actions -> Nat]]

\* An "all" rule is actuated once for each time its conditions are met: every one
\* of them was found satisfied since the rule was last actuated, whichever
\* statements failed in between and however many messages went by.
ActuatedOncePerMeeting ==
    pc = "actuate" => \A e \in ecaTodo : \A c \in ConditionsOf(e) : metSince[c]

\* A rule whose actions are requested was in use when the message arrived, though
\* the list of satisfied rules is made without looking at usable: as long as no
\* statement fails, rules that are not in use never have all conditions satisfied.
RequestedWasUsable ==
    nErrors = 0 /\ (\A e \in Ecas : ConditionsOf(e) # {})
       => nEcaId \in usableAtStart \cup {NoEca}

Engine == INSTANCE EcaEngine WITH
    heard <- IF pc \in Processing
             THEN [conditions |-> hRelatedConditionList, value |-> msg.value]
             ELSE [conditions |-> {}, value |-> NoMessage],
    satisfied <- IF pc \in Processing THEN atStart.is_satisfied ELSE is_satisfied,
    requests <- IF pc \in Processing THEN atStart.requests ELSE requests

\* Statement by statement, and with devices disabled in between, the handler does
\* what the abstract engine does in one step: no reaction is lost, doubled or
\* mixed with another's, and each is completed.  MaxErrors is 0 here.
ImplementsEcaEngine == Engine!FairSpec

\* Violated: "has disabled %s and removed related ECAs" (ThingManager.c:103).  A
\* rule that was not in use when the message arrived is not actuated.
RemovedIsNotActuated == nEcaId \in usableAtStart \cup {NoEca}

=============================================================================
