-------------------------- MODULE VariableHistory --------------------------
(***************************************************************************)
(* handleServiceMessage of ThingManager.c over DBHandler.c: how the value  *)
(* of a service's variable becomes rows of things_variablehistory, for one *)
(* user or, from a general service, for all.  It reads and writes none of  *)
(* the rows the alive thread works on, and nothing of it is answered.      *)
(***************************************************************************)
EXTENDS Integers, FiniteSets

CONSTANTS
    Services,       \* things_product rows of services
    UserThings,     \* things_userthing rows of services
    ThingsOf,       \* [Services -> SUBSET UserThings]
    Users,
    NoCustomer,     \* NULL
    Customer,       \* [UserThings -> Users \cup {NoCustomer}]
    EveryUser,      \* the user a general service names: -1
    Messages,       \* the messages that may arrive
    NoMessage,
    MaxMessages,    \* bound on the messages handled
    MaxErrors       \* bound on the statements, and the files, that fail

(* A message: its service, whether the api key is the vendor's, its user,    *)
(* whether the product has its variable, and whether the value is binary.    *)
(* A field that the payload lacks is "none".                                 *)
HistoryAssumption ==
    /\ ThingsOf \in [Services -> SUBSET UserThings]
    /\ Customer \in [UserThings -> Users \cup {NoCustomer}]
    /\ NoCustomer \notin Users \cup {EveryUser} /\ EveryUser \notin Users
    /\ NoMessage \notin Messages
    /\ \A m \in Messages : m.user \in Users \cup {EveryUser, "none"}
    /\ MaxMessages \in Nat /\ MaxErrors \in Nat

VARIABLES
    pc,             \* where the handler is
    msg,            \* the message being handled
    userThings,     \* rows of the query of user things that are still to be served
    recorded,       \* rows in things_variablehistory, by user thing
    nErrors, nMessages,
    due             \* history: the values meant for each user thing

vars == <<pc, msg, userThings, recorded, nErrors, nMessages, due>>

Places == {"idle", "verify", "save", "check", "find", "insert"}

Init ==
    /\ pc = "idle" /\ msg = NoMessage
    /\ userThings = {}
    /\ recorded = [t \in UserThings |-> 0] /\ due = [t \in UserThings |-> 0]
    /\ nErrors = 0 /\ nMessages = 0

Leave == pc' = "idle" /\ msg' = NoMessage /\ userThings' = {}

Proceed(place) == pc' = place /\ UNCHANGED <<msg, userThings>>

KeyIsRight(m) == m.service \in Services /\ m.apikey = "right"

\* Whom the sender of a message means.
Addressed(m) ==
    IF m.service \notin Services \/ m.apikey # "right" \/ m.variable # "known" THEN {}
    ELSE {t \in ThingsOf[m.service] : m.user \in {EveryUser, Customer[t]}}

-----------------------------------------------------------------------------
\* A payload without an api key or a user is given up before the first statement.
Receive(m) ==
    /\ pc = "idle"
    /\ nMessages < MaxMessages
    /\ nMessages' = nMessages + 1
    /\ IF "none" \in {m.apikey, m.user}
       THEN UNCHANGED <<pc, msg, due>>
       ELSE /\ pc' = "verify" /\ msg' = m
            /\ due' = [t \in UserThings |-> IF t \in Addressed(m) THEN due[t] + 1 ELSE due[t]]
    /\ UNCHANGED <<userThings, recorded, nErrors>>

\* DBHandler_VerifyServiceApiKey, then the variable and its value are looked up in the
\* topic and the payload: "none" also stands for a topic of another category.
VerifyApiKey ==
    /\ pc = "verify"
    /\ IF ~KeyIsRight(msg) \/ msg.variable = "none" THEN Leave
       ELSE Proceed(IF msg.isBinary THEN "save" ELSE "check")
    /\ UNCHANGED <<recorded, nErrors, nMessages, due>>

\* saveServiceBinaryFileThenGetPath: the value becomes the address of a file.
SaveBinaryFile ==
    /\ pc = "save"
    /\ Proceed("check")
    /\ UNCHANGED <<recorded, nErrors, nMessages, due>>

\* checkServiceWithName: a service whose key was found exists.
CheckService ==
    /\ pc = "check"
    /\ Proceed("find")
    /\ UNCHANGED <<recorded, nErrors, nMessages, due>>

\* The query joins the user's customer row; a general service's does not.
RowsFor(m) ==
    IF m.variable # "known" THEN {}
    ELSE IF m.user = EveryUser THEN ThingsOf[m.service]
    ELSE {t \in ThingsOf[m.service] : Customer[t] = m.user}

\* Only the first row is fetched of a user's things; without a row there is an
\* error, or for a general service nothing to do.
FindUserThings ==
    /\ pc = "find"
    /\ pc' = "insert"
    /\ \/ msg.user = EveryUser /\ userThings' = RowsFor(msg)
       \/ msg.user # EveryUser /\ RowsFor(msg) = {} /\ userThings' = {}
       \/ msg.user # EveryUser /\ \E t \in RowsFor(msg) : userThings' = {t}
    /\ UNCHANGED <<msg, recorded, nErrors, nMessages, due>>

\* Mutant: only the first row is fetched of a general service as well.
InsertOne(t) ==
    /\ pc = "insert"
    /\ t \in userThings
    /\ userThings' = {}
    /\ recorded' = [recorded EXCEPT ![t] = @ + 1]
    /\ UNCHANGED <<pc, msg, nErrors, nMessages, due>>

\* insertSpecificServiceVariableHistory, or one turn of the loop of
\* insertGeneralServiceVariableHistory, which a thing without a customer ends.
InsertVariable(t) ==
    /\ pc = "insert"
    /\ t \in userThings
    /\ IF Customer[t] = NoCustomer
       THEN userThings' = {} /\ UNCHANGED recorded
       ELSE /\ userThings' = userThings \ {t}
            /\ recorded' = [recorded EXCEPT ![t] = @ + 1]
    /\ UNCHANGED <<pc, msg, nErrors, nMessages, due>>

AllInserted ==
    /\ pc = "insert"
    /\ userThings = {}
    /\ Leave
    /\ UNCHANGED <<recorded, nErrors, nMessages, due>>

\* A statement fails, or the file cannot be opened; rows inserted so far stay.
Fail ==
    /\ pc # "idle"
    /\ pc = "insert" => userThings # {}
    /\ nErrors < MaxErrors
    /\ nErrors' = nErrors + 1
    /\ Leave
    /\ UNCHANGED <<recorded, nMessages, due>>

Next ==
    \/ \E m \in Messages : Receive(m)
    \/ VerifyApiKey \/ SaveBinaryFile \/ CheckService \/ FindUserThings
    \/ \E t \in UserThings : InsertVariable(t)
    \/ AllInserted \/ Fail

Spec == Init /\ [][Next]_vars

-----------------------------------------------------------------------------
(* Properties *)

TypeOK ==
    /\ pc \in Places
    /\ msg \in Messages \cup {NoMessage}
    /\ msg = NoMessage <=> pc = "idle"
    /\ userThings \in SUBSET UserThings
    /\ userThings # {} => pc = "insert"
    /\ recorded \in [UserThings -> Nat]
    /\ nErrors \in Nat /\ nMessages \in Nat
    /\ due \in [UserThings -> Nat]

\* The value being handled is meant for the thing and has not been inserted yet.
Pending(t) ==
    /\ pc # "idle"
    /\ t \in Addressed(msg)
    /\ pc = "insert" => t \in userThings

\* A service whose things all have a customer, each its own.
IsConnected(s) ==
    /\ \A t \in ThingsOf[s] : Customer[t] # NoCustomer
    /\ \A t \in ThingsOf[s], x \in ThingsOf[s] : Customer[t] = Customer[x] => t = x

Served(t) == \A s \in Services : t \in ThingsOf[s] => IsConnected(s)

\* Values meant for a thing that will not be recorded any more.
Missing(t) == due[t] - recorded[t] - (IF Pending(t) THEN 1 ELSE 0)

\* Every value a service sends is recorded once for each user it is meant for, of a
\* general service for all of them, and for nobody else; each failure loses a user
\* at most one value.
ValuesReachEveryThing ==
    \A t \in UserThings :
       /\ Missing(t) >= 0
       /\ Served(t) => Missing(t) <= nErrors
=============================================================================
