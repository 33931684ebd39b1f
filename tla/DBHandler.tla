----------------------------- MODULE DBHandler -----------------------------
(***************************************************************************)
(* The tables the managers share through MySQL and the statements of        *)
(* middleware/DBHandler.c that more than one of them runs.  MySQL executes  *)
(* one statement atomically; a function of DBHandler.c that runs several is *)
(* several steps of the module that calls it.                               *)
(***************************************************************************)
EXTENDS Schema

VARIABLES
    is_connected,   \* things_device.is_connected
    updated_at,     \* things_device.updated_at
    usable          \* things_eventconditionaction.usable

tables == <<is_connected, updated_at, usable>>

Connected == {d \in Devices : is_connected[d]}

\* checkDeviceWithId
CheckDevice(d) ==
    IF d \notin Devices THEN "NO_DATA"
    ELSE IF ~is_connected[d] THEN "DUPLICATED" ELSE "NOERROR"

\* The statements of disableDeviceAndEca, in order.
DisableStatements == <<"disable_device", "disable_condition_ecas", "disable_action_ecas">>

\* UPDATE things_device SET is_connected = 0
DisconnectDevice(d) ==
    /\ is_connected' = [x \in Devices |-> is_connected[x] /\ x # d]
    /\ UNCHANGED <<updated_at, usable>>

\* UPDATE things_eventconditionaction SET usable = 0, joined through the
\* device's conditions and then through its actions.
RemoveEcas(related, d) ==
    /\ usable' = [e \in Ecas |-> usable[e] /\ ~(d \in Devices /\ e \in related[d])]
    /\ UNCHANGED <<is_connected, updated_at>>

\* Mutant: the statement that goes through the device's actions is missing.
DisableStatementForgets(s, d) ==
    \/ s = "disable_device" /\ DisconnectDevice(d)
    \/ s = "disable_condition_ecas" /\ RemoveEcas(ConditionEcas, d)
    \/ s = "disable_action_ecas" /\ UNCHANGED tables

DisableStatement(s, d) ==
    \/ s = "disable_device" /\ DisconnectDevice(d)
    \/ s = "disable_condition_ecas" /\ RemoveEcas(ConditionEcas, d)
    \/ s = "disable_action_ecas" /\ RemoveEcas(ActionEcas, d)

=============================================================================
