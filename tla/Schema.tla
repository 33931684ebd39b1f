------------------------------ MODULE Schema ------------------------------
(***************************************************************************)
(* The rows of the database that the middleware reads but never writes: who *)
(* owns which device, and which ECA rules refer to it.  They are written by *)
(* the web application, which is not part of the repository.                *)
(***************************************************************************)
EXTENDS Naturals, FiniteSets

CONSTANTS
    Devices,        \* the rows of things_device
    Paired,         \* those whose user thing, product and vendor rows exist
    NoDevice,       \* a device id that matches no row
    Ecas,           \* the rows of things_eventconditionaction
    ConditionEcas,  \* [Devices -> SUBSET Ecas]: with a condition on the device
    ActionEcas      \* [Devices -> SUBSET Ecas]: with an action on the device

ASSUME TablesAssumption ==
    /\ IsFiniteSet(Devices)
    /\ Paired \subseteq Devices
    /\ NoDevice \notin Devices
    /\ ConditionEcas \in [Devices -> SUBSET Ecas]
    /\ ActionEcas \in [Devices -> SUBSET Ecas]

RelatedEcas(d) == ConditionEcas[d] \cup ActionEcas[d]

=============================================================================
