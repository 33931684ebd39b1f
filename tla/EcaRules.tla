------------------------------ MODULE EcaRules ------------------------------
(***************************************************************************)
(* The event-condition-action rules of the database, as AppManager.c and    *)
(* DBHandler.c read them: a rule is a set of conditions on the variables of *)
(* things (devices, or a user's instance of a service), an operator, "all"  *)
(* or "any", and a set of actions on things.                                *)
(***************************************************************************)
EXTENDS Schema, Integers, Sequences

CONSTANTS
    Services,       \* things_product rows that services send messages for
    Users,          \* the users, and
    EveryUser,      \* what a general service sends instead of one: -1
    Conditions,     \* the rows of things_condition
    EcaOf,          \* [Conditions -> Ecas]
    CondThing,      \* [Conditions -> Devices \cup Services]
    CondVariable,   \* [Conditions -> Variables]
    Expression,     \* [Conditions -> the words of things_condition.expression]
    Variables,
    VariableType,   \* [Variables -> things_variable.type]
    Values,         \* what a message brings: its text, and the number atof reads in it
    EcaOperator,    \* [Ecas -> {"all", "any"}]
    EcaUser,        \* [Ecas -> Users]
    Actions,        \* the rows of things_action
    ActionEca,      \* [Actions -> Ecas]
    Messages, NoMessage

\* A word of an expression or of a payload: its text, and what atof reads in it.
Words == [text : Seq(STRING), number : Int]

ASSUME RulesAssumption ==
    /\ IsFiniteSet(Conditions)
    /\ EveryUser \notin Users
    /\ Devices \cap Services = {}
    /\ EcaOf \in [Conditions -> Ecas]
    /\ CondThing \in [Conditions -> Devices \cup Services]
    /\ CondVariable \in [Conditions -> Variables]
    /\ VariableType \in [Variables -> {"integer", "double", "string", "select", "binary"}]
    /\ Expression \in [Conditions -> Seq(Words)]
    /\ Values \subseteq Words
    /\ EcaOperator \in [Ecas -> {"all", "any"}]
    /\ EcaUser \in [Ecas -> Users]
    /\ ActionEca \in [Actions -> Ecas]
    /\ \A m \in Messages : m.value \in Values
    /\ NoMessage \notin Messages /\ NoMessage \notin Values
    /\ \A d \in Devices : ConditionEcas[d] = {EcaOf[c] : c \in {x \in Conditions : CondThing[x] = d}}

ConditionsOf(e) == {c \in Conditions : EcaOf[c] = e}

IsNumeric(c) == VariableType[CondVariable[c]] \in {"integer", "double"}

IsTextual(c) == VariableType[CondVariable[c]] \in {"string", "select"}

\* strstr: a text occurs in another one.
Occurs(text, within) ==
    \E i \in 0..(Len(within) - Len(text)) : SubSeq(within, i + 1, i + Len(text)) = text

ActionsOf(e) == {a \in Actions : ActionEca[a] = e}

\* The conditions on the variable a message brings: of the thing that sent it,
\* and for a service of the user it is for.
Concerned(m) ==
    {c \in Conditions :
        /\ CondThing[c] = m.source
        /\ CondVariable[c] = m.variable
        /\ m.source \in Services => m.user \in {EveryUser, EcaUser[EcaOf[c]]}}

=============================================================================
