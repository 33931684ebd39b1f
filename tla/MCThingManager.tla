--------------------------- MODULE MCThingManager ---------------------------
(* Instances of ThingManager for TLC. *)
EXTENDS ThingManager

CONSTANTS d1, d2, e1, e2

\* d1 has a condition in e1 and an action in e2; d2 an action in e1.
MCConditionEcas == [d \in Devices |-> IF d = d1 THEN {e1} ELSE {}]
MCActionEcas == [d \in Devices |-> IF d = d1 THEN {e2} ELSE {e1}]

MCAliveCycle == [d \in Devices |-> IF d = d1 THEN 1 ELSE 2]

Message(category, device, apikey, pincode) ==
    [category |-> category, device |-> device, apikey |-> apikey, pincode |-> pincode]

\* What the scripts of test/ send: good requests, an unknown device, a wrong api
\* key, an unknown pin code, payloads with a field missing.
MCMessages ==
    {Message(c, d1, "right", d1) : c \in {"REGISTER", "UNREGISTER"}}
    \cup {Message(c, d1, "right", "none") : c \in {"ALIVE", "SEND_VARIABLE", "UNREGISTER"}}
    \cup {Message("REGISTER", NoDevice, "right", d1), Message("REGISTER", d1, "wrong", d1),
          Message("REGISTER", d1, "right", NoDevice), Message("ALIVE", d2, "none", "none"),
          Message("ALIVE", d2, "right", "none")}

\* The messages the races between the two threads need.
MCFewMessages ==
    {Message(c, d1, "right", d1) : c \in {"REGISTER", "UNREGISTER"}}
    \cup {Message("ALIVE", d1, "right", "none")}

=============================================================================
