---------------------------- MODULE MCAppManager ----------------------------
(* Instances of AppManager for TLC. *)
EXTENDS AppManager

CONSTANTS d1, d2, s1, e1, e2, e3, a1, a2, a3, u1, u2

\* e1, "all": the temperature of device d1 and the sky of service s1.
\* e2, "all" with a single condition: the temperature of d1.
\* e3, "any": two conditions on the sky.
\* The action of e1 is on d1, a second one of e1 on d2, those of e2 and e3 on d2.
MCConditions == {"c1", "c2", "c3", "c4", "c5"}
MCEcaOf == [c \in Conditions |->
              CASE c \in {"c1", "c2"} -> e1 [] c = "c3" -> e2 [] OTHER -> e3]
MCCondThing == [c \in Conditions |-> IF c \in {"c1", "c3"} THEN d1 ELSE s1]
MCCondVariable == [c \in Conditions |-> IF c \in {"c1", "c3"} THEN "temp" ELSE "sky"]

Word(text) == [text |-> text, number |-> 0]
Number(n) == [text |-> <<"digits">>, number |-> n]
Placeholder == Word(<<"value">>)

\* 20 <= "value" <= 30, isEqual rain, 20 < "value", contains rain, event
MCExpression == [c \in Conditions |->
    CASE c = "c1" -> <<Number(20), Word(<<"<=">>), Placeholder, Word(<<"<=">>), Number(30)>>
      [] c = "c2" -> <<Placeholder, Word(<<"isEqual">>), Word(<<"rain">>)>>
      [] c = "c3" -> <<Number(20), Word(<<"<">>), Placeholder>>
      [] c = "c4" -> <<Placeholder, Word(<<"contains">>), Word(<<"rain">>)>>
      [] OTHER    -> <<Word(<<"event">>)>>]

Temperatures == {Number(n) : n \in {20, 30, 31}}
Skies == {Word(<<"rain">>), Word(<<"heavy", "rain">>), Word(<<"sun">>)}
MCValues == Temperatures \cup Skies
MCVariableType == [v \in Variables |-> IF v = "temp" THEN "double" ELSE "string"]

MCEcaOperator == [e \in Ecas |-> IF e = e3 THEN "any" ELSE "all"]
MCEcaUser == [e \in Ecas |-> u1]
MCActionEca == [a \in Actions |-> CASE a = a1 -> e1 [] a = a2 -> e2 [] OTHER -> e3]
MCConditionEcas == [d \in Devices |-> {EcaOf[c] : c \in {x \in Conditions : CondThing[x] = d}}]
MCActionEcas == [d \in Devices |-> IF d = d1 THEN {} ELSE {e1, e2, e3}]

Base == [category |-> "SEND_VARIABLE", source |-> d1, apikey |-> "right", user |-> u1,
         variable |-> "temp", value |-> Number(20), function |-> "f", eca |-> "none", error |-> "none"]

Temp(value) == [Base EXCEPT !.value = value]
Sky(value, user) ==
    [Base EXCEPT !.source = s1, !.variable = "sky", !.value = value, !.user = user]
Reported(source, eca, error, function) ==
    [Base EXCEPT !.category = "FUNCTION_RESULT", !.source = source, !.eca = eca, !.error = error,
                 !.function = function]

\* The variables of the conditions.
MCVariableMessages ==
    {Temp(v) : v \in Temperatures} \cup {Sky(v, EveryUser) : v \in Skies}

\* Those, the results of actions, and the payloads and names that are refused.
MCMessages ==
    MCVariableMessages
    \cup {Reported(t, e1, "zero", "f") : t \in {d1, s1}}
    \cup {Reported(s1, e1, "nonzero", "f"), Reported(d1, e1, "none", "f"),
          Reported(d1, e1, "zero", "g"), Sky(Word(<<"rain">>), u2), Sky(Word(<<"rain">>), "none"),
          [Base EXCEPT !.apikey = "wrong"], [Base EXCEPT !.apikey = "none"],
          [Base EXCEPT !.variable = "none"], [Base EXCEPT !.source = d2]}

=============================================================================
