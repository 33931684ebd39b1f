----------------------------- MODULE EcaEngine -----------------------------
(***************************************************************************)
(* What the application manager promises: a message about a variable is     *)
(* heard by the conditions of the usable rules, and the rules react to it   *)
(* at once and completely.  A rule with one condition, or with operator     *)
(* "any", requests its actions once for each condition the message          *)
(* satisfies.  A rule with operator "all" remembers which of its conditions *)
(* the latest values satisfy, requests its actions when that is all of them *)
(* and then forgets.                                                        *)
(***************************************************************************)
EXTENDS EcaRules

VARIABLES
    usable,         \* the rules in use
    heard,          \* the conditions that heard the message, and its value
    satisfied,      \* what the "all" rules remember
    requests        \* how often each action was requested

vars == <<usable, heard, satisfied, requests>>

Silence == [conditions |-> {}, value |-> NoMessage]

Immediate(e) == EcaOperator[e] = "any" \/ Cardinality(ConditionsOf(e)) = 1

Init ==
    /\ usable \in [Ecas -> BOOLEAN]
    /\ heard = Silence
    /\ satisfied \in {s \in [Conditions -> BOOLEAN] :
           /\ \A c \in Conditions : s[c] => ~Immediate(EcaOf[c])
           /\ \A e \in Ecas : \E c \in ConditionsOf(e) : ~s[c]}
    /\ requests = [a \in Actions |-> 0]

Hear(m) ==
    /\ heard = Silence
    /\ heard' = [conditions |-> {c \in Concerned(m) : usable[EcaOf[c]]}, value |-> m.value]
    /\ UNCHANGED <<usable, satisfied, requests>>

Compares(x, relation, y) ==
    CASE relation = <<"<">>  -> x < y
      [] relation = <<"<=">> -> x <= y
      [] relation = <<">">>  -> x > y
      [] relation = <<">=">> -> x >= y
      [] OTHER -> FALSE

\* A number is compared with a bound on its left and, if there is one, with an
\* upper bound on its right; a text is equal to another one or contains it.
Meets(value, words, c) ==
    \/ words[1].text = <<"event">>
    \/ /\ IsNumeric(c)
       /\ Compares(words[1].number, words[2].text, value.number)
       /\ \/ Len(words) = 3
          \/ /\ Len(words) = 5
             /\ words[4].text \in {<<"<">>, <<"<=">>}
             /\ Compares(value.number, words[4].text, words[5].number)
    \/ /\ IsTextual(c)
       /\ \/ words[2].text = <<"isEqual">> /\ words[3].text = value.text
          \/ words[2].text = <<"contains">> /\ Occurs(words[3].text, value.text)

Holds(c) == Meets(heard.value, Expression[c], c)

Updated(c) ==
    IF c \in heard.conditions /\ ~Immediate(EcaOf[c]) THEN Holds(c) ELSE satisfied[c]

Firings(e) ==
    IF Immediate(e)
    THEN Cardinality({c \in heard.conditions \cap ConditionsOf(e) : Holds(c)})
    ELSE IF \A c \in ConditionsOf(e) : Updated(c) THEN 1 ELSE 0

React ==
    /\ heard # Silence
    /\ heard' = Silence
    /\ satisfied' = [c \in Conditions |-> Updated(c) /\ Firings(EcaOf[c]) = 0]
    /\ requests' = [a \in Actions |-> requests[a] + Firings(ActionEca[a])]
    /\ UNCHANGED usable

\* A rule whose device is gone is not used any more.
Remove(E) ==
    /\ usable' = [e \in Ecas |-> usable[e] /\ e \notin E]
    /\ UNCHANGED <<heard, satisfied, requests>>

Next == (\E m \in Messages : Hear(m)) \/ React \/ (\E E \in SUBSET Ecas : Remove(E))

Spec == Init /\ [][Next]_vars

FairSpec == Spec /\ WF_vars(React)

=============================================================================
