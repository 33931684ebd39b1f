----------------------------- MODULE MCLegacy -----------------------------
(***************************************************************************)
(* The application engine of temp/ for TLC.  A behaviour either runs the   *)
(* engine with one scenario, which has a WAIT UNTIL, an IF, a LOOP with a  *)
(* period and an action that goes back to the WAIT on failure; or it stays *)
(* at one of the samples: a script that is linked, an expression that is   *)
(* evaluated, or a statement that is verified.                             *)
(***************************************************************************)
EXTENDS AppEngine

VARIABLE sample

Node(node, type, body, fail, label) ==
    [node |-> node, type |-> type, body |-> body, fail |-> fail, label |-> label]

Action(node)    == Node(node, "ACTION", <<>>, NONE, NONE)
Failing(node)   == Node(node, "ACTION", <<>>, "again", NONE)
Labelled(node)  == Node(node, "ACTION", <<>>, NONE, "again")
If(node, body)  == Node(node, "IF", body, NONE, NONE)
Loop(node, body) == Node(node, "LOOP", body, NONE, NONE)

X(op, n) == [is |-> "comparison", c |-> Comparison(<<"value", "x">>, op, <<"number", n>>)]

-----------------------------------------------------------------------------
(* The scenario that is run; numbers are halves, so x is 0 or 1 and never a half. *)

MCBehaviors == << <<Node("w", "WAIT", <<>>, NONE, "again"),
                    If("i", <<Failing("a")>>),
                    Loop("l", <<Node("v", "WAIT", <<>>, NONE, NONE)>>)>> >>

MCConditionOf == [w |-> X("EQUAL", 2), i |-> X("NOT_EQUAL", 0), l |-> X("NOT_EQUAL", 0), v |-> X("EQUAL", 0)]
MCPeriodOf    == [l |-> <<2, "SEC">>]
MCArgumentOf  == [a |-> [function |-> "set", inputs |-> << <<"value", "x">> >>, outputs |-> NONE]]

Then(true, false) == [true |-> true, false |-> false]

MCText == [w |-> Then("i", "i"), i |-> Then("a", "l"), a |-> Then("l", "w"),
           l |-> Then("v", FINISH), v |-> Then("l", "l")]

MCInfos == [x |-> [type |-> "INT", min |-> 0, max |-> 2]]

\* The database: x under its own name, s under another one, and y that is not there.
MCRealName       == [x |-> "x", s |-> "S", y |-> "y"]
MCThingValues    == [x |-> "INT", S |-> "STRING"]
MCThingFunctions == [set |-> "INT", say |-> "STRING", turn |-> "BOOL", stop |-> NONE]

-----------------------------------------------------------------------------
(* Scripts: one to three statements, in one behaviour or in two *)

Kinds(i) == {Action(i), Failing(i), Labelled(i),
             If(i, <<Action(i + 10)>>), Loop(i, <<Action(i + 10)>>), If(i, <<Failing(i + 10)>>),
             If(i, <<Action(i + 10), Action(i + 20)>>),
             Loop(i, <<Action(i + 10), If(i + 20, <<Action(i + 30)>>)>>)}

Lists == {<<a>> : a \in Kinds(1)} \cup (Kinds(1) \X Kinds(2)) \cup (Kinds(1) \X Kinds(2) \X Kinds(3))

Scripts == {<<list>> : list \in Lists}
           \cup {<<SubSeq(list, 1, 1), Tail(list)>> : list \in {l \in Lists : Len(l) > 1}}

(* Expressions as a text can have them: OR of AND of the rest *)

Is(what, left, right) == [is |-> what, left |-> left, right |-> right]

Y == [is |-> "comparison", c |-> Primary(<<"value", "y">>)]

Atoms   == {X("LESS", 2), Y, [is |-> "not", c |-> X("GREATER_EQUAL", 2).c], [is |-> "not", c |-> Y.c]}
Or(s)   == {Is("or", a, b) : a \in s, b \in s}
And(s)  == {Is("and", a, b) : a \in s, b \in s}
Group(s) == {[is |-> "parenthesis", of |-> e] : e \in s}

Primaries   == {X("LESS", 2), Y}
Expressions == Atoms \cup And(Atoms) \cup Or(Primaries \cup And(Atoms))
               \cup And(Primaries \cup Group(Or(Atoms))) \cup Or(Group(And(Primaries) \cup Or(Primaries)))

KnownSamples == [{"x", "y"} -> {NONE, 0, 2}]

(* Statements for the verification *)

Operands == {<<"value", v>> : v \in {"x", "s", "y", "z"}}
            \cup {<<"number", 2>>, <<"number", 4>>, <<"double", 1>>, <<"string", "text">>, <<"variable", "x">>}

Conditions == {<<Comparison(a, "LESS", b)>> : a \in Operands, b \in Operands}
              \cup {<<Comparison(<<"number", 2>>, "LESS", a), Primary(b), AND>> : a \in Operands, b \in Operands}

Arguments == Operands \ {<<"value", "z">>}
Inputs    == {NONE} \cup {<<a>> : a \in Arguments} \cup {<<a, a>> : a \in Arguments}
Actions   == [function : DOMAIN MCThingFunctions \cup {"unknown"}, inputs : Inputs,
              outputs : {NONE, << <<"variable", "x">> >>}]

-----------------------------------------------------------------------------

Samples == [kind : {"script"}, of : Scripts] \cup [kind : {"expression"}, of : Expressions]
           \cup [kind : {"conditions"}, of : Conditions] \cup [kind : {"action"}, of : Actions]

EngineRuns == sample.kind = "engine"

MCInit == Init /\ sample \in Samples \cup {[kind |-> "engine", of |-> NONE]}

MCNext == EngineRuns /\ Next /\ UNCHANGED sample

MCSpec == MCInit /\ [][MCNext]_<<vars, sample>> /\ Fairness

\* Every expression is evaluated as it was written, for every knowledge of its values
\* (the infix list, changeInfixToPostfix, the stack of checkConditionListMatch).
PostfixMeansInfix ==
    sample.kind = "expression" => \A known \in KnownSamples : MeansInfix(sample.of, known)

\* Every script is linked so that it runs as it was written (AppScriptParser.c).
LinkedAsWritten == sample.kind = "script" => LinkedRight(sample.of)

\* What AppEngine_VerifyScenario lets through is something the runner evaluates
\* (verifyConditionalStatement and verifyActionStatement against AppRunner.c).
VerifiedStatementsRun ==
    /\ sample.kind = "conditions" => VerifiedConditionsRun(sample.of)
    /\ sample.kind = "action" => VerifiedActionRuns(sample.of)
=============================================================================
