----------------------------- MODULE AppEngine -----------------------------
(***************************************************************************)
(* temp/AppEngine.c: verifies scenarios, and adds, runs, stops and deletes *)
(* them.  Its lock is held over a whole Run, Stop or Delete, so they come  *)
(* one after the other; a scenario can be found only once Add is done.     *)
(***************************************************************************)
EXTENDS AppRunner

CONSTANTS RealName,        \* the value of the database each value written in scripts stands for
          ThingValues,     \* the values of the database: name |-> type
          ThingFunctions,  \* the functions: name |-> the type of the argument, NONE without one
          Text,            \* what follows each node on TRUE and on FALSE, as the text has it
          MaxCalls         \* bound on the calls after Add

VARIABLE calls

engine == <<hAppModel, calls>>

vars == <<runner, caller, histories, engine>>

-----------------------------------------------------------------------------
(* Verification *)

\* getExpressionType: the type, or the error.
getExpressionType(operand) ==
    CASE operand[1] = "value" ->
            IF operand[2] \notin DOMAIN RealName THEN "INVALID_DATA"
            ELSE IF RealName[operand[2]] \notin DOMAIN ThingValues THEN "NOT_FOUND"
            ELSE LET type == ThingValues[RealName[operand[2]]]
                 IN IF type \in {"BOOL", "INT", "DOUBLE"} THEN type ELSE "NOT_SUPPORTED"
      [] operand[1] = "number" -> "INT"
      [] operand[1] = "double" -> "DOUBLE"
      [] operand[1] \in NotSupported -> "NOT_SUPPORTED"

IsError(type) == type \in {"INVALID_DATA", "NOT_FOUND", "NOT_SUPPORTED"}

\* A boolean compared with a double is only written to the error text.
traverseConditionList(c) ==
    IF c.op \in Operators THEN "NOERROR"
    ELSE LET left == getExpressionType(c.left)  right == getExpressionType(c.right)
         IN IF IsError(left) THEN left ELSE IF IsError(right) THEN right ELSE "NOERROR"

\* The first condition that is refused ends the traversal.
verifyConditionalStatement(list) ==
    LET refused == {i \in DOMAIN list : traverseConditionList(list[i]) # "NOERROR"}
    IN IF refused = {} THEN "NOERROR"
       ELSE traverseConditionList(list[CHOOSE i \in refused : \A j \in refused : i <= j])

convertValueTypeToExpType(type) ==
    CASE type = "STRING" -> "string" [] type \in {"INT", "BOOL"} -> "number"
      [] type = "DOUBLE" -> "double" [] type = "BINARY" -> "variable"

\* A value is looked up under the name that was written.  A number is refused only to
\* a function of a boolean, unless it is 0 or 1: the tests meant to refuse it to a
\* function of a string contradict one another.
traverseInputList(operand, argument) ==
    CASE operand[1] = "variable" -> "NOT_SUPPORTED"
      [] operand[1] = "value" /\ operand[2] \notin DOMAIN ThingValues -> "NOT_FOUND"
      [] OTHER ->
            LET type == IF operand[1] = "value" THEN convertValueTypeToExpType(ThingValues[operand[2]])
                        ELSE operand[1]
                takes == \/ type = "string" /\ argument = "STRING"
                         \/ type = "double" /\ argument = "DOUBLE"
                         \/ type = "number" /\ operand[1] = "value"
                         \/ type = "number" /\ (argument = "BOOL" => operand[2] \in {0, 2})
            IN IF takes THEN "NOERROR" ELSE "INVALID_DATA"

\* A mutant: the arguments are counted and not looked at.
VerifiesTheCount(action) ==
    IF action.function \notin DOMAIN ThingFunctions THEN "NOT_FOUND"
    ELSE IF (ThingFunctions[action.function] = NONE) # (action.inputs = NONE) THEN "INVALID_DATA" ELSE "NOERROR"

verifyActionStatement(action) ==
    LET argument == ThingFunctions[action.function]
        nLen     == IF action.inputs = NONE THEN 0 ELSE Len(action.inputs)
        checked  == {traverseInputList(action.inputs[i], argument) : i \in 1..nLen} \ {"NOERROR"}
    IN IF action.function \notin DOMAIN ThingFunctions THEN "NOT_FOUND"
       ELSE IF nLen # IF argument = NONE THEN 0 ELSE 1 THEN "INVALID_DATA"
       ELSE IF checked # {} THEN CHOOSE error \in checked : TRUE
       ELSE IF action.outputs # NONE THEN "NOT_SUPPORTED"
       ELSE "NOERROR"

\* Every node in turn; FINISH, SEND and RECEIVE are not looked at.
traverseExecutionNodeHash(model, n) ==
    CASE n \in DOMAIN model.conditions -> verifyConditionalStatement(model.conditions[n])
      [] model.type[n] = "ACTION" -> verifyActionStatement(ArgumentOf[n])
      [] OTHER -> "NOERROR"

\* The name is not in the database yet and no node is refused.
verifyScenarioStructure(model) ==
    \A n \in DOMAIN model.next : traverseExecutionNodeHash(model, n) = "NOERROR"

-----------------------------------------------------------------------------
(* Operations *)

Init ==
    /\ InitRunner
    /\ call = "absent" /\ step = "none" /\ calls = 0 /\ hAppModel = NONE

\* The scenario is loaded and verified, its runner created and run.
AddScenario ==
    /\ call = "absent"
    /\ hAppModel' = AppScriptModeler_Load /\ verifyScenarioStructure(hAppModel')
    /\ call' = "Add" /\ step' = "Run"
    /\ UNCHANGED <<runner, histories, calls>>

\* The runner is entered under its name; if Run failed, or the name is taken
\* by now, the runner is joined and destroyed.
AddReturns ==
    /\ call = "Add" /\ step \in {"returned", "failed"}
    /\ \/ step = "returned" /\ call' = "idle" /\ step' = "none"
       \/ call' = "Delete" /\ step' = "Join"
    /\ UNCHANGED <<runner, histories, engine>>

Call(operation, first) ==
    /\ call = "idle" /\ calls < MaxCalls
    /\ call' = operation /\ step' = first /\ calls' = calls + 1
    /\ UNCHANGED <<runner, histories, hAppModel>>

RunScenario == Call("Run", "Run")
StopScenario == Call("Stop", "Stop")
\* The same for every scenario when the engine is destroyed.
DeleteScenario == Call("Delete", "Join")

Returns ==
    /\ call \in {"Run", "Stop"} /\ step = "returned"
    /\ call' = "idle" /\ step' = "none"
    /\ UNCHANGED <<runner, histories, engine>>

\* destroyAppRunner: destroyed whatever the join answered.  A callback that was freed
\* before may be freed here again: what becomes of the program is left out.
AppRunner_Destroy ==
    /\ call = "Delete" /\ step = "returned"
    /\ call' = "gone" /\ step' = "none"
    /\ abandoned' = (abandoned \/ Alive # {}) /\ halted' = TRUE
    /\ UNCHANGED <<runner, met, engine>>

RunnerStep ==
    \/ AppRunner_Run \/ RunByState \/ initAndExecuteAppRunner \/ executeAppRunnerThread
    \/ StopSetsExit \/ StopLooks \/ StopSetsEvent \/ StopExitsQueues \/ StopJoins \/ AppRunner_Join

CallerStep == \/ AddReturns \/ Returns \/ AppRunner_Destroy
              \/ RunnerStep /\ UNCHANGED engine

Next == \/ AddScenario \/ RunScenario \/ StopScenario \/ DeleteScenario \/ CallerStep
        \/ (\E t \in Threads : AppRunningThread(t)) /\ UNCHANGED engine
        \/ mqttMessageHandlingCallback /\ UNCHANGED engine

-----------------------------------------------------------------------------
(* Fairness: threads are scheduled, a call goes on, a message in hand is   *)
(* handled to its end, and things go on publishing their values.  Nothing  *)
(* says that a request is ever answered, or that anybody calls.            *)

HandlingGoesOn == (GetCondition \/ CheckHeldCondition) /\ call # "gone" /\ UNCHANGED engine

PublishValue ==
    /\ call # "gone" /\ UNCHANGED engine
    /\ \E key \in DOMAIN Infos, number \in Messages :
          Cache!Fits(Infos[key], number) /\ ReceiveValue(key, number)

ThreadGoesOn(t) == AppRunningThread(t) /\ UNCHANGED engine

Fairness == /\ WF_vars(CallerStep) /\ WF_vars(HandlingGoesOn) /\ WF_vars(PublishValue)
            /\ \A t \in Threads : WF_vars(ThreadGoesOn(t))

Spec == Init /\ [][Next]_vars /\ Fairness

-----------------------------------------------------------------------------
(* Properties *)

Type(n) == IF n = FINISH THEN "FINISH" ELSE (CHOOSE s \in Statements : s.node = n).type
Following(n, bDirection) == IF bDirection THEN Text[n].true ELSE Text[n].false
Truth(n, known) == n \in DOMAIN ConditionOf => Meaning(ConditionOf[n], known)

Phase == CASE halted \/ call = "gone" -> "over"
           [] ~halted /\ call # "gone" /\ enState # "INIT" -> "running"
           [] ~halted /\ call # "gone" /\ enState = "INIT" -> IF Alive = {} THEN "absent" ELSE "new"

AnswerOf == IF actionQueue.items # <<>> THEN IF Head(actionQueue.items) THEN "failed" ELSE "done"
            ELSE IF asked > 0 THEN "asked" ELSE "unasked"

\* A scenario runs, from its creation until it is first stopped, fails or is complete,
\* as Scenario says.
TheRun == INSTANCE Scenario
    WITH Root   <- First(Behaviors[1]),
         TypeOf <- Type,
         NextOf <- Following,
         Holds  <- Truth,
         value  <- KnownValues,
         run    <- [phase  |-> Phase,
                    at     |-> IF Phase = "running" THEN pstCurrent ELSE First(Behaviors[1]),
                    met    |-> Phase = "running" /\ met,
                    answer |-> IF Phase = "running" THEN AnswerOf ELSE "unasked"]

RunsTheScenario == TheRun!Spec

\* What passes the verification of a statement is something the runner can evaluate:
\* no operand and no argument list that it answers with "not supported".  A value that
\* is not known yet is another matter: as an argument it ends the scenario.
VerifiedConditionsRun(list) ==
    verifyConditionalStatement(list) = "NOERROR" =>
        \A i \in DOMAIN list : list[i].op \notin Operators =>
            list[i].left[1] \notin NotSupported /\ list[i].right[1] \notin NotSupported

VerifiedActionRuns(action) ==
    verifyActionStatement(action) = "NOERROR" =>
        Argument(action.inputs, [v \in DOMAIN RealName |-> NONE]) # "NOT_SUPPORTED"

\* A Stop or Delete returns, and nothing of the scenario runs on, whatever the thread
\* is doing: it may be at a WAIT UNTIL, asleep in a LOOP, waiting for a result that
\* never comes, or about to be any of these (AppRunner_Stop).  The exceptions are
\* threads whose handle was lost: one that had not begun when it was stopped or when
\* Run was called again, and one whose Delete could not disconnect.
StopEndsTheThread ==
    (call \in {"Stop", "Delete"} /\ ~abandoned) ~> (call \in {"idle", "gone"} /\ (Alive = {} \/ abandoned))
=============================================================================
