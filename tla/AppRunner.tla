----------------------------- MODULE AppRunner -----------------------------
(***************************************************************************)
(* temp/AppRunner.c: one scenario being run.  Three threads meet here: the *)
(* scenario's own, which walks the statements; the MQTT message handling   *)
(* thread, which updates the values, checks the condition that was handed  *)
(* to it and wakes the scenario; and a caller of the application engine,   *)
(* which runs, stops or destroys it.  They share the flags, an event and   *)
(* two queues, and nothing is locked but the inside of those.              *)
(***************************************************************************)
EXTENDS AppScript

CONSTANTS Behaviors,      \* the scenario, parsed
          ConditionOf,    \* the expression of each node that has a condition
          PeriodOf,       \* the period of each LOOP: <<number, unit>>
          ArgumentOf,     \* each ACTION: [function, inputs, outputs], a list NONE if not written
          Infos,          \* what the database says of each value used: [type, min, max]
          Messages,       \* the numbers that may arrive for a value
          Threads         \* bound: as many threads as can be alive at once

Cache == INSTANCE AppValueCache

LOCAL INSTANCE TLC

LOCAL SeqExt == INSTANCE SequencesExt

VARIABLES
    enState, bExit, bIsSet,    \* pstAppRunner's, and hEvent's flag
    conditionQueue,            \* [items, bDestroy]: conditions handed over
    actionQueue,               \* [items, bDestroy]: results, TRUE for an error
    hAppModel,                 \* the script as it was loaded: [root, next, type, conditions, true]
    hAppValueCache, pstCurrent,
    threads,                   \* [pc, node] of every AppRunningThread
    hAppRunnerThread,          \* the one a Stop joins, NONE for NULL
    callback,                  \* [pc, held, exit]: mqttMessageHandlingCallback, its hConditionList,
                               \* and whether its thread was told to exit
    bConnected,                \* the MQTT handler takes messages and publishes
    asked,                     \* requests whose result is still to come
    call, step,                \* the engine's operation and where it is
    met, halted, abandoned          \* what happened: see Histories

shared == <<enState, bExit, bIsSet, conditionQueue, actionQueue, hAppValueCache, pstCurrent>>
runner == <<shared, threads, hAppRunnerThread, callback, bConnected, asked>>
caller == <<call, step>>
histories == <<met, halted, abandoned>>

-----------------------------------------------------------------------------
(* The scenario *)

Statements == UNION {StatementsOf(Behaviors[i]) : i \in DOMAIN Behaviors}

\* What can be known of the values.
Knowledge == [DOMAIN Infos -> {NONE} \cup Messages]

\* The nodes linked, every condition as its postfix list, and for what values that
\* is true: the stack is evaluated here once, and looked up where the code evaluates.
Model(graph, postfix) ==
    [root |-> graph.root, next |-> graph.next,
     type |-> [n \in DOMAIN graph.next |-> (CHOOSE s \in Statements : s.node = n).type] @@ (FINISH :> "FINISH"),
     conditions |-> postfix,
     true |-> [n \in DOMAIN postfix |-> {k \in Knowledge : checkConditionListMatch(postfix[n], k)}]]

AppScriptModeler_Load ==
    Model(Load(Behaviors), [n \in DOMAIN ConditionOf |-> changeInfixToPostfix(Infix(ConditionOf[n]))])

\* A LOOP may have no condition.
IsTrue(n, known) == n \in DOMAIN hAppModel.true => known \in hAppModel.true[n]

\* Numbers are counted in halves.
UnitMs == [SEC |-> 1000, MINUTE |-> 1000 * 60, HOUR |-> 1000 * 60 * 60, DAY |-> 1000 * 60 * 60 * 24]

convertTimeToMilliseconds(period) == (period[1] * UnitMs[period[2]]) \div 2

Queue == [items |-> <<>>, bDestroy |-> FALSE]

KnownValues == Cache!Known(hAppValueCache, Cache!DuplicateIndexHash(hAppValueCache))

-----------------------------------------------------------------------------
(* Histories.  met: the condition of the WAIT UNTIL pstCurrent is at has   *)
(* held since it was reached; halted: the run was stopped, failed or is    *)
(* complete; abandoned: the handle of a living thread was lost, since the  *)
(* caller went away from it or a second Run overwrote it.                  *)

Waits(n, known) == n # NONE /\ hAppModel.type[n] = "WAIT" /\ IsTrue(n, known)

Alive == {t \in Threads : threads[t].pc # "ended"}

InitRunner ==
    /\ enState = "INIT" /\ bExit = FALSE /\ bIsSet = FALSE
    /\ conditionQueue = Queue /\ actionQueue = Queue
    /\ hAppValueCache = Cache!Create(Cardinality(DOMAIN Infos))
    /\ pstCurrent = NONE
    /\ threads = [t \in Threads |-> [pc |-> "ended", node |-> NONE]]
    /\ hAppRunnerThread = NONE
    /\ callback = [pc |-> "idle", held |-> NONE, exit |-> FALSE]
    /\ bConnected = FALSE /\ asked = 0
    /\ met = FALSE /\ halted = FALSE /\ abandoned = FALSE

-----------------------------------------------------------------------------
(* AppRunningThread.  Its statement handlers end in MoveToNext, which moves *)
(* pstCurrent and gives the thread its next node.                          *)

GoTo(t, pc) == threads' = [threads EXCEPT ![t].pc = pc]

Fail(t) == GoTo(t, "failed") /\ halted' = TRUE

MoveOn(t, bDirection) ==
    LET next == MoveToNext(hAppModel, pstCurrent, bDirection)
    IN IF pstCurrent = FINISH  \* END_OF_DATA
       THEN Fail(t) /\ UNCHANGED <<pstCurrent, met>>
       ELSE /\ pstCurrent' = next
            /\ threads' = [threads EXCEPT ![t] = [pc |-> "test", node |-> next]]
            /\ met' = Waits(next, KnownValues)
            /\ UNCHANGED halted

StartThread(t) ==
    /\ threads[t].pc = "created"
    /\ enState' = "RUNNING"
    /\ pstCurrent' = hAppModel.root
    /\ threads' = [threads EXCEPT ![t] = [pc |-> "test", node |-> hAppModel.root]]
    /\ met' = Waits(hAppModel.root, KnownValues)
    /\ UNCHANGED <<bExit, bIsSet, conditionQueue, actionQueue, hAppValueCache, hAppRunnerThread,
                   callback, bConnected, asked, caller, halted, abandoned>>

\* while(pstNode->enType != FINISH_STATEMENT && bExit == FALSE)
TestLoop(t) ==
    /\ threads[t].pc = "test"
    /\ GoTo(t, IF threads[t].node = FINISH \/ bExit THEN "complete" ELSE "statement")
    /\ UNCHANGED <<shared, hAppRunnerThread, callback, bConnected, asked, caller, histories>>

HandlesStatement(t, type) == threads[t].pc = "statement" /\ hAppModel.type[threads[t].node] = type

Rest == <<enState, bExit, hAppValueCache, hAppRunnerThread, callback, bConnected, caller, abandoned>>

handleIfStatement(t) ==
    /\ HandlesStatement(t, "IF")
    /\ MoveOn(t, IsTrue(threads[t].node, KnownValues))
    /\ UNCHANGED <<Rest, bIsSet, conditionQueue, actionQueue, asked>>

\* A period is slept first.  The timed wait does not look at the event's flag.
handleLoopStatement(t) ==
    /\ HandlesStatement(t, "LOOP") \/ threads[t].pc = "slept"
    /\ IF threads[t].pc = "statement" /\ convertTimeToMilliseconds(PeriodOf[threads[t].node]) > 0
       THEN GoTo(t, "asleep") /\ UNCHANGED <<pstCurrent, met, halted>>
       ELSE MoveOn(t, IsTrue(threads[t].node, KnownValues))
    /\ UNCHANGED <<Rest, bIsSet, conditionQueue, actionQueue, asked>>

SleepEnds(t) ==
    /\ threads[t].pc = "asleep"
    /\ GoTo(t, "slept")
    /\ UNCHANGED <<shared, hAppRunnerThread, callback, bConnected, asked, caller, histories>>

\* Woken by a signal, or by nothing: the event is taken for the end of the scenario.
SleepInterrupted(t) ==
    /\ threads[t].pc \in {"asleep", "woken"}
    /\ Fail(t)
    /\ bIsSet' = FALSE
    /\ UNCHANGED <<Rest, conditionQueue, actionQueue, pstCurrent, asked, met>>

\* What is false is handed over, in a later step, to be checked as values arrive.
handleWaitUntilStatement(t) ==
    /\ HandlesStatement(t, "WAIT")
    /\ IF IsTrue(threads[t].node, KnownValues) THEN MoveOn(t, TRUE)
       ELSE GoTo(t, "put") /\ UNCHANGED <<pstCurrent, met, halted>>
    /\ UNCHANGED <<Rest, bIsSet, conditionQueue, actionQueue, asked>>

PutCondition(t) ==
    /\ threads[t].pc = "put"
    /\ conditionQueue' = [conditionQueue EXCEPT !.items = Append(@, threads[t].node)]
    /\ GoTo(t, "wait")
    /\ UNCHANGED <<Rest, bIsSet, actionQueue, pstCurrent, asked, met, halted>>

WaitForCondition(t) ==
    /\ threads[t].pc = "wait"
    /\ bIsSet' = FALSE
    /\ IF bIsSet THEN MoveOn(t, TRUE) ELSE GoTo(t, "waiting") /\ UNCHANGED <<pstCurrent, met, halted>>
    /\ UNCHANGED <<Rest, conditionQueue, actionQueue, asked>>

\* What becomes of the argument of a request.
Argument(inputs, known) ==
    CASE inputs = NONE -> "NOERROR"
      [] inputs # NONE /\ Len(inputs) # 1 -> "NOT_SUPPORTED"
      [] inputs # NONE /\ Len(inputs) = 1 ->
            LET operand == inputs[1]
            IN IF operand[1] = "variable" THEN "NOT_SUPPORTED"
               ELSE IF operand[1] # "string" /\ getValueFromExpression(operand, known) = NONE THEN "NO_DATA"
               ELSE "NOERROR"

\* The request is published and its answer waited for; or it cannot be made or published.
handleActionStatement(t) ==
    /\ HandlesStatement(t, "ACTION")
    /\ \/ /\ bConnected /\ Argument(ArgumentOf[threads[t].node].inputs, KnownValues) = "NOERROR"
          /\ asked' = asked + 1 /\ GoTo(t, "result") /\ UNCHANGED halted
       \/ Fail(t) /\ UNCHANGED asked
    /\ UNCHANGED <<Rest, bIsSet, conditionQueue, actionQueue, pstCurrent, met>>

GetResult(t) ==
    /\ threads[t].pc = "result"
    /\ \/ /\ actionQueue.bDestroy
          /\ Fail(t)
          /\ UNCHANGED <<actionQueue, pstCurrent, met>>
       \/ /\ ~actionQueue.bDestroy /\ actionQueue.items # <<>>
          /\ actionQueue' = [actionQueue EXCEPT !.items = Tail(@)]
          /\ MoveOn(t, ~Head(actionQueue.items))
    /\ UNCHANGED <<Rest, bIsSet, conditionQueue, asked>>

EndThread(t) ==
    /\ UNCHANGED <<bExit, bIsSet, conditionQueue, actionQueue, hAppValueCache, pstCurrent,
                   hAppRunnerThread, callback, bConnected, asked, caller, met, abandoned>>
    /\ \/ /\ threads[t].pc = "complete"
          /\ enState' = "COMPLETED" /\ halted' = TRUE /\ GoTo(t, "completed")
       \/ /\ threads[t].pc \in {"completed", "failed"}
          /\ enState' = IF bExit \/ threads[t].pc = "failed" THEN "STOP" ELSE enState
          /\ GoTo(t, "ended") /\ UNCHANGED halted

\* Behind a Destroy nothing can be said of a thread that is abandoned.
AppRunningThread(t) ==
    /\ call # "gone"
    /\ \/ StartThread(t) \/ TestLoop(t) \/ handleIfStatement(t) \/ handleLoopStatement(t)
       \/ SleepEnds(t) \/ SleepInterrupted(t) \/ handleWaitUntilStatement(t) \/ PutCondition(t)
       \/ WaitForCondition(t) \/ handleActionStatement(t) \/ GetResult(t) \/ EndThread(t)

-----------------------------------------------------------------------------
(* The event.  A signal wakes one of those that wait. *)

Sleeping == {t \in Threads : threads[t].pc \in {"waiting", "asleep"}}

SetEvent ==
    /\ bIsSet' = TRUE
    /\ IF Sleeping = {} THEN UNCHANGED threads
       ELSE \E t \in Sleeping : GoTo(t, IF threads[t].pc = "waiting" THEN "wait" ELSE "woken")

-----------------------------------------------------------------------------
(* mqttMessageHandlingCallback, on the MQTT handler's thread *)

TakesMessage == bConnected /\ callback.pc = "idle" /\ ~callback.exit

\* updateCacheValue: a number that does not fit its value ends the message.
ReceiveValue(key, number) ==
    LET index   == Cache!DuplicateIndexHash(hAppValueCache)
        updated == Cache!UpdateByIndex(hAppValueCache, index[key], number)
    IN /\ TakesMessage /\ key \in DOMAIN index
       /\ hAppValueCache' = updated.cache
       /\ callback' = IF updated.result = "NOERROR" THEN [callback EXCEPT !.pc = "get"] ELSE callback
       /\ met' = (met \/ Waits(pstCurrent, Cache!Known(updated.cache, index)))
       /\ UNCHANGED <<enState, bExit, bIsSet, conditionQueue, actionQueue, pstCurrent, threads,
                      hAppRunnerThread, bConnected, asked, caller, halted, abandoned>>

\* CAPQueue_Get without blocking; an exiting queue ends the message.
GetCondition ==
    /\ callback.pc = "get"
    /\ IF conditionQueue.bDestroy THEN callback' = [callback EXCEPT !.pc = "idle"] /\ UNCHANGED conditionQueue
       ELSE IF conditionQueue.items = <<>> THEN callback' = [callback EXCEPT !.pc = "check"] /\ UNCHANGED conditionQueue
       ELSE /\ callback' = [callback EXCEPT !.pc = "check", !.held = Head(conditionQueue.items)]
            /\ conditionQueue' = [conditionQueue EXCEPT !.items = Tail(@)]
    /\ UNCHANGED <<enState, bExit, bIsSet, actionQueue, hAppValueCache, pstCurrent, threads,
                   hAppRunnerThread, bConnected, asked, caller, histories>>

\* A mutant: a condition is checked once, and forgotten.
ChecksOnce ==
    /\ callback.pc = "check"
    /\ callback' = [callback EXCEPT !.pc = "idle", !.held = NONE]
    /\ IF callback.held # NONE /\ IsTrue(callback.held, KnownValues)
       THEN SetEvent ELSE UNCHANGED <<bIsSet, threads>>
    /\ UNCHANGED <<enState, bExit, conditionQueue, actionQueue, hAppValueCache, pstCurrent,
                   hAppRunnerThread, bConnected, asked, caller, histories>>

CheckHeldCondition ==
    /\ callback.pc = "check"
    /\ IF callback.held # NONE /\ IsTrue(callback.held, KnownValues)
       THEN SetEvent /\ callback' = [callback EXCEPT !.pc = "idle", !.held = NONE]
       ELSE callback' = [callback EXCEPT !.pc = "idle"] /\ UNCHANGED <<bIsSet, threads>>
    /\ UNCHANGED <<enState, bExit, conditionQueue, actionQueue, hAppValueCache, pstCurrent,
                   hAppRunnerThread, bConnected, asked, caller, histories>>

\* A result of one of this scenario's requests, with or without an error.
acknowledgeFunctionResult ==
    /\ TakesMessage /\ asked > 0
    /\ asked' = asked - 1
    /\ \E bError \in BOOLEAN : actionQueue' = [actionQueue EXCEPT !.items = Append(@, bError)]
    /\ UNCHANGED <<enState, bExit, bIsSet, conditionQueue, hAppValueCache, pstCurrent, threads,
                   hAppRunnerThread, callback, bConnected, caller, histories>>

mqttMessageHandlingCallback ==
    /\ call # "gone"
    /\ \/ \E key \in DOMAIN Infos, number \in Messages : ReceiveValue(key, number)
       \/ GetCondition \/ CheckHeldCondition \/ acknowledgeFunctionResult

-----------------------------------------------------------------------------
(* AppRunner_Run, _Stop and _Join, a step at a time.  step names the next  *)
(* one; the engine's operation goes on at "returned", or at "failed" when  *)
(* the first Run is not even begun.                                        *)

AppRunner_Run ==
    /\ step = "Run"
    /\ bExit' = FALSE
    /\ step' = "runByState"
    /\ UNCHANGED <<enState, bIsSet, conditionQueue, actionQueue, hAppValueCache, pstCurrent, threads,
                   hAppRunnerThread, callback, bConnected, asked, call, histories>>

\* A second initialisation finds its cache full and a completed scenario's Stop is
\* answered "already done": both are errors, and nothing is started.
RunByState ==
    /\ step = "runByState"
    /\ step' = CASE enState = "INIT" /\ ~bConnected -> "initialise"
                 [] enState = "STOP"                -> "execute"
                 [] enState = "COMPLETED"           -> "Stop"
                 [] OTHER                           -> "returned"
    /\ UNCHANGED <<runner, call, histories>>

\* traverseThingNameHash: the values of the scenario and the latest numbers of them.
Filled(latest) ==
    LET keys == SeqExt!SetToSeq(DOMAIN Infos)
    IN SeqExt!FoldLeft(LAMBDA c, key : Cache!Add(c, key, Infos[key], latest[key]).cache, hAppValueCache, keys)

\* Connected, the cache filled, the callback set and all topics subscribed; or not
\* connected; or connected, and a later call failed.  That leaves the handler connected
\* and the callback freed, though the handler may have it already: what it would do
\* with a message is undefined, and no message is taken.
initAndExecuteAppRunner ==
    /\ step = "initialise"
    /\ \/ /\ \E latest \in Knowledge :
                /\ \A key \in DOMAIN Infos : latest[key] # NONE => Cache!Fits(Infos[key], latest[key])
                /\ hAppValueCache' = Filled(latest)
          /\ bConnected' = TRUE /\ step' = "execute" /\ UNCHANGED callback
       \/ step' = "failed" /\ UNCHANGED <<hAppValueCache, bConnected, callback>>
       \/ /\ bConnected' = TRUE /\ callback' = [callback EXCEPT !.pc = "freed"]
          /\ step' = "failed" /\ UNCHANGED hAppValueCache
    /\ UNCHANGED <<enState, bExit, bIsSet, conditionQueue, actionQueue, pstCurrent, threads,
                   hAppRunnerThread, asked, call, histories>>

\* Bound: when all threads of the model are alive no other one is created.  Run while
\* the thread of the Run before has not begun overwrites that thread's handle.
executeAppRunnerThread ==
    /\ step = "execute"
    /\ abandoned' = (abandoned \/ Alive # {})
    /\ IF Alive = Threads THEN UNCHANGED <<threads, hAppRunnerThread>>
       ELSE LET t == CHOOSE u \in Threads \ Alive : TRUE
            IN GoTo(t, "created") /\ hAppRunnerThread' = t
    /\ step' = "returned"
    /\ UNCHANGED <<shared, callback, bConnected, asked, call, met, halted>>

\* AppRunner_Stop.
StopSetsExit ==
    /\ step = "Stop"
    /\ bExit' = TRUE /\ halted' = TRUE
    /\ step' = "running?"
    /\ UNCHANGED <<enState, bIsSet, conditionQueue, actionQueue, hAppValueCache, pstCurrent, threads,
                   hAppRunnerThread, callback, bConnected, asked, call, met, abandoned>>

\* The state is read twice: first for RUNNING, then for COMPLETED and STOP.
StopLooks ==
    /\ \/ step = "running?" /\ step' = (IF enState = "RUNNING" THEN "event" ELSE "over?") /\ UNCHANGED abandoned
       \/ /\ step = "over?"
          /\ IF enState \in {"COMPLETED", "STOP"} THEN step' = "joinOver" /\ UNCHANGED abandoned
             ELSE step' = "returned" /\ abandoned' = (abandoned \/ Alive # {})
    /\ UNCHANGED <<runner, call, met, halted>>

StopSetsEvent ==
    /\ step = "event" /\ step' = "exits"
    /\ SetEvent
    /\ UNCHANGED <<enState, bExit, conditionQueue, actionQueue, hAppValueCache, pstCurrent,
                   hAppRunnerThread, callback, bConnected, asked, call, histories>>

\* A mutant: who waits for a result is not told.
ExitOneQueue ==
    /\ step = "exits" /\ step' = "join"
    /\ conditionQueue' = [conditionQueue EXCEPT !.bDestroy = TRUE]
    /\ UNCHANGED <<enState, bExit, bIsSet, actionQueue, hAppValueCache, pstCurrent, threads,
                   hAppRunnerThread, callback, bConnected, asked, call, histories>>

StopExitsQueues ==
    /\ step = "exits" /\ step' = "join"
    /\ conditionQueue' = [conditionQueue EXCEPT !.bDestroy = TRUE]
    /\ actionQueue' = [actionQueue EXCEPT !.bDestroy = TRUE]
    /\ UNCHANGED <<enState, bExit, bIsSet, hAppValueCache, pstCurrent, threads,
                   hAppRunnerThread, callback, bConnected, asked, call, histories>>

\* CAPThread_Destroy, then both queues are emptied and made usable again.  What the
\* callback holds is freed, unless the scenario was over: that is answered before.
StopJoins ==
    /\ step \in {"join", "joinOver"} /\ step' = "returned"
    /\ hAppRunnerThread # NONE => threads[hAppRunnerThread].pc = "ended"
    /\ IF step = "join" /\ hAppRunnerThread = NONE
       THEN UNCHANGED <<hAppRunnerThread, conditionQueue, actionQueue, callback>>
       ELSE /\ hAppRunnerThread' = NONE
            /\ conditionQueue' = Queue /\ actionQueue' = Queue
            /\ callback' = IF step = "join" THEN [callback EXCEPT !.held = NONE] ELSE callback
    /\ UNCHANGED <<enState, bExit, bIsSet, hAppValueCache, pstCurrent, threads,
                   bConnected, asked, call, histories>>

\* AppRunner_Join: the message handling thread is told to exit and joined, between
\* two messages; when the disconnection itself fails the scenario is not stopped.
AppRunner_Join ==
    /\ \/ /\ step = "Join"
          /\ step' = IF bConnected THEN "disconnect" ELSE "returned"
          /\ callback' = [callback EXCEPT !.exit = bConnected]
          /\ UNCHANGED <<bConnected, abandoned>>
       \/ /\ step = "disconnect" /\ callback.pc \in {"idle", "freed"}
          /\ \/ bConnected' = FALSE /\ step' = "Stop" /\ UNCHANGED abandoned
             \/ step' = "returned" /\ abandoned' = (abandoned \/ Alive # {}) /\ UNCHANGED bConnected
          /\ UNCHANGED callback
    /\ UNCHANGED <<shared, threads, hAppRunnerThread, asked, call, met, halted>>
=============================================================================
