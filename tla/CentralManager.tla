---------------------------- MODULE CentralManager ----------------------------
(***************************************************************************)
(* The life of the program: main() creates, runs, joins and destroys the   *)
(* three managers (CentralManager.c and the Create, Run, Join and Destroy  *)
(* of ThingManager.c, InfoManager.c and AppManager.c), while signals may   *)
(* arrive on any thread, the alive thread makes its rounds and the three   *)
(* message handling threads handle messages.  What a round and a message   *)
(* do is in ThingManager and AppManager; here they use the database.       *)
(***************************************************************************)
EXTENDS Integers, Sequences, SequencesExt

CONSTANTS MaxSignals,    \* bound: the signals sent
          MaxFailures    \* bound: the calls of MySQL or of the broker that fail, or hang

VARIABLES
    main,        \* where main() is, and which manager's turn it is
    result,      \* whether CentralManager_Execute met an error
    event,       \* hEvent: exists, bIsSet, and the thread that owns its mutex
    g_bExit,
    handlers,    \* of each thread: where each intHandler on it is, the innermost last
    alive,       \* aliveHandlingThread
    thread,      \* MQTTMessageHandlingThread of each manager
    bExit,       \* of each manager's message queue
    bConnected, dbOpen, bCreated,
    nSignals, nFailures,
    heard        \* history: a handler has found and set hEvent

mainVars    == <<main, result>>
signalVars  == <<event, g_bExit, handlers, nSignals, heard>>
managerVars == <<thread, bExit, bConnected, dbOpen, bCreated>>
vars == <<mainVars, signalVars, managerVars, alive, nFailures>>

Managers == {"thing", "info", "app"}

\* main(), the alive thread, and the message handling thread of each manager.
Threads == {"main", "alive"} \union Managers

\* The order of the calls in CentralManager_Create, _Execute, at _WRAPUP_EXIT and in _Destroy.
CreateOrder == <<"thing", "app", "info">>
RunOrder    == <<"thing", "info", "app">>
JoinOrder   == <<"thing", "app", "info">>

Init == /\ main = [at |-> "start", turn |-> 1]
        /\ result = "NOERROR"
        /\ event = [exists |-> FALSE, bIsSet |-> FALSE, owner |-> "none"]
        /\ g_bExit = FALSE
        /\ handlers = [t \in Threads |-> <<>>]
        /\ alive = "none"
        /\ thread = [m \in Managers |-> "none"]
        /\ bExit = [m \in Managers |-> FALSE]
        /\ bConnected = [m \in Managers |-> FALSE]
        /\ dbOpen = [m \in Managers |-> FALSE]
        /\ bCreated = [m \in Managers |-> FALSE]
        /\ nSignals = 0 /\ nFailures = 0 /\ heard = FALSE

-----------------------------------------------------------------------------
(* The signal handler.  The thread it interrupts stands still until it returns. *)

IsInterrupted(t) == handlers[t] # <<>>

HandlerAt(t, place) == handlers[t] # <<>> /\ Last(handlers[t]) = place

HandlerGoto(t, place) == handlers' = [handlers EXCEPT ![t] = Front(@) \o <<place>>]

\* SIGINT and SIGTERM have the same handler, and each is blocked only on the thread
\* that handles it: two handlers run at once on two threads, or one inside the other.
MaxNested == 2

\* A signal, on a thread that exists, once signal() has been called.
Signal(t) ==
    /\ main.at \notin {"start", "stopped"}
    /\ Len(handlers[t]) < MaxNested /\ nSignals < MaxSignals
    /\ t = "alive" => alive \notin {"none", "done"}
    /\ t \in Managers => thread[t] \notin {"none", "ended"}
    /\ handlers' = [handlers EXCEPT ![t] = Append(@, "event")]
    /\ nSignals' = nSignals + 1
    /\ UNCHANGED <<mainVars, event, g_bExit, heard, managerVars, alive, nFailures>>

\* CAPThreadEvent_SetEvent waits for the mutex, also when it has interrupted the
\* very thread that owns it.  Without an event it returns an error nobody looks at.
HandlerLocks(t) ==
    /\ HandlerAt(t, "event")
    /\ IF event.exists
       THEN /\ event.owner = "none"
            /\ event' = [event EXCEPT !.owner = t]
            /\ HandlerGoto(t, "set")
       ELSE HandlerGoto(t, "flag") /\ UNCHANGED event
    /\ UNCHANGED <<mainVars, g_bExit, nSignals, heard, managerVars, alive, nFailures>>

HandlerSetsEvent(t) ==
    /\ HandlerAt(t, "set")
    /\ event' = [event EXCEPT !.bIsSet = TRUE]
    /\ heard' = TRUE
    /\ HandlerGoto(t, "unlock")
    /\ UNCHANGED <<mainVars, g_bExit, nSignals, managerVars, alive, nFailures>>

HandlerUnlocks(t) ==
    /\ HandlerAt(t, "unlock")
    /\ event' = [event EXCEPT !.owner = "none"]
    /\ HandlerGoto(t, "flag")
    /\ UNCHANGED <<mainVars, g_bExit, nSignals, heard, managerVars, alive, nFailures>>

HandlerSetsFlag(t) ==
    /\ HandlerAt(t, "flag")
    /\ g_bExit' = TRUE
    /\ handlers' = [handlers EXCEPT ![t] = Front(@)]
    /\ UNCHANGED <<mainVars, event, nSignals, heard, managerVars, alive, nFailures>>

HandlerStep(t) == HandlerLocks(t) \/ HandlerSetsEvent(t) \/ HandlerUnlocks(t) \/ HandlerSetsFlag(t)

-----------------------------------------------------------------------------
(* The threads of the managers *)

AliveStep ==
    /\ ~IsInterrupted("alive")
    /\ \/ alive = "top"   /\ alive' = IF g_bExit THEN "done" ELSE "wait"
       \/ alive = "wait"  /\ alive' = "round"     \* the period is over or the event is set
       \/ alive = "round" /\ alive' = "top"
    /\ UNCHANGED <<mainVars, signalVars, managerVars, nFailures>>

\* A statement fails: the thread ends.
AliveFails ==
    /\ alive = "round" /\ ~IsInterrupted("alive") /\ nFailures < MaxFailures
    /\ alive' = "done"
    /\ nFailures' = nFailures + 1
    /\ UNCHANGED <<mainVars, signalVars, managerVars>>

Message(m) ==
    /\ thread[m] = "idle" /\ ~bExit[m] /\ ~IsInterrupted(m)
    /\ thread' = [thread EXCEPT ![m] = "busy"]
    /\ UNCHANGED <<mainVars, signalVars, bExit, bConnected, dbOpen, bCreated, alive, nFailures>>

\* A message being handled is finished; then the flag is looked at, and CAPQueue_Get
\* is released by SetExit.
ThreadStep(m) ==
    /\ ~IsInterrupted(m)
    /\ \/ thread[m] = "busy" /\ thread' = [thread EXCEPT ![m] = IF g_bExit THEN "ended" ELSE "idle"]
       \/ thread[m] = "idle" /\ bExit[m] /\ thread' = [thread EXCEPT ![m] = "ended"]
    /\ UNCHANGED <<mainVars, signalVars, bExit, bConnected, dbOpen, bCreated, alive, nFailures>>

\* A message of the thing or of the application manager is answered with a publication
\* whose token a lost connection takes away: MQTTMessageHandler_Publish never returns.
PublishHangs(m) ==
    /\ m # "info" /\ thread[m] = "busy" /\ ~IsInterrupted(m) /\ nFailures < MaxFailures
    /\ thread' = [thread EXCEPT ![m] = "hung"]
    /\ nFailures' = nFailures + 1
    /\ UNCHANGED <<mainVars, signalVars, bExit, bConnected, dbOpen, bCreated, alive>>

-----------------------------------------------------------------------------
(* main() *)

MainAt(place) == main.at = place /\ ~IsInterrupted("main")

Goto(place, turn) == main' = [at |-> place, turn |-> turn]

\* The next manager's turn, or what follows the last one's.
NextTurn(place, after) == IF main.turn < 3 THEN Goto(place, main.turn + 1) ELSE Goto(after, 1)

Fail == nFailures < MaxFailures /\ nFailures' = nFailures + 1

InstallSignals ==
    /\ MainAt("start")
    /\ Goto("event", 1)
    /\ UNCHANGED <<result, signalVars, managerVars, alive, nFailures>>

CreateEvent ==
    /\ MainAt("event")
    /\ event' = [event EXCEPT !.exists = TRUE]
    /\ Goto("create", 1)
    /\ UNCHANGED <<result, g_bExit, handlers, nSignals, heard, managerVars, alive, nFailures>>

\* The database is opened and the MQTT client made; an error of either ends the program.
Create ==
    LET m == CreateOrder[main.turn] IN
    /\ MainAt("create")
    /\ \/ /\ dbOpen' = [dbOpen EXCEPT ![m] = TRUE]
          /\ NextTurn("create", "connect")
          /\ UNCHANGED nFailures
       \/ /\ Fail
          /\ dbOpen' \in {dbOpen, [dbOpen EXCEPT ![m] = TRUE]}
          /\ Goto("stopped", 1)
    /\ UNCHANGED <<result, signalVars, thread, bExit, bConnected, bCreated, alive>>

\* A Run that fails is followed by the joins.
RunFails == Fail /\ result' = "ERROR" /\ Goto("join", 1)

\* MQTTMessageHandler_Connect starts the message handling thread.
RunConnect ==
    LET m == RunOrder[main.turn] IN
    /\ MainAt("connect")
    /\ \/ /\ bConnected' = [bConnected EXCEPT ![m] = TRUE]
          /\ thread' = [thread EXCEPT ![m] = "idle"]
          /\ Goto("subscribe", main.turn)
          /\ UNCHANGED <<result, nFailures>>
       \/ RunFails /\ UNCHANGED <<bConnected, thread>>
    /\ UNCHANGED <<signalVars, bExit, dbOpen, bCreated, alive>>

\* SubscribeMany; the thing manager then starts its alive thread.
RunSubscribe ==
    LET m == RunOrder[main.turn] IN
    /\ MainAt("subscribe")
    /\ \/ /\ bCreated' = [bCreated EXCEPT ![m] = TRUE]
          /\ alive' = IF m = "thing" THEN "top" ELSE alive
          /\ NextTurn("connect", "wait")
          /\ UNCHANGED <<result, nFailures>>
       \/ RunFails /\ UNCHANGED <<bCreated, alive>>
    /\ UNCHANGED <<signalVars, thread, bExit, bConnected, dbOpen>>

\* CAPThreadEvent_WaitEvent(hEvent): the mutex is taken, ...
WaitLock ==
    /\ MainAt("wait") /\ event.owner = "none"
    /\ event' = [event EXCEPT !.owner = "main"]
    /\ Goto("test", 1)
    /\ UNCHANGED <<result, g_bExit, handlers, nSignals, heard, managerVars, alive, nFailures>>

\* A mutant: as CAPThreadEvent_WaitTimeEvent, it does not look at the event before it waits.
WaitTestNot ==
    /\ MainAt("test")
    /\ event' = [event EXCEPT !.owner = "none", !.bIsSet = FALSE]
    /\ Goto("asleep", 1)
    /\ UNCHANGED <<result, g_bExit, handlers, nSignals, heard, managerVars, alive, nFailures>>

\* ... and given up in pthread_cond_wait until the event is set.
WaitTest ==
    /\ MainAt("test")
    /\ event' = [event EXCEPT !.owner = "none", !.bIsSet = FALSE]
    /\ Goto(IF event.bIsSet THEN "join" ELSE "asleep", 1)
    /\ UNCHANGED <<result, g_bExit, handlers, nSignals, heard, managerVars, alive, nFailures>>

WaitWakes ==
    /\ MainAt("asleep") /\ event.bIsSet /\ event.owner = "none"
    /\ event' = [event EXCEPT !.owner = "main"]
    /\ Goto("test", 1)
    /\ UNCHANGED <<result, g_bExit, handlers, nSignals, heard, managerVars, alive, nFailures>>

\* After the joins an error skips CentralManager_Destroy.
AfterJoins == IF result = "NOERROR" THEN "destroy" ELSE "stopped"

JoinNext == NextTurn("join", AfterJoins)

\* Join does nothing for a manager whose Run did not succeed.
JoinStart ==
    LET m == JoinOrder[main.turn] IN
    /\ MainAt("join")
    /\ IF ~bCreated[m] THEN JoinNext
       ELSE Goto(IF m = "thing" THEN "alive" ELSE "exit", main.turn)
    /\ UNCHANGED <<result, signalVars, managerVars, alive, nFailures>>

\* The alive thread is joined, ...
JoinAlive ==
    /\ MainAt("alive") /\ alive = "done"
    /\ Goto("exit", main.turn)
    /\ UNCHANGED <<result, signalVars, managerVars, alive, nFailures>>

\* ... MQTTMessageHandler_Disconnect tells the message queue to exit, ...
DisconnectExit ==
    /\ MainAt("exit")
    /\ bExit' = [bExit EXCEPT ![JoinOrder[main.turn]] = TRUE]
    /\ Goto("thread", main.turn)
    /\ UNCHANGED <<result, signalVars, thread, bConnected, dbOpen, bCreated, alive, nFailures>>

\* A mutant: the thread is not joined.
DisconnectAtOnce ==
    /\ MainAt("thread")
    /\ Goto("disconnect", main.turn)
    /\ UNCHANGED <<result, signalVars, managerVars, alive, nFailures>>

\* ... joins the message handling thread, ...
DisconnectJoin ==
    /\ MainAt("thread") /\ thread[JoinOrder[main.turn]] = "ended"
    /\ Goto("disconnect", main.turn)
    /\ UNCHANGED <<result, signalVars, managerVars, alive, nFailures>>

\* ... and disconnects.  On an error Join returns, and nobody looks at that.
Disconnect ==
    LET m == JoinOrder[main.turn] IN
    /\ MainAt("disconnect")
    /\ \/ /\ bConnected' = [bConnected EXCEPT ![m] = FALSE]
          /\ Goto("close", main.turn)
          /\ UNCHANGED nFailures
       \/ Fail /\ JoinNext /\ UNCHANGED bConnected
    /\ UNCHANGED <<result, signalVars, thread, bExit, dbOpen, bCreated, alive>>

\* A mutant: the database of the last manager stays open.
CloseDBExceptLast ==
    LET m == JoinOrder[main.turn] IN
    /\ MainAt("close")
    /\ dbOpen' = [dbOpen EXCEPT ![m] = main.turn = 3]
    /\ bCreated' = [bCreated EXCEPT ![m] = FALSE]
    /\ JoinNext
    /\ UNCHANGED <<result, signalVars, thread, bExit, bConnected, alive, nFailures>>

CloseDB ==
    LET m == JoinOrder[main.turn] IN
    /\ MainAt("close")
    /\ dbOpen' = [dbOpen EXCEPT ![m] = FALSE]
    /\ bCreated' = [bCreated EXCEPT ![m] = FALSE]
    /\ JoinNext
    /\ UNCHANGED <<result, signalVars, thread, bExit, bConnected, alive, nFailures>>

\* The handles are freed; CAPThreadEvent_Destroy sets the event, under its mutex, ...
DestroyLock ==
    /\ MainAt("destroy") /\ event.owner = "none"
    /\ event' = [event EXCEPT !.owner = "main"]
    /\ Goto("free", 1)
    /\ UNCHANGED <<result, g_bExit, handlers, nSignals, heard, managerVars, alive, nFailures>>

\* ... and destroys it.
Destroy ==
    /\ MainAt("free")
    /\ event' = [exists |-> FALSE, bIsSet |-> FALSE, owner |-> "none"]
    /\ Goto("stopped", 1)
    /\ UNCHANGED <<result, g_bExit, handlers, nSignals, heard, managerVars, alive, nFailures>>

MainStep ==
    \/ InstallSignals \/ CreateEvent \/ Create \/ RunConnect \/ RunSubscribe
    \/ WaitLock \/ WaitTest \/ WaitWakes
    \/ JoinStart \/ JoinAlive \/ DisconnectExit \/ DisconnectJoin \/ Disconnect \/ CloseDB
    \/ DestroyLock \/ Destroy

-----------------------------------------------------------------------------
Next ==
    \/ \E t \in Threads : Signal(t) \/ HandlerStep(t)
    \/ AliveStep \/ AliveFails
    \/ \E m \in Managers : Message(m) \/ ThreadStep(m) \/ PublishHangs(m)
    \/ MainStep

Spec == Init /\ [][Next]_vars

\* Every thread that can run does; nobody has to send a signal or a message, and a
\* message is handled to its end unless its publication hangs.
FairSpec ==
    /\ Spec
    /\ WF_vars(AliveStep) /\ WF_vars(MainStep)
    /\ \A t \in Threads : WF_vars(HandlerStep(t))
    /\ \A m \in Managers : WF_vars(ThreadStep(m))

-----------------------------------------------------------------------------
(* Properties *)

\* A database is open whenever a thread may use it: neither a message that is
\* being handled when the signal comes, nor a round of the alive thread, finds
\* it closed, whatever call failed before (ThingManager_Join, AppManager_Join).
DatabaseOpenWhileUsed ==
    /\ alive = "round" => dbOpen["thing"]
    /\ \A m \in Managers : thread[m] = "busy" => dbOpen[m]

\* When nothing failed, main() returns only after every thread has ended, every
\* connection is given up and every database closed, so none of them outlives
\* the logger that main() destroys.
StopsClean ==
    main.at = "stopped" /\ nFailures = 0 =>
       /\ alive = "done"
       /\ \A m \in Managers : thread[m] = "ended" /\ ~bConnected[m] /\ ~dbOpen[m]

\* An intHandler waits for the mutex that its own thread owns: it has interrupted
\* main() in CAPThreadEvent_WaitEvent or _Destroy, or another intHandler.
IsSelfBlocked == \E t \in Threads : HandlerAt(t, "event") /\ event.exists /\ event.owner = t

\* Once a signal has reached hEvent the program ends, wherever main() was: before
\* the wait, in it, or in joins after a Run that failed, when only the flag the
\* handler sets lets the alive thread end; and however a second signal meets the
\* first.  A signal that comes before the event exists is not heard.  Two things
\* keep the program for good: a handler that interrupts its own thread inside the
\* event's mutex, and a message handling thread that hangs in a publication.
HeardSignalStops ==
    heard ~> \/ main.at = "stopped"
             \/ IsSelfBlocked
             \/ \E m \in Managers : thread[m] = "hung"
=============================================================================
