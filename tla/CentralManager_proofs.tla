------------------------ MODULE CentralManager_proofs ------------------------
(***************************************************************************)
(* For any number of signals and of failing calls: no thread of the        *)
(* program uses a database that main() has closed, and main() returns only *)
(* after everything has ended and is closed, unless a call failed.         *)
(***************************************************************************)
EXTENDS CentralManager, TLAPS

\* Where main() can be, how far the threads are, and what may be open.
MainPlaces == {"start", "event", "create", "connect", "subscribe", "wait", "test", "asleep", "join",
               "alive", "exit", "thread", "disconnect", "close", "destroy", "free", "stopped"}

TypeInv ==
    /\ main \in [at : MainPlaces, turn : 1..3]
    /\ result \in {"NOERROR", "ERROR"}
    /\ alive \in {"none", "top", "wait", "round", "done"}
    /\ thread \in [Managers -> {"none", "idle", "busy", "hung", "ended"}]
    /\ dbOpen \in [Managers -> BOOLEAN]

\* While the managers are created, those of the turns before have their database.
OpenedInTurn ==
    main.at = "create" => \A i \in 1..3 : i < main.turn => dbOpen[CreateOrder[i]]

\* While they are run, all have.
AllOpened == main.at \in {"connect", "subscribe"} => \A m \in Managers : dbOpen[m]

\* A thread that has not ended has its database.
ThreadHasDB == \A m \in Managers : thread[m] \in {"idle", "busy", "hung"} => dbOpen[m]
AliveHasDB  == alive \in {"top", "wait", "round"} => dbOpen["thing"]

\* Who is disconnected has been joined.
AliveJoined  == main.at \in {"exit", "thread", "disconnect", "close"} /\ main.turn = 1 => alive = "done"
ThreadJoined == main.at \in {"disconnect", "close"} => thread[JoinOrder[main.turn]] = "ended"

IInv == /\ TypeInv
        /\ OpenedInTurn /\ AllOpened
        /\ ThreadHasDB /\ AliveHasDB
        /\ AliveJoined /\ ThreadJoined

LEMMA InitEstablishes == Init => IInv
BY DEF Init, IInv, TypeInv, OpenedInTurn, AllOpened, ThreadHasDB, AliveHasDB, AliveJoined,
       ThreadJoined, MainPlaces, Managers

\* The orders name the managers, and the alive thread belongs to the first of both.
LEMMA Orders ==
    /\ CreateOrder \in [1..3 -> Managers] /\ RunOrder \in [1..3 -> Managers] /\ JoinOrder \in [1..3 -> Managers]
    /\ \A m \in Managers : \E i \in 1..3 : CreateOrder[i] = m
    /\ \A i \in 1..3 : JoinOrder[i] = "thing" <=> i = 1
<1>1. Managers = {"thing", "info", "app"}
  BY DEF Managers
<1>2. /\ CreateOrder[1] = "thing" /\ CreateOrder[2] = "app" /\ CreateOrder[3] = "info"
      /\ JoinOrder[1] = "thing" /\ JoinOrder[2] = "app" /\ JoinOrder[3] = "info"
  BY DEF CreateOrder, JoinOrder
<1>3. CreateOrder \in [1..3 -> Managers] /\ RunOrder \in [1..3 -> Managers] /\ JoinOrder \in [1..3 -> Managers]
  BY <1>1 DEF CreateOrder, RunOrder, JoinOrder
<1>4. \A m \in Managers : \E i \in 1..3 : CreateOrder[i] = m
  BY <1>1, <1>2
<1>5. \A i \in 1..3 : JoinOrder[i] = "thing" <=> i = 1
  <2>1. \A i \in 1..3 : i = 1 \/ i = 2 \/ i = 3
    OBVIOUS
  <2>2. "app" # "thing" /\ "info" # "thing"
    OBVIOUS
  <2>3. QED  BY <1>2, <2>1, <2>2
<1>6. QED  BY <1>3, <1>4, <1>5

USE DEF MainAt, Goto, NextTurn, Fail, RunFails, JoinNext, AfterJoins, MainPlaces
HIDE DEF Managers, CreateOrder, RunOrder, JoinOrder

\* A step that leaves the threads and the databases alone, and takes main() to a
\* place that promises no more than the one it leaves.
LEMMA Quiet ==
    ASSUME IInv, UNCHANGED <<thread, dbOpen, alive>>,
           main' \in [at : MainPlaces, turn : 1..3], result' \in {"NOERROR", "ERROR"},
           \/ main' = main
           \/ main'.at \notin {"create", "connect", "subscribe", "exit", "thread", "disconnect", "close"}
           \/ main'.at = "exit" /\ (main'.turn = 1 => alive = "done")
           \/ main'.at = "thread" /\ main.at = "exit" /\ main'.turn = main.turn
           \/ main'.at = "disconnect" /\ main.at = "thread" /\ main'.turn = main.turn
                /\ thread[JoinOrder[main.turn]] = "ended"
           \/ main'.at = "close" /\ main.at = "disconnect" /\ main'.turn = main.turn
           \/ main'.at = "create" /\ main'.turn = 1
    PROVE  IInv'
BY DEF IInv, TypeInv, OpenedInTurn, AllOpened, ThreadHasDB, AliveHasDB, AliveJoined, ThreadJoined

LEMMA StepPreserves == IInv /\ [Next]_vars => IInv'
<1> SUFFICES ASSUME IInv, [Next]_vars PROVE IInv'
  OBVIOUS
<1>t. /\ main \in [at : MainPlaces, turn : 1..3] /\ result \in {"NOERROR", "ERROR"}
      /\ main = [at |-> main.at, turn |-> main.turn] /\ main.turn \in 1..3
  BY DEF IInv, TypeInv
<1>1. ASSUME NEW t \in Threads, Signal(t) \/ HandlerStep(t) PROVE IInv'
  BY <1>1, <1>t, Quiet
     DEF Signal, HandlerStep, HandlerLocks, HandlerSetsEvent, HandlerUnlocks, HandlerSetsFlag, mainVars, managerVars
<1>3. CASE AliveStep
  BY <1>3 DEF AliveStep, mainVars, managerVars, IInv, TypeInv, OpenedInTurn, AllOpened, ThreadHasDB,
              AliveHasDB, AliveJoined, ThreadJoined
<1>4. CASE AliveFails
  BY <1>4 DEF AliveFails, mainVars, managerVars, IInv, TypeInv, OpenedInTurn, AllOpened, ThreadHasDB,
              AliveHasDB, AliveJoined, ThreadJoined
<1>5. ASSUME NEW m \in Managers, Message(m) \/ ThreadStep(m) \/ PublishHangs(m) PROVE IInv'
  <2>1. /\ thread[m] \in {"idle", "busy"}
        /\ \E place \in {"idle", "busy", "hung", "ended"} : thread' = [thread EXCEPT ![m] = place]
        /\ UNCHANGED <<main, result, alive, dbOpen>>
    BY <1>5 DEF Message, ThreadStep, PublishHangs, mainVars
  <2>2. QED
    BY <2>1, <1>t, Orders DEF IInv, TypeInv, OpenedInTurn, AllOpened, ThreadHasDB, AliveHasDB, AliveJoined,
                        ThreadJoined
<1>6. CASE InstallSignals \/ CreateEvent \/ WaitLock \/ WaitTest \/ WaitWakes \/ DestroyLock \/ Destroy
  BY <1>6, <1>t, Quiet DEF InstallSignals, CreateEvent, WaitLock, WaitTest, WaitWakes, DestroyLock, Destroy,
                           managerVars
<1>7. CASE Create
  <2> DEFINE m == CreateOrder[main.turn]
  <2>1. m \in Managers /\ dbOpen \in [Managers -> BOOLEAN]
    BY <1>t, Orders DEF IInv, TypeInv
  <2>2. UNCHANGED <<result, thread, alive>> /\ dbOpen' \in {dbOpen, [dbOpen EXCEPT ![m] = TRUE]}
    BY <1>7 DEF Create
  <2>3. \A n \in Managers : dbOpen[n] => dbOpen'[n]
    BY <2>1, <2>2
  <2>a. ThreadHasDB' /\ AliveHasDB'
    BY <2>2, <2>3 DEF IInv, ThreadHasDB, AliveHasDB, Managers
  <2>b. dbOpen' \in [Managers -> BOOLEAN]
    BY <2>1, <2>2
  <2>c. main' \in [at : {"create", "connect", "stopped"}, turn : 1..3]
    BY <1>7, <1>t DEF Create
  <2>d. TypeInv' /\ AliveJoined' /\ ThreadJoined'
    BY <2>2, <2>b, <2>c DEF IInv, TypeInv, AliveJoined, ThreadJoined
  <2>4. CASE main' = [at |-> "stopped", turn |-> 1]
    BY <2>4, <2>a, <2>d DEF IInv, OpenedInTurn, AllOpened
  <2>5. CASE main.turn < 3 /\ main' = [at |-> "create", turn |-> main.turn + 1] /\ dbOpen'[m]
    <3>1. \A i \in 1..3 : i < main.turn + 1 => dbOpen'[CreateOrder[i]]
      <4> TAKE i \in 1..3
      <4> HAVE i < main.turn + 1
      <4>1. CASE i = main.turn
        BY <4>1, <2>5
      <4>2. CASE i < main.turn
        BY <4>2, <2>3, <1>7, Orders DEF Create, IInv, OpenedInTurn
      <4>3. QED  BY <4>1, <4>2, <1>t
    <3>2. QED
      BY <3>1, <2>5, <2>a, <2>d DEF IInv, OpenedInTurn, AllOpened
  <2>6. CASE main.turn = 3 /\ main' = [at |-> "connect", turn |-> 1] /\ dbOpen'[m]
    <3>1. \A i \in 1..3 : dbOpen'[CreateOrder[i]]
      <4> TAKE i \in 1..3
      <4>1. CASE i = 3
        BY <4>1, <2>6
      <4>2. CASE i < 3
        BY <4>2, <2>3, <2>6, <1>7, Orders DEF Create, IInv, OpenedInTurn
      <4>3. QED  BY <4>1, <4>2
    <3>2. \A n \in Managers : dbOpen'[n]
      BY <3>1, Orders
    <3>3. QED
      BY <3>2, <2>6, <2>a, <2>d DEF IInv, OpenedInTurn, AllOpened
  <2>7. QED
    <3>1. \/ main' = [at |-> "stopped", turn |-> 1]
          \/ /\ dbOpen' = [dbOpen EXCEPT ![m] = TRUE]
             /\ IF main.turn < 3 THEN main' = [at |-> "create", turn |-> main.turn + 1]
                ELSE main' = [at |-> "connect", turn |-> 1]
      BY <1>7 DEF Create
    <3>2. dbOpen' = [dbOpen EXCEPT ![m] = TRUE] => dbOpen'[m]
      BY <2>1
    <3>3. main.turn < 3 \/ main.turn = 3
      BY <1>t
    <3>4. QED  BY <3>1, <3>2, <3>3, <2>4, <2>5, <2>6
<1>8. CASE RunConnect
  <2>1. CASE result' = "ERROR" /\ main' = [at |-> "join", turn |-> 1] /\ UNCHANGED <<thread, dbOpen, alive>>
    BY <2>1, Quiet
  <2>2. CASE /\ thread' = [thread EXCEPT ![RunOrder[main.turn]] = "idle"]
             /\ main' = [at |-> "subscribe", turn |-> main.turn] /\ UNCHANGED <<result, dbOpen, alive>>
    <3>1. main.at = "connect" /\ RunOrder[main.turn] \in Managers
      BY <1>8, <1>t, Orders DEF RunConnect
    <3>2. \A m \in Managers : dbOpen[m]
      BY <3>1 DEF IInv, AllOpened
    <3>3. QED
      BY <2>2, <3>1, <3>2, <1>t DEF IInv, TypeInv, OpenedInTurn, AllOpened, ThreadHasDB, AliveHasDB,
                                       AliveJoined, ThreadJoined
  <2>3. QED  BY <1>8, <2>1, <2>2 DEF RunConnect
<1>9. CASE RunSubscribe
  <2>1. main.at = "subscribe" /\ UNCHANGED <<thread, dbOpen>> /\ main.turn \in 1..3
    BY <1>9, <1>t DEF RunSubscribe
  <2>2. CASE result' = "ERROR" /\ main' = [at |-> "join", turn |-> 1] /\ UNCHANGED alive
    BY <2>1, <2>2, Quiet
  <2>3. CASE /\ alive' \in {"top", alive} /\ UNCHANGED result
             /\ main' \in {[at |-> "connect", turn |-> main.turn + 1], [at |-> "wait", turn |-> 1]}
             /\ main'.turn \in 1..3
    <3>1. dbOpen["thing"]
      BY <2>1 DEF IInv, AllOpened, Managers
    <3>2. QED
      BY <2>1, <2>3, <3>1, <1>t DEF IInv, TypeInv, OpenedInTurn, AllOpened, ThreadHasDB, AliveHasDB,
                                       AliveJoined, ThreadJoined
  <2>4. QED  BY <1>9, <2>1, <2>2, <2>3 DEF RunSubscribe
<1>10. CASE JoinStart
  <2>1. main.turn = 1 <=> JoinOrder[main.turn] = "thing"
    BY <1>t, Orders
  <2>2. QED  BY <1>10, <1>t, <2>1, Quiet DEF JoinStart, managerVars
<1>11. CASE JoinAlive
  BY <1>11, <1>t, Quiet DEF JoinAlive, managerVars
<1>12. CASE DisconnectExit
  BY <1>12, <1>t, Quiet DEF DisconnectExit
<1>13. CASE DisconnectJoin
  BY <1>13, <1>t, Quiet DEF DisconnectJoin, managerVars
<1>14. CASE Disconnect
  BY <1>14, <1>t, Quiet DEF Disconnect
<1>15. CASE CloseDB
  <2> DEFINE m == JoinOrder[main.turn]
  <2>1. m \in Managers /\ (m = "thing" <=> main.turn = 1) /\ thread[m] = "ended"
    BY <1>t, <1>15, Orders DEF CloseDB, IInv, ThreadJoined
  <2>2. m = "thing" => alive = "done"
    BY <2>1, <1>15 DEF CloseDB, IInv, AliveJoined
  <2>3. /\ UNCHANGED <<result, thread, alive>> /\ dbOpen' = [dbOpen EXCEPT ![m] = FALSE]
        /\ main' \in [at : {"join", "destroy", "stopped"}, turn : 1..3]
    BY <1>t, <1>15 DEF CloseDB
  <2>4. \A n \in Managers : n # m => dbOpen'[n] = dbOpen[n]
    BY <2>1, <2>3 DEF IInv, TypeInv
  <2>5. ThreadHasDB' /\ AliveHasDB'
    BY <2>1, <2>2, <2>3, <2>4 DEF IInv, ThreadHasDB, AliveHasDB, Managers
  <2>6. TypeInv'
    BY <2>3, <1>t DEF IInv, TypeInv
  <2>7. QED
    BY <2>3, <2>5, <2>6 DEF IInv, OpenedInTurn, AllOpened, AliveJoined, ThreadJoined
<1>16. CASE UNCHANGED vars
  BY <1>16, <1>t, Quiet DEF vars, mainVars, managerVars
<1>17. QED
  BY <1>1, <1>3, <1>4, <1>5, <1>6, <1>7, <1>8, <1>9, <1>10, <1>11, <1>12, <1>13, <1>14, <1>15, <1>16
  DEF Next, MainStep

\* No round of the alive thread and no message being handled finds the database
\* of its manager closed.
THEOREM DatabaseStaysOpen == Spec => []DatabaseOpenWhileUsed
<1>1. IInv => DatabaseOpenWhileUsed
  BY DEF IInv, ThreadHasDB, AliveHasDB, DatabaseOpenWhileUsed
<1>2. QED  BY InitEstablishes, StepPreserves, <1>1, PTL DEF Spec
-----------------------------------------------------------------------------
(* The program stops clean *)

FlagsType ==
    /\ nFailures \in Nat
    /\ bConnected \in [Managers -> BOOLEAN] /\ bCreated \in [Managers -> BOOLEAN]

\* While the managers are run, those of the turns before are created; then all are.
CreatedInTurn ==
    /\ main.at \in {"connect", "subscribe"} => \A i \in 1..3 : i < main.turn => bCreated[RunOrder[i]]
    /\ main.at \in {"wait", "test", "asleep"} => \A m \in Managers : bCreated[m]

IsStopped(m) == thread[m] = "ended" /\ ~bConnected[m] /\ ~dbOpen[m]

\* While they are joined, those of the turns before have stopped and the others
\* are still created, so that Join does not pass them by.
Joining == main.at \in {"join", "alive", "exit", "thread", "disconnect", "close"}

StoppedInTurn ==
    Joining => /\ \A i \in 1..3 : i < main.turn => IsStopped(JoinOrder[i])
               /\ \A i \in 1..3 : i >= main.turn => bCreated[JoinOrder[i]]
               /\ main.turn > 1 => alive = "done"
               /\ main.at = "close" => ~bConnected[JoinOrder[main.turn]]

AllStopped ==
    main.at \in {"destroy", "free", "stopped"} => alive = "done" /\ \A m \in Managers : IsStopped(m)

CleanInv ==
    /\ FlagsType
    /\ nFailures = 0 => result = "NOERROR" /\ CreatedInTurn /\ StoppedInTurn /\ AllStopped
\* Each manager is run once, and joined once.
LEMMA Turns ==
    /\ \A m \in Managers : \E i \in 1..3 : RunOrder[i] = m
    /\ \A m \in Managers : \E i \in 1..3 : JoinOrder[i] = m
    /\ \A i, j \in 1..3 : JoinOrder[i] = JoinOrder[j] => i = j
<1>1. Managers = {"thing", "info", "app"} /\ "thing" # "info" /\ "thing" # "app" /\ "info" # "app"
  BY DEF Managers
<1>2. /\ RunOrder[1] = "thing" /\ RunOrder[2] = "info" /\ RunOrder[3] = "app"
      /\ JoinOrder[1] = "thing" /\ JoinOrder[2] = "app" /\ JoinOrder[3] = "info"
  BY DEF RunOrder, JoinOrder
<1>3. \A i \in 1..3 : i = 1 \/ i = 2 \/ i = 3
  OBVIOUS
<1>4. \A m \in Managers : (\E i \in 1..3 : RunOrder[i] = m) /\ \E i \in 1..3 : JoinOrder[i] = m
  BY <1>1, <1>2
<1>5. \A i, j \in 1..3 : JoinOrder[i] = JoinOrder[j] => i = j
  BY <1>1, <1>2, <1>3
<1>6. QED  BY <1>4, <1>5

LEMMA CleanInit == Init => CleanInv
BY DEF Init, CleanInv, FlagsType, CreatedInTurn, StoppedInTurn, Joining, AllStopped, Managers

LEMMA FlagsKept == IInv /\ CleanInv /\ [Next]_vars => FlagsType' /\ (nFailures' = 0 => nFailures = 0)
<1> SUFFICES ASSUME IInv, CleanInv, [Next]_vars
             PROVE  FlagsType' /\ (nFailures' = 0 => nFailures = 0)
  OBVIOUS
<1> USE DEF CleanInv, FlagsType
<1>1. nFailures' = nFailures \/ nFailures' = nFailures + 1
  BY DEF Next, Signal, HandlerStep, HandlerLocks, HandlerSetsEvent, HandlerUnlocks, HandlerSetsFlag, AliveStep,
         AliveFails, Message, ThreadStep, PublishHangs, MainStep, InstallSignals, CreateEvent, Create, RunConnect, RunSubscribe, WaitLock, WaitTest, WaitWakes,
         JoinStart, JoinAlive, DisconnectExit, DisconnectJoin, Disconnect, CloseDB, DestroyLock, Destroy, vars
<1>2. bConnected' = bConnected \/ RunConnect \/ Disconnect
  BY DEF Next, Signal, HandlerStep, HandlerLocks, HandlerSetsEvent, HandlerUnlocks, HandlerSetsFlag, AliveStep,
         AliveFails, Message, ThreadStep, PublishHangs, MainStep, InstallSignals, CreateEvent, Create, RunSubscribe, WaitLock, WaitTest, WaitWakes,
         JoinStart, JoinAlive, DisconnectExit, DisconnectJoin, CloseDB, DestroyLock, Destroy, vars, managerVars
<1>3. bCreated' = bCreated \/ RunSubscribe \/ CloseDB
  BY DEF Next, Signal, HandlerStep, HandlerLocks, HandlerSetsEvent, HandlerUnlocks, HandlerSetsFlag, AliveStep,
         AliveFails, Message, ThreadStep, PublishHangs, MainStep, InstallSignals, CreateEvent, Create, RunConnect, WaitLock, WaitTest, WaitWakes,
         JoinStart, JoinAlive, DisconnectExit, DisconnectJoin, Disconnect, DestroyLock, Destroy, vars, managerVars
<1>4. bConnected' \in [Managers -> BOOLEAN]
  BY <1>2 DEF RunConnect, Disconnect
<1>5. bCreated' \in [Managers -> BOOLEAN]
  BY <1>3 DEF RunSubscribe, CloseDB
<1>6. QED  BY <1>1, <1>4, <1>5

\* A step of main() between two of its loops.
LEMMA CleanQuiet ==
    ASSUME IInv, CleanInv, FlagsType', UNCHANGED <<result, alive, thread, bConnected, bCreated, dbOpen>>,
           nFailures' = nFailures,
           \/ main' = main
           \/ main.at \in {"start", "event"} /\ main'.at \in {"event", "create"}
           \/ main.at \in {"wait", "test", "asleep"} /\ main'.at \in {"test", "asleep"}
           \/ main.at \in {"join", "alive", "exit", "thread"} /\ main'.turn = main.turn
                /\ main'.at \in {"alive", "exit", "thread", "disconnect"}
    PROVE  CleanInv'
BY DEF CleanInv, CreatedInTurn, StoppedInTurn, Joining, AllStopped, IsStopped

\* The turn of a manager ends when it has stopped.
LEMMA TurnEnds ==
    ASSUME NEW m \in Managers, m = JoinOrder[main.turn], IInv, CleanInv, FlagsType', Joining,
           NextTurn("join", "destroy"), nFailures = 0,
           UNCHANGED <<result, alive>>, alive = "done", IsStopped(m)',
           \A n \in Managers : n # m => (IsStopped(n) => IsStopped(n)') /\ bCreated'[n] = bCreated[n]
    PROVE  CleanInv'
<1>t. main \in [at : MainPlaces, turn : 1..3] /\ main.turn \in 1..3
  BY DEF IInv, TypeInv
<1>1. \A i \in 1..3 : i < main.turn => IsStopped(JoinOrder[i])'
  BY <1>t, Orders, Turns DEF CleanInv, StoppedInTurn
<1>2. \A i \in 1..3 : i > main.turn => bCreated'[JoinOrder[i]]
  BY <1>t, Orders, Turns DEF CleanInv, StoppedInTurn
<1>3. CASE main.turn < 3 /\ main' = [at |-> "join", turn |-> main.turn + 1]
  <2>1. \A i \in 1..3 : i < main.turn + 1 => IsStopped(JoinOrder[i])'
    <3> SUFFICES ASSUME NEW i \in 1..3, i < main.turn + 1 PROVE IsStopped(JoinOrder[i])'
      OBVIOUS
    <3>1. i < main.turn \/ i = main.turn
      BY <1>t
    <3>2. QED  BY <1>1, <3>1
  <2>2. \A i \in 1..3 : i >= main.turn + 1 => i > main.turn
    BY <1>t
  <2>3. QED
    BY <1>2, <1>3, <2>1, <2>2 DEF CleanInv, CreatedInTurn, StoppedInTurn, Joining, AllStopped
<1>4. CASE main.turn = 3 /\ main' = [at |-> "destroy", turn |-> 1]
  <2>1. \A i \in 1..3 : IsStopped(JoinOrder[i])'
    <3> TAKE i \in 1..3
    <3>1. i < 3 \/ i = 3
      OBVIOUS
    <3>2. QED  BY <1>1, <1>4, <3>1
  <2>2. \A n \in Managers : IsStopped(n)'
    BY <2>1, Turns
  <2>3. QED  BY <1>4, <2>2 DEF CleanInv, CreatedInTurn, StoppedInTurn, Joining, AllStopped
<1>5. QED  BY <1>t, <1>3, <1>4

LEMMA CleanKept == IInv /\ CleanInv /\ [Next]_vars => CleanInv'
<1> SUFFICES ASSUME IInv, CleanInv, [Next]_vars, nFailures' = 0 PROVE CleanInv'
  BY FlagsKept DEF CleanInv
<1>f. FlagsType' /\ FlagsType /\ nFailures = 0 /\ nFailures' = nFailures
  BY FlagsKept DEF CleanInv
<1>t. /\ main \in [at : MainPlaces, turn : 1..3] /\ main.turn \in 1..3
      /\ result = "NOERROR" /\ thread \in [Managers -> {"none", "idle", "busy", "hung", "ended"}]
      /\ dbOpen \in [Managers -> BOOLEAN]
  BY <1>f DEF IInv, TypeInv, CleanInv
<1>n. ~Fail
  BY <1>f DEF FlagsType
<1>1. ASSUME NEW t \in Threads, Signal(t) \/ HandlerStep(t) PROVE CleanInv'
  BY <1>1, <1>f, CleanQuiet
     DEF Signal, HandlerStep, HandlerLocks, HandlerSetsEvent, HandlerUnlocks, HandlerSetsFlag, mainVars, managerVars
<1>3. CASE AliveStep
  BY <1>3, <1>f
  DEF AliveStep, mainVars, managerVars, CleanInv, CreatedInTurn, StoppedInTurn, Joining, AllStopped, IsStopped
<1>4. CASE AliveFails
  BY <1>4, <1>n DEF AliveFails
<1>5. ASSUME NEW m \in Managers, Message(m) \/ ThreadStep(m) \/ PublishHangs(m) PROVE CleanInv'
  <2>1. /\ thread[m] \in {"idle", "busy"}
        /\ \E place \in {"idle", "busy", "ended"} : thread' = [thread EXCEPT ![m] = place]
        /\ UNCHANGED <<main, result, alive, dbOpen, bConnected, bCreated>>
    BY <1>5, <1>f DEF Message, ThreadStep, PublishHangs, mainVars, FlagsType
  <2>2. \A n \in Managers : IsStopped(n) => IsStopped(n)'
    BY <2>1, <1>t DEF IsStopped
  <2>3. QED
    BY <1>f, <1>t, <2>1, <2>2, Orders DEF CleanInv, CreatedInTurn, StoppedInTurn, Joining, AllStopped
<1>6. CASE InstallSignals \/ CreateEvent \/ (WaitTest /\ main'.at # "join") \/ WaitWakes \/ WaitLock
  BY <1>6, <1>f, CleanQuiet DEF InstallSignals, CreateEvent, WaitLock, WaitTest, WaitWakes, managerVars
<1>7. CASE Create
  BY <1>7, <1>f, <1>n, <1>t DEF Create, CleanInv, CreatedInTurn, StoppedInTurn, Joining, AllStopped
<1>8. CASE RunConnect
  BY <1>8, <1>f, <1>n, <1>t DEF RunConnect, CleanInv, CreatedInTurn, StoppedInTurn, Joining, AllStopped
<1>9. CASE RunSubscribe
  <2>1. /\ main.at = "subscribe" /\ bCreated' = [bCreated EXCEPT ![RunOrder[main.turn]] = TRUE]
        /\ NextTurn("connect", "wait") /\ UNCHANGED result
    BY <1>9, <1>n DEF RunSubscribe
  <2>2. \A m \in Managers : bCreated[m] => bCreated'[m]
    BY <1>f, <2>1 DEF FlagsType
  <2>3. \A i \in 1..3 : i <= main.turn => bCreated'[RunOrder[i]]
    BY <1>f, <1>t, <2>1, <2>2, Orders DEF CleanInv, CreatedInTurn, FlagsType
  <2>4. CASE main.turn < 3 /\ main' = [at |-> "connect", turn |-> main.turn + 1]
    BY <1>f, <1>t, <2>1, <2>3, <2>4 DEF CleanInv, CreatedInTurn, StoppedInTurn, Joining, AllStopped
  <2>5. CASE main.turn = 3 /\ main' = [at |-> "wait", turn |-> 1]
    <3>1. \A m \in Managers : bCreated'[m]
      BY <2>3, <2>5, Turns
    <3>2. QED  BY <1>f, <1>t, <2>1, <2>5, <3>1 DEF CleanInv, CreatedInTurn, StoppedInTurn, Joining, AllStopped
  <2>6. QED  BY <1>t, <2>1, <2>4, <2>5
<1>10. CASE WaitTest /\ main'.at = "join"
  BY <1>10, <1>f, <1>t, Orders DEF WaitTest, managerVars, CleanInv, CreatedInTurn, StoppedInTurn, Joining, AllStopped
<1>11. CASE JoinStart
  <2>1. bCreated[JoinOrder[main.turn]]
    BY <1>11, <1>f, <1>t DEF JoinStart, CleanInv, StoppedInTurn, Joining
  <2>2. QED  BY <1>11, <1>f, <2>1, CleanQuiet DEF JoinStart, managerVars
<1>12. CASE JoinAlive \/ DisconnectExit \/ DisconnectJoin
  BY <1>12, <1>f, CleanQuiet DEF JoinAlive, DisconnectExit, DisconnectJoin, managerVars
<1>13. CASE Disconnect
  <2> DEFINE m == JoinOrder[main.turn]
  <2>1. /\ main.at = "disconnect" /\ bConnected' = [bConnected EXCEPT ![m] = FALSE]
        /\ main' = [at |-> "close", turn |-> main.turn]
        /\ UNCHANGED <<result, thread, dbOpen, bCreated, alive>>
    BY <1>13, <1>n DEF Disconnect
  <2>2. ~bConnected'[m] /\ \A n \in Managers : bConnected'[n] => bConnected[n]
    BY <1>f, <1>t, <2>1, Orders DEF FlagsType
  <2>3. \A n \in Managers : IsStopped(n) => IsStopped(n)'
    BY <2>1, <2>2 DEF IsStopped
  <2>4. QED
    BY <1>f, <1>t, <2>1, <2>2, <2>3, Orders DEF CleanInv, CreatedInTurn, StoppedInTurn, Joining, AllStopped
<1>14. CASE CloseDB
  <2>m. PICK m \in Managers : m = JoinOrder[main.turn]
    BY <1>t, Orders
  <2>1. main.at = "close" /\ thread[m] = "ended" /\ ~bConnected[m] /\ alive = "done"
    BY <2>m, <1>t, <1>f, <1>14, Orders
       DEF CloseDB, IInv, ThreadJoined, AliveJoined, CleanInv, StoppedInTurn, Joining
  <2>2. /\ UNCHANGED <<result, thread, bConnected, alive>>
        /\ dbOpen' = [dbOpen EXCEPT ![m] = FALSE] /\ bCreated' = [bCreated EXCEPT ![m] = FALSE]
        /\ NextTurn("join", "destroy")
    BY <2>m, <1>14, <1>t DEF CloseDB
  <2>3. IsStopped(m)'
    BY <1>t, <2>1, <2>2 DEF IsStopped
  <2>4. \A n \in Managers : n # m => (IsStopped(n) => IsStopped(n)') /\ bCreated'[n] = bCreated[n]
    BY <1>t, <1>f, <2>1, <2>2 DEF IsStopped, FlagsType
  <2>5. QED  BY <2>m, <1>f, <2>1, <2>2, <2>3, <2>4, TurnEnds DEF Joining
<1>15. CASE DestroyLock \/ Destroy
  BY <1>15, <1>f DEF DestroyLock, Destroy, managerVars, CleanInv, CreatedInTurn, StoppedInTurn, Joining, AllStopped, IsStopped
<1>16. CASE UNCHANGED vars
  BY <1>16, <1>f, CleanQuiet DEF vars, mainVars, managerVars
<1>17. QED
  BY <1>1, <1>3, <1>4, <1>5, <1>6, <1>7, <1>8, <1>9, <1>10, <1>11, <1>12, <1>13, <1>14, <1>15, <1>16
  DEF Next, MainStep

\* Unless a call failed, main() returns only after every thread has ended, every
\* connection is given up and every database closed, however many signals came
\* and wherever they interrupted it.
THEOREM ProgramStopsClean == Spec => []StopsClean
<1>1. CleanInv => StopsClean
  BY DEF CleanInv, AllStopped, IsStopped, StopsClean
<1>2. QED  BY InitEstablishes, StepPreserves, CleanInit, CleanKept, <1>1, PTL DEF Spec
=============================================================================
