---------------------- MODULE MQTTMessageHandler_proofs ----------------------
(***************************************************************************)
(* For any topics, messages, publications and lost connections: the         *)
(* manager's callback finds the handler connected, a publication that       *)
(* returned was confirmed, and a restoration that says it succeeded covers  *)
(* the list of subscriptions.                                               *)
(***************************************************************************)
EXTENDS MQTTMessageHandler, TLAPS

-----------------------------------------------------------------------------
(* The inductive invariant *)

LibraryType ==
    /\ up \in BOOLEAN /\ lost \in BOOLEAN /\ nLost \in 0..MaxLost
    /\ subscribed \subseteq Topics
    /\ nLastToken \in Tokens /\ inflight \in Tokens /\ confirmed \subseteq Tokens

QueueType ==
    /\ bDestroy \in BOOLEAN
    /\ hMQTTMessageQueue \in Seq(Messages) /\ put \in Seq(Messages) /\ out \in Seq(Messages)

HandlerType ==
    /\ g_bExit \in BOOLEAN /\ bConnected \in BOOLEAN
    /\ hLock \in {"none", "main", "callback"}
    /\ nDeliveredToken \in Tokens /\ nToken \in Tokens
    /\ restoration \in {"none", "failed", "succeeded"}

\* Each thread is at one of its own places.
Places ==
    /\ pc \in [Threads -> MainPlaces \cup CallbackPlaces \cup HandlingPlaces]
    /\ pc["main"] \in MainPlaces
    /\ pc["callback"] \in CallbackPlaces
    /\ pc["handling"] \in HandlingPlaces

ListType ==
    /\ hSubscriptionList \in Seq(Topics) /\ Len(hSubscriptionList) <= Len(TopicList)
    /\ nLoop \in [{"main", "callback"} -> 1..(Len(TopicList) + 1)]

\* While the topics are subscribed, the list holds those of the turns before.
ListInTurn ==
    /\ pc["main"] \in {"connect", "thread", "connected"} => nLoop["main"] = 1 /\ hSubscriptionList = <<>>
    /\ pc["main"] \in {"subscribe", "add"} => nLoop["main"] = Len(hSubscriptionList) + 1
    /\ pc["main"] = "add" => nLoop["main"] <= Len(TopicList)

\* What unsubscribes and what restores stays within the list it locked.
WithinList ==
    /\ pc["main"] = "unsubscribe" => nLoop["main"] <= Len(hSubscriptionList) + 1
    /\ pc["callback"] = "restore" => nLoop["callback"] <= Len(hSubscriptionList) + 1

TypeInv == LibraryType /\ QueueType /\ HandlerType /\ Places /\ ListType /\ ListInTurn /\ WithinList

\* Before bConnected is set there is no subscription, hence no message.
NothingYet ==
    ~bConnected /\ pc["handling"] # "done"
        => /\ subscribed = {} /\ hSubscriptionList = <<>> /\ hMQTTMessageQueue = <<>>
           /\ pc["handling"] \in {"none", "top", "get"}

\* bConnected stands from the subscriptions until the disconnection, which
\* waited for the handling thread.
Connected ==
    /\ pc["main"] \in {"subscribe", "add", "running", "exit", "join", "lock", "unsubscribe", "disconnect"}
          => bConnected
    /\ pc["main"] \in {"connect", "thread"} => pc["handling"] = "none"
    /\ pc["main"] \in {"lock", "unsubscribe", "disconnect", "disconnected"} => pc["handling"] = "done"

\* Only a token the library gave is waited for, and only what the broker
\* confirmed is delivered.
TokensOrdered ==
    /\ nDeliveredToken # 0 => nDeliveredToken \in confirmed
    /\ pc["handling"] = "wait" => nToken = nLastToken /\ nLastToken # 0

\* The list's lock is held over the two loops, and by nobody else.
LockHeld ==
    /\ hLock = "main" <=> pc["main"] \in {"unsubscribe", "disconnect"}
    /\ hLock = "callback" <=> pc["callback"] = "restore"

\* Before the first connection there is none to lose.
NoneLostYet == pc["main"] = "connect" => ~up /\ ~lost /\ pc["callback"] = "idle"

\* The loop that restores has subscribed the topics of its turns before.
RestoredInTurn ==
    /\ pc["callback"] \in {"check", "lock", "restore"} => restoration = "failed"
    /\ pc["callback"] = "restore" /\ up
          => \A i \in 1..Len(hSubscriptionList) :
                i < nLoop["callback"] => hSubscriptionList[i] \in subscribed

ConnectionInv  == NothingYet /\ Connected
PublishInv     == TokensOrdered /\ PublishedIsConfirmed
RestorationInv == LockHeld /\ NoneLostYet /\ RestoredInTurn

IInv == TypeInv /\ ConnectionInv /\ PublishInv /\ RestorationInv

-----------------------------------------------------------------------------
(* The initial states *)

LEMMA InitEstablishes == Init => IInv
<1> SUFFICES ASSUME Init PROVE IInv
  OBVIOUS
<1>1. pc["main"] = "connect" /\ pc["callback"] = "idle" /\ pc["handling"] = "none"
  BY DEF Init, Threads
<1>2. pc \in [Threads -> MainPlaces \cup CallbackPlaces \cup HandlingPlaces]
  BY DEF Init, Threads, MainPlaces, CallbackPlaces, HandlingPlaces
<1>3. Places
  BY <1>1, <1>2 DEF Places, MainPlaces, CallbackPlaces, HandlingPlaces
<1>4. LibraryType /\ QueueType /\ HandlerType
  <2>1. 0 \in 0..MaxTokens /\ 0 \in 0..MaxLost /\ <<>> \in Seq(Messages)
    BY HandlerAssumption
  <2>2. LibraryType
    BY <2>1 DEF Init, LibraryType, Tokens
  <2>3. QueueType
    BY <2>1 DEF Init, QueueType, Queue!Init
  <2>4. HandlerType
    BY <2>1 DEF Init, HandlerType, Tokens
  <2>5. QED  BY <2>2, <2>3, <2>4
<1>5. ListType /\ ListInTurn /\ WithinList
  BY HandlerAssumption, <1>1 DEF Init, ListType, ListInTurn, WithinList
<1>6. ConnectionInv /\ PublishInv /\ RestorationInv
  BY <1>1 DEF Init, ConnectionInv, NothingYet, Connected, PublishInv, TokensOrdered, PublishedIsConfirmed,
              RestorationInv, LockHeld, NoneLostYet, RestoredInTurn, Queue!Init
<1>7. QED  BY <1>3, <1>4, <1>5, <1>6 DEF IInv, TypeInv

-----------------------------------------------------------------------------
(* Every step keeps the types *)

USE DEF At, Goto, ClientConnect, ClientSubscribes, libraryVars, queueVars, handlerVars

LEMMA LibraryTypeKept == IInv /\ [Next]_vars => LibraryType'
<1> SUFFICES ASSUME IInv, [Next]_vars PROVE LibraryType'
  OBVIOUS
<1> USE HandlerAssumption DEF IInv, TypeInv, LibraryType, Tokens
<1>1. CASE ConnectionLost
  <2>1. nLost' = nLost + 1 /\ nLost < MaxLost /\ subscribed' = {} /\ inflight' = 0
        /\ up' = FALSE /\ lost' = TRUE /\ UNCHANGED <<nLastToken, confirmed>>
    BY <1>1 DEF ConnectionLost
  <2>2. nLost' \in 0..MaxLost /\ 0 \in 0..MaxTokens
    BY <2>1
  <2>3. QED  BY <2>1, <2>2
<1>2. CASE Delivered
  BY <1>2 DEF Delivered
<1>3. CASE Connect \/ Reconnect
  BY <1>3 DEF Connect, Reconnect
<1>4. CASE Subscribe
  BY <1>4 DEF Subscribe, ListType, ListInTurn, Places
<1>5. CASE RestoreTopic
  BY <1>5 DEF RestoreTopic, MoreToRestore, ListType, WithinList, Places
<1>6. CASE Unsubscribe \/ Disconnect
  BY <1>6 DEF Unsubscribe, Disconnect
<1>7. CASE ClientPublish
  BY <1>7 DEF ClientPublish
<1>8. CASE CallbackBegins
  BY <1>8 DEF CallbackBegins
<1>9. CASE \/ (\E m \in Messages : Arrive(m)) \/ CreateThread \/ SetConnected \/ AddTopic \/ SetExit \/ Join
           \/ LockForUnsubscribe \/ Exit \/ CheckConnected \/ LockForRestore \/ RestoreEnds
           \/ LoopTest \/ Get \/ CallbackReturns \/ BeginPublish \/ WaitDelivery \/ UNCHANGED vars
  BY <1>9 DEF Arrive, CreateThread, SetConnected, AddTopic, SetExit, Join, LockForUnsubscribe, Exit,
              CheckConnected, LockForRestore, RestoreEnds, LoopTest, Get, CallbackReturns, BeginPublish,
              WaitDelivery, vars
<1>10. QED
  BY <1>1, <1>2, <1>3, <1>4, <1>5, <1>6, <1>7, <1>8, <1>9
     DEF Next, LibraryStep, MainStep, CallbackStep, HandlingStep

LEMMA QueueTypeKept == IInv /\ [Next]_vars => QueueType'
<1> SUFFICES ASSUME IInv, [Next]_vars PROVE QueueType'
  OBVIOUS
<1> USE DEF IInv, TypeInv, QueueType
<1>1. ASSUME NEW m \in Messages, Arrive(m) PROVE QueueType'
  BY <1>1 DEF Arrive, Queue!Put
<1>2. CASE SetExit
  BY <1>2 DEF SetExit, Queue!Close
<1>3. CASE Get
  <2>1. CASE UNCHANGED queueVars
    BY <2>1
  <2>2. CASE Queue!Take
    <3>1. Head(hMQTTMessageQueue) \in Messages /\ Tail(hMQTTMessageQueue) \in Seq(Messages)
      BY <2>2 DEF Queue!Take
    <3>2. QED  BY <2>2, <3>1 DEF Queue!Take
  <2>3. QED  BY <1>3, <2>1, <2>2 DEF Get
<1>4. CASE ConnectionLost \/ Delivered \/ Connect \/ CreateThread \/ SetConnected \/ Subscribe \/ AddTopic
           \/ Join \/ LockForUnsubscribe \/ Unsubscribe \/ Disconnect \/ Exit \/ UNCHANGED vars
  BY <1>4 DEF ConnectionLost, Delivered, Connect, CreateThread, SetConnected, Subscribe, AddTopic, Join,
              LockForUnsubscribe, Unsubscribe, Disconnect, Exit, vars
<1>5. CASE CallbackStep \/ LoopTest \/ CallbackReturns \/ BeginPublish \/ ClientPublish \/ WaitDelivery
  BY <1>5 DEF CallbackStep, CallbackBegins, Reconnect, CheckConnected, LockForRestore, RestoreTopic, RestoreEnds,
              LoopTest, CallbackReturns, BeginPublish, ClientPublish, WaitDelivery
<1>6. QED
  BY <1>1, <1>2, <1>3, <1>4, <1>5 DEF Next, LibraryStep, MainStep, HandlingStep

LEMMA HandlerTypeKept == IInv /\ [Next]_vars => HandlerType'
<1> SUFFICES ASSUME IInv, [Next]_vars PROVE HandlerType'
  OBVIOUS
<1> USE DEF IInv, TypeInv, HandlerType
<1>1. CASE Delivered \/ ClientPublish \/ BeginPublish
  <2>1. 0 \in Tokens /\ inflight \in Tokens /\ nLastToken' \in Tokens
    BY <1>1, LibraryTypeKept, HandlerAssumption DEF LibraryType, Tokens
  <2>2. QED
    BY <1>1, <2>1 DEF Delivered, ClientPublish, BeginPublish
<1>2. CASE ConnectionLost \/ (\E m \in Messages : Arrive(m)) \/ Connect \/ CreateThread \/ SetConnected
           \/ Subscribe \/ AddTopic \/ SetExit \/ Join \/ LockForUnsubscribe \/ Unsubscribe \/ Disconnect
           \/ Exit \/ UNCHANGED vars
  BY <1>2 DEF ConnectionLost, Arrive, Connect, CreateThread, SetConnected, Subscribe, AddTopic, SetExit, Join,
              LockForUnsubscribe, Unsubscribe, Disconnect, Exit, vars
<1>3. CASE CallbackStep \/ LoopTest \/ Get \/ CallbackReturns \/ WaitDelivery
  BY <1>3 DEF CallbackStep, CallbackBegins, Reconnect, CheckConnected, LockForRestore, RestoreTopic, RestoreEnds,
              LoopTest, Get, CallbackReturns, WaitDelivery
<1>4. QED
  BY <1>1, <1>2, <1>3 DEF Next, LibraryStep, MainStep, HandlingStep

\* A step moves one thread to a place of its own, CreateThread two of them.
LEMMA PlacesKept == IInv /\ [Next]_vars => Places'
<1> SUFFICES ASSUME IInv, [Next]_vars PROVE Places'
  OBVIOUS
<1> USE DEF IInv, TypeInv, Places, Threads
<1>1. CASE \/ Connect \/ SetConnected \/ Subscribe \/ AddTopic \/ SetExit \/ Join \/ LockForUnsubscribe
           \/ Unsubscribe \/ Disconnect \/ Exit
  BY <1>1 DEF Connect, SetConnected, Subscribe, AddTopic, SetExit, Join, LockForUnsubscribe, Unsubscribe,
              Disconnect, Exit, MainPlaces
<1>2. CASE CreateThread
  BY <1>2 DEF CreateThread, MainPlaces, HandlingPlaces
<1>3. CASE CallbackStep
  BY <1>3 DEF CallbackStep, CallbackBegins, Reconnect, CheckConnected, LockForRestore, RestoreTopic, RestoreEnds,
              CallbackPlaces
<1>4. CASE HandlingStep
  BY <1>4 DEF HandlingStep, LoopTest, Get, CallbackReturns, BeginPublish, ClientPublish, WaitDelivery,
              HandlingPlaces
<1>5. CASE LibraryStep \/ UNCHANGED vars
  BY <1>5 DEF LibraryStep, ConnectionLost, Arrive, Delivered, vars
<1>6. QED  BY <1>1, <1>2, <1>3, <1>4, <1>5 DEF Next, MainStep

LEMMA ListKept == IInv /\ [Next]_vars => (ListType /\ ListInTurn /\ WithinList)'
<1> SUFFICES ASSUME IInv, [Next]_vars PROVE (ListType /\ ListInTurn /\ WithinList)'
  OBVIOUS
<1> USE HandlerAssumption DEF IInv, TypeInv, Places, Threads, ListType, ListInTurn, WithinList
<1>1. CASE UNCHANGED <<hSubscriptionList, nLoop>> /\ pc'["main"] = pc["main"] /\ pc'["callback"] = pc["callback"]
  BY <1>1
<1>2. CASE LibraryStep \/ HandlingStep \/ UNCHANGED vars
  BY <1>1, <1>2 DEF LibraryStep, ConnectionLost, Arrive, Delivered, HandlingStep, LoopTest, Get, CallbackReturns,
                    BeginPublish, ClientPublish, WaitDelivery, vars
<1>3. CASE Connect \/ CreateThread \/ SetConnected \/ SetExit \/ Join \/ Disconnect \/ Exit
  BY <1>3 DEF Connect, CreateThread, SetConnected, SetExit, Join, Disconnect, Exit
<1>4. CASE Subscribe
  BY <1>4 DEF Subscribe
<1>5. CASE AddTopic
  <2>1. TopicList[nLoop["main"]] \in Topics /\ nLoop["main"] \in 1..Len(TopicList)
    BY <1>5 DEF AddTopic
  <2>2. /\ hSubscriptionList' \in Seq(Topics) /\ Len(hSubscriptionList') = Len(hSubscriptionList) + 1
        /\ nLoop'["main"] = nLoop["main"] + 1 /\ nLoop'["callback"] = nLoop["callback"]
        /\ nLoop' \in [{"main", "callback"} -> 1..(Len(TopicList) + 1)]
        /\ pc'["main"] = "subscribe" /\ pc'["callback"] = pc["callback"]
    BY <1>5, <2>1 DEF AddTopic
  <2>3. QED  BY <1>5, <2>1, <2>2 DEF AddTopic
<1>6. CASE LockForUnsubscribe
  BY <1>6 DEF LockForUnsubscribe
<1>7. CASE Unsubscribe
  BY <1>7 DEF Unsubscribe
<1>8. CASE CallbackBegins \/ Reconnect \/ CheckConnected \/ RestoreEnds
  BY <1>8 DEF CallbackBegins, Reconnect, CheckConnected, RestoreEnds
<1>9. CASE LockForRestore
  BY <1>9 DEF LockForRestore
<1>10. CASE RestoreTopic
  BY <1>10 DEF RestoreTopic, MoreToRestore
<1>11. QED
  BY <1>2, <1>3, <1>4, <1>5, <1>6, <1>7, <1>8, <1>9, <1>10 DEF Next, MainStep, CallbackStep

LEMMA TypeKept == IInv /\ [Next]_vars => TypeInv'
BY LibraryTypeKept, QueueTypeKept, HandlerTypeKept, PlacesKept, ListKept DEF TypeInv

-----------------------------------------------------------------------------
(* The handler is connected while messages are handled *)

LEMMA ConnectionKept == IInv /\ [Next]_vars => ConnectionInv'
<1> SUFFICES ASSUME IInv, [Next]_vars PROVE ConnectionInv'
  OBVIOUS
<1> USE DEF IInv, TypeInv, Places, Threads, ConnectionInv, NothingYet, Connected
<1>1. CASE ConnectionLost \/ Delivered \/ UNCHANGED vars
  BY <1>1 DEF ConnectionLost, Delivered, vars
<1>2. ASSUME NEW m \in Messages, Arrive(m) PROVE ConnectionInv'
  BY <1>2 DEF Arrive
<1>3. CASE Connect \/ CreateThread
  BY <1>3 DEF Connect, CreateThread
<1>4. CASE SetConnected \/ SetExit \/ Join \/ Exit
  BY <1>4 DEF SetConnected, SetExit, Queue!Close, Join, Exit
<1>5. CASE Subscribe \/ AddTopic
  BY <1>5 DEF Subscribe, AddTopic
<1>6. CASE LockForUnsubscribe \/ Unsubscribe \/ Disconnect
  BY <1>6 DEF LockForUnsubscribe, Unsubscribe, Disconnect
<1>7. CASE CallbackBegins \/ Reconnect \/ CheckConnected \/ LockForRestore \/ RestoreEnds
  BY <1>7 DEF CallbackBegins, Reconnect, CheckConnected, LockForRestore, RestoreEnds
<1>8. CASE RestoreTopic
  BY <1>8 DEF RestoreTopic, MoreToRestore, ListType, WithinList
<1>9. CASE Get
  BY <1>9 DEF Get, Queue!Take
<1>10. CASE LoopTest \/ CallbackReturns \/ BeginPublish \/ ClientPublish \/ WaitDelivery
  BY <1>10 DEF LoopTest, CallbackReturns, BeginPublish, ClientPublish, WaitDelivery
<1>11. QED
  BY <1>1, <1>2, <1>3, <1>4, <1>5, <1>6, <1>7, <1>8, <1>9, <1>10
     DEF Next, LibraryStep, MainStep, CallbackStep, HandlingStep

-----------------------------------------------------------------------------
(* A publication that returned was confirmed *)

LEMMA PublishKept == IInv /\ [Next]_vars => PublishInv'
<1> SUFFICES ASSUME IInv, [Next]_vars PROVE PublishInv'
  OBVIOUS
<1> USE DEF IInv, TypeInv, LibraryType, HandlerType, Tokens, Places, Threads, PublishInv, TokensOrdered,
            PublishedIsConfirmed
<1>1. CASE UNCHANGED <<nLastToken, confirmed, nDeliveredToken, nToken, pc["handling"]>>
  BY <1>1
<1>2. CASE ConnectionLost \/ (\E m \in Messages : Arrive(m)) \/ UNCHANGED vars
  BY <1>1, <1>2 DEF ConnectionLost, Arrive, vars
<1>3. CASE Delivered
  BY <1>3 DEF Delivered
<1>4. CASE CreateThread
  BY <1>4 DEF CreateThread, ConnectionInv, Connected
<1>5. CASE Connect \/ SetConnected \/ Subscribe \/ AddTopic \/ SetExit \/ Join \/ LockForUnsubscribe
           \/ Unsubscribe \/ Disconnect \/ Exit
  BY <1>1, <1>5 DEF Connect, SetConnected, Subscribe, AddTopic, SetExit, Join, LockForUnsubscribe, Unsubscribe,
                    Disconnect, Exit
<1>6. CASE CallbackStep
  BY <1>1, <1>6 DEF CallbackStep, CallbackBegins, Reconnect, CheckConnected, LockForRestore, RestoreTopic,
                    RestoreEnds
<1>7. CASE LoopTest \/ Get \/ CallbackReturns \/ BeginPublish
  <2>1. UNCHANGED <<nLastToken, confirmed, nToken>> /\ nDeliveredToken' \in {0, nDeliveredToken}
    BY <1>7 DEF LoopTest, Get, CallbackReturns, BeginPublish
  <2>2. pc["handling"] # "wait" /\ pc'["handling"] # "wait"
    BY <1>7 DEF LoopTest, Get, CallbackReturns, BeginPublish
  <2>3. QED  BY <2>1, <2>2
<1>8. CASE ClientPublish
  BY <1>8, HandlerAssumption DEF ClientPublish
<1>9. CASE WaitDelivery
  BY <1>9 DEF WaitDelivery
<1>10. QED
  BY <1>2, <1>3, <1>4, <1>5, <1>6, <1>7, <1>8, <1>9 DEF Next, LibraryStep, MainStep, HandlingStep

-----------------------------------------------------------------------------
(* The restoration of the subscriptions *)

LEMMA RestorationKept == IInv /\ [Next]_vars => RestorationInv'
<1> SUFFICES ASSUME IInv, [Next]_vars PROVE RestorationInv'
  OBVIOUS
<1> USE DEF IInv, TypeInv, Places, Threads, RestorationInv, LockHeld, NoneLostYet, RestoredInTurn
<1>1. CASE UNCHANGED <<up, lost, subscribed, hSubscriptionList, hLock, restoration, nLoop["callback"]>>
           /\ UNCHANGED pc["callback"] /\ pc'["main"] # "connect"
           /\ (pc'["main"] \in {"unsubscribe", "disconnect"} <=> pc["main"] \in {"unsubscribe", "disconnect"})
  BY <1>1
<1>2. CASE LibraryStep \/ UNCHANGED vars
  BY <1>2 DEF LibraryStep, ConnectionLost, Arrive, Delivered, vars
<1>3. CASE HandlingStep
  BY <1>3 DEF HandlingStep, LoopTest, Get, CallbackReturns, BeginPublish, ClientPublish, WaitDelivery
<1>4. CASE Connect
  BY <1>4 DEF Connect
<1>5. CASE CreateThread \/ SetConnected \/ SetExit \/ Join \/ Exit
  BY <1>1, <1>5 DEF CreateThread, SetConnected, SetExit, Join, Exit
<1>6. CASE Subscribe
  BY <1>6 DEF Subscribe
<1>7. CASE AddTopic
  BY <1>7 DEF AddTopic
<1>8. CASE LockForUnsubscribe
  BY <1>8 DEF LockForUnsubscribe, ListType
<1>9. CASE Unsubscribe \/ Disconnect
  <2>1. pc["callback"] # "restore" /\ UNCHANGED <<lost, restoration, pc["callback"]>>
    BY <1>9 DEF Unsubscribe, Disconnect
  <2>2. QED  BY <1>9, <2>1 DEF Unsubscribe, Disconnect
<1>10. CASE CallbackBegins \/ Reconnect \/ CheckConnected \/ RestoreEnds
  BY <1>10 DEF CallbackBegins, Reconnect, CheckConnected, RestoreEnds
<1>11. CASE LockForRestore
  BY <1>11 DEF LockForRestore, ListType
<1>12. CASE RestoreTopic
  BY <1>12 DEF RestoreTopic, MoreToRestore, ListType, WithinList
<1>13. QED
  BY <1>2, <1>3, <1>4, <1>5, <1>6, <1>7, <1>8, <1>9, <1>10, <1>11, <1>12 DEF Next, MainStep, CallbackStep

-----------------------------------------------------------------------------
(* The theorems *)

LEMMA IInvHolds == Spec => []IInv
<1>1. IInv /\ [Next]_vars => IInv'
  BY TypeKept, ConnectionKept, PublishKept, RestorationKept DEF IInv
<1>2. QED  BY InitEstablishes, <1>1, PTL DEF Spec

\* Every variable has its type: the indices of the three loops over the topics
\* (MQTTMessageHandler_SubscribeMany, Disconnect, restoreSubscription) stay
\* within one more than the topics.
THEOREM TypeCorrect == Spec => []TypeOK
<1>1. IInv => TypeOK
  BY DEF IInv, TypeInv, LibraryType, QueueType, HandlerType, Places, ListType, TypeOK
<1>2. QED  BY IInvHolds, <1>1, PTL

\* MQTTMessageHandlingThread calls the manager's callback only while bConnected
\* is set.
THEOREM FunctionIsConnected == Spec => []FunctionFindsConnection
<1>1. IInv => FunctionFindsConnection
  BY DEF IInv, ConnectionInv, NothingYet, FunctionFindsConnection
<1>2. QED  BY IInvHolds, <1>1, PTL

\* The wait loop of MQTTMessageHandler_Publish ends for no token that
\* deliveredCallBack did not report.
THEOREM PublicationsConfirmed == Spec => []PublishedIsConfirmed
<1>1. IInv => PublishedIsConfirmed
  BY DEF IInv, PublishInv
<1>2. QED  BY IInvHolds, <1>1, PTL

\* restoreSubscription reports success only when the broker has every topic of
\* the list, or the connection is lost again.
THEOREM RestorationCovers == Spec => RestorationCoversList
<1> DEFINE Covers == restoration' = "succeeded" /\ pc["callback"] = "restore" /\ pc'["callback"] = "idle" /\ up
                        => Listed \subseteq subscribed
<1>1. IInv /\ [Next]_vars => [Covers]_vars
  <2> SUFFICES ASSUME IInv, Next, restoration' = "succeeded", pc["callback"] = "restore",
                      pc'["callback"] = "idle", up
               PROVE  Listed \subseteq subscribed
    OBVIOUS
  <2> USE DEF IInv, TypeInv, Places, Threads, RestorationInv, RestoredInTurn
  <2>1. restoration = "failed"
    OBVIOUS
  <2>2. CASE RestoreEnds
    <3>1. nLoop["callback"] \in Nat /\ Len(hSubscriptionList) \in Nat
      BY DEF ListType
    <3>2. \A i \in 1..Len(hSubscriptionList) : i < nLoop["callback"]
      BY <2>2, <3>1 DEF RestoreEnds, MoreToRestore
    <3>3. QED  BY <3>2 DEF Listed
  <2>3. CASE LibraryStep \/ HandlingStep \/ MainStep \/ Exit
    BY <2>3 DEF LibraryStep, ConnectionLost, Arrive, Delivered, HandlingStep, LoopTest, Get, CallbackReturns,
                BeginPublish, ClientPublish, WaitDelivery, MainStep, Connect, CreateThread, SetConnected,
                Subscribe, AddTopic, SetExit, Join, LockForUnsubscribe, Unsubscribe, Disconnect, Exit
  <2>4. CASE CallbackBegins \/ Reconnect \/ CheckConnected \/ LockForRestore \/ RestoreTopic
    BY <2>1, <2>4 DEF CallbackBegins, Reconnect, CheckConnected, LockForRestore, RestoreTopic
  <2>5. QED  BY <2>2, <2>3, <2>4 DEF Next, CallbackStep
<1>2. QED  BY IInvHolds, <1>1, PTL DEF Spec, RestorationCoversList

=============================================================================
