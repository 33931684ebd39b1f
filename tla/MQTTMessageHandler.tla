------------------------- MODULE MQTTMessageHandler -------------------------
(***************************************************************************)
(* middleware/MQTTMessageHandler.c: the manager's thread that connects,      *)
(* subscribes and disconnects, the MQTT library's callbacks, and the thread  *)
(* that handles the messages.  The MQTT client library and the broker are    *)
(* external: they are modelled from how the handler uses them.               *)
(***************************************************************************)
EXTENDS Naturals, Sequences

CONSTANTS
    Topics,
    TopicList,      \* the topics given to SubscribeMany, in order
    Messages,       \* the messages that may arrive
    MaxTokens,      \* bound on the messages published
    MaxLost         \* bound on the connections lost

ASSUME HandlerAssumption ==
    /\ TopicList \in Seq(Topics)
    /\ MaxTokens \in Nat /\ MaxLost \in Nat

(* The library and the broker. *)
VARIABLES
    up,             \* the client is connected to the broker
    subscribed,     \* the topics the broker has for this client
    nLastToken,     \* the last delivery token given
    inflight,       \* the token the broker has not confirmed yet, or 0
    confirmed,      \* history: tokens confirmed
    lost,           \* a connectionLost callback is due
    nLost           \* connections lost

(* The handler. *)
VARIABLES
    g_bExit,
    bConnected, hSubscriptionList, hLock, nDeliveredToken,
    hMQTTMessageQueue, bDestroy,    \* its queue, and whether that was told to exit
    put, out,       \* history: messages put into the queue, taken out of it
    pc,             \* where the "main", "callback" and "handling" threads are
    nLoop,          \* [main and callback -> index into the topics]
    nToken,         \* the token MQTTMessageHandler_Publish waits for
    restoration     \* what connectionLostCallback logged last

Queue == INSTANCE FifoQueue
    WITH Data <- Messages, queue <- hMQTTMessageQueue, closed <- bDestroy, put <- put, out <- out

libraryVars == <<up, subscribed, nLastToken, inflight, confirmed, lost, nLost>>
queueVars == <<hMQTTMessageQueue, bDestroy, put, out>>
handlerVars == <<bConnected, hSubscriptionList, hLock, nDeliveredToken, nLoop, nToken, restoration>>

vars == <<libraryVars, queueVars, handlerVars, g_bExit, pc>>

Listed == {hSubscriptionList[i] : i \in 1..Len(hSubscriptionList)}

Threads == {"main", "callback", "handling"}

MainPlaces == {"connect", "thread", "connected", "subscribe", "add", "running", "exit", "join", "lock",
               "unsubscribe", "disconnect", "disconnected", "failed"}
CallbackPlaces == {"idle", "reconnect", "check", "lock", "restore", "restored"}
HandlingPlaces == {"none", "top", "get", "function", "publish", "wait", "done"}

Goto(t, place) == pc' = [pc EXCEPT ![t] = place]
At(t, place) == pc[t] = place

Init ==
    /\ up = FALSE /\ subscribed = {} /\ lost = FALSE /\ nLost = 0
    /\ nLastToken = 0 /\ inflight = 0 /\ confirmed = {}
    /\ g_bExit = FALSE
    /\ bConnected = FALSE
    /\ hSubscriptionList = <<>>
    /\ hLock = "none"
    /\ nDeliveredToken = 0
    /\ Queue!Init
    /\ pc = [t \in Threads |-> IF t = "main" THEN "connect" ELSE IF t = "callback" THEN "idle" ELSE "none"]
    /\ nLoop = [t \in {"main", "callback"} |-> 1]
    /\ nToken = 0
    /\ restoration = "none"

-----------------------------------------------------------------------------
(* The MQTT client library and the broker *)

\* The broker forgets a clean session, and the library what was in flight.
ConnectionLost ==
    /\ up
    /\ nLost < MaxLost
    /\ up' = FALSE
    /\ subscribed' = {}
    /\ inflight' = 0
    /\ lost' = TRUE
    /\ nLost' = nLost + 1
    /\ UNCHANGED <<nLastToken, confirmed, queueVars, handlerVars, g_bExit, pc>>

\* MQTTClient_connect, which may fail.
ClientConnect(t, success, failure) ==
    \/ up' = TRUE /\ Goto(t, success)
    \/ UNCHANGED up /\ Goto(t, failure)

\* MQTTClient_subscribe: the broker may refuse.
ClientSubscribes(topic) == up /\ subscribed' = subscribed \cup {topic}

\* messageArrivedCallBack
Arrive(m) ==
    /\ up
    /\ subscribed # {}
    /\ \A i \in 1..Len(put) : put[i] # m
    /\ Queue!Put(m)
    /\ UNCHANGED <<libraryVars, handlerVars, g_bExit, pc>>

\* deliveredCallBack
Delivered ==
    /\ inflight # 0
    /\ nDeliveredToken' = inflight
    /\ confirmed' = confirmed \cup {inflight}
    /\ inflight' = 0
    /\ UNCHANGED <<up, subscribed, nLastToken, lost, nLost, queueVars, bConnected, hSubscriptionList,
                   hLock, nLoop, nToken, restoration, g_bExit, pc>>

-----------------------------------------------------------------------------
(* The manager's thread *)

\* MQTTMessageHandler_Connect
Connect ==
    /\ At("main", "connect")
    /\ ClientConnect("main", "thread", "failed")
    /\ UNCHANGED <<subscribed, nLastToken, inflight, confirmed, lost, nLost, queueVars, handlerVars, g_bExit>>

CreateThread ==
    /\ At("main", "thread")
    /\ pc' = [pc EXCEPT !["main"] = "connected", !["handling"] = "top"]
    /\ UNCHANGED <<libraryVars, queueVars, handlerVars, g_bExit>>

SetConnected ==
    /\ At("main", "connected")
    /\ bConnected' = TRUE
    /\ Goto("main", "subscribe")
    /\ UNCHANGED <<libraryVars, queueVars, hSubscriptionList, hLock, nDeliveredToken, nLoop, nToken,
                   restoration, g_bExit>>

\* MQTTMessageHandler_SubscribeMany: an error leaves the manager's Run.
Subscribe ==
    /\ At("main", "subscribe")
    /\ IF nLoop["main"] > Len(TopicList)
       THEN Goto("main", "running") /\ UNCHANGED subscribed
       ELSE \/ ClientSubscribes(TopicList[nLoop["main"]]) /\ Goto("main", "add")
            \/ UNCHANGED subscribed /\ Goto("main", "failed")
    /\ UNCHANGED <<up, nLastToken, inflight, confirmed, lost, nLost, queueVars, handlerVars, g_bExit>>

\* The list is locked, written and unlocked in one step.
AddTopic ==
    /\ At("main", "add")
    /\ hLock = "none"
    /\ hSubscriptionList' = Append(hSubscriptionList, TopicList[nLoop["main"]])
    /\ nLoop' = [nLoop EXCEPT !["main"] = @ + 1]
    /\ Goto("main", "subscribe")
    /\ UNCHANGED <<libraryVars, queueVars, bConnected, hLock, nDeliveredToken, nToken, restoration, g_bExit>>

\* The signal handler lets CentralManager_Execute go on to join the managers.
Exit ==
    /\ At("main", "running")
    /\ g_bExit' = TRUE
    /\ Goto("main", "exit")
    /\ UNCHANGED <<libraryVars, queueVars, handlerVars>>

\* Mutant: the queue is not told to exit.
SetExitForgotten ==
    /\ At("main", "exit")
    /\ Goto("main", "join")
    /\ UNCHANGED <<libraryVars, queueVars, handlerVars, g_bExit>>

\* MQTTMessageHandler_Disconnect
SetExit ==
    /\ At("main", "exit")
    /\ Queue!Close
    /\ Goto("main", "join")
    /\ UNCHANGED <<libraryVars, handlerVars, g_bExit>>

\* Mutant: the handling thread is not joined.
JoinNobody ==
    /\ At("main", "join")
    /\ Goto("main", "lock")
    /\ UNCHANGED <<libraryVars, queueVars, handlerVars, g_bExit>>

Join ==
    /\ At("main", "join")
    /\ At("handling", "done")
    /\ Goto("main", "lock")
    /\ UNCHANGED <<libraryVars, queueVars, handlerVars, g_bExit>>

LockForUnsubscribe ==
    /\ At("main", "lock")
    /\ hLock = "none"
    /\ hLock' = "main"
    /\ nLoop' = [nLoop EXCEPT !["main"] = 1]
    /\ Goto("main", "unsubscribe")
    /\ UNCHANGED <<libraryVars, queueVars, bConnected, hSubscriptionList, nDeliveredToken, nToken,
                   restoration, g_bExit>>

\* topicUnsubscribeDestroy ignores the result of MQTTClient_unsubscribe.
Unsubscribe ==
    /\ At("main", "unsubscribe")
    /\ IF nLoop["main"] > Len(hSubscriptionList)
       THEN Goto("main", "disconnect") /\ UNCHANGED <<subscribed, nLoop>>
       ELSE /\ subscribed' \in {subscribed, subscribed \ {hSubscriptionList[nLoop["main"]]}}
            /\ nLoop' = [nLoop EXCEPT !["main"] = @ + 1]
            /\ UNCHANGED pc
    /\ UNCHANGED <<up, nLastToken, inflight, confirmed, lost, nLost, queueVars, bConnected, hSubscriptionList,
                   hLock, nDeliveredToken, nToken, restoration, g_bExit>>

Disconnect ==
    /\ At("main", "disconnect")
    /\ hLock' = "none"
    /\ \/ up /\ up' = FALSE /\ subscribed' = {} /\ bConnected' = FALSE /\ Goto("main", "disconnected")
       \/ UNCHANGED <<up, subscribed, bConnected>> /\ Goto("main", "failed")
    /\ UNCHANGED <<nLastToken, inflight, confirmed, lost, nLost, queueVars, hSubscriptionList, nDeliveredToken,
                   nLoop, nToken, restoration, g_bExit>>

MainStep ==
    \/ Connect \/ CreateThread \/ SetConnected \/ Subscribe \/ AddTopic
    \/ SetExit \/ Join \/ LockForUnsubscribe \/ Unsubscribe \/ Disconnect

-----------------------------------------------------------------------------
(* connectionLostCallback *)

CallbackBegins ==
    /\ At("callback", "idle")
    /\ lost
    /\ lost' = FALSE
    /\ Goto("callback", "reconnect")
    /\ UNCHANGED <<up, subscribed, nLastToken, inflight, confirmed, nLost, queueVars, handlerVars, g_bExit>>

\* One attempt is made.
Reconnect ==
    /\ At("callback", "reconnect")
    /\ ClientConnect("callback", "check", "idle")
    /\ restoration' = "failed"
    /\ UNCHANGED <<subscribed, nLastToken, inflight, confirmed, lost, nLost, queueVars, bConnected,
                   hSubscriptionList, hLock, nDeliveredToken, nLoop, nToken, g_bExit>>

\* restoreSubscription looks at bConnected before it locks.
CheckConnected ==
    /\ At("callback", "check")
    /\ Goto("callback", IF bConnected THEN "lock" ELSE "idle")
    /\ UNCHANGED <<libraryVars, queueVars, handlerVars, g_bExit>>

LockForRestore ==
    /\ At("callback", "lock")
    /\ hLock = "none"
    /\ hLock' = "callback"
    /\ nLoop' = [nLoop EXCEPT !["callback"] = 1]
    /\ Goto("callback", "restore")
    /\ UNCHANGED <<libraryVars, queueVars, bConnected, hSubscriptionList, nDeliveredToken, nToken,
                   restoration, g_bExit>>

\* Mutant: the loop ends one topic early.
MoreToRestoreShort == nLoop["callback"] < Len(hSubscriptionList)

MoreToRestore == nLoop["callback"] <= Len(hSubscriptionList)

RestoreTopic ==
    /\ At("callback", "restore")
    /\ MoreToRestore
    /\ \/ /\ ClientSubscribes(hSubscriptionList[nLoop["callback"]])
          /\ nLoop' = [nLoop EXCEPT !["callback"] = @ + 1]
          /\ UNCHANGED <<pc, hLock>>
       \/ /\ Goto("callback", "idle")
          /\ hLock' = "none"
          /\ UNCHANGED <<subscribed, nLoop>>
    /\ UNCHANGED <<up, nLastToken, inflight, confirmed, lost, nLost, queueVars, bConnected, hSubscriptionList,
                   nDeliveredToken, nToken, restoration, g_bExit>>

RestoreEnds ==
    /\ At("callback", "restore")
    /\ ~MoreToRestore
    /\ hLock' = "none"
    /\ restoration' = "succeeded"
    /\ Goto("callback", "idle")
    /\ UNCHANGED <<libraryVars, queueVars, bConnected, hSubscriptionList, nDeliveredToken, nLoop, nToken, g_bExit>>

CallbackStep ==
    \/ CallbackBegins \/ Reconnect \/ CheckConnected \/ LockForRestore \/ RestoreTopic \/ RestoreEnds

-----------------------------------------------------------------------------
(* MQTTMessageHandlingThread *)

LoopTest ==
    /\ At("handling", "top")
    /\ Goto("handling", IF g_bExit THEN "done" ELSE "get")
    /\ UNCHANGED <<libraryVars, queueVars, handlerVars, g_bExit>>

\* CAPQueue_Get: an error, which a queue told to exit gives, ends the thread.
Get ==
    /\ At("handling", "get")
    /\ \/ Queue!Take /\ Goto("handling", "function")
       \/ bDestroy /\ Goto("handling", "done") /\ UNCHANGED queueVars
    /\ UNCHANGED <<libraryVars, handlerVars, g_bExit>>

\* Mutant: an error of the manager's callback ends the thread.
CallbackReturnsStrictly ==
    /\ At("handling", "function")
    /\ Goto("handling", "top") \/ Goto("handling", "done")
    /\ UNCHANGED <<libraryVars, queueVars, handlerVars, g_bExit>>

\* fnCallback returns, with an error or without.
CallbackReturns ==
    /\ At("handling", "function")
    /\ Goto("handling", "top")
    /\ UNCHANGED <<libraryVars, queueVars, handlerVars, g_bExit>>

\* MQTTMessageHandler_Publish, called by fnCallback; without a connection it
\* would change nothing.
BeginPublish ==
    /\ At("handling", "function")
    /\ bConnected
    /\ nDeliveredToken' = 0
    /\ Goto("handling", "publish")
    /\ UNCHANGED <<libraryVars, queueVars, bConnected, hSubscriptionList, hLock, nLoop, nToken, restoration, g_bExit>>

\* MQTTClient_publish; an error goes back to fnCallback.
ClientPublish ==
    /\ At("handling", "publish")
    /\ \/ /\ up
          /\ nLastToken < MaxTokens
          /\ nLastToken' = nLastToken + 1
          /\ inflight' = nLastToken'
          /\ nToken' = nLastToken'
          /\ Goto("handling", "wait")
       \/ Goto("handling", "function") /\ UNCHANGED <<nLastToken, inflight, nToken>>
    /\ UNCHANGED <<up, subscribed, confirmed, lost, nLost, queueVars, bConnected, hSubscriptionList, hLock,
                   nDeliveredToken, nLoop, restoration, g_bExit>>

\* Mutant: the token is reset after MQTTClient_publish, when the confirmation
\* may have come.
WaitDeliveryResets ==
    /\ At("handling", "wait")
    /\ \/ nDeliveredToken = nToken /\ Goto("handling", "function") /\ UNCHANGED nDeliveredToken
       \/ nDeliveredToken' = 0 /\ UNCHANGED pc
    /\ UNCHANGED <<libraryVars, queueVars, bConnected, hSubscriptionList, hLock, nLoop, nToken, restoration, g_bExit>>

\* Mutant: the publication is not waited for.
WaitNobody ==
    /\ At("handling", "wait")
    /\ Goto("handling", "function")
    /\ UNCHANGED <<libraryVars, queueVars, handlerVars, g_bExit>>

\* The loop that compares nDeliveredToken with the token.
WaitDelivery ==
    /\ At("handling", "wait")
    /\ nDeliveredToken = nToken
    /\ Goto("handling", "function")
    /\ UNCHANGED <<libraryVars, queueVars, handlerVars, g_bExit>>

HandlingStep ==
    LoopTest \/ Get \/ CallbackReturns \/ BeginPublish \/ ClientPublish \/ WaitDelivery

-----------------------------------------------------------------------------
LibraryStep == ConnectionLost \/ (\E m \in Messages : Arrive(m)) \/ Delivered

Next == LibraryStep \/ MainStep \/ Exit \/ CallbackStep \/ HandlingStep

Spec == Init /\ [][Next]_vars

\* The threads run, a broker that stays connected confirms what it got, and
\* fnCallback publishes finitely often; no message need arrive, no connection
\* be lost and nobody has to stop the program.
FairSpec ==
    /\ Spec
    /\ WF_vars(Delivered)
    /\ WF_vars(MainStep)
    /\ WF_vars(CallbackStep)
    /\ WF_vars(HandlingStep) /\ SF_vars(CallbackReturns)

-----------------------------------------------------------------------------
(* Properties *)

Tokens == 0..MaxTokens

TypeOK ==
    /\ up \in BOOLEAN /\ lost \in BOOLEAN /\ nLost \in 0..MaxLost
    /\ subscribed \subseteq Topics
    /\ nLastToken \in Tokens /\ inflight \in Tokens /\ confirmed \subseteq Tokens
    /\ g_bExit \in BOOLEAN /\ bConnected \in BOOLEAN /\ bDestroy \in BOOLEAN
    /\ hSubscriptionList \in Seq(Topics) /\ Len(hSubscriptionList) <= Len(TopicList)
    /\ hLock \in {"none", "main", "callback"}
    /\ nDeliveredToken \in Tokens /\ nToken \in Tokens
    /\ {hMQTTMessageQueue, put, out} \subseteq Seq(Messages)
    /\ pc \in [Threads -> MainPlaces \cup CallbackPlaces \cup HandlingPlaces]
    /\ nLoop \in [{"main", "callback"} -> 1..(Len(TopicList) + 1)]
    /\ restoration \in {"none", "failed", "succeeded"}

\* fnCallback runs only while the handler counts as connected: it is called for
\* no message before Connect has finished, and Disconnect waits for its end
\* before it gives the connection up, so a manager's publication is never
\* refused with ERR_CAP_NOT_CONNECTED.
FunctionFindsConnection ==
    pc["handling"] \in {"function", "publish", "wait"} => bConnected

\* A publication that returned was confirmed by the broker: while the handling
\* thread is not waiting, every token ever given to it is confirmed, across lost
\* connections, and at most one is waited for.
PublishedIsConfirmed ==
    \A k \in 1..nLastToken :
       k \in confirmed \/ (k = nLastToken /\ nToken = k /\ pc["handling"] = "wait")

\* When the loop that restores the subscriptions says it is done, the broker
\* has all topics that were in the list, unless the connection is lost again.
RestorationCoversList ==
    [][restoration' = "succeeded" /\ pc["callback"] = "restore" /\ pc'["callback"] = "idle" /\ up
         => Listed \subseteq subscribed]_vars

\* The token that is waited for will never be confirmed: it was in flight when
\* the connection was lost.
TokenIsLost == pc["handling"] = "wait" /\ inflight # nToken /\ nToken \notin confirmed

\* A publication returns, unless its connection is lost.
PublishReturns == pc["handling"] = "wait" ~> pc["handling"] # "wait" \/ TokenIsLost

\* Messages in the queue are handled, whatever the manager's callback returns,
\* until the program is told to exit or a publication hangs.
MessagesAreHandled == hMQTTMessageQueue # <<>> ~> hMQTTMessageQueue = <<>> \/ g_bExit \/ TokenIsLost

\* Disconnect gets the handling thread joined, unless a publication hangs.
ExitIsFollowed == pc["main"] = "exit" ~> pc["main"] \in {"disconnected", "failed"} \/ TokenIsLost

\* Violated: "MQTT Subscription restoration Succeeded!".  A topic the broker had
\* accepted, but that was not in the list yet when the connection was lost, is
\* not restored and nobody subscribes it again.
RestorationIsComplete ==
    up /\ restoration = "succeeded" /\ pc["callback"] = "idle" /\ ~lost /\ pc["main"] = "running"
       => \A i \in 1..Len(TopicList) : TopicList[i] \in subscribed

=============================================================================
