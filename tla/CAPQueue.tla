------------------------------ MODULE CAPQueue ------------------------------
(***************************************************************************)
(* The queue between the MQTT library's thread and a manager's message      *)
(* handling thread: common/capcommon/CAPQueue.c over CAPThreadLock.c and    *)
(* CAPThreadEvent.c.  Each action is one critical section of the event's    *)
(* own mutex or one access made while the queue's lock is held; a thread is *)
(* preempted only between actions.                                          *)
(***************************************************************************)
EXTENDS Naturals, Sequences

CONSTANTS
    Putters,    \* threads that call CAPQueue_Put
    Getters,    \* threads that call CAPQueue_Get
    Exiters,    \* threads that call CAPQueue_SetExit
    Removers,   \* threads that call CAPQueue_RemoveAll
    Data,       \* the pointers that are put, each at most once
    NoOne,      \* nobody holds the lock
    NoData      \* no pointer

Threads == Putters \cup Getters \cup Exiters \cup Removers

ASSUME RolesAssumption ==
    /\ Putters \cap (Getters \cup Exiters \cup Removers) = {}
    /\ Getters \cap (Exiters \cup Removers) = {}
    /\ Exiters \cap Removers = {}
    /\ NoOne \notin Threads
    /\ NoData \notin Data

VARIABLES
    hLock,      \* the thread that holds the queue's lock
    bIsSet,     \* SThreadEvent.bIsSet of the queue's event
    bDestroy,   \* SCAPQueue.bDestroy
    lData,      \* the queue's linked list, first to last
    pc,         \* where each thread is
    pData,      \* Put's argument, Get's *ppData
    bBlocked,   \* Get's argument
    result,     \* what a getter's last Get returned
    put, out    \* history: all the data put, all the data that left the list

vars == <<hLock, bIsSet, bDestroy, lData, pc, pData, bBlocked, result, put, out>>

Results == {"NONE", "NOERROR", "NO_DATA", "SUSPEND"}

\* The places where a thread holds the queue's lock.
Critical == {"add", "event", "test", "destroy", "clear", "unlock"}

Places == Critical \cup {"idle", "lock", "wait", "sleep", "woken"}

RangeOf(s) == {s[i] : i \in 1..Len(s)}

Init ==
    /\ hLock = NoOne
    /\ bIsSet = FALSE
    /\ bDestroy = FALSE
    /\ lData = <<>>
    /\ pc = [t \in Threads |-> "idle"]
    /\ pData = [t \in Putters \cup Getters |-> NoData]
    /\ bBlocked = [g \in Getters |-> TRUE]
    /\ result = [g \in Getters |-> "NONE"]
    /\ put = <<>>
    /\ out = <<>>

Goto(t, from, to) == pc[t] = from /\ pc' = [pc EXCEPT ![t] = to]

-----------------------------------------------------------------------------
(* CAPThreadLock.c *)

\* What a thread does first under the lock.
Entry(t) ==
    CASE t \in Putters -> "add"
      [] t \in Getters -> "test"
      [] t \in Exiters -> "destroy"
      [] t \in Removers -> "clear"

Lock(t) ==
    /\ hLock = NoOne
    /\ hLock' = t
    /\ Goto(t, "lock", Entry(t))
    /\ UNCHANGED <<bIsSet, bDestroy, lData, pData, bBlocked, result, put, out>>

Unlock(t) ==
    /\ hLock' = NoOne
    /\ Goto(t, "unlock", "idle")
    /\ UNCHANGED <<bIsSet, bDestroy, lData, pData, bBlocked, result, put, out>>

-----------------------------------------------------------------------------
(* CAPThreadEvent.c: an event that stays set until one waiter takes it. *)

Sleepers == {g \in Getters : pc[g] = "sleep"}

\* Mutant: a plain signal, which nobody hears who is not asleep yet.
SetEventForgets(t) ==
    IF Sleepers = {}
    THEN pc' = [pc EXCEPT ![t] = "unlock"] /\ UNCHANGED bIsSet
    ELSE \E g \in Sleepers :
            /\ pc' = [pc EXCEPT ![t] = "unlock", ![g] = "woken"]
            /\ bIsSet' = TRUE

\* pthread_cond_signal wakes one sleeper, if there is one.
SetEvent(t) ==
    /\ bIsSet' = TRUE
    /\ IF Sleepers = {}
       THEN pc' = [pc EXCEPT ![t] = "unlock"]
       ELSE \E g \in Sleepers : pc' = [pc EXCEPT ![t] = "unlock", ![g] = "woken"]

CallSetEvent(t) ==
    /\ pc[t] = "event"
    /\ SetEvent(t)
    /\ UNCHANGED <<hLock, bDestroy, lData, pData, bBlocked, result, put, out>>

\* Mutant: back to the queue without locking it again.
WaitEventNoRelock(g) ==
    /\ pc[g] \in {"wait", "woken"}
    /\ pc' = [pc EXCEPT ![g] = IF bIsSet THEN "test" ELSE "sleep"]
    /\ bIsSet' = FALSE
    /\ UNCHANGED <<hLock, bDestroy, lData, pData, bBlocked, result, put, out>>

\* WaitEvent's loop test, on entry and after every wake-up: take the event
\* and return to CAPQueue_Get, which locks the queue again, or sleep.
WaitEvent(g) ==
    /\ pc[g] \in {"wait", "woken"}
    /\ pc' = [pc EXCEPT ![g] = IF bIsSet THEN "lock" ELSE "sleep"]
    /\ bIsSet' = FALSE
    /\ UNCHANGED <<hLock, bDestroy, lData, pData, bBlocked, result, put, out>>

\* pthread_cond_wait may return although nobody signalled.
SpuriousWakeup(g) ==
    /\ Goto(g, "sleep", "woken")
    /\ UNCHANGED <<hLock, bIsSet, bDestroy, lData, pData, bBlocked, result, put, out>>

-----------------------------------------------------------------------------
(* CAPQueue_Put *)

\* Mutant: the new node does not get the caller's pointer.
CallPutNothing(p, d) ==
    /\ Goto(p, "idle", "lock")
    /\ d \notin RangeOf(put)
    /\ UNCHANGED <<hLock, bIsSet, bDestroy, lData, pData, bBlocked, result, put, out>>

CallPut(p, d) ==
    /\ Goto(p, "idle", "lock")
    /\ d \notin RangeOf(put) \cup {pData[q] : q \in Putters}
    /\ pData' = [pData EXCEPT ![p] = d]
    /\ UNCHANGED <<hLock, bIsSet, bDestroy, lData, bBlocked, result, put, out>>

\* Mutant: the event is set for the first item only.
PutAddQuietly(p) ==
    /\ Goto(p, "add", IF put = <<>> THEN "event" ELSE "unlock")
    /\ lData' = Append(lData, pData[p])
    /\ put' = Append(put, pData[p])
    /\ UNCHANGED <<hLock, bIsSet, bDestroy, pData, bBlocked, result, out>>

PutAdd(p) ==
    /\ Goto(p, "add", "event")
    /\ lData' = Append(lData, pData[p])
    /\ put' = Append(put, pData[p])
    /\ UNCHANGED <<hLock, bIsSet, bDestroy, pData, bBlocked, result, out>>

-----------------------------------------------------------------------------
(* CAPQueue_Get *)

CallGet(g, blocked) ==
    /\ Goto(g, "idle", "lock")
    /\ bBlocked' = [bBlocked EXCEPT ![g] = blocked]
    /\ result' = [result EXCEPT ![g] = "NONE"]
    /\ pData' = [pData EXCEPT ![g] = NoData]
    /\ UNCHANGED <<hLock, bIsSet, bDestroy, lData, put, out>>

\* Mutant: a Get that does not look at bDestroy before it waits.
MustWaitBlindly(g) == lData = <<>> /\ bBlocked[g]

\* The loop's condition; the lock is released before the wait begins.
MustWait(g) == lData = <<>> /\ bBlocked[g] /\ ~bDestroy

GetMustWait(g) ==
    /\ MustWait(g)
    /\ Goto(g, "test", "wait")
    /\ hLock' = NoOne
    /\ UNCHANGED <<bIsSet, bDestroy, lData, pData, bBlocked, result, put, out>>

GetFails(g) ==
    /\ ~MustWait(g)
    /\ bDestroy \/ lData = <<>>
    /\ Goto(g, "test", "unlock")
    /\ result' = [result EXCEPT ![g] = IF bDestroy THEN "SUSPEND" ELSE "NO_DATA"]
    /\ UNCHANGED <<hLock, bIsSet, bDestroy, lData, pData, bBlocked, put, out>>

\* Mutant: the newest item first.
GetLast(g) ==
    /\ ~bDestroy
    /\ lData # <<>>
    /\ Goto(g, "test", "unlock")
    /\ LET n == Len(lData) IN
          /\ pData' = [pData EXCEPT ![g] = lData[n]]
          /\ lData' = SubSeq(lData, 1, n - 1)
          /\ out' = Append(out, lData[n])
    /\ result' = [result EXCEPT ![g] = "NOERROR"]
    /\ UNCHANGED <<hLock, bIsSet, bDestroy, bBlocked, put>>

\* Mutant: a queue told to exit still hands out what it holds.
GetFirstAfterExit(g) ==
    /\ lData # <<>>
    /\ Goto(g, "test", "unlock")
    /\ pData' = [pData EXCEPT ![g] = Head(lData)]
    /\ lData' = Tail(lData)
    /\ out' = Append(out, Head(lData))
    /\ result' = [result EXCEPT ![g] = "NOERROR"]
    /\ UNCHANGED <<hLock, bIsSet, bDestroy, bBlocked, put>>

GetFirst(g) ==
    /\ ~bDestroy
    /\ lData # <<>>
    /\ Goto(g, "test", "unlock")
    /\ pData' = [pData EXCEPT ![g] = Head(lData)]
    /\ lData' = Tail(lData)
    /\ out' = Append(out, Head(lData))
    /\ result' = [result EXCEPT ![g] = "NOERROR"]
    /\ UNCHANGED <<hLock, bIsSet, bDestroy, bBlocked, put>>

-----------------------------------------------------------------------------
(* CAPQueue_SetExit, CAPQueue_RemoveAll *)

CallExit(x) ==
    /\ Goto(x, "idle", "lock")
    /\ UNCHANGED <<hLock, bIsSet, bDestroy, lData, pData, bBlocked, result, put, out>>

SetExit(x) ==
    /\ Goto(x, "destroy", "event")
    /\ bDestroy' = TRUE
    /\ UNCHANGED <<hLock, bIsSet, lData, pData, bBlocked, result, put, out>>

CallRemove(r) ==
    /\ Goto(r, "idle", "lock")
    /\ UNCHANGED <<hLock, bIsSet, bDestroy, lData, pData, bBlocked, result, put, out>>

\* RemoveAll also clears the exit flag, and sets no event.
RemoveAll(r) ==
    /\ Goto(r, "clear", "unlock")
    /\ out' = out \o lData
    /\ lData' = <<>>
    /\ bDestroy' = FALSE
    /\ UNCHANGED <<hLock, bIsSet, pData, bBlocked, result, put>>

-----------------------------------------------------------------------------
(* The specification *)

PutStep(p) == (\E d \in Data : CallPut(p, d)) \/ PutAdd(p)

GetStep(g) ==
    \/ \E blocked \in BOOLEAN : CallGet(g, blocked)
    \/ GetMustWait(g) \/ GetFails(g) \/ GetFirst(g)
    \/ WaitEvent(g) \/ SpuriousWakeup(g)

Next ==
    \/ \E t \in Threads : Lock(t) \/ CallSetEvent(t) \/ Unlock(t)
    \/ \E p \in Putters : PutStep(p)
    \/ \E g \in Getters : GetStep(g)
    \/ \E x \in Exiters : CallExit(x) \/ SetExit(x)
    \/ \E r \in Removers : CallRemove(r) \/ RemoveAll(r)

Spec == Init /\ [][Next]_vars

\* The scheduler lets every thread run, and a getter comes back for the next
\* message.  Nobody has to put, to exit, to clear or to wake up spuriously.
Fairness ==
    /\ \A t \in Threads : WF_vars(Lock(t)) /\ WF_vars(CallSetEvent(t)) /\ WF_vars(Unlock(t))
    /\ \A p \in Putters : WF_vars(PutAdd(p))
    /\ \A x \in Exiters : WF_vars(SetExit(x))
    /\ \A r \in Removers : WF_vars(RemoveAll(r))
    /\ \A g \in Getters :
          /\ WF_vars(CallGet(g, TRUE))
          /\ WF_vars(GetMustWait(g) \/ GetFails(g) \/ GetFirst(g))
          /\ WF_vars(WaitEvent(g))

\* MQTTMessageHandler_Disconnect calls SetExit once for a connection, not again
\* and again, which could keep the others from the lock.
ExitsOnce == \A x \in Exiters : pc[x] = "idle" /\ pc'[x] # "idle" => ~bDestroy

FairSpec == Init /\ [][Next /\ ExitsOnce]_vars /\ Fairness

-----------------------------------------------------------------------------
(* Properties *)

TypeOK ==
    /\ hLock \in Threads \cup {NoOne}
    /\ bIsSet \in BOOLEAN
    /\ bDestroy \in BOOLEAN
    /\ lData \in Seq(Data)
    /\ pc \in [Threads -> Places]
    /\ pData \in [Putters \cup Getters -> Data \cup {NoData}]
    /\ bBlocked \in [Getters -> BOOLEAN]
    /\ result \in [Getters -> Results]
    /\ put \in Seq(Data)
    /\ out \in Seq(Data)

\* The list, the exit flag and the event are touched by the owner of the
\* queue's lock only: whoever is inside a critical section owns the lock, so no
\* two threads are inside, although a waiting Get gives the lock up half-way.
MutualExclusion == \A t \in Threads : pc[t] \in Critical <=> hLock = t

\* First come, first retrieved, nothing lost and nothing twice: what left the
\* queue followed by what is in it is what was put, in the order of the puts.
FifoOrder == out \o lData = put

\* A blocked Get has a reason to return.
MayReturn(g) == pc[g] \in {"wait", "sleep", "woken"} /\ (lData # <<>> \/ bDestroy)

\* No wake-up is lost between a getter's test of the list, made under the
\* queue's lock, and its sleep, made under the event's mutex: a blocked Get that
\* has a reason to return finds the event set when it tests it, or the putter or
\* exiter that gave the reason has yet to set it.
NoLostWakeup ==
    \A g \in Getters :
       MayReturn(g) => \/ pc[g] # "sleep" /\ bIsSet
                       \/ \E t \in Threads : pc[t] = "event"

\* Every pointer put is handed to the handling thread, unless the queue is told
\* to exit first: CAPQueue_Get never sleeps on a message.
DataArrives == \A d \in Data : d \in RangeOf(put) ~> d \in RangeOf(out) \/ bDestroy

\* After CAPQueue_SetExit every blocked Get returns ERR_CAP_SUSPEND: the join in
\* MQTTMessageHandler_Disconnect does not wait for ever on the queue.
ExitReleases ==
    \A g \in Getters : bDestroy ~> result[g] = "SUSPEND" \/ ~bDestroy

\* The queue implements the FIFO queue its header describes.
Fifo == INSTANCE FifoQueue WITH queue <- lData, closed <- bDestroy

ImplementsFifo == Fifo!Spec

ImplementsFairFifo == Fifo!FairSpec

=============================================================================
