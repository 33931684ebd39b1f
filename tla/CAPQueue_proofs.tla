--------------------------- MODULE CAPQueue_proofs ---------------------------
(***************************************************************************)
(* Theorems about CAPQueue, for any number of threads and any set of data.  *)
(***************************************************************************)
EXTENDS CAPQueue, SequenceTheorems, TLAPS

(* The argument of a Put under way is a datum, not yet NoData. *)
PutArgument ==
    \A p \in Putters : pc[p] \in {"lock", "add"} => pData[p] \in Data

TypeInv == TypeOK /\ PutArgument

LEMMA TypeStep == TypeInv /\ [Next]_vars => TypeInv'
<1> SUFFICES ASSUME TypeInv, [Next]_vars PROVE TypeInv'
  OBVIOUS
<1> USE RolesAssumption DEF TypeInv, TypeOK, PutArgument, Threads, Places, Critical, Results
<1>1. ASSUME NEW t \in Threads, Lock(t) PROVE TypeInv'
  BY <1>1 DEF Lock, Goto, Entry
<1>2. ASSUME NEW t \in Threads, CallSetEvent(t) PROVE TypeInv'
  BY <1>2 DEF CallSetEvent, SetEvent, Sleepers
<1>3. ASSUME NEW t \in Threads, Unlock(t) PROVE TypeInv'
  BY <1>3 DEF Unlock, Goto
<1>4. ASSUME NEW p \in Putters, NEW d \in Data, CallPut(p, d) PROVE TypeInv'
  BY <1>4 DEF CallPut, Goto
<1>5. ASSUME NEW p \in Putters, PutAdd(p) PROVE TypeInv'
  BY <1>5, AppendProperties DEF PutAdd, Goto
<1>6. ASSUME NEW g \in Getters, NEW b \in BOOLEAN, CallGet(g, b) PROVE TypeInv'
  BY <1>6 DEF CallGet, Goto
<1>7. ASSUME NEW g \in Getters, GetMustWait(g) PROVE TypeInv'
  BY <1>7 DEF GetMustWait, Goto
<1>8. ASSUME NEW g \in Getters, GetFails(g) PROVE TypeInv'
  BY <1>8 DEF GetFails, Goto
<1>9. ASSUME NEW g \in Getters, GetFirst(g) PROVE TypeInv'
  BY <1>9, HeadTailProperties, AppendProperties DEF GetFirst, Goto
<1>10. ASSUME NEW g \in Getters, WaitEvent(g) PROVE TypeInv'
  BY <1>10 DEF WaitEvent, Goto
<1>11. ASSUME NEW g \in Getters, SpuriousWakeup(g) PROVE TypeInv'
  BY <1>11 DEF SpuriousWakeup, Goto
<1>12. ASSUME NEW x \in Exiters, CallExit(x) PROVE TypeInv'
  BY <1>12 DEF CallExit, Goto
<1>13. ASSUME NEW x \in Exiters, SetExit(x) PROVE TypeInv'
  BY <1>13 DEF SetExit, Goto
<1>14. ASSUME NEW r \in Removers, CallRemove(r) PROVE TypeInv'
  BY <1>14 DEF CallRemove, Goto
<1>15. ASSUME NEW r \in Removers, RemoveAll(r) PROVE TypeInv'
  BY <1>15, ConcatProperties, EmptySeq DEF RemoveAll, Goto
<1>16. ASSUME UNCHANGED vars PROVE TypeInv'
  BY <1>16 DEF vars
<1> HIDE DEF TypeInv, TypeOK, PutArgument, Threads, Places, Critical, Results
<1> QED
  BY <1>1, <1>2, <1>3, <1>4, <1>5, <1>6, <1>7, <1>8, <1>9, <1>10, <1>11, <1>12, <1>13, <1>14, <1>15, <1>16
     DEF Next, PutStep, GetStep

(* Type correctness of the queue. *)
THEOREM TypeCorrect == Spec => []TypeOK
<1>1. Init => TypeInv
  BY RolesAssumption, EmptySeq DEF Init, TypeInv, TypeOK, PutArgument, Threads, Places, Results
<1>2. TypeInv => TypeOK
  BY DEF TypeInv
<1> QED
  BY <1>1, <1>2, TypeStep, PTL DEF Spec

LEMMA MutexStep == TypeInv /\ MutualExclusion /\ [Next]_vars => MutualExclusion'
<1> SUFFICES ASSUME TypeInv, MutualExclusion, [Next]_vars PROVE MutualExclusion'
  OBVIOUS
<1> USE RolesAssumption DEF TypeInv, TypeOK, MutualExclusion, Threads, Critical
<1>1. ASSUME NEW t \in Threads, Lock(t) PROVE MutualExclusion'
  BY <1>1 DEF Lock, Goto, Entry
<1>2. ASSUME NEW t \in Threads, CallSetEvent(t) PROVE MutualExclusion'
  BY <1>2 DEF CallSetEvent, SetEvent, Sleepers
<1>3. ASSUME NEW t \in Threads, Unlock(t) PROVE MutualExclusion'
  BY <1>3 DEF Unlock, Goto
<1>4. ASSUME NEW p \in Putters, NEW d \in Data, CallPut(p, d) PROVE MutualExclusion'
  BY <1>4 DEF CallPut, Goto
<1>5. ASSUME NEW p \in Putters, PutAdd(p) PROVE MutualExclusion'
  BY <1>5 DEF PutAdd, Goto
<1>6. ASSUME NEW g \in Getters, NEW b \in BOOLEAN, CallGet(g, b) PROVE MutualExclusion'
  BY <1>6 DEF CallGet, Goto
<1>7. ASSUME NEW g \in Getters, GetMustWait(g) PROVE MutualExclusion'
  BY <1>7 DEF GetMustWait, Goto
<1>8. ASSUME NEW g \in Getters, GetFails(g) PROVE MutualExclusion'
  BY <1>8 DEF GetFails, Goto
<1>9. ASSUME NEW g \in Getters, GetFirst(g) PROVE MutualExclusion'
  BY <1>9 DEF GetFirst, Goto
<1>10. ASSUME NEW g \in Getters, WaitEvent(g) PROVE MutualExclusion'
  BY <1>10 DEF WaitEvent, Goto
<1>11. ASSUME NEW g \in Getters, SpuriousWakeup(g) PROVE MutualExclusion'
  BY <1>11 DEF SpuriousWakeup, Goto
<1>12. ASSUME NEW x \in Exiters, CallExit(x) PROVE MutualExclusion'
  BY <1>12 DEF CallExit, Goto
<1>13. ASSUME NEW x \in Exiters, SetExit(x) PROVE MutualExclusion'
  BY <1>13 DEF SetExit, Goto
<1>14. ASSUME NEW r \in Removers, CallRemove(r) PROVE MutualExclusion'
  BY <1>14 DEF CallRemove, Goto
<1>15. ASSUME NEW r \in Removers, RemoveAll(r) PROVE MutualExclusion'
  BY <1>15 DEF RemoveAll, Goto
<1>16. ASSUME UNCHANGED vars PROVE MutualExclusion'
  BY <1>16 DEF vars
<1> HIDE DEF TypeInv, TypeOK, MutualExclusion, Threads, Critical
<1> QED
  BY <1>1, <1>2, <1>3, <1>4, <1>5, <1>6, <1>7, <1>8, <1>9, <1>10, <1>11, <1>12, <1>13, <1>14, <1>15, <1>16
     DEF Next, PutStep, GetStep

(* No two threads touch the list, the exit flag or the event at once. *)
THEOREM MutexHolds == Spec => []MutualExclusion
<1>1. Init => TypeInv /\ MutualExclusion
  BY RolesAssumption, EmptySeq
     DEF Init, TypeInv, TypeOK, PutArgument, Threads, Places, Results, Critical, MutualExclusion
<1> QED
  BY <1>1, TypeStep, MutexStep, PTL DEF Spec

LEMMA FifoStep == TypeInv /\ FifoOrder /\ [Next]_vars => FifoOrder'
<1> SUFFICES ASSUME TypeInv, FifoOrder, [Next]_vars PROVE FifoOrder'
  OBVIOUS
<1>1. ASSUME NEW t \in Threads, Lock(t) PROVE FifoOrder'
  BY <1>1 DEF Lock, FifoOrder
<1>2. ASSUME NEW t \in Threads, CallSetEvent(t) PROVE FifoOrder'
  BY <1>2 DEF CallSetEvent, FifoOrder
<1>3. ASSUME NEW t \in Threads, Unlock(t) PROVE FifoOrder'
  BY <1>3 DEF Unlock, FifoOrder
<1>4. ASSUME NEW p \in Putters, NEW d \in Data, CallPut(p, d) PROVE FifoOrder'
  BY <1>4 DEF CallPut, FifoOrder
<1>5. ASSUME NEW p \in Putters, PutAdd(p) PROVE FifoOrder'
  <2>1. /\ out \in Seq(Data) /\ lData \in Seq(Data) /\ put \in Seq(Data)
        /\ pData[p] \in Data
    BY <1>5 DEF TypeInv, TypeOK, PutArgument, PutAdd, Goto
  <2>2. out \o Append(lData, pData[p]) = Append(out \o lData, pData[p])
    BY <2>1, AppendIsConcat, ConcatAssociative, ConcatProperties, <<pData[p]>> \in Seq(Data)
  <2> QED
    BY <1>5, <2>2 DEF PutAdd, FifoOrder
<1>6. ASSUME NEW g \in Getters, NEW b \in BOOLEAN, CallGet(g, b) PROVE FifoOrder'
  BY <1>6 DEF CallGet, FifoOrder
<1>7. ASSUME NEW g \in Getters, GetMustWait(g) PROVE FifoOrder'
  BY <1>7 DEF GetMustWait, FifoOrder
<1>8. ASSUME NEW g \in Getters, GetFails(g) PROVE FifoOrder'
  BY <1>8 DEF GetFails, FifoOrder
<1>9. ASSUME NEW g \in Getters, GetFirst(g) PROVE FifoOrder'
  <2>1. /\ out \in Seq(Data) /\ lData \in Seq(Data) /\ lData # <<>>
    BY <1>9 DEF TypeInv, TypeOK, GetFirst
  <2>2. /\ Head(lData) \in Data /\ Tail(lData) \in Seq(Data)
        /\ lData = <<Head(lData)>> \o Tail(lData)
    BY <2>1
  <2>3. Append(out, Head(lData)) \o Tail(lData) = out \o lData
    BY <2>1, <2>2, AppendIsConcat, ConcatAssociative, <<Head(lData)>> \in Seq(Data)
  <2> QED
    BY <1>9, <2>3 DEF GetFirst, FifoOrder
<1>10. ASSUME NEW g \in Getters, WaitEvent(g) PROVE FifoOrder'
  BY <1>10 DEF WaitEvent, FifoOrder
<1>11. ASSUME NEW g \in Getters, SpuriousWakeup(g) PROVE FifoOrder'
  BY <1>11 DEF SpuriousWakeup, FifoOrder
<1>12. ASSUME NEW x \in Exiters, CallExit(x) PROVE FifoOrder'
  BY <1>12 DEF CallExit, FifoOrder
<1>13. ASSUME NEW x \in Exiters, SetExit(x) PROVE FifoOrder'
  BY <1>13 DEF SetExit, FifoOrder
<1>14. ASSUME NEW r \in Removers, CallRemove(r) PROVE FifoOrder'
  BY <1>14 DEF CallRemove, FifoOrder
<1>15. ASSUME NEW r \in Removers, RemoveAll(r) PROVE FifoOrder'
  BY <1>15, ConcatEmptySeq, ConcatProperties DEF RemoveAll, FifoOrder, TypeInv, TypeOK
<1>16. ASSUME UNCHANGED vars PROVE FifoOrder'
  BY <1>16 DEF vars, FifoOrder
<1> QED
  BY <1>1, <1>2, <1>3, <1>4, <1>5, <1>6, <1>7, <1>8, <1>9, <1>10, <1>11, <1>12, <1>13, <1>14, <1>15, <1>16
     DEF Next, PutStep, GetStep

(* First come, first retrieved, through every interleaving of the callers. *)
THEOREM FifoHolds == Spec => []FifoOrder
<1>1. Init => TypeInv /\ FifoOrder
  BY RolesAssumption, EmptySeq, ConcatEmptySeq
     DEF Init, TypeInv, TypeOK, PutArgument, Threads, Places, Results, FifoOrder
<1> QED
  BY <1>1, TypeStep, FifoStep, PTL DEF Spec

(* One message handling thread serves the queue. *)
OneGetter == \E g : Getters = {g}

LEMMA WakeStep ==
  ASSUME OneGetter, TypeInv, NoLostWakeup, [Next]_vars
  PROVE  NoLostWakeup'
<1> PICK g0 : Getters = {g0}
  BY DEF OneGetter
<1> USE RolesAssumption DEF TypeInv, TypeOK, NoLostWakeup, MayReturn, Threads
<1>1. ASSUME NEW t \in Threads, Lock(t) PROVE NoLostWakeup'
  BY <1>1 DEF Lock, Goto, Entry
<1>2. ASSUME NEW t \in Threads, CallSetEvent(t) PROVE NoLostWakeup'
  BY <1>2 DEF CallSetEvent, SetEvent, Sleepers
<1>3. ASSUME NEW t \in Threads, Unlock(t) PROVE NoLostWakeup'
  BY <1>3 DEF Unlock, Goto
<1>4. ASSUME NEW p \in Putters, NEW d \in Data, CallPut(p, d) PROVE NoLostWakeup'
  BY <1>4 DEF CallPut, Goto
<1>5. ASSUME NEW p \in Putters, PutAdd(p) PROVE NoLostWakeup'
  BY <1>5 DEF PutAdd, Goto
<1>6. ASSUME NEW g \in Getters, NEW b \in BOOLEAN, CallGet(g, b) PROVE NoLostWakeup'
  BY <1>6 DEF CallGet, Goto
<1>7. ASSUME NEW g \in Getters, GetMustWait(g) PROVE NoLostWakeup'
  BY <1>7 DEF GetMustWait, MustWait, Goto
<1>8. ASSUME NEW g \in Getters, GetFails(g) PROVE NoLostWakeup'
  BY <1>8 DEF GetFails, Goto
<1>9. ASSUME NEW g \in Getters, GetFirst(g) PROVE NoLostWakeup'
  BY <1>9 DEF GetFirst, Goto
<1>10. ASSUME NEW g \in Getters, WaitEvent(g) PROVE NoLostWakeup'
  BY <1>10 DEF WaitEvent, Goto
<1>11. ASSUME NEW g \in Getters, SpuriousWakeup(g) PROVE NoLostWakeup'
  BY <1>11 DEF SpuriousWakeup, Goto
<1>12. ASSUME NEW x \in Exiters, CallExit(x) PROVE NoLostWakeup'
  BY <1>12 DEF CallExit, Goto
<1>13. ASSUME NEW x \in Exiters, SetExit(x) PROVE NoLostWakeup'
  BY <1>13 DEF SetExit, Goto
<1>14. ASSUME NEW r \in Removers, CallRemove(r) PROVE NoLostWakeup'
  BY <1>14 DEF CallRemove, Goto
<1>15. ASSUME NEW r \in Removers, RemoveAll(r) PROVE NoLostWakeup'
  BY <1>15 DEF RemoveAll, Goto
<1>16. ASSUME UNCHANGED vars PROVE NoLostWakeup'
  BY <1>16 DEF vars
<1> HIDE DEF TypeInv, TypeOK, NoLostWakeup, MayReturn, Threads
<1> QED
  BY <1>1, <1>2, <1>3, <1>4, <1>5, <1>6, <1>7, <1>8, <1>9, <1>10, <1>11, <1>12, <1>13, <1>14, <1>15, <1>16
     DEF Next, PutStep, GetStep

(* With one getter, as every queue of the middleware has, no interleaving of *)
(* puts and exits with the getter's test and sleep loses a wake-up.          *)
THEOREM NoWakeupIsLost == Spec => [](OneGetter => NoLostWakeup)
<1>1. Init => TypeInv /\ (OneGetter => NoLostWakeup)
  BY RolesAssumption, EmptySeq
     DEF Init, TypeInv, TypeOK, PutArgument, Threads, Places, Results, NoLostWakeup, MayReturn
<1>2. TypeInv /\ (OneGetter => NoLostWakeup) /\ [Next]_vars => (OneGetter => NoLostWakeup)'
  BY WakeStep DEF OneGetter
<1> QED
  BY <1>1, <1>2, TypeStep, PTL DEF Spec

LEMMA AbstractStep == TypeInv /\ [Next]_vars => [Fifo!Next]_(Fifo!vars)
<1> SUFFICES ASSUME TypeInv, [Next]_vars PROVE [Fifo!Next]_(Fifo!vars)
  OBVIOUS
<1> USE DEF Fifo!vars
<1>1. ASSUME NEW t \in Threads, Lock(t) PROVE [Fifo!Next]_(Fifo!vars)
  BY <1>1 DEF Lock
<1>2. ASSUME NEW t \in Threads, CallSetEvent(t) PROVE [Fifo!Next]_(Fifo!vars)
  BY <1>2 DEF CallSetEvent
<1>3. ASSUME NEW t \in Threads, Unlock(t) PROVE [Fifo!Next]_(Fifo!vars)
  BY <1>3 DEF Unlock
<1>4. ASSUME NEW p \in Putters, NEW d \in Data, CallPut(p, d) PROVE [Fifo!Next]_(Fifo!vars)
  BY <1>4 DEF CallPut
<1>5. ASSUME NEW p \in Putters, PutAdd(p) PROVE [Fifo!Next]_(Fifo!vars)
  BY <1>5 DEF PutAdd, Goto, TypeInv, PutArgument, Fifo!Next, Fifo!Put
<1>6. ASSUME NEW g \in Getters, NEW b \in BOOLEAN, CallGet(g, b) PROVE [Fifo!Next]_(Fifo!vars)
  BY <1>6 DEF CallGet
<1>7. ASSUME NEW g \in Getters, GetMustWait(g) PROVE [Fifo!Next]_(Fifo!vars)
  BY <1>7 DEF GetMustWait
<1>8. ASSUME NEW g \in Getters, GetFails(g) PROVE [Fifo!Next]_(Fifo!vars)
  BY <1>8 DEF GetFails
<1>9. ASSUME NEW g \in Getters, GetFirst(g) PROVE [Fifo!Next]_(Fifo!vars)
  BY <1>9 DEF GetFirst, Fifo!Next, Fifo!Take
<1>10. ASSUME NEW g \in Getters, WaitEvent(g) PROVE [Fifo!Next]_(Fifo!vars)
  BY <1>10 DEF WaitEvent
<1>11. ASSUME NEW g \in Getters, SpuriousWakeup(g) PROVE [Fifo!Next]_(Fifo!vars)
  BY <1>11 DEF SpuriousWakeup
<1>12. ASSUME NEW x \in Exiters, CallExit(x) PROVE [Fifo!Next]_(Fifo!vars)
  BY <1>12 DEF CallExit
<1>13. ASSUME NEW x \in Exiters, SetExit(x) PROVE [Fifo!Next]_(Fifo!vars)
  BY <1>13 DEF SetExit, Fifo!Next, Fifo!Close
<1>14. ASSUME NEW r \in Removers, CallRemove(r) PROVE [Fifo!Next]_(Fifo!vars)
  BY <1>14 DEF CallRemove
<1>15. ASSUME NEW r \in Removers, RemoveAll(r) PROVE [Fifo!Next]_(Fifo!vars)
  BY <1>15 DEF RemoveAll, Fifo!Next, Fifo!Clear
<1>16. ASSUME UNCHANGED vars PROVE [Fifo!Next]_(Fifo!vars)
  BY <1>16 DEF vars
<1> HIDE DEF Fifo!vars
<1> QED
  BY <1>1, <1>2, <1>3, <1>4, <1>5, <1>6, <1>7, <1>8, <1>9, <1>10, <1>11, <1>12, <1>13, <1>14, <1>15, <1>16
     DEF Next, PutStep, GetStep

(* Every behaviour of the threaded queue is one of the FIFO queue. *)
THEOREM FifoRefined == Spec => ImplementsFifo
<1>1. Init => TypeInv
  BY RolesAssumption, EmptySeq DEF Init, TypeInv, TypeOK, PutArgument, Threads, Places, Results
<1>2. Init => Fifo!Init
  BY DEF Init, Fifo!Init
<1> QED
  BY <1>1, <1>2, TypeStep, AbstractStep, PTL DEF Spec, ImplementsFifo, Fifo!Spec

=============================================================================
