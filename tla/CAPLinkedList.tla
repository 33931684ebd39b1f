---------------------------- MODULE CAPLinkedList ----------------------------
(***************************************************************************)
(* CAPLinkedList.c behind its handles: any sequence of calls on the lists  *)
(* of Handles, shown to implement DataSequences.                           *)
(***************************************************************************)
EXTENDS Integers, Sequences, FiniteSetsExt

CONSTANTS Handles,     \* the lists that exist
          Data,        \* what nodes carry
          MaxNodes     \* bound: the nodes of all lists together

VARIABLES list, result, got

vars == <<list, result, got>>

L == INSTANCE LinkedListOps

Indices == -1..1

Nodes == MapThenSumSet(LAMBDA h : L!Size(list[h]), Handles)

Init == /\ list = [h \in Handles |-> L!Create]
        /\ result = "NOERROR"
        /\ got = <<>>

Return(h, answer) == /\ list' = [list EXCEPT ![h] = answer.list]
                     /\ result' = answer.result
                     /\ got' = <<>>

Add(h, off, i, d) == Nodes < MaxNodes /\ Return(h, L!Add(list[h], off, i, d))

Seek(h, off, i) == Return(h, L!Seek(list[h], off, i))

Get(h, off, i) == LET answer == L!Get(list[h], off, i) IN
                  /\ list' = [list EXCEPT ![h] = answer.list]
                  /\ result' = answer.result
                  /\ got' = answer.data

Set(h, off, i, d) == Return(h, L!Set(list[h], off, i, d))

Remove(h, off, i) == Return(h, L!Remove(list[h], off, i))

\* The callers attach lists they have just filled by appending: the source has
\* a node and the destination's cursor is on one.
Attach(dst, src) ==
    /\ dst # src
    /\ L!Size(list[src]) > 0
    /\ L!Size(list[dst]) = 0 \/ list[dst].pCurrent # 0
    /\ list' = [list EXCEPT ![dst] = L!Attach(list[dst], list[src]), ![src] = L!Create]
    /\ result' = "NOERROR" /\ got' = <<>>

\* The callback may refuse one of the data (CAPHash and the scripts copy by allocating).
Duplicate(dst, src, refused) ==
    /\ dst # src
    /\ Nodes + L!Size(list[src]) <= MaxNodes
    /\ Return(dst, L!Duplicate(list[dst], list[src], refused))

\* CAPLinkedList_Destroy, then CAPLinkedList_Create for the next use.
Destroy(h) == Return(h, [list |-> L!Create, result |-> "NOERROR"])

Next == \E h \in Handles :
          \/ \E off \in L!Offsets, i \in Indices :
                \/ Seek(h, off, i) \/ Get(h, off, i) \/ Remove(h, off, i)
                \/ \E d \in Data : Add(h, off, i, d) \/ Set(h, off, i, d)
          \/ \E g \in Handles : Attach(h, g) \/ \E d \in Data : Duplicate(h, g, {d})
          \/ Destroy(h)

Spec == Init /\ [][Next]_vars

-----------------------------------------------------------------------------
\* The two pointers kept beside the chain designate the nodes the counters say:
\* pCurrent the node nCurrent counts to (NULL past the end or when there is no
\* node), and pLast the last node, which Attach links to without a walk.
PointersOnNodes ==
    \A h \in Handles :
       /\ list[h].nCurrent \in -1..L!Size(list[h])
       /\ list[h].pCurrent = (IF list[h].nCurrent < L!Size(list[h]) THEN list[h].nCurrent + 1 ELSE 0)
       /\ L!Size(list[h]) > 0 => list[h].pLast = L!Size(list[h])

\* Whatever the calls, the chain behind each handle is the sequence its callers
\* meant, and Get answers the datum of the place it was asked for.
Chains == INSTANCE DataSequences WITH
                 seqs   <- [h \in Handles |-> list[h].items],
                 cursor <- [h \in Handles |-> list[h].nCurrent]
ImplementsSequences == Chains!Spec
=============================================================================
