--------------------------- MODULE LinkedListOps ---------------------------
(***************************************************************************)
(* The functions of CAPLinkedList.c as operators on a list value.  A node  *)
(* is named by its place in items, so a pointer is a place: 0 stands for   *)
(* NULL and for a pointer to a freed node.  Inserting or removing a node   *)
(* before the one a pointer designates therefore moves the pointer's place *)
(* (Shift) although the code assigns nothing to it.                        *)
(***************************************************************************)
EXTENDS Integers, Sequences

SeqExt == INSTANCE SequencesExt

CURRENT_NOT_SET == -1

\* enOffset, the base from which an index counts.
Offsets == {"FIRST", "CURRENT", "LAST"}

\* What CAPLinkedList_Create allocates.
Create == [items |-> <<>>, pCurrent |-> 0, nCurrent |-> CURRENT_NOT_SET, pLast |-> 0]

Size(l) == Len(l.items)

\* nOffset, the place counted from zero that enOffset and nIndex designate.
Place(l, enOffset, nIndex) ==
    nIndex + CASE enOffset = "FIRST"   -> 0
               [] enOffset = "CURRENT" -> l.nCurrent
               [] enOffset = "LAST"    -> Size(l)

Answer(l, result) == [list |-> l, result |-> result]

\* nSteps times pCurrent = pCurrent->pNext: past the last node is NULL.
Walk(l, p, nSteps) ==
    IF nSteps = 0 THEN p
    ELSE IF p # 0 /\ p + nSteps <= Size(l) THEN p + nSteps ELSE 0

\* CAPLinkedList_Seek to place n: forward from the cursor, else from pFirst.
MoveTo(l, n) ==
    [l EXCEPT !.pCurrent = IF n >= l.nCurrent
                           THEN Walk(l, l.pCurrent, n - l.nCurrent)
                           ELSE Walk(l, 1, n),
              !.nCurrent = n]

Seek(l, enOffset, nIndex) ==
    LET n == Place(l, enOffset, nIndex) IN
    IF n < 0 \/ n > Size(l) THEN Answer(l, "INVALID_PARAM")
    ELSE IF Size(l) = 0 THEN Answer(l, "NO_DATA")
    ELSE Answer(MoveTo(l, n), "NOERROR")

\* The place of the node p designates once the node at place n is linked in or out.
Shift(p, n, by) == IF p >= n /\ p # 0 THEN p + by ELSE p

\* Linking a node in at place n of a list that has nodes.
Link(l, n, data) ==
    [items    |-> SeqExt!InsertAt(l.items, n + 1, data),
     pCurrent |-> n + 1,
     nCurrent |-> n,
     pLast    |-> IF n > 0 /\ n = Size(l) THEN n + 1 ELSE Shift(l.pLast, n + 1, 1)]

Add(l, enOffset, nIndex, data) ==
    LET n == Place(l, enOffset, nIndex) IN
    IF n < 0 \/ n > Size(l) THEN Answer(l, "INVALID_PARAM")
    ELSE IF Size(l) = 0
         THEN Answer([items |-> <<data>>, pCurrent |-> 1, nCurrent |-> 0, pLast |-> 1], "NOERROR")
         ELSE Answer(Link(l, n, data), "NOERROR")

\* Get and Set seek first; a cursor past the last node is an invalid place.
Find(l, enOffset, nIndex) ==
    LET sought == Seek(l, enOffset, nIndex) IN
    IF sought.result = "NOERROR" /\ sought.list.pCurrent = 0
    THEN Answer(sought.list, "INVALID_PARAM") ELSE sought

Get(l, enOffset, nIndex) ==
    LET found == Find(l, enOffset, nIndex) IN
    [list |-> found.list, result |-> found.result,
     data |-> IF found.result = "NOERROR" THEN <<found.list.items[found.list.pCurrent]>> ELSE <<>>]

Set(l, enOffset, nIndex, data) ==
    LET found == Find(l, enOffset, nIndex) IN
    IF found.result = "NOERROR"
    THEN Answer([found.list EXCEPT !.items[found.list.pCurrent] = data], "NOERROR")
    ELSE found

\* A mutant: the last pointer is not moved back to the node before.
UnlinkKeepsLast(l, n) ==
    LET at == MoveTo(l, n - 1) IN
    [items |-> SeqExt!RemoveAt(l.items, n + 1), pCurrent |-> at.pCurrent, nCurrent |-> n - 1,
     pLast |-> IF n = Size(l) - 1 THEN 0 ELSE Shift(l.pLast, n + 1, -1)]

\* Linking out the node at place n > 0, with the cursor moved to the node before it.
Unlink(l, n) ==
    LET at == MoveTo(l, n - 1) IN
    [items    |-> SeqExt!RemoveAt(l.items, n + 1),
     pCurrent |-> at.pCurrent,
     nCurrent |-> n - 1,
     pLast    |-> IF n = Size(l) - 1 THEN at.pCurrent ELSE Shift(l.pLast, n + 1, -1)]

\* Removing the first node resets the cursor; pLast is left as it is.
RemoveFirst(l) ==
    [items    |-> Tail(l.items),
     pCurrent |-> IF Size(l) = 1 THEN 0 ELSE 1,
     nCurrent |-> 0,
     pLast    |-> Shift(l.pLast, 1, -1)]

Remove(l, enOffset, nIndex) ==
    LET n == Place(l, enOffset, nIndex) IN
    IF n < 0 \/ n >= Size(l) THEN Answer(l, "INVALID_PARAM")
    ELSE IF n = 0 THEN Answer(RemoveFirst(l), "NOERROR")
    ELSE Answer(Unlink(l, n), "NOERROR")

\* A mutant: the source is put before the destination.
AttachBefore(dst, src) ==
    [items |-> src.items \o dst.items, nCurrent |-> dst.nCurrent,
     pCurrent |-> IF Size(dst) = 0 THEN 0 ELSE dst.nCurrent + 1, pLast |-> Size(dst) + Size(src)]

\* The source's nodes become the destination's; the source is freed by the caller.
Attach(dst, src) ==
    IF Size(dst) = 0
    THEN [items |-> src.items, pCurrent |-> IF Size(src) = 0 THEN 0 ELSE 1,
          nCurrent |-> 0, pLast |-> src.pLast]
    ELSE [items |-> dst.items \o src.items, pCurrent |-> dst.pCurrent, nCurrent |-> dst.nCurrent,
          pLast |-> IF src.pLast = 0 THEN 0 ELSE Size(dst) + src.pLast]

\* CAPLinkedList_Add(..., LAST, 0, data), the way every caller appends.
Append1(l, data) == Add(l, "LAST", 0, data).list

\* What Append1 of data one by one makes of a list without nodes.
Filled(l, data) ==
    IF data = <<>> THEN l
    ELSE [items |-> data, pCurrent |-> Len(data), nCurrent |-> Len(data) - 1, pLast |-> Len(data)]

\* Copies stop at the first node the callback refuses; what was copied stays.
Duplicate(dst, src, refused) ==
    IF Size(dst) > 0 THEN Answer(dst, "NOT_EMPTY")
    ELSE IF Size(src) = 0 THEN Answer(dst, "NO_DATA")
    ELSE LET bad    == {i \in 1..Size(src) : src.items[i] \in refused}
             copied == IF bad = {} THEN src.items
                       ELSE SubSeq(src.items, 1, (CHOOSE i \in bad : \A j \in bad : i <= j) - 1)
         IN Answer(Filled(dst, copied), IF bad = {} THEN "NOERROR" ELSE "CALLBACK")

\* CAPLinkedList_Traverse as its callers use it: the first node the callback stops at, 0 if none.
Traverse(l, wanted) == SeqExt!SelectInSeq(l.items, LAMBDA data : data \in wanted)
=============================================================================
