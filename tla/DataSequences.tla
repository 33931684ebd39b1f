--------------------------- MODULE DataSequences ---------------------------
(***************************************************************************)
(* What CAPLinkedList promises: each handle is a sequence of data and a    *)
(* cursor.  A call answers result and, for Get, the data at its place.     *)
(***************************************************************************)
EXTENDS Integers, Sequences

CONSTANTS Handles, Data

VARIABLES seqs, cursor, result, got

vars == <<seqs, cursor, result, got>>

Init == /\ seqs = [h \in Handles |-> <<>>]
        /\ cursor = [h \in Handles |-> -1]
        /\ result = "NOERROR"
        /\ got = <<>>

Become(h, s, c) == /\ seqs' = [seqs EXCEPT ![h] = s]
                   /\ cursor' = [cursor EXCEPT ![h] = c]

\* A place an index can designate: before a node, or the end.
InsertAtPlace(h, n, d) ==
    /\ n \in 0..Len(seqs[h])
    /\ Become(h, SubSeq(seqs[h], 1, n) \o <<d>> \o SubSeq(seqs[h], n + 1, Len(seqs[h])), n)
    /\ result' = "NOERROR" /\ got' = <<>>

SeekPlace(h, n) ==
    /\ seqs[h] # <<>> /\ n \in 0..Len(seqs[h])
    /\ Become(h, seqs[h], n)
    /\ result' = "NOERROR" /\ got' = <<>>

GetPlace(h, n) ==
    /\ n \in 0..(Len(seqs[h]) - 1)
    /\ Become(h, seqs[h], n)
    /\ result' = "NOERROR" /\ got' = <<seqs[h][n + 1]>>

SetPlace(h, n, d) ==
    /\ n \in 0..(Len(seqs[h]) - 1)
    /\ Become(h, [seqs[h] EXCEPT ![n + 1] = d], n)
    /\ result' = "NOERROR" /\ got' = <<>>

RemovePlace(h, n) ==
    /\ n \in 0..(Len(seqs[h]) - 1)
    /\ Become(h, SubSeq(seqs[h], 1, n) \o SubSeq(seqs[h], n + 2, Len(seqs[h])),
              IF n = 0 THEN 0 ELSE n - 1)
    /\ result' = "NOERROR" /\ got' = <<>>

\* The second sequence is put after the first and its handle starts anew.
Concatenate(dst, src) ==
    /\ dst # src
    /\ seqs' = [seqs EXCEPT ![dst] = seqs[dst] \o seqs[src], ![src] = <<>>]
    /\ cursor' = [cursor EXCEPT ![dst] = IF seqs[dst] = <<>> THEN 0 ELSE @, ![src] = -1]
    /\ result' = "NOERROR" /\ got' = <<>>

\* All of the source, or with an error only a proper beginning of it.
Copy(dst, src) ==
    /\ seqs[dst] = <<>>
    /\ \E n \in 0..Len(seqs[src]) :
          /\ seqs' = [seqs EXCEPT ![dst] = SubSeq(seqs[src], 1, n)]
          /\ cursor' = [cursor EXCEPT ![dst] = IF n = 0 THEN @ ELSE n - 1]
          /\ result' = (IF n = Len(seqs[src]) THEN "NOERROR" ELSE "CALLBACK")
    /\ got' = <<>>

\* A copy is refused for what the two sequences hold; a place, for being outside.
\* A failed Get or Set may have moved the cursor to the end.
Fail(h) ==
    /\ \/ result' = "INVALID_PARAM"
       \/ result' = "NO_DATA"   /\ \E g \in Handles : seqs[g] = <<>>
       \/ result' = "NOT_EMPTY" /\ seqs[h] # <<>>
    /\ cursor' \in {cursor, [cursor EXCEPT ![h] = Len(seqs[h])]}
    /\ UNCHANGED seqs /\ got' = <<>>

Renew(h) == Become(h, <<>>, -1) /\ result' = "NOERROR" /\ got' = <<>>

Next == \E h \in Handles :
          \/ \E n \in 0..Len(seqs[h]) : SeekPlace(h, n) \/ GetPlace(h, n) \/ RemovePlace(h, n)
          \/ \E n \in 0..Len(seqs[h]), d \in Data : InsertAtPlace(h, n, d) \/ SetPlace(h, n, d)
          \/ \E g \in Handles : Concatenate(h, g) \/ Copy(h, g)
          \/ Fail(h) \/ Renew(h)

Spec == Init /\ [][Next]_vars
=============================================================================
