------------------------ MODULE CAPLinkedList_proofs ------------------------
(***************************************************************************)
(* For any handles, any data and any bound on the nodes, the pointers kept *)
(* beside a chain designate the nodes the counters say, and the lists of   *)
(* CAPLinkedList.c implement the sequences of DataSequences.               *)
(***************************************************************************)
EXTENDS CAPLinkedList, WellFoundedInduction, TLAPS

-----------------------------------------------------------------------------
(* Lists *)

Lists == [items : Seq(Data), pCurrent : Int, nCurrent : Int, pLast : Int]

\* What PointersOnNodes says of one list, and that the cursor of a list with
\* nodes is set: from the cursor of an empty list, -1, Seek would not walk.
Sound(l) ==
    /\ l \in Lists
    /\ l.nCurrent \in -1..Len(l.items)
    /\ l.pCurrent = (IF l.nCurrent < Len(l.items) THEN l.nCurrent + 1 ELSE 0)
    /\ Len(l.items) > 0 => l.nCurrent >= 0 /\ l.pLast = Len(l.items)

LEMMA Parts ==
    ASSUME NEW l, Sound(l)
    PROVE  /\ l.items \in Seq(Data) /\ Len(l.items) \in Nat
           /\ l.pCurrent \in Int /\ l.nCurrent \in Int /\ l.pLast \in Int
           /\ l.nCurrent \in -1..Len(l.items)
           /\ l.pCurrent = (IF l.nCurrent < Len(l.items) THEN l.nCurrent + 1 ELSE 0)
           /\ Len(l.items) > 0 => l.nCurrent >= 0 /\ l.pLast = Len(l.items)
           /\ L!Size(l) = Len(l.items)
BY DEF Sound, Lists, L!Size

LEMMA Whole ==
    ASSUME NEW s \in Seq(Data), NEW p \in Int, NEW n \in -1..Len(s), NEW q \in Int,
           p = (IF n < Len(s) THEN n + 1 ELSE 0),
           Len(s) > 0 => n >= 0 /\ q = Len(s)
    PROVE  Sound([items |-> s, pCurrent |-> p, nCurrent |-> n, pLast |-> q])
BY DEF Sound, Lists

LEMMA CreateSound == Sound(L!Create)
BY DEF Sound, Lists, L!Create, L!CURRENT_NOT_SET

LEMMA PlaceIsInt ==
    ASSUME NEW l, Sound(l), NEW off \in L!Offsets, NEW i \in Int
    PROVE  L!Place(l, off, i) \in Int
<1>1. l.nCurrent \in Int /\ L!Size(l) \in Int
  BY Parts
<1>2. CASE off = "FIRST"
  BY <1>1, <1>2 DEF L!Place
<1>3. CASE off = "CURRENT"
  BY <1>1, <1>3 DEF L!Place
<1>4. CASE off = "LAST"
  BY <1>1, <1>4 DEF L!Place
<1>5. QED  BY <1>2, <1>3, <1>4 DEF L!Offsets

\* A walk from the cursor or from the first node ends on the node of its place.
LEMMA MoveToPlace ==
    ASSUME NEW l, Sound(l), NEW n \in 0..Len(l.items), Len(l.items) > 0
    PROVE  /\ L!MoveTo(l, n) = [items |-> l.items, pCurrent |-> IF n < Len(l.items) THEN n + 1 ELSE 0,
                                nCurrent |-> n, pLast |-> l.pLast]
           /\ Sound(L!MoveTo(l, n))
<1> DEFINE p == IF n >= l.nCurrent THEN L!Walk(l, l.pCurrent, n - l.nCurrent) ELSE L!Walk(l, 1, n)
           q == IF n < Len(l.items) THEN n + 1 ELSE 0
<1>1. p = q
  <2>1. CASE n >= l.nCurrent
    BY <2>1, Parts DEF L!Walk
  <2>2. CASE n < l.nCurrent
    BY <2>2, Parts DEF L!Walk
  <2>3. QED  BY <2>1, <2>2, Parts
<1>2. L!MoveTo(l, n) = [l EXCEPT !.pCurrent = p, !.nCurrent = n]
  BY DEF L!MoveTo
<1>3. q \in Int
  BY Parts
<1> HIDE DEF p
<1>r. \A x, y : [l EXCEPT !.pCurrent = x, !.nCurrent = y]
               = [items |-> l.items, pCurrent |-> x, nCurrent |-> y, pLast |-> l.pLast]
  <2> SUFFICES ASSUME NEW x, NEW y
               PROVE  [l EXCEPT !.pCurrent = x, !.nCurrent = y]
                      = [items |-> l.items, pCurrent |-> x, nCurrent |-> y, pLast |-> l.pLast]
    OBVIOUS
  <2> DEFINE r == [l EXCEPT !.pCurrent = x]
  <2>1. r = [items |-> l.items, pCurrent |-> x, nCurrent |-> l.nCurrent, pLast |-> l.pLast]
    BY DEF Sound, Lists
  <2>2. [l EXCEPT !.pCurrent = x, !.nCurrent = y] = [[l EXCEPT !.pCurrent = x] EXCEPT !.nCurrent = y]
    OBVIOUS
  <2>3. [l EXCEPT !.pCurrent = x, !.nCurrent = y] = [r EXCEPT !.nCurrent = y]
    BY <2>2
  <2> HIDE DEF r
  <2>4. [r EXCEPT !.nCurrent = y] = [items |-> l.items, pCurrent |-> x, nCurrent |-> y, pLast |-> l.pLast]
    BY <2>1
  <2>5. QED  BY <2>3, <2>4
<1>4. L!MoveTo(l, n) = [items |-> l.items, pCurrent |-> q, nCurrent |-> n, pLast |-> l.pLast]
  BY <1>1, <1>2, <1>r
<1>5. Sound([items |-> l.items, pCurrent |-> q, nCurrent |-> n, pLast |-> l.pLast])
  <2>1. l.items \in Seq(Data) /\ l.pLast \in Int /\ n \in -1..Len(l.items) /\ l.pLast = Len(l.items) /\ n >= 0
    BY Parts
  <2>2. QED  BY <1>3, <2>1, Whole
<1> DEFINE r == [items |-> l.items, pCurrent |-> q, nCurrent |-> n, pLast |-> l.pLast]
<1>6. L!MoveTo(l, n) = r /\ Sound(r)
  BY <1>4, <1>5
<1>7. r = [items |-> l.items, pCurrent |-> IF n < Len(l.items) THEN n + 1 ELSE 0,
           nCurrent |-> n, pLast |-> l.pLast]
  OBVIOUS
<1> HIDE DEF r
<1>8. QED  BY <1>6, <1>7

\* Seek answers an error and leaves the list, or the cursor is on the place.
LEMMA SeekAnswers ==
    ASSUME NEW l, Sound(l), NEW off \in L!Offsets, NEW i \in Int
    PROVE  \/ L!Seek(l, off, i) = L!Answer(l, "INVALID_PARAM")
           \/ Len(l.items) = 0 /\ L!Seek(l, off, i) = L!Answer(l, "NO_DATA")
           \/ /\ Len(l.items) > 0
              /\ \E n \in 0..Len(l.items) : L!Seek(l, off, i) = L!Answer(L!MoveTo(l, n), "NOERROR")
<1> DEFINE n == L!Place(l, off, i)
<1>1. n \in Int /\ L!Size(l) = Len(l.items) /\ Len(l.items) \in Nat
  BY PlaceIsInt, Parts
<1>2. L!Seek(l, off, i) = IF n < 0 \/ n > L!Size(l) THEN L!Answer(l, "INVALID_PARAM")
                          ELSE IF L!Size(l) = 0 THEN L!Answer(l, "NO_DATA")
                          ELSE L!Answer(L!MoveTo(l, n), "NOERROR")
  BY DEF L!Seek
<1> HIDE DEF n
<1>3. QED  BY <1>1, <1>2

\* Get and Set find the node of their place, or answer an error, and then the
\* cursor may have gone to the end.
LEMMA FindAnswers ==
    ASSUME NEW l, Sound(l), NEW off \in L!Offsets, NEW i \in Int
    PROVE  \/ L!Find(l, off, i) = L!Answer(l, "INVALID_PARAM")
           \/ Len(l.items) = 0 /\ L!Find(l, off, i) = L!Answer(l, "NO_DATA")
           \/ /\ Len(l.items) > 0
              /\ L!Find(l, off, i) = L!Answer(L!MoveTo(l, Len(l.items)), "INVALID_PARAM")
           \/ \E n \in 0..(Len(l.items) - 1) : L!Find(l, off, i) = L!Answer(L!MoveTo(l, n), "NOERROR")
<1> DEFINE sought == L!Seek(l, off, i)
<1>1. L!Find(l, off, i) = IF sought.result = "NOERROR" /\ sought.list.pCurrent = 0
                          THEN L!Answer(sought.list, "INVALID_PARAM") ELSE sought
  BY DEF L!Find
<1> HIDE DEF sought
<1>2. CASE sought = L!Answer(l, "INVALID_PARAM")
  BY <1>1, <1>2 DEF L!Answer
<1>3. CASE Len(l.items) = 0 /\ sought = L!Answer(l, "NO_DATA")
  BY <1>1, <1>3 DEF L!Answer
<1>4. ASSUME Len(l.items) > 0, NEW n \in 0..Len(l.items), sought = L!Answer(L!MoveTo(l, n), "NOERROR")
      PROVE  \/ n = Len(l.items) /\ L!Find(l, off, i) = L!Answer(L!MoveTo(l, n), "INVALID_PARAM")
             \/ n \in 0..(Len(l.items) - 1) /\ L!Find(l, off, i) = L!Answer(L!MoveTo(l, n), "NOERROR")
  <2>1. sought.result = "NOERROR" /\ sought.list = L!MoveTo(l, n)
    BY <1>4 DEF L!Answer
  <2>2. L!MoveTo(l, n).pCurrent = IF n < Len(l.items) THEN n + 1 ELSE 0
    BY <1>4, MoveToPlace
  <2>3. Len(l.items) \in Nat
    BY Parts
  <2>4. QED  BY <1>1, <1>4, <2>1, <2>2, <2>3
<1>5. QED  BY <1>2, <1>3, <1>4, SeekAnswers DEF sought

\* Sequences: an element put in, taken out or replaced at a place counted from zero.
LEMMA InsertedAt ==
    ASSUME NEW s \in Seq(Data), NEW n \in 0..Len(s), NEW d \in Data
    PROVE  /\ L!SeqExt!InsertAt(s, n + 1, d) = SubSeq(s, 1, n) \o <<d>> \o SubSeq(s, n + 1, Len(s))
           /\ L!SeqExt!InsertAt(s, n + 1, d) \in Seq(Data)
           /\ Len(L!SeqExt!InsertAt(s, n + 1, d)) = Len(s) + 1
<1> DEFINE before == SubSeq(s, 1, n)
           after == SubSeq(s, n + 1, Len(s))
           made == L!SeqExt!InsertAt(s, n + 1, d)
<1>1. (n + 1) - 1 = n
  OBVIOUS
<1>2. made = SubSeq(s, 1, (n + 1) - 1) \o <<d>> \o after
  BY Zenon DEF L!SeqExt!InsertAt
<1>3. made = before \o <<d>> \o after
  BY <1>1, <1>2, Zenon
<1>4. before \in Seq(Data) /\ Len(before) = n
  OBVIOUS
<1>5. after \in Seq(Data) /\ Len(after) = Len(s) - n
  OBVIOUS
<1> HIDE DEF before, after, made
<1>6. before \o <<d>> \in Seq(Data) /\ Len(before \o <<d>>) = n + 1
  BY <1>4
<1>7. (before \o <<d>>) \o after \in Seq(Data) /\ Len((before \o <<d>>) \o after) = Len(s) + 1
  BY <1>5, <1>6
<1>8. made \in Seq(Data) /\ Len(made) = Len(s) + 1
  BY <1>3, <1>7
<1>9. QED  BY <1>3, <1>8, Zenon DEF before, after, made

LEMMA RemovedAt ==
    ASSUME NEW s \in Seq(Data), NEW n \in 0..(Len(s) - 1)
    PROVE  /\ L!SeqExt!RemoveAt(s, n + 1) = SubSeq(s, 1, n) \o SubSeq(s, n + 2, Len(s))
           /\ L!SeqExt!RemoveAt(s, n + 1) \in Seq(Data)
           /\ Len(L!SeqExt!RemoveAt(s, n + 1)) = Len(s) - 1
<1> DEFINE before == SubSeq(s, 1, n)
           after == SubSeq(s, n + 2, Len(s))
           made == L!SeqExt!RemoveAt(s, n + 1)
<1>1. (n + 1) - 1 = n /\ (n + 1) + 1 = n + 2
  OBVIOUS
<1>2. made = SubSeq(s, 1, (n + 1) - 1) \o SubSeq(s, (n + 1) + 1, Len(s))
  BY Zenon DEF L!SeqExt!RemoveAt
<1>3. made = before \o after
  BY <1>1, <1>2, Zenon
<1>4. before \in Seq(Data) /\ Len(before) = n
  OBVIOUS
<1>5. after \in Seq(Data) /\ Len(after) = Len(s) - n - 1
  OBVIOUS
<1> HIDE DEF before, after, made
<1>6. made \in Seq(Data) /\ Len(made) = Len(s) - 1
  BY <1>3, <1>4, <1>5
<1>7. QED  BY <1>3, <1>6, Zenon DEF before, after, made

LEMMA TailRemovesFirst ==
    ASSUME NEW s \in Seq(Data), Len(s) > 0
    PROVE  /\ Tail(s) = SubSeq(s, 1, 0) \o SubSeq(s, 2, Len(s))
           /\ Tail(s) \in Seq(Data) /\ Len(Tail(s)) = Len(s) - 1
<1>1. Tail(s) \in Seq(Data) /\ Len(Tail(s)) = Len(s) - 1
  OBVIOUS
<1>2. SubSeq(s, 1, 0) \in Seq(Data) /\ Len(SubSeq(s, 1, 0)) = 0
  OBVIOUS
<1>3. SubSeq(s, 2, Len(s)) \in Seq(Data) /\ Len(SubSeq(s, 2, Len(s))) = Len(s) - 1
  <2>1. ASSUME NEW m \in 1..Len(s) + 1
        PROVE  SubSeq(s, m, Len(s)) \in Seq(Data) /\ Len(SubSeq(s, m, Len(s))) = Len(s) + 1 - m
    OBVIOUS
  <2>2. 2 \in 1..Len(s) + 1 /\ Len(s) + 1 - 2 = Len(s) - 1
    OBVIOUS
  <2>3. QED  BY <2>1, <2>2
<1>4. \A i \in 1..(Len(s) - 1) : SubSeq(s, 2, Len(s))[i] = Tail(s)[i]
  OBVIOUS
<1>5. QED  BY <1>1, <1>2, <1>3, <1>4

LEMMA OneInNone ==
    ASSUME NEW s \in Seq(Data), Len(s) = 0, NEW d \in Data
    PROVE  SubSeq(s, 1, 0) \o <<d>> \o SubSeq(s, 1, Len(s)) = <<d>>
<1>1. s = <<>>
  OBVIOUS
<1>2. SubSeq(<<>>, 1, 0) = <<>> /\ Len(<<>>) = 0
  OBVIOUS
<1>3. <<>> \o <<d>> \o <<>> = <<d>>
  OBVIOUS
<1>4. QED  BY <1>1, <1>2, <1>3, Zenon

\* Add answers an error and leaves the list, or the datum is at the place.
LEMMA AddAnswers ==
    ASSUME NEW l, Sound(l), NEW off \in L!Offsets, NEW i \in Int, NEW d \in Data
    PROVE  /\ Sound(L!Add(l, off, i, d).list)
           /\ \/ L!Add(l, off, i, d) = L!Answer(l, "INVALID_PARAM")
              \/ /\ L!Add(l, off, i, d).result = "NOERROR"
                 /\ \E n \in 0..Len(l.items) :
                       /\ L!Add(l, off, i, d).list.nCurrent = n
                       /\ L!Add(l, off, i, d).list.items
                             = SubSeq(l.items, 1, n) \o <<d>> \o SubSeq(l.items, n + 1, Len(l.items))
<1> DEFINE n == L!Place(l, off, i)
           one == [items |-> <<d>>, pCurrent |-> 1, nCurrent |-> 0, pLast |-> 1]
           more == L!Link(l, n, d)
           add == L!Add(l, off, i, d)
<1>1. n \in Int /\ L!Size(l) = Len(l.items) /\ Len(l.items) \in Nat /\ l.items \in Seq(Data)
  BY PlaceIsInt, Parts
<1>2. add = IF n < 0 \/ n > L!Size(l) THEN L!Answer(l, "INVALID_PARAM")
            ELSE IF L!Size(l) = 0 THEN L!Answer(one, "NOERROR")
            ELSE L!Answer(more, "NOERROR")
  BY DEF L!Add
<1> HIDE DEF n, add
<1>3. CASE n < 0 \/ n > Len(l.items)
  <2>1. add = L!Answer(l, "INVALID_PARAM")
    BY <1>1, <1>2, <1>3
  <2>2. QED  BY <2>1 DEF L!Answer, add
<1>4. CASE n \in 0..Len(l.items) /\ Len(l.items) = 0
  <2>1. add.list = one /\ add.result = "NOERROR" /\ n = 0
    BY <1>1, <1>2, <1>4 DEF L!Answer
  <2>2. Sound(one)
    <3>1. ASSUME NEW s \in Seq(Data), Len(s) = 1, NEW p \in Int, p = 1, NEW c \in Int, c = 0
          PROVE  Sound([items |-> s, pCurrent |-> p, nCurrent |-> c, pLast |-> p])
      <4>1. c \in -1..Len(s) /\ p = (IF c < Len(s) THEN c + 1 ELSE 0) /\ c >= 0 /\ p = Len(s)
        BY <3>1
      <4>2. QED  BY <3>1, <4>1, Whole
    <3>2. <<d>> \in Seq(Data) /\ Len(<<d>>) = 1 /\ 1 \in Int /\ 0 \in Int
      OBVIOUS
    <3>3. QED  BY <3>1, <3>2, Zenon
  <2>3. one.items = SubSeq(l.items, 1, n) \o <<d>> \o SubSeq(l.items, n + 1, Len(l.items))
    BY <1>1, <1>4, <2>1, OneInNone
  <2>4. QED  BY <1>4, <2>1, <2>2, <2>3 DEF add
<1>5. CASE n \in 0..Len(l.items) /\ Len(l.items) > 0
  <2> DEFINE items == L!SeqExt!InsertAt(l.items, n + 1, d)
             pLast == IF n > 0 /\ n = L!Size(l) THEN n + 1 ELSE L!Shift(l.pLast, n + 1, 1)
  <2>1. more = [items |-> items, pCurrent |-> n + 1, nCurrent |-> n, pLast |-> pLast]
    BY DEF L!Link
  <2>2. items \in Seq(Data) /\ Len(items) = Len(l.items) + 1
        /\ items = SubSeq(l.items, 1, n) \o <<d>> \o SubSeq(l.items, n + 1, Len(l.items))
    BY <1>1, <1>5, InsertedAt
  <2>3. pLast = Len(l.items) + 1
    BY <1>1, <1>5, Parts DEF L!Shift
  <2>4. add.list = more /\ add.result = "NOERROR"
    BY <1>1, <1>2, <1>5 DEF L!Answer
  <2> HIDE DEF items, pLast, more
  <2>5. Sound(more)
    <3>1. n \in -1..Len(items) /\ n >= 0 /\ n < Len(items) /\ n + 1 \in Int /\ pLast \in Int /\ pLast = Len(items)
      BY <1>1, <1>5, <2>2, <2>3
    <3>2. QED  BY <2>1, <2>2, <3>1, Whole
  <2>6. more.nCurrent = n /\ more.items = items
    BY <2>1
  <2>7. QED  BY <1>5, <2>2, <2>4, <2>5, <2>6 DEF add
<1>6. \/ n < 0 \/ n > Len(l.items)
      \/ n \in 0..Len(l.items) /\ Len(l.items) = 0
      \/ n \in 0..Len(l.items) /\ Len(l.items) > 0
  BY <1>1
<1>7. QED  BY <1>3, <1>4, <1>5, <1>6, Zenon

\* Set replaces the datum at its place and moves the cursor there.
LEMMA SetAt ==
    ASSUME NEW l, Sound(l), NEW n \in 0..(Len(l.items) - 1), NEW d \in Data, NEW moved, moved = L!MoveTo(l, n)
    PROVE  /\ Sound([moved EXCEPT !.items[moved.pCurrent] = d])
           /\ [moved EXCEPT !.items[moved.pCurrent] = d].items = [l.items EXCEPT ![n + 1] = d]
           /\ [moved EXCEPT !.items[moved.pCurrent] = d].nCurrent = n
<1> DEFINE items == [l.items EXCEPT ![n + 1] = d]
           made == [moved EXCEPT !.items[moved.pCurrent] = d]
<1>1. Len(l.items) \in Nat /\ l.items \in Seq(Data) /\ l.pLast \in Int /\ Len(l.items) > 0
      /\ l.pLast = Len(l.items)
  BY Parts
<1>2. moved = [items |-> l.items, pCurrent |-> n + 1, nCurrent |-> n, pLast |-> l.pLast]
  <2>1. moved = [items |-> l.items, pCurrent |-> IF n < Len(l.items) THEN n + 1 ELSE 0,
                 nCurrent |-> n, pLast |-> l.pLast]
    BY <1>1, MoveToPlace
  <2>2. n < Len(l.items)
    BY <1>1
  <2>3. QED  BY <2>1, <2>2
<1>3. made = [items |-> items, pCurrent |-> n + 1, nCurrent |-> n, pLast |-> l.pLast]
  <2>1. made = [moved EXCEPT !.items = [moved.items EXCEPT ![moved.pCurrent] = d]]
    OBVIOUS
  <2>2. [moved.items EXCEPT ![moved.pCurrent] = d] = items
    BY <1>2
  <2> HIDE DEF made, items
  <2>3. made = [moved EXCEPT !.items = items]
    BY <2>1, <2>2
  <2>4. QED  BY <1>2, <2>3
<1>4. items \in Seq(Data) /\ Len(items) = Len(l.items)
  BY <1>1
<1> HIDE DEF made, items
<1>5. n \in -1..Len(items) /\ n >= 0 /\ n < Len(items) /\ n + 1 \in Int /\ l.pLast = Len(items)
  BY <1>1, <1>4
<1>6. Sound(made)
  BY <1>1, <1>3, <1>4, <1>5, Whole
<1>7. made.items = items /\ made.nCurrent = n
  BY <1>3
<1>8. QED  BY <1>6, <1>7 DEF made, items

\* Remove answers an error and leaves the list, or the datum at its place is gone.
LEMMA RemoveAnswers ==
    ASSUME NEW l, Sound(l), NEW off \in L!Offsets, NEW i \in Int
    PROVE  /\ Sound(L!Remove(l, off, i).list)
           /\ \/ L!Remove(l, off, i) = L!Answer(l, "INVALID_PARAM")
              \/ /\ L!Remove(l, off, i).result = "NOERROR"
                 /\ \E n \in 0..(Len(l.items) - 1) :
                       /\ L!Remove(l, off, i).list.nCurrent = (IF n = 0 THEN 0 ELSE n - 1)
                       /\ L!Remove(l, off, i).list.items
                             = SubSeq(l.items, 1, n) \o SubSeq(l.items, n + 2, Len(l.items))
<1> DEFINE n == L!Place(l, off, i)
           first == L!RemoveFirst(l)
           later == L!Unlink(l, n)
           gone == L!Remove(l, off, i)
<1>1. n \in Int /\ L!Size(l) = Len(l.items) /\ Len(l.items) \in Nat /\ l.items \in Seq(Data)
      /\ (Len(l.items) > 0 => l.pLast = Len(l.items))
  BY PlaceIsInt, Parts
<1>2. gone = IF n < 0 \/ n >= L!Size(l) THEN L!Answer(l, "INVALID_PARAM")
             ELSE IF n = 0 THEN L!Answer(first, "NOERROR") ELSE L!Answer(later, "NOERROR")
  BY DEF L!Remove
<1> HIDE DEF n, gone
<1>3. CASE n < 0 \/ n >= Len(l.items)
  <2>1. gone = L!Answer(l, "INVALID_PARAM")
    BY <1>1, <1>2, <1>3
  <2>2. QED  BY <2>1 DEF L!Answer, gone
<1>4. CASE n = 0 /\ Len(l.items) > 0
  <2> DEFINE items == Tail(l.items)
             pCurrent == IF Len(l.items) = 1 THEN 0 ELSE 1
             pLast == Len(l.items) - 1
  <2>1. gone.list = first /\ gone.result = "NOERROR"
    BY <1>1, <1>2, <1>4 DEF L!Answer
  <2>2. L!Shift(l.pLast, 1, -1) = pLast
    BY <1>1, <1>4 DEF L!Shift
  <2>3. first = [items |-> items, pCurrent |-> pCurrent, nCurrent |-> 0, pLast |-> pLast]
    BY <1>1, <2>2 DEF L!RemoveFirst
  <2>4. items \in Seq(Data) /\ Len(items) = Len(l.items) - 1
        /\ items = SubSeq(l.items, 1, 0) \o SubSeq(l.items, 2, Len(l.items))
    BY <1>1, <1>4, TailRemovesFirst
  <2> HIDE DEF items
  <2>5. pCurrent \in Int /\ pLast \in Int /\ pLast = Len(items)
        /\ (Len(items) = 0 => pCurrent = 0) /\ (Len(items) > 0 => pCurrent = 1)
    BY <1>1, <1>4, <2>4
  <2> HIDE DEF pCurrent, pLast, first
  <2>6. ASSUME NEW c \in Int, c = 0
        PROVE  Sound([items |-> items, pCurrent |-> pCurrent, nCurrent |-> c, pLast |-> pLast])
    <3>0. Len(items) \in Nat
      BY <2>4
    <3>1. pCurrent = (IF c < Len(items) THEN c + 1 ELSE 0) /\ c \in -1..Len(items) /\ c >= 0
      <4>1. CASE Len(items) = 0
        BY <2>5, <2>6, <4>1
      <4>2. CASE Len(items) > 0
        BY <2>5, <2>6, <3>0, <4>2
      <4>3. QED  BY <3>0, <4>1, <4>2
    <3>2. QED  BY <2>4, <2>5, <3>1, Whole
  <2>7. Sound(first)
    BY <2>3, <2>6
  <2>8. first.nCurrent = 0 /\ first.items = items
    BY <2>3
  <2>9. 0 \in 0..(Len(l.items) - 1) /\ 0 + 2 = 2
    BY <1>1, <1>4
  <2>10. QED  BY <2>1, <2>4, <2>7, <2>8, <2>9 DEF gone
<1>5. CASE n \in 1..(Len(l.items) - 1)
  <2> DEFINE items == L!SeqExt!RemoveAt(l.items, n + 1)
             at == L!MoveTo(l, n - 1)
             pLast == IF n = L!Size(l) - 1 THEN at.pCurrent ELSE L!Shift(l.pLast, n + 1, -1)
  <2>1. gone.list = later /\ gone.result = "NOERROR"
    BY <1>1, <1>2, <1>5 DEF L!Answer
  <2>2. later = [items |-> items, pCurrent |-> at.pCurrent, nCurrent |-> n - 1, pLast |-> pLast]
    BY DEF L!Unlink
  <2>3. items \in Seq(Data) /\ Len(items) = Len(l.items) - 1
        /\ items = SubSeq(l.items, 1, n) \o SubSeq(l.items, n + 2, Len(l.items))
    <3>1. n \in 0..(Len(l.items) - 1)
      BY <1>1, <1>5
    <3>2. QED  BY <1>1, <3>1, RemovedAt, Zenon
  <2>4. at.pCurrent = n
    <3>1. n - 1 \in 0..Len(l.items) /\ Len(l.items) > 0 /\ n - 1 < Len(l.items) /\ (n - 1) + 1 = n
      BY <1>1, <1>5
    <3>2. at.pCurrent = IF n - 1 < Len(l.items) THEN (n - 1) + 1 ELSE 0
      BY <3>1, MoveToPlace
    <3>3. QED  BY <3>1, <3>2
  <2>5. pLast = Len(l.items) - 1
    <3> HIDE DEF at
    <3>1. QED  BY <1>1, <1>5, <2>4 DEF L!Shift
  <2> HIDE DEF items, at, pLast, later
  <2>6. n - 1 \in -1..Len(items) /\ n - 1 >= 0 /\ n \in Int /\ pLast \in Int /\ pLast = Len(items)
        /\ n = (IF n - 1 < Len(items) THEN (n - 1) + 1 ELSE 0)
    BY <1>1, <1>5, <2>3, <2>5
  <2>7. Sound([items |-> items, pCurrent |-> n, nCurrent |-> n - 1, pLast |-> pLast])
    BY <2>3, <2>6, Whole
  <2>8. Sound(later)
    BY <2>2, <2>4, <2>7
  <2>9. later.nCurrent = (IF n = 0 THEN 0 ELSE n - 1) /\ later.items = items /\ n \in 0..(Len(l.items) - 1)
    BY <1>1, <1>5, <2>2
  <2>10. QED  BY <2>1, <2>3, <2>8, <2>9 DEF gone
<1>6. \/ n < 0 \/ n >= Len(l.items)
      \/ n = 0 /\ Len(l.items) > 0
      \/ n \in 1..(Len(l.items) - 1)
  BY <1>1
<1>7. QED  BY <1>3, <1>4, <1>5, <1>6, Zenon

\* A list attached to another continues it, or becomes it when it has no node.
LEMMA AttachSound ==
    ASSUME NEW dst, Sound(dst), NEW src, Sound(src), Len(src.items) > 0,
           Len(dst.items) = 0 \/ dst.pCurrent # 0
    PROVE  /\ Sound(L!Attach(dst, src))
           /\ L!Attach(dst, src).items = dst.items \o src.items
           /\ L!Attach(dst, src).nCurrent = IF dst.items = <<>> THEN 0 ELSE dst.nCurrent
<1> DEFINE items == dst.items \o src.items
           both == L!Attach(dst, src)
<1>1. /\ src.items \in Seq(Data) /\ dst.items \in Seq(Data)
      /\ Len(src.items) \in Nat /\ Len(dst.items) \in Nat
      /\ L!Size(src) = Len(src.items) /\ L!Size(dst) = Len(dst.items)
      /\ src.pLast = Len(src.items) /\ src.pLast \in Int
  BY Parts
<1>2. CASE Len(dst.items) = 0
  <2>1. dst.items = <<>> /\ items = src.items
    <3>1. dst.items = <<>>
      BY <1>1, <1>2
    <3>2. <<>> \o src.items = src.items
      BY <1>1
    <3>3. QED  BY <3>1, <3>2, Zenon
  <2>2. both = [items |-> src.items, pCurrent |-> 1, nCurrent |-> 0, pLast |-> src.pLast]
    BY <1>1, <1>2 DEF L!Attach
  <2> HIDE DEF items, both
  <2>3. ASSUME NEW p \in Int, p = 1, NEW c \in Int, c = 0
        PROVE  Sound([items |-> src.items, pCurrent |-> p, nCurrent |-> c, pLast |-> src.pLast])
    <3>1. p = (IF c < Len(src.items) THEN c + 1 ELSE 0) /\ c \in -1..Len(src.items) /\ c >= 0
      BY <1>1, <2>3
    <3>2. QED  BY <1>1, <2>3, <3>1, Whole
  <2>4. 0 \in Int /\ 1 \in Int
    OBVIOUS
  <2>5. Sound(both)
    BY <2>2, <2>3, <2>4, Zenon
  <2>6. both.items = src.items /\ both.nCurrent = 0
    BY <2>2
  <2>7. QED  BY <2>1, <2>5, <2>6 DEF items, both
<1>3. CASE Len(dst.items) > 0
  <2>1. dst.items # <<>> /\ dst.nCurrent \in 0..(Len(dst.items) - 1) /\ dst.pCurrent = dst.nCurrent + 1
    BY <1>1, <1>3, Parts
  <2>2. both = [items |-> items, pCurrent |-> dst.pCurrent, nCurrent |-> dst.nCurrent,
                pLast |-> Len(dst.items) + Len(src.items)]
    <3>1. both = [items |-> items, pCurrent |-> dst.pCurrent, nCurrent |-> dst.nCurrent,
                  pLast |-> IF src.pLast = 0 THEN 0 ELSE L!Size(dst) + src.pLast]
      <4>1. L!Size(dst) # 0
        BY <1>1, <1>3
      <4> DEFINE q == IF src.pLast = 0 THEN 0 ELSE L!Size(dst) + src.pLast
                 none == [items |-> src.items, pCurrent |-> IF L!Size(src) = 0 THEN 0 ELSE 1,
                          nCurrent |-> 0, pLast |-> src.pLast]
                 some == [items |-> items, pCurrent |-> dst.pCurrent, nCurrent |-> dst.nCurrent, pLast |-> q]
      <4>2. both = IF L!Size(dst) = 0 THEN none ELSE some
        BY Zenon DEF L!Attach
      <4> HIDE DEF none, some, both
      <4>3. both = some
        BY <4>1, <4>2
      <4>4. QED  BY <4>3 DEF some
    <3> HIDE DEF items, both
    <3>2. (IF src.pLast = 0 THEN 0 ELSE L!Size(dst) + src.pLast) = Len(dst.items) + Len(src.items)
      <4>1. src.pLast # 0
        BY <1>1
      <4>2. QED  BY <1>1, <4>1, Zenon
    <3>3. QED  BY <3>1, <3>2
  <2>3. items \in Seq(Data) /\ Len(items) = Len(dst.items) + Len(src.items)
    BY <1>1
  <2> HIDE DEF items, both
  <2> DEFINE c == dst.nCurrent
             p == dst.pCurrent
             q == Len(dst.items) + Len(src.items)
  <2>4. c \in -1..Len(items) /\ c >= 0 /\ p \in Int /\ q \in Int /\ q = Len(items)
        /\ p = (IF c < Len(items) THEN c + 1 ELSE 0)
    <3>1. c \in Int /\ c >= 0 /\ c < Len(dst.items) /\ p = c + 1
      BY <1>1, <2>1
    <3> HIDE DEF c, p
    <3>2. q \in Int /\ c < q
      <4>1. \A x \in Int, y \in Nat, z \in Nat : x < y => y + z \in Int /\ x < y + z
        OBVIOUS
      <4>2. QED  BY <1>1, <3>1, <4>1, Zenon
    <3>3. Len(items) = q
      BY <2>3
    <3> HIDE DEF q
    <3>4. QED  BY <3>1, <3>2, <3>3
  <2>5. Sound([items |-> items, pCurrent |-> p, nCurrent |-> c, pLast |-> q])
    <3> HIDE DEF c, p, q
    <3>1. QED  BY <2>3, <2>4, Whole
  <2>6. both.items = items /\ both.nCurrent = dst.nCurrent
    BY <2>2
  <2>7. Sound(both)
    BY <2>2, <2>5
  <2>8. both.nCurrent = IF dst.items = <<>> THEN 0 ELSE dst.nCurrent
    BY <2>1, <2>6
  <2>9. QED  BY <2>6, <2>7, <2>8, Zenon DEF items, both
<1>4. Len(dst.items) = 0 \/ Len(dst.items) > 0
  BY <1>1
<1>5. QED  BY <1>2, <1>3, <1>4, Zenon

\* A list without nodes holds what was appended to it, its cursor on the last node.
LEMMA FilledSound ==
    ASSUME NEW l, Sound(l), Len(l.items) = 0, NEW s \in Seq(Data)
    PROVE  /\ Sound(L!Filled(l, s))
           /\ L!Filled(l, s).items = s
           /\ L!Filled(l, s).nCurrent = IF Len(s) = 0 THEN l.nCurrent ELSE Len(s) - 1
<1>1. CASE s = <<>>
  <2>1. l.items = <<>>
    BY Parts
  <2>2. QED  BY <1>1, <2>1 DEF L!Filled
<1>2. CASE s # <<>>
  <2> DEFINE p == Len(s)
             c == Len(s) - 1
  <2>1. L!Filled(l, s) = [items |-> s, pCurrent |-> p, nCurrent |-> c, pLast |-> p]
    BY <1>2 DEF L!Filled
  <2>2. c \in -1..Len(s) /\ c >= 0 /\ p \in Int /\ p = Len(s) /\ p > 0
        /\ p = (IF c < Len(s) THEN c + 1 ELSE 0)
    BY <1>2
  <2>3. Sound([items |-> s, pCurrent |-> p, nCurrent |-> c, pLast |-> p])
    <3> HIDE DEF c, p
    <3>1. QED  BY <2>2, Whole
  <2>4. L!Filled(l, s).items = s /\ L!Filled(l, s).nCurrent = Len(s) - 1
    BY <2>1
  <2>5. QED  BY <2>1, <2>2, <2>3, <2>4
<1>3. QED  BY <1>1, <1>2

\* A set of natural numbers has a least element (NatLessThanWellFounded).
LEMMA Least ==
    ASSUME NEW T \in SUBSET Nat, T # {}
    PROVE  \E x \in T : \A y \in T : x <= y
<1>1. \E x \in T : \A y \in T : ~(<<y, x>> \in OpToRel(<, Nat))
  BY NatLessThanWellFounded, WFMin
<1>2. ASSUME NEW x \in T, \A y \in T : ~(<<y, x>> \in OpToRel(<, Nat)) PROVE \A y \in T : x <= y
  <2>1. \A y \in T : ~(y < x)
    BY <1>2 DEF OpToRel
  <2>2. QED  BY <2>1
<1>3. QED  BY <1>1, <1>2

\* A copy is all of its source or, with an error, what comes before a datum the
\* callback refused.
LEMMA DuplicateAnswers ==
    ASSUME NEW dst, Sound(dst), NEW src, Sound(src), NEW refused
    PROVE  /\ Sound(L!Duplicate(dst, src, refused).list)
           /\ \/ dst.items # <<>> /\ L!Duplicate(dst, src, refused) = L!Answer(dst, "NOT_EMPTY")
              \/ src.items = <<>> /\ L!Duplicate(dst, src, refused) = L!Answer(dst, "NO_DATA")
              \/ /\ dst.items = <<>>
                 /\ \E n \in 0..Len(src.items) :
                       /\ L!Duplicate(dst, src, refused).list.items = SubSeq(src.items, 1, n)
                       /\ L!Duplicate(dst, src, refused).list.nCurrent
                             = IF n = 0 THEN dst.nCurrent ELSE n - 1
                       /\ L!Duplicate(dst, src, refused).result
                             = IF n = Len(src.items) THEN "NOERROR" ELSE "CALLBACK"
<1> DEFINE bad == {i \in 1..L!Size(src) : src.items[i] \in refused}
           first == CHOOSE i \in bad : \A j \in bad : i <= j
           copied == IF bad = {} THEN src.items ELSE SubSeq(src.items, 1, first - 1)
           copy == L!Duplicate(dst, src, refused)
           filled == L!Filled(dst, copied)
           reason == IF bad = {} THEN "NOERROR" ELSE "CALLBACK"
<1>1. /\ src.items \in Seq(Data) /\ dst.items \in Seq(Data)
      /\ Len(src.items) \in Nat /\ Len(dst.items) \in Nat
      /\ L!Size(src) = Len(src.items) /\ L!Size(dst) = Len(dst.items)
  BY Parts
<1>2. copy = IF L!Size(dst) > 0 THEN L!Answer(dst, "NOT_EMPTY")
             ELSE IF L!Size(src) = 0 THEN L!Answer(dst, "NO_DATA")
             ELSE L!Answer(filled, reason)
  BY DEF L!Duplicate
<1>3. \E n \in 0..Len(src.items) : /\ copied = SubSeq(src.items, 1, n)
                                   /\ reason = IF n = Len(src.items) THEN "NOERROR" ELSE "CALLBACK"
  <2>1. CASE bad = {}
    <3>1. SubSeq(src.items, 1, Len(src.items)) = src.items
      BY <1>1
    <3>2. QED  BY <1>1, <2>1, <3>1
  <2>2. CASE bad # {}
    <3>1. first \in bad
      <4>1. bad \in SUBSET Nat
        BY <1>1
      <4>2. QED  BY <2>2, <4>1, Least
    <3>2. first \in 1..Len(src.items)
      BY <1>1, <3>1
    <3> HIDE DEF first
    <3>3. copied = SubSeq(src.items, 1, first - 1) /\ reason = "CALLBACK"
      BY <2>2
    <3>4. first - 1 \in 0..Len(src.items) /\ first - 1 # Len(src.items)
      BY <1>1, <3>2
    <3>5. QED  BY <3>3, <3>4
  <2>3. QED  BY <2>1, <2>2
<1> HIDE DEF copied, reason, copy, filled
<1>4. PICK n \in 0..Len(src.items) : /\ copied = SubSeq(src.items, 1, n)
                                     /\ reason = IF n = Len(src.items) THEN "NOERROR" ELSE "CALLBACK"
  BY <1>3
<1>5. copied \in Seq(Data) /\ Len(copied) = n
  BY <1>1, <1>4
<1>6. CASE Len(dst.items) > 0
  <2>1. copy = L!Answer(dst, "NOT_EMPTY") /\ dst.items # <<>>
    BY <1>1, <1>2, <1>6
  <2>2. QED  BY <2>1 DEF L!Answer, copy
<1>7. CASE Len(dst.items) = 0 /\ Len(src.items) = 0
  <2>1. copy = L!Answer(dst, "NO_DATA") /\ src.items = <<>>
    BY <1>1, <1>2, <1>7
  <2>2. QED  BY <2>1 DEF L!Answer, copy
<1>8. CASE Len(dst.items) = 0 /\ Len(src.items) > 0
  <2>1. copy.list = filled /\ copy.result = reason /\ dst.items = <<>>
    BY <1>1, <1>2, <1>8 DEF L!Answer
  <2>2. Sound(filled) /\ filled.items = copied /\ filled.nCurrent = IF Len(copied) = 0 THEN dst.nCurrent ELSE Len(copied) - 1
    BY <1>5, <1>8, FilledSound DEF filled
  <2>3. QED  BY <1>4, <1>5, <2>1, <2>2 DEF copy
<1>9. Len(dst.items) > 0 \/ (Len(dst.items) = 0 /\ Len(src.items) = 0) \/ (Len(dst.items) = 0 /\ Len(src.items) > 0)
  BY <1>1
<1>10. QED  BY <1>6, <1>7, <1>8, <1>9, Zenon

-----------------------------------------------------------------------------
(* The steps *)

IInv == list \in [Handles -> Lists] /\ \A h \in Handles : Sound(list[h])

\* What a list of a handle becomes is what its sequence and its cursor become.
LEMMA Replaced ==
    ASSUME IInv, NEW h \in Handles, NEW l, Sound(l), list' = [list EXCEPT ![h] = l]
    PROVE  IInv' /\ Chains!Become(h, l.items, l.nCurrent)
<1>1. l \in Lists
  BY DEF Sound
<1>2. IInv'
  <2>1. list' \in [Handles -> Lists]
    BY <1>1 DEF IInv
  <2>2. ASSUME NEW g \in Handles PROVE Sound(list'[g])
    <3>1. CASE g = h
      BY <3>1 DEF IInv
    <3>2. CASE g # h
      BY <3>2 DEF IInv
    <3>3. QED  BY <3>1, <3>2
  <2>3. (\A g \in Handles : Sound(list[g]))' <=> \A g \in Handles : Sound(list'[g])
    BY DEF Sound, Lists
  <2>4. QED  BY <2>1, <2>2, <2>3 DEF IInv
<1>3. [g \in Handles |-> list'[g].items] = [[g \in Handles |-> list[g].items] EXCEPT ![h] = l.items]
  BY DEF IInv
<1>4. [g \in Handles |-> list'[g].nCurrent] = [[g \in Handles |-> list[g].nCurrent] EXCEPT ![h] = l.nCurrent]
  BY DEF IInv
<1>5. QED  BY <1>2, <1>3, <1>4 DEF Chains!Become

Simulated == Chains!Next \/ UNCHANGED Chains!vars

LEMMA SameList ==
    ASSUME IInv, NEW h \in Handles, list' = [list EXCEPT ![h] = list[h]]
    PROVE  list' = list
BY DEF IInv

\* An error that leaves the list is a failure, whatever made it fail.
LEMMA Fails ==
    ASSUME IInv, NEW h \in Handles, list' = [list EXCEPT ![h] = list[h]], got' = <<>>,
           \/ result' = "INVALID_PARAM"
           \/ result' = "NO_DATA"   /\ \E g \in Handles : list[g].items = <<>>
           \/ result' = "NOT_EMPTY" /\ list[h].items # <<>>
    PROVE  IInv' /\ Simulated
<1>1. list' = list
  BY SameList
<1>2. IInv'
  BY <1>1 DEF IInv, Sound, Lists
<1>3. Chains!Fail(h)
  BY <1>1 DEF Chains!Fail
<1>4. QED  BY <1>2, <1>3 DEF Simulated, Chains!Next

LEMMA SeekSimulates ==
    ASSUME IInv, NEW h \in Handles, NEW off \in L!Offsets, NEW i \in Int, Seek(h, off, i)
    PROVE  IInv' /\ Simulated
<1>1. Sound(list[h]) /\ got' = <<>>
  BY DEF IInv, Seek, Return
<1>2. CASE L!Seek(list[h], off, i) = L!Answer(list[h], "INVALID_PARAM")
  <2>1. list' = [list EXCEPT ![h] = list[h]] /\ result' = "INVALID_PARAM"
    BY <1>2 DEF Seek, Return, L!Answer
  <2>2. QED  BY <1>1, <2>1, Fails
<1>3. CASE Len(list[h].items) = 0 /\ L!Seek(list[h], off, i) = L!Answer(list[h], "NO_DATA")
  <2>1. list[h].items = <<>>
    BY <1>1, <1>3, Parts
  <2>2. list' = [list EXCEPT ![h] = list[h]] /\ result' = "NO_DATA"
    BY <1>3 DEF Seek, Return, L!Answer
  <2>3. QED  BY <1>1, <2>1, <2>2, Fails
<1>4. ASSUME Len(list[h].items) > 0, NEW n \in 0..Len(list[h].items),
             L!Seek(list[h], off, i) = L!Answer(L!MoveTo(list[h], n), "NOERROR")
      PROVE  IInv' /\ Simulated
  <2>1. list' = [list EXCEPT ![h] = L!MoveTo(list[h], n)] /\ result' = "NOERROR"
    BY <1>4 DEF Seek, Return, L!Answer
  <2>2. Sound(L!MoveTo(list[h], n))
    BY <1>1, <1>4, MoveToPlace
  <2>3. L!MoveTo(list[h], n).items = list[h].items /\ L!MoveTo(list[h], n).nCurrent = n
    BY <1>1, <1>4, MoveToPlace
  <2>4. IInv' /\ Chains!Become(h, list[h].items, n)
    BY <2>1, <2>2, <2>3, Replaced
  <2>5. Chains!SeekPlace(h, n)
    BY <1>1, <1>4, <2>1, <2>4 DEF Chains!SeekPlace
  <2>6. QED  BY <1>4, <2>4, <2>5 DEF Simulated, Chains!Next
<1>5. QED  BY <1>1, <1>2, <1>3, <1>4, SeekAnswers

\* A Get or a Set of the place behind the last node fails with the cursor there.
LEMMA FailsAtTheEnd ==
    ASSUME IInv, NEW h \in Handles, Len(list[h].items) > 0,
           list' = [list EXCEPT ![h] = L!MoveTo(list[h], Len(list[h].items))],
           result' = "INVALID_PARAM", got' = <<>>
    PROVE  IInv' /\ Simulated
<1> DEFINE n == Len(list[h].items)
<1>1. Sound(list[h]) /\ n \in 0..n
  <2>1. Sound(list[h])
    BY DEF IInv
  <2>2. QED  BY <2>1, Parts
<1>2. /\ Sound(L!MoveTo(list[h], n))
      /\ L!MoveTo(list[h], n).items = list[h].items /\ L!MoveTo(list[h], n).nCurrent = n
  BY <1>1, MoveToPlace
<1>3. IInv' /\ Chains!Become(h, list[h].items, n)
  <2> DEFINE moved == L!MoveTo(list[h], n)
  <2>1. Sound(moved) /\ moved.items = list[h].items /\ moved.nCurrent = n /\ list' = [list EXCEPT ![h] = moved]
    BY <1>2
  <2> HIDE DEF moved, n
  <2>2. PICK l : l = moved
    OBVIOUS
  <2>3. IInv' /\ Chains!Become(h, l.items, l.nCurrent)
    BY <2>1, <2>2, Replaced
  <2>4. QED  BY <2>1, <2>2, <2>3 DEF n, Chains!Become
<1>4. Chains!Fail(h)
  <2>1. [[g \in Handles |-> list[g].items] EXCEPT ![h] = list[h].items] = [g \in Handles |-> list[g].items]
    OBVIOUS
  <2>2. QED  BY <1>3, <2>1 DEF Chains!Fail, Chains!Become
<1>5. QED  BY <1>3, <1>4 DEF Simulated, Chains!Next

LEMMA GetSimulates ==
    ASSUME IInv, NEW h \in Handles, NEW off \in L!Offsets, NEW i \in Int, Get(h, off, i)
    PROVE  IInv' /\ Simulated
<1> DEFINE found == L!Find(list[h], off, i)
           data == IF found.result = "NOERROR" THEN <<found.list.items[found.list.pCurrent]>> ELSE <<>>
<1>1. Sound(list[h])
  BY DEF IInv
<1>2. list' = [list EXCEPT ![h] = found.list] /\ result' = found.result /\ got' = data
  BY DEF Get, L!Get
<1> HIDE DEF found
<1>3. CASE found = L!Answer(list[h], "INVALID_PARAM")
  <2>1. list' = [list EXCEPT ![h] = list[h]] /\ result' = "INVALID_PARAM" /\ got' = <<>>
    BY <1>2, <1>3 DEF L!Answer
  <2>2. QED  BY <2>1, Fails
<1>4. CASE Len(list[h].items) = 0 /\ found = L!Answer(list[h], "NO_DATA")
  <2>1. list[h].items = <<>>
    BY <1>1, <1>4, Parts
  <2>2. list' = [list EXCEPT ![h] = list[h]] /\ result' = "NO_DATA" /\ got' = <<>>
    BY <1>2, <1>4 DEF L!Answer
  <2>3. QED  BY <2>1, <2>2, Fails
<1>5. CASE /\ Len(list[h].items) > 0
           /\ found = L!Answer(L!MoveTo(list[h], Len(list[h].items)), "INVALID_PARAM")
  <2>1. list' = [list EXCEPT ![h] = L!MoveTo(list[h], Len(list[h].items))]
        /\ result' = "INVALID_PARAM" /\ got' = <<>>
    BY <1>2, <1>5 DEF L!Answer
  <2>2. QED  BY <1>5, <2>1, FailsAtTheEnd
<1>6. ASSUME NEW n \in 0..(Len(list[h].items) - 1), found = L!Answer(L!MoveTo(list[h], n), "NOERROR")
      PROVE  IInv' /\ Simulated
  <2> DEFINE moved == L!MoveTo(list[h], n)
  <2>1. Len(list[h].items) \in Nat /\ n \in 0..Len(list[h].items) /\ Len(list[h].items) > 0 /\ n < Len(list[h].items)
    BY <1>1, Parts
  <2>2. Sound(moved) /\ moved.items = list[h].items /\ moved.nCurrent = n
        /\ moved.pCurrent = IF n < Len(list[h].items) THEN n + 1 ELSE 0
    BY <1>1, <2>1, MoveToPlace
  <2> HIDE DEF moved
  <2>3. found.list = moved /\ found.result = "NOERROR" /\ moved.pCurrent = n + 1
    BY <1>6, <2>1, <2>2 DEF L!Answer, moved
  <2>4. list' = [list EXCEPT ![h] = moved] /\ result' = "NOERROR" /\ got' = <<list[h].items[n + 1]>>
    BY <1>2, <2>2, <2>3
  <2>5. IInv' /\ Chains!Become(h, list[h].items, n)
    BY <2>2, <2>4, Replaced
  <2>6. Chains!GetPlace(h, n)
    BY <2>4, <2>5 DEF Chains!GetPlace
  <2>7. QED  BY <2>1, <2>5, <2>6 DEF Simulated, Chains!Next
<1>7. QED  BY <1>1, <1>3, <1>4, <1>5, <1>6, FindAnswers DEF found

LEMMA SetSimulates ==
    ASSUME IInv, NEW h \in Handles, NEW off \in L!Offsets, NEW i \in Int, NEW d \in Data, Set(h, off, i, d)
    PROVE  IInv' /\ Simulated
<1> DEFINE found == L!Find(list[h], off, i)
           made == [found.list EXCEPT !.items[found.list.pCurrent] = d]
           answer == IF found.result = "NOERROR" THEN L!Answer(made, "NOERROR") ELSE found
<1>1. Sound(list[h])
  BY DEF IInv
<1>2. list' = [list EXCEPT ![h] = answer.list] /\ result' = answer.result /\ got' = <<>>
  <2>1. L!Set(list[h], off, i, d) = answer
    BY DEF L!Set, L!Answer
  <2> HIDE DEF answer
  <2>2. QED  BY <2>1 DEF Set, Return
<1> HIDE DEF found, made
<1>3. CASE found = L!Answer(list[h], "INVALID_PARAM")
  <2>1. list' = [list EXCEPT ![h] = list[h]] /\ result' = "INVALID_PARAM"
    BY <1>2, <1>3 DEF L!Answer
  <2>2. QED  BY <1>2, <2>1, Fails
<1>4. CASE Len(list[h].items) = 0 /\ found = L!Answer(list[h], "NO_DATA")
  <2>1. list[h].items = <<>>
    BY <1>1, <1>4, Parts
  <2>2. list' = [list EXCEPT ![h] = list[h]] /\ result' = "NO_DATA"
    BY <1>2, <1>4 DEF L!Answer
  <2>3. QED  BY <1>2, <2>1, <2>2, Fails
<1>5. CASE /\ Len(list[h].items) > 0
           /\ found = L!Answer(L!MoveTo(list[h], Len(list[h].items)), "INVALID_PARAM")
  <2>1. list' = [list EXCEPT ![h] = L!MoveTo(list[h], Len(list[h].items))] /\ result' = "INVALID_PARAM"
    BY <1>2, <1>5 DEF L!Answer
  <2>2. QED  BY <1>2, <1>5, <2>1, FailsAtTheEnd
<1>6. ASSUME NEW n \in 0..(Len(list[h].items) - 1), found = L!Answer(L!MoveTo(list[h], n), "NOERROR")
      PROVE  IInv' /\ Simulated
  <2>1. Len(list[h].items) \in Nat /\ n \in 0..Len(list[h].items)
    BY <1>1, Parts
  <2>2. found.list = L!MoveTo(list[h], n) /\ found.result = "NOERROR"
    BY <1>6 DEF L!Answer
  <2>3. Sound(made) /\ made.items = [list[h].items EXCEPT ![n + 1] = d] /\ made.nCurrent = n
    <3>1. PICK moved : moved = found.list
      OBVIOUS
    <3>2. moved = L!MoveTo(list[h], n)
      BY <2>2, <3>1
    <3>3. PICK l : l = list[h]
      OBVIOUS
    <3>4. /\ Sound([moved EXCEPT !.items[moved.pCurrent] = d])
          /\ [moved EXCEPT !.items[moved.pCurrent] = d].items = [l.items EXCEPT ![n + 1] = d]
          /\ [moved EXCEPT !.items[moved.pCurrent] = d].nCurrent = n
      BY <1>1, <3>2, <3>3, SetAt
    <3>5. made = [moved EXCEPT !.items[moved.pCurrent] = d]
      BY <3>1, Zenon DEF made
    <3>6. QED  BY <3>3, <3>4, <3>5
  <2>4. list' = [list EXCEPT ![h] = made] /\ result' = "NOERROR"
    BY <1>2, <2>2 DEF L!Answer
  <2>5. IInv' /\ Chains!Become(h, [list[h].items EXCEPT ![n + 1] = d], n)
    BY <2>3, <2>4, Replaced
  <2>6. Chains!SetPlace(h, n, d)
    BY <1>2, <2>4, <2>5 DEF Chains!SetPlace
  <2>7. QED  BY <2>1, <2>5, <2>6 DEF Simulated, Chains!Next
<1>7. QED  BY <1>1, <1>3, <1>4, <1>5, <1>6, FindAnswers DEF found

LEMMA AddSimulates ==
    ASSUME IInv, NEW h \in Handles, NEW off \in L!Offsets, NEW i \in Int, NEW d \in Data, Add(h, off, i, d)
    PROVE  IInv' /\ Simulated
<1> DEFINE answer == L!Add(list[h], off, i, d)
<1>1. Sound(list[h])
  BY DEF IInv
<1>2. list' = [list EXCEPT ![h] = answer.list] /\ result' = answer.result /\ got' = <<>>
  BY DEF Add, Return
<1>3. /\ Sound(answer.list)
      /\ \/ answer = L!Answer(list[h], "INVALID_PARAM")
         \/ /\ answer.result = "NOERROR"
            /\ \E n \in 0..Len(list[h].items) :
                  /\ answer.list.nCurrent = n
                  /\ answer.list.items
                        = SubSeq(list[h].items, 1, n) \o <<d>> \o SubSeq(list[h].items, n + 1, Len(list[h].items))
  BY <1>1, AddAnswers
<1> HIDE DEF answer
<1>4. CASE answer = L!Answer(list[h], "INVALID_PARAM")
  <2>1. list' = [list EXCEPT ![h] = list[h]] /\ result' = "INVALID_PARAM"
    BY <1>2, <1>4 DEF L!Answer
  <2>2. QED  BY <1>2, <2>1, Fails
<1>5. ASSUME answer.result = "NOERROR", NEW n \in 0..Len(list[h].items), answer.list.nCurrent = n,
             answer.list.items = SubSeq(list[h].items, 1, n) \o <<d>> \o SubSeq(list[h].items, n + 1, Len(list[h].items))
      PROVE  IInv' /\ Simulated
  <2>p. PICK l : l = answer.list
    OBVIOUS
  <2>1. IInv' /\ Chains!Become(h, l.items, l.nCurrent)
    BY <1>2, <1>3, <2>p, Replaced
  <2>2. Chains!InsertAtPlace(h, n, d)
    BY <1>2, <1>5, <2>p, <2>1 DEF Chains!InsertAtPlace
  <2>3. QED  BY <2>1, <2>2 DEF Simulated, Chains!Next
<1>6. QED  BY <1>3, <1>4, <1>5

LEMMA RemoveSimulates ==
    ASSUME IInv, NEW h \in Handles, NEW off \in L!Offsets, NEW i \in Int, Remove(h, off, i)
    PROVE  IInv' /\ Simulated
<1> DEFINE answer == L!Remove(list[h], off, i)
<1>1. Sound(list[h])
  BY DEF IInv
<1>2. list' = [list EXCEPT ![h] = answer.list] /\ result' = answer.result /\ got' = <<>>
  BY DEF Remove, Return
<1>3. Sound(answer.list)
  BY <1>1, RemoveAnswers
<1> HIDE DEF answer
<1>4. CASE answer = L!Answer(list[h], "INVALID_PARAM")
  <2>1. list' = [list EXCEPT ![h] = list[h]] /\ result' = "INVALID_PARAM"
    BY <1>2, <1>4 DEF L!Answer
  <2>2. QED  BY <1>2, <2>1, Fails
<1>5. ASSUME answer.result = "NOERROR", NEW n \in 0..(Len(list[h].items) - 1),
             answer.list.nCurrent = (IF n = 0 THEN 0 ELSE n - 1),
             answer.list.items = SubSeq(list[h].items, 1, n) \o SubSeq(list[h].items, n + 2, Len(list[h].items))
      PROVE  IInv' /\ Simulated
  <2>p. PICK l : l = answer.list
    OBVIOUS
  <2>1. IInv' /\ Chains!Become(h, l.items, l.nCurrent)
    BY <1>2, <1>3, <2>p, Replaced
  <2>2. Chains!RemovePlace(h, n)
    BY <1>2, <1>5, <2>p, <2>1 DEF Chains!RemovePlace
  <2>3. n \in 0..Len(list[h].items)
    BY <1>1, Parts
  <2>4. QED  BY <2>1, <2>2, <2>3 DEF Simulated, Chains!Next
<1>6. QED  BY <1>1, <1>4, <1>5, RemoveAnswers DEF answer

LEMMA AttachSimulates ==
    ASSUME IInv, NEW dst \in Handles, NEW src \in Handles, Attach(dst, src)
    PROVE  IInv' /\ Simulated
<1>1. Sound(list[dst]) /\ Sound(list[src]) /\ dst # src /\ result' = "NOERROR" /\ got' = <<>>
  BY DEF IInv, Attach
<1>2. Len(list[src].items) > 0 /\ (Len(list[dst].items) = 0 \/ list[dst].pCurrent # 0)
  <2>1. L!Size(list[src]) = Len(list[src].items) /\ L!Size(list[dst]) = Len(list[dst].items)
    BY <1>1, Parts
  <2>2. QED  BY <2>1 DEF Attach
<1>3. PICK both : both = L!Attach(list[dst], list[src])
  OBVIOUS
<1>4. /\ Sound(both)
      /\ both.items = list[dst].items \o list[src].items
      /\ both.nCurrent = IF list[dst].items = <<>> THEN 0 ELSE list[dst].nCurrent
  BY <1>1, <1>2, <1>3, AttachSound
<1>5. list' = [list EXCEPT ![dst] = both, ![src] = L!Create]
  BY <1>3 DEF Attach
<1>6. /\ Sound(L!Create) /\ both \in Lists /\ L!Create \in Lists
      /\ L!Create.items = <<>> /\ L!Create.nCurrent = -1
  BY <1>4, CreateSound DEF Sound, L!Create, L!CURRENT_NOT_SET
<1>7. \A g \in Handles : list'[g] = IF g = src THEN L!Create ELSE IF g = dst THEN both ELSE list[g]
  BY <1>1, <1>5, <1>6 DEF IInv
<1>8. IInv'
  <2>1. list' \in [Handles -> Lists]
    BY <1>5, <1>6 DEF IInv
  <2>2. \A g \in Handles : Sound(list'[g])
    BY <1>4, <1>6, <1>7 DEF IInv
  <2>3. (\A g \in Handles : Sound(list[g]))' <=> \A g \in Handles : Sound(list'[g])
    BY DEF Sound, Lists
  <2>4. QED  BY <2>1, <2>2, <2>3 DEF IInv
<1>9. Chains!Concatenate(dst, src)
  <2> DEFINE seqs == [g \in Handles |-> list[g].items]
             cursor == [g \in Handles |-> list[g].nCurrent]
  <2>1. [g \in Handles |-> list'[g].items] = [seqs EXCEPT ![dst] = seqs[dst] \o seqs[src], ![src] = <<>>]
    BY <1>1, <1>4, <1>6, <1>7
  <2>2. [g \in Handles |-> list'[g].nCurrent]
        = [cursor EXCEPT ![dst] = IF seqs[dst] = <<>> THEN 0 ELSE @, ![src] = -1]
    BY <1>1, <1>4, <1>6, <1>7
  <2>3. QED  BY <1>1, <2>1, <2>2 DEF Chains!Concatenate
<1>10. QED  BY <1>8, <1>9 DEF Simulated, Chains!Next

LEMMA DuplicateSimulates ==
    ASSUME IInv, NEW dst \in Handles, NEW src \in Handles, NEW refused, Duplicate(dst, src, refused)
    PROVE  IInv' /\ Simulated
<1> DEFINE answer == L!Duplicate(list[dst], list[src], refused)
<1>1. Sound(list[dst]) /\ Sound(list[src])
  BY DEF IInv
<1>2. list' = [list EXCEPT ![dst] = answer.list] /\ result' = answer.result /\ got' = <<>>
  BY DEF Duplicate, Return
<1>3. /\ Sound(answer.list)
      /\ \/ list[dst].items # <<>> /\ answer = L!Answer(list[dst], "NOT_EMPTY")
         \/ list[src].items = <<>> /\ answer = L!Answer(list[dst], "NO_DATA")
         \/ /\ list[dst].items = <<>>
            /\ \E n \in 0..Len(list[src].items) :
                  /\ answer.list.items = SubSeq(list[src].items, 1, n)
                  /\ answer.list.nCurrent = IF n = 0 THEN list[dst].nCurrent ELSE n - 1
                  /\ answer.result = IF n = Len(list[src].items) THEN "NOERROR" ELSE "CALLBACK"
  <2>1. ASSUME NEW d, d = list[dst], NEW s, s = list[src]
        PROVE  LET copy == L!Duplicate(d, s, refused)
               IN /\ Sound(copy.list)
                  /\ \/ d.items # <<>> /\ copy = L!Answer(d, "NOT_EMPTY")
                     \/ s.items = <<>> /\ copy = L!Answer(d, "NO_DATA")
                     \/ /\ d.items = <<>>
                        /\ \E n \in 0..Len(s.items) :
                              /\ copy.list.items = SubSeq(s.items, 1, n)
                              /\ copy.list.nCurrent = IF n = 0 THEN d.nCurrent ELSE n - 1
                              /\ copy.result = IF n = Len(s.items) THEN "NOERROR" ELSE "CALLBACK"
    <3>1. Sound(d) /\ Sound(s)
      BY <1>1, <2>1
    <3>2. QED  BY <3>1, DuplicateAnswers
  <2>2. QED  BY <2>1, Zenon
<1> HIDE DEF answer
<1>4. CASE list[dst].items # <<>> /\ answer = L!Answer(list[dst], "NOT_EMPTY")
  <2>1. list' = [list EXCEPT ![dst] = list[dst]] /\ result' = "NOT_EMPTY"
    BY <1>2, <1>4 DEF L!Answer
  <2>2. QED  BY <1>2, <1>4, <2>1, Fails
<1>5. CASE list[src].items = <<>> /\ answer = L!Answer(list[dst], "NO_DATA")
  <2>1. list' = [list EXCEPT ![dst] = list[dst]] /\ result' = "NO_DATA"
    BY <1>2, <1>5 DEF L!Answer
  <2>2. QED  BY <1>2, <1>5, <2>1, Fails
<1>6. ASSUME list[dst].items = <<>>, NEW n \in 0..Len(list[src].items),
             answer.list.items = SubSeq(list[src].items, 1, n),
             answer.list.nCurrent = IF n = 0 THEN list[dst].nCurrent ELSE n - 1,
             answer.result = IF n = Len(list[src].items) THEN "NOERROR" ELSE "CALLBACK"
      PROVE  IInv' /\ Simulated
  <2>1. PICK l : l = answer.list
    OBVIOUS
  <2>2. IInv' /\ Chains!Become(dst, l.items, l.nCurrent)
    BY <1>2, <1>3, <2>1, Replaced
  <2>3. l.items = SubSeq(list[src].items, 1, n) /\ l.nCurrent = IF n = 0 THEN list[dst].nCurrent ELSE n - 1
    BY <1>6, <2>1
  <2>4. Chains!Copy(dst, src)
    BY <1>2, <1>6, <2>2, <2>3 DEF Chains!Copy, Chains!Become
  <2>5. QED  BY <2>2, <2>4 DEF Simulated, Chains!Next
<1>7. QED  BY <1>3, <1>4, <1>5, <1>6

LEMMA DestroySimulates ==
    ASSUME IInv, NEW h \in Handles, Destroy(h)
    PROVE  IInv' /\ Simulated
<1>1. PICK l : l = L!Create
  OBVIOUS
<1>2. list' = [list EXCEPT ![h] = l] /\ result' = "NOERROR" /\ got' = <<>>
  BY <1>1 DEF Destroy, Return
<1>3. Sound(l) /\ l.items = <<>> /\ l.nCurrent = -1
  BY <1>1, CreateSound DEF L!Create, L!CURRENT_NOT_SET
<1>4. IInv' /\ Chains!Become(h, l.items, l.nCurrent)
  BY <1>2, <1>3, Replaced
<1>5. Chains!Renew(h)
  BY <1>2, <1>3, <1>4 DEF Chains!Renew, Chains!Become
<1>6. QED  BY <1>4, <1>5 DEF Simulated, Chains!Next

-----------------------------------------------------------------------------
(* The theorems *)

LEMMA InitImplied == ASSUME Init PROVE IInv /\ Chains!Init
<1>1. L!Create \in Lists /\ L!Create.items = <<>> /\ L!Create.nCurrent = -1
  BY CreateSound DEF Sound, L!Create, L!CURRENT_NOT_SET
<1>2. IInv
  BY <1>1, CreateSound DEF Init, IInv
<1>3. QED  BY <1>1, <1>2 DEF Init, Chains!Init

LEMMA StepSimulates == ASSUME IInv, [Next]_vars PROVE IInv' /\ Simulated
<1>i. \A i \in Indices : i \in Int
  BY DEF Indices
<1>1. ASSUME NEW h \in Handles, NEW off \in L!Offsets, NEW i \in Indices,
             Seek(h, off, i) \/ Get(h, off, i) \/ Remove(h, off, i)
      PROVE  IInv' /\ Simulated
  BY <1>1, <1>i, SeekSimulates, GetSimulates, RemoveSimulates
<1>2. ASSUME NEW h \in Handles, NEW off \in L!Offsets, NEW i \in Indices, NEW d \in Data,
             Add(h, off, i, d) \/ Set(h, off, i, d)
      PROVE  IInv' /\ Simulated
  BY <1>2, <1>i, AddSimulates, SetSimulates
<1>3. ASSUME NEW h \in Handles, NEW g \in Handles, Attach(h, g) \/ \E d \in Data : Duplicate(h, g, {d})
      PROVE  IInv' /\ Simulated
  BY <1>3, AttachSimulates, DuplicateSimulates
<1>4. ASSUME NEW h \in Handles, Destroy(h) PROVE IInv' /\ Simulated
  BY <1>4, DestroySimulates
<1>5. CASE UNCHANGED vars
  BY <1>5 DEF vars, IInv, Sound, Lists, Simulated, Chains!vars
<1>6. QED  BY <1>1, <1>2, <1>3, <1>4, <1>5 DEF Next

\* In every reachable state of every list the cursor and the last pointer, which
\* the functions keep beside the chain without walking it, are on the nodes the
\* counters say.
THEOREM PointersDesignateNodes == Spec => []PointersOnNodes
<1>1. Init => IInv
  BY InitImplied
<1>2. IInv /\ [Next]_vars => IInv'
  BY StepSimulates
<1>3. IInv => PointersOnNodes
  BY Parts DEF IInv, PointersOnNodes
<1>4. QED  BY <1>1, <1>2, <1>3, PTL DEF Spec

\* Whatever calls are made on the lists, in any order, each chain is the sequence
\* of data its callers built, each error is one the sequences explain and each
\* Get answers the datum at its place.
THEOREM ListsAreSequences == Spec => ImplementsSequences
<1>1. Init => IInv /\ Chains!Init
  BY InitImplied
<1>2. IInv /\ [Next]_vars => IInv' /\ [Chains!Next]_(Chains!vars)
  BY StepSimulates DEF Simulated
<1>3. QED  BY <1>1, <1>2, PTL DEF Spec, ImplementsSequences, Chains!Spec

=============================================================================
