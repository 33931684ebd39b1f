------------------------------- MODULE HashOps -------------------------------
(***************************************************************************)
(* The functions of CAPHash.c as operators on a hash value: a linked list  *)
(* of [key, data] nodes for each bucket.  Which bucket a key falls into is *)
(* the parameter BucketOf, so what holds here holds for any hash function. *)
(***************************************************************************)
EXTENDS Integers, Sequences, FiniteSets

CONSTANTS nBucketSize, BucketOf(_)

L == INSTANCE LinkedListOps

SeqExt == INSTANCE SequencesExt

Create == [b \in 0..(nBucketSize - 1) |-> L!Create]

Answer(hash, result) == [hash |-> hash, result |-> result]

\* Where findKey stops, 0 when the key is not in its bucket.
FindKey(hash, key) ==
    LET bucket == hash[BucketOf(key)]
    IN L!Traverse(bucket, {node \in SeqExt!ToSet(bucket.items) : node.key = key})

AddKey(hash, key, data) ==
    IF key = <<>> THEN Answer(hash, "INVALID_PARAM")
    ELSE IF FindKey(hash, key) # 0 THEN Answer(hash, "DUPLICATED")
    ELSE Answer([hash EXCEPT ![BucketOf(key)] = L!Append1(@, [key |-> key, data |-> data])], "NOERROR")

\* The node is sought with Get, which moves the bucket's cursor, then removed.  A
\* key that is not there is no error; a callback that refuses keeps the node.
DeleteKey(hash, key, isRefused) ==
    LET b     == BucketOf(key)
        place == FindKey(hash, key) - 1
        found == L!Get(hash[b], "FIRST", place).list
    IN IF key = <<>> THEN Answer(hash, "INVALID_PARAM")
       ELSE IF place < 0 THEN Answer(hash, "NOERROR")
       ELSE IF isRefused THEN Answer([hash EXCEPT ![b] = found], "CALLBACK")
       ELSE Answer([hash EXCEPT ![b] = L!Remove(found, "FIRST", place).list], "NOERROR")

\* A mutant: the first node of the bucket is taken for the key's.
GetDataByKeyFirst(hash, key) ==
    LET got == L!Get(hash[BucketOf(key)], "FIRST", 0) IN
    IF key = <<>> THEN [hash |-> hash, result |-> "INVALID_PARAM", data |-> <<>>]
    ELSE IF FindKey(hash, key) = 0 THEN [hash |-> hash, result |-> "NOT_FOUND", data |-> <<>>]
    ELSE [hash |-> [hash EXCEPT ![BucketOf(key)] = got.list], result |-> "NOERROR", data |-> <<got.data[1].data>>]

GetDataByKey(hash, key) ==
    LET place == FindKey(hash, key)
        got   == L!Get(hash[BucketOf(key)], "FIRST", place - 1)
    IN IF key = <<>> THEN [hash |-> hash, result |-> "INVALID_PARAM", data |-> <<>>]
       ELSE IF place = 0 THEN [hash |-> hash, result |-> "NOT_FOUND", data |-> <<>>]
       ELSE [hash   |-> [hash EXCEPT ![BucketOf(key)] = got.list],
             result |-> "NOERROR", data |-> <<got.data[1].data>>]

\* The nodes in the order CAPHash_Traverse visits them.
Items(hash) ==
    SeqExt!FlattenSeq([b \in 1..nBucketSize |-> hash[b - 1].items])

GetNumberOfItems(hash) == Len(Items(hash))

\* Every bucket is emptied from its first node on.
RemoveAll(hash) ==
    [b \in DOMAIN hash |->
       LET removed[i \in 0..L!Size(hash[b])] ==
             IF i = 0 THEN hash[b] ELSE L!Remove(removed[i - 1], "FIRST", 0).list
       IN removed[L!Size(hash[b])]]

\* The source's nodes are added one by one.
Duplicate(dst, src) ==
    LET items == Items(src)
        copied[i \in 0..Len(items)] ==
          IF i = 0 THEN dst ELSE AddKey(copied[i - 1], items[i].key, items[i].data).hash
    IN IF GetNumberOfItems(dst) # 0 THEN Answer(dst, "NOT_EMPTY")
       ELSE IF items = <<>> THEN Answer(dst, "NO_DATA")
       ELSE Answer(copied[Len(items)], "NOERROR")
=============================================================================
