--------------------------- MODULE AppValueCache ---------------------------
(***************************************************************************)
(* temp/AppValueCache.c: the latest values a scenario knows, kept in an    *)
(* array that is reached through an index of keys.  Numbers are counted in *)
(* halves, so that an odd one is no integer.                               *)
(***************************************************************************)
EXTENDS Integers, Sequences

LOCAL INSTANCE TLC

CONSTANT NONE

\* Of the numbers from nStart on, the first without a divisor, looked for in a range.
findPrime(nStart, nLength) ==
    LET IsPrime(n) == \A d \in 2..(n \div 2) : n % d # 0
        found      == {n \in nStart..(nStart + nLength - 1) : IsPrime(n)}
    IN IF found = {} THEN nStart + nLength ELSE CHOOSE n \in found : \A m \in found : n <= m

MAX_SEARCH_RANGE == 100

Create(nMaxValueNum) ==
    [nArraySize |-> nMaxValueNum, values |-> <<>>, index |-> <<>>,
     nBucketNum |-> IF nMaxValueNum = 0 THEN 0 ELSE findPrime(nMaxValueNum, MAX_SEARCH_RANGE)]

Answer(cache, result) == [cache |-> cache, result |-> result]

\* info is [type, min, max]; init the latest value in the database, NONE without one.
Add(cache, key, info, init) ==
    IF Len(cache.values) >= cache.nArraySize THEN Answer(cache, "REACH_TO_MAXIMUM")
    ELSE IF key \in DOMAIN cache.index THEN Answer(cache, "DUPLICATED")
    ELSE Answer([cache EXCEPT !.values = Append(@, [info |-> info, bInit |-> init # NONE, value |-> init]),
                              !.index  = @ @@ (key :> Len(cache.values))], "NOERROR")

\* Each thread searches a copy of the index of its own; without buckets there is none.
DuplicateIndexHash(cache) == IF cache.nBucketNum > 0 THEN cache.index ELSE <<>>

Fits(info, value) ==
    CASE info.type = "BOOL" -> value \in {0, 2} /\ info.min <= value /\ value <= info.max
      [] info.type = "INT"  -> value % 2 = 0 /\ info.min <= value /\ value <= info.max
      [] OTHER              -> info.min <= value /\ value <= info.max

UpdateByIndex(cache, nIndex, value) ==
    IF nIndex \notin 0..(Len(cache.values) - 1) THEN Answer(cache, "INDEX_OUT_OF_BOUND")
    ELSE IF ~Fits(cache.values[nIndex + 1].info, value) THEN Answer(cache, "INVALID_DATA")
    ELSE Answer([cache EXCEPT !.values[nIndex + 1].value = value,
                              !.values[nIndex + 1].bInit = TRUE], "NOERROR")

\* NONE stands for ERR_CAP_NO_DATA.
GetByIndex(cache, nIndex) ==
    LET cached == cache.values[nIndex + 1] IN IF cached.bInit THEN cached.value ELSE NONE

\* What getValueFromCache finds through an index.
Known(cache, index) == [key \in DOMAIN index |-> GetByIndex(cache, index[key])]
=============================================================================
