----------------------------- MODULE CAPKeyValue -----------------------------
(***************************************************************************)
(* CAPKeyValue.c on top of CAPHash.c: lists of keys and values, and their  *)
(* text form of lines "key=value".                                         *)
(***************************************************************************)
EXTENDS Integers, Sequences, FiniteSets

SeqExt == INSTANCE SequencesExt

CONSTANTS Handles,              \* the key-value lists
          Characters,           \* what texts are made of
          Keys, Values,         \* sequences of characters
          Texts,                \* texts that come from elsewhere
          NoText,               \* the value whose string was never set: its pszStr is NULL
          NullText,             \* what the format %s makes of NULL
          LineFeed, Equal, Space,
          DEFAULT_APPEND_SIZE,
          nBucketSize, BucketOf(_)

KeyValueAssumption == /\ {LineFeed, Equal, Space} \subseteq Characters
                      /\ Keys \cup Texts \subseteq Seq(Characters)
                      /\ Values \subseteq Seq(Characters) \cup {NoText}
                      /\ NoText \notin Seq(Characters)
                      /\ NullText \in Seq(Characters) \ {<<>>}
                      /\ nBucketSize \in Nat \ {0}

VARIABLES hash, result, got

vars == <<hash, result, got>>

S == INSTANCE StringOps
H == INSTANCE HashOps

Init == /\ hash = [h \in Handles |-> H!Create]
        /\ result = "NOERROR"
        /\ got = <<>>

Return(h, answer) == /\ hash' = [hash EXCEPT ![h] = answer.hash]
                     /\ result' = answer.result
                     /\ got' = <<>>

Add(h, k, v) == Return(h, H!AddKey(hash[h], k, v))

Remove(h, k) == Return(h, H!DeleteKey(hash[h], k, FALSE))

SetValueByKey(h, k, v) ==
    LET deleted == H!DeleteKey(hash[h], k, FALSE) IN
    Return(h, IF deleted.result = "NOERROR" THEN H!AddKey(deleted.hash, k, v) ELSE deleted)

\* got is what was found; the caller's string is set from it, and NoText leaves it empty.
GetValueByKey(h, k) ==
    LET answer == H!GetDataByKey(hash[h], k) IN
    /\ hash' = [hash EXCEPT ![h] = answer.hash]
    /\ result' = answer.result
    /\ got' = IF answer.data = <<>> THEN <<>> ELSE <<k, answer.data[1]>>

RemoveAll(h) == Return(h, [hash |-> H!RemoveAll(hash[h]), result |-> "NOERROR"])

\* The destination is emptied first; when it is the source too, nothing is left to copy.
Duplicate(dst, src) ==
    LET emptied == H!RemoveAll(hash[dst]) IN
    Return(dst, H!Duplicate(emptied, IF dst = src THEN emptied ELSE hash[src]))

\* What the format makes of a value: a copy of a string that was never set is NULL too
\* (CAPString!Set), and glibc prints that as a text.
Shown(value) == IF value = NoText THEN NullText ELSE value

KeyValueTraverse(node) == node.key \o <<Equal>> \o Shown(node.data) \o <<LineFeed>>

WriteToString(hh) ==
    LET items == H!Items(hh) IN SeqExt!FlattenSeq([i \in 1..Len(items) |-> KeyValueTraverse(items[i])])

\* A mutant: the value of a line includes its line feed.
ParseLineLong(buffer, n, strKey, strData) ==
    LET end   == S!FindChar(buffer, n, LineFeed)
        equal == S!FindChar(buffer, n, Equal)
        data  == S!SetSub(strData, buffer, equal + 1,
                          IF end < 0 THEN S!nLen(buffer) ELSE end - equal)
    IN [end |-> end, key |-> S!SetSub(strKey, buffer, n, equal - n), data |-> data,
        outcome |-> IF end < 0 /\ equal < 0 THEN "STOP" ELSE "LINE"]

\* What the line of buffer from place n on says, into the strings strKey and
\* strData kept from the line before.  end is the place of its line feed, -1 if none.
ParseLine(buffer, n, strKey, strData) ==
    LET end   == S!FindChar(buffer, n, LineFeed)
        equal == S!FindChar(buffer, n, Equal)
        data  == S!SetSub(strData, buffer, equal + 1,
                          IF end < 0 THEN S!nLen(buffer) ELSE end - (equal + 1))
        key   == S!SetSub(strKey, buffer, n, equal - n)
    IN [end  |-> end, key |-> key, data |-> data,
        outcome |-> IF end < 0 /\ equal < 0 THEN "STOP"
                    ELSE IF end >= 0 /\ (equal >= end \/ equal < 0) THEN "INVALID_DATA"
                    ELSE IF S!TrimCrashes(key) \/ S!TrimCrashes(data) THEN "CRASH"
                    ELSE "LINE"]

\* One round of the loop that reads: the line at place n is added to the list.
ReadLine(buffer, state) ==
    LET line  == ParseLine(buffer, state.n, state.key, state.data)
        added == H!AddKey(state.hash, S!Trim(line.key).chars, S!Trim(line.data).chars)
        End(answer) == [state EXCEPT !.result = answer, !.goesOn = FALSE]
    IN CASE line.outcome = "STOP" -> End("NOERROR")
         [] line.outcome \in {"INVALID_DATA", "CRASH"} -> End(line.outcome)
         [] line.outcome = "LINE" ->
              [hash |-> added.hash, result |-> added.result, n |-> line.end + 1,
               key |-> S!Trim(line.key), data |-> S!Trim(line.data),
               goesOn |-> added.result = "NOERROR" /\ line.end >= 0]

\* The lines are added one by one; the first that cannot be ends the call, and
\* those added before it stay.  There are fewer lines than characters, and one.
ReadText(hh, t) ==
    LET buffer == S!SetLow(S!New, t, TRUE)
        start  == [hash |-> hh, result |-> "NOERROR", n |-> 0, key |-> S!New, data |-> S!New, goesOn |-> TRUE]
        after[i \in 0..(Len(t) + 1)] ==
            IF i = 0 THEN start
            ELSE LET state == after[i - 1] IN IF state.goesOn THEN ReadLine(buffer, state) ELSE state
        end    == after[Len(t) + 1]
    IN IF t = <<>> THEN H!Answer(hh, "INVALID_PARAM") ELSE H!Answer(end.hash, end.result)

\* The text comes from elsewhere or is what another list was written to.
ReadFromBuffer(h, t) ==
    LET answer == ReadText(hash[h], t) IN
    Return(h, IF answer.result = "CRASH" THEN H!Answer(hash[h], "CRASH") ELSE answer)

Next == /\ result # "CRASH"
        /\ \E h \in Handles :
              \/ \E k \in Keys : \/ Remove(h, k) \/ GetValueByKey(h, k)
                                 \/ \E v \in Values : Add(h, k, v) \/ SetValueByKey(h, k, v)
              \/ \E g \in Handles : Duplicate(h, g) \/ ReadFromBuffer(h, WriteToString(hash[g]))
              \/ \E t \in Texts : ReadFromBuffer(h, t)
              \/ RemoveAll(h)

Spec == Init /\ [][Next]_vars

-----------------------------------------------------------------------------
DictOf(hh) == LET nodes == SeqExt!ToSet(H!Items(hh)) IN
              [k \in {n.key : n \in nodes} |-> (CHOOSE n \in nodes : n.key = k).data]

\* Each key is in the one bucket its hash says, once, whatever was added, deleted,
\* copied and read before: every list is the dictionary its callers built.
Dicts == INSTANCE Dictionary WITH
            dict <- [h \in Handles |-> DictOf(hash[h])],
            Keys <- Keys \ {<<>>}, Data <- Values,
            AnyKey <- Seq(Characters) \ {<<>>}, AnyDatum <- Seq(Characters)
NoKeyTwice == \A h \in Handles : H!GetNumberOfItems(hash[h]) = Cardinality(DOMAIN DictOf(hash[h]))
ImplementsDictionary == Dicts!Spec /\ []NoKeyTwice

\* Writing a list and reading the text into an empty list gives the same keys and
\* values, but a value never set comes back as the text printed for it; and when the
\* first value written is empty, CAPString_Trim writes its terminator through the NULL
\* of a string that was never set.
ReadsBackWhatIsWritten ==
    \A h \in Handles :
       LET items == H!Items(hash[h])
           dict  == DictOf(hash[h])
           back  == ReadText(H!Create, WriteToString(hash[h]))
       IN items # <<>> =>
            IF Head(items).data = <<>> THEN back.result = "CRASH"
            ELSE back.result = "NOERROR" /\ DictOf(back.hash) = [k \in DOMAIN dict |-> Shown(dict[k])]
=============================================================================
