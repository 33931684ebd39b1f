----------------------------- MODULE Dictionary -----------------------------
(***************************************************************************)
(* What CAPHash and CAPKeyValue promise: each handle maps keys to data.    *)
(* A lookup answers got, the key asked for and what it maps to.            *)
(***************************************************************************)
EXTENDS Integers, Sequences

CONSTANTS Handles, Keys, Data,    \* what callers name
          AnyKey, AnyDatum         \* what a text may name

VARIABLES dict, result, got

vars == <<dict, result, got>>

NoKeys == [k \in {} |-> <<>>]

Init == dict = [h \in Handles |-> NoKeys] /\ result = "NOERROR" /\ got = <<>>

With(d, k, v) == [x \in DOMAIN d \cup {k} |-> IF x = k THEN v ELSE d[x]]
Without(d, k) == [x \in DOMAIN d \ {k} |-> d[x]]

Become(h, d, r) == result' = r /\ got' = <<>> /\ dict' = [dict EXCEPT ![h] = d]

\* Only a key that is not there is added.
Add(h, k, v) == IF k \in DOMAIN dict[h] THEN Become(h, dict[h], "DUPLICATED")
                ELSE Become(h, With(dict[h], k, v), "NOERROR")

Put(h, k, v) == Become(h, With(dict[h], k, v), "NOERROR")

Remove(h, k) == Become(h, Without(dict[h], k), "NOERROR")

Lookup(h, k) == /\ IF k \in DOMAIN dict[h] THEN result' = "NOERROR" /\ got' = <<k, dict[h][k]>>
                   ELSE result' = "NOT_FOUND" /\ got' = <<>>
                /\ UNCHANGED dict

Clear(h) == Become(h, NoKeys, "NOERROR")

\* A source without keys is copied, and reported as having no data.
Copy(dst, src) == dst # src /\ Become(dst, dict[src], IF DOMAIN dict[src] = {} THEN "NO_DATA" ELSE "NOERROR")

\* A handle copied onto itself is emptied first.
CopyToSelf(h) == Become(h, NoKeys, "NO_DATA")

Refuse(h) == Become(h, dict[h], "INVALID_PARAM")

\* Reading a text adds keys that were not there, all of them or as many as come
\* before the line that cannot be added; it never changes a key that was there.
Extend(h) ==
    /\ result' \in {"NOERROR", "DUPLICATED", "INVALID_DATA", "INVALID_PARAM"}
    /\ got' = <<>>
    /\ LET d == dict' IN
       /\ DOMAIN d = Handles /\ \A g \in Handles \ {h} : d[g] = dict[g]
       /\ DOMAIN dict[h] \subseteq DOMAIN d[h] /\ DOMAIN d[h] \subseteq AnyKey
       /\ \A k \in DOMAIN d[h] : IF k \in DOMAIN dict[h] THEN d[h][k] = dict[h][k] ELSE d[h][k] \in AnyDatum

\* The process may end while it reads a text.
Die == result' = "CRASH" /\ got' = <<>> /\ UNCHANGED dict

Next == \E h \in Handles :
          \/ \E k \in Keys : Remove(h, k) \/ Lookup(h, k) \/ \E v \in Data : Add(h, k, v) \/ Put(h, k, v)
          \/ \E g \in Handles : Copy(h, g)
          \/ Clear(h) \/ CopyToSelf(h) \/ Refuse(h) \/ Extend(h) \/ Die

Spec == Init /\ [][Next]_vars
=============================================================================
