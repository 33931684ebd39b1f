------------------------------ MODULE StringOps ------------------------------
(***************************************************************************)
(* The functions of CAPString.c as operators on [chars, nBufferLen]: the   *)
(* nStringLen characters of the text and the size of the allocated buffer, *)
(* 0 when pszStr is NULL.  Places count from zero, as in the code.  A C    *)
(* string argument is the sequence of its characters before the NUL, with  *)
(* a flag saying whether the caller passed a buffer of positive length.    *)
(***************************************************************************)
EXTENDS Integers, Sequences

CONSTANTS DEFAULT_APPEND_SIZE, Space

NOT_FOUND == -1

New == [chars |-> <<>>, nBufferLen |-> 0]

IsNull(str) == str.nBufferLen = 0

nLen(str) == Len(str.chars)

\* The character at a place counted from zero.
At(str, n) == str.chars[n + 1]

SetLow(dst, src, isGiven) ==
    [chars      |-> IF isGiven THEN src ELSE <<>>,
     nBufferLen |-> IF isGiven /\ Len(src) >= dst.nBufferLen THEN Len(src) + 1 ELSE dst.nBufferLen]

Set(dst, src) == SetLow(dst, src.chars, ~IsNull(src))

\* At most nSrcLen characters from place nSrcIndex on.
SetSub(dst, src, nSrcIndex, nSrcLen) ==
    LET n == IF nLen(src) - nSrcIndex < nSrcLen THEN nLen(src) - nSrcIndex ELSE nSrcLen IN
    SetLow(dst, SubSeq(src.chars, nSrcIndex + 1, nSrcIndex + n), n > 0 /\ ~IsNull(src))

\* A mutant: the place of the terminator is forgotten.
GrownTight(nBufferLen, newLen) ==
    LET unit == IF nBufferLen > 0 THEN nBufferLen ELSE DEFAULT_APPEND_SIZE IN
    IF newLen > nBufferLen THEN unit * (newLen \div unit + 1) + 1 ELSE nBufferLen

\* The buffer an append of text that would make newLen characters leaves.
Grown(nBufferLen, newLen) ==
    LET unit == IF nBufferLen > 0 THEN nBufferLen ELSE DEFAULT_APPEND_SIZE IN
    IF newLen >= nBufferLen THEN unit * (newLen \div unit + 1) + 1 ELSE nBufferLen

Append1(str, text) == [chars      |-> str.chars \o text,
                       nBufferLen |-> Grown(str.nBufferLen, nLen(str) + Len(text))]

AppendLow(str, text, isGiven) == IF isGiven THEN Append1(str, text) ELSE str

AppendString(str, src) == AppendLow(str, src.chars, src.chars # <<>>)

AppendChar(str, ch) == Append1(str, <<ch>>)

\* AppendFormat and PrintFormat with the text the format makes.
AppendFormat(str, text) == Append1(str, text)

PrintFormat(str, text) ==
    [chars |-> text, nBufferLen |-> IF Len(text) >= str.nBufferLen THEN Len(text) + 1 ELSE str.nBufferLen]

Blanks(n) == [i \in 1..n |-> Space]

\* Shorter cuts, longer pads with blanks; a string never set stays NULL when cut to 0.
\* A larger buffer is filled with a copy of nLength characters of the old one, which may
\* be shorter or missing (CAPString!SetLength); the blanks then hide what was copied.
SetLength(str, nLength) ==
    IF nLength <= nLen(str) THEN [str EXCEPT !.chars = SubSeq(@, 1, nLength)]
    ELSE [chars      |-> str.chars \o Blanks(nLength - nLen(str)),
          nBufferLen |-> IF nLength >= str.nBufferLen THEN nLength + 1 ELSE str.nBufferLen]

\* Blanks go from both ends.  The terminating NUL is written to pszStr without
\* looking whether there is a buffer: see TrimCrashes.
Trim(str) ==
    LET ink == {i \in 1..nLen(str) : str.chars[i] # Space} IN
    [str EXCEPT !.chars = IF ink = {} THEN <<>>
                          ELSE SubSeq(@, CHOOSE i \in ink : \A j \in ink : i <= j,
                                         CHOOSE i \in ink : \A j \in ink : i >= j)]

TrimCrashes(str) == IsNull(str)

\* The first place from n on that holds ch.
FindChar(str, n, ch) ==
    LET there == {i \in n..(nLen(str) - 1) : At(str, i) = ch} IN
    IF n < 0 \/ there = {} THEN NOT_FOUND ELSE CHOOSE i \in there : \A j \in there : i <= j

\* The last place that holds ch, leaving out the n characters at the end.
FindRChar(str, n, ch) ==
    LET there == {i \in 0..(nLen(str) - 1 - n) : At(str, i) = ch} IN
    IF n \notin 0..(nLen(str) - 1) \/ there = {} THEN NOT_FOUND
    ELSE CHOOSE i \in there : \A j \in there : i >= j

ReplaceChar(str, chFrom, chTo) ==
    [str EXCEPT !.chars = [i \in 1..nLen(str) |-> IF @[i] = chFrom THEN chTo ELSE @[i]]]

StartsWith(str, prefix) ==
    nLen(prefix) <= nLen(str) /\ SubSeq(str.chars, 1, nLen(prefix)) = prefix.chars

IsEqual(str1, str2) == str1.chars = str2.chars

\* A mutant: a mismatch keeps what was matched before.
FindStringLoose(str, nIndex, needle) ==
    LET Scan[n \in 0..nLen(str)] ==
          [m \in 0..(nLen(needle) - 1) |->
             IF n >= nLen(str) THEN NOT_FOUND
             ELSE IF At(str, n) # At(needle, m) THEN Scan[n + 1][m]
             ELSE IF m + 1 = nLen(needle) THEN n - m
             ELSE Scan[n + 1][m + 1]]
    IN IF nIndex \notin 0..(nLen(str) - 1) \/ needle.chars = <<>> THEN NOT_FOUND ELSE Scan[nIndex][0]

\* CAPString_FindString walks the target once: n is the place it looks at and m
\* how much of the needle it has matched.  A mismatch forgets the match and goes
\* on behind the mismatched character, without looking at it again.
FindString(str, nIndex, needle) ==
    LET Scan[n \in 0..nLen(str)] ==
          [m \in 0..(nLen(needle) - 1) |->
             IF n >= nLen(str) - nLen(needle) + m + 1 THEN NOT_FOUND
             ELSE IF At(str, n) # At(needle, m) THEN Scan[n + 1][0]
             ELSE IF m + 1 = nLen(needle) THEN n - m
             ELSE Scan[n + 1][m + 1]]
    IN IF nIndex \notin 0..(nLen(str) - 1) \/ needle.chars = <<>> \/ nLen(needle) > nLen(str) - nIndex
       THEN NOT_FOUND ELSE Scan[nIndex][0]
=============================================================================
