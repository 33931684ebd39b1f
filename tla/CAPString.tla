------------------------------ MODULE CAPString ------------------------------
(***************************************************************************)
(* CAPString.c behind a handle: any sequence of calls that change a text.  *)
(***************************************************************************)
EXTENDS Integers, Sequences

CONSTANTS Letters,     \* the characters of texts, the blank among them
          MaxText,     \* bound: the characters of a text
          DEFAULT_APPEND_SIZE, Space

StringAssumption == DEFAULT_APPEND_SIZE \in Nat \ {0} /\ MaxText \in Nat

VARIABLES str, arg,    \* the text that calls change, and one that is given to them
          overran,     \* history: the last call that went outside the buffer of str
          crashed      \* such a call ended the process

vars == <<str, arg, overran, crashed>>

S == INSTANCE StringOps

TextsUpTo(n) == UNION {[1..m -> Letters] : m \in 0..n}

Init == str = S!New /\ arg = S!New /\ overran = "none" /\ crashed = FALSE

Fits(s) == Len(s.chars) <= MaxText

\* A call that reads or writes the first nTouched characters of the buffer it finds,
\* and makes s of the text.  Outside the buffer it ends the process, always when
\* there is none, or goes on with whatever lies there.
Access(call, nTouched, s) ==
    /\ ~crashed /\ Fits(s)
    /\ IF nTouched <= str.nBufferLen
       THEN str' = s /\ UNCHANGED <<overran, crashed>>
       ELSE /\ overran' = call
            /\ \/ crashed' = TRUE /\ UNCHANGED str
               \/ ~S!IsNull(str) /\ str' = s /\ UNCHANGED crashed
    /\ UNCHANGED arg

\* A buffer that is kept takes the new text and its terminator; one that is replaced
\* is read as far as it is copied.
Change(call, nCopied, s) ==
    Access(call, IF s.nBufferLen # str.nBufferLen THEN nCopied
                 ELSE IF S!IsNull(str) THEN 0
                 ELSE Len(s.chars) + 1, s)

SetLow(text) == /\ arg' = S!SetLow(arg, text, TRUE) /\ Fits(arg')
                /\ UNCHANGED <<str, overran, crashed>>
Set == Change("Set", 0, S!Set(str, arg))
SetSub(n, len) == n <= S!nLen(arg) /\ Change("SetSub", 0, S!SetSub(str, arg, n, len))
AppendString == Change("AppendString", S!nLen(str), S!AppendString(str, arg))
AppendChar(ch) == Change("AppendChar", S!nLen(str), S!AppendChar(str, ch))
AppendFormat == Change("AppendFormat", S!nLen(str), S!AppendFormat(str, arg.chars))
PrintFormat == Change("PrintFormat", 0, S!PrintFormat(str, arg.chars))

\* The copy is as long as the text shall be, not as it is.
SetLength(n) == Change("SetLength", n, S!SetLength(str, n))

\* The terminator is written also when there is no buffer.
Trim == Access("Trim", S!nLen(str) + 1, S!Trim(str))
ReplaceChar(from, to) == Access("ReplaceChar", S!nLen(str), S!ReplaceChar(str, from, to))

Next == \/ \E text \in TextsUpTo(3) : SetLow(text)
        \/ Set \/ AppendString \/ AppendFormat \/ PrintFormat \/ Trim
        \/ \E n \in 0..MaxText : SetLength(n) \/ \E len \in 0..MaxText : SetSub(n, len)
        \/ \E a \in Letters : AppendChar(a) \/ \E b \in Letters : ReplaceChar(a, b)

Spec == Init /\ [][Next]_vars

-----------------------------------------------------------------------------
\* Whatever grew, shrank or replaced a text, its characters and the terminator
\* lie within the buffer its next change will reuse; and no call reads or writes
\* outside the buffer it finds, but the two that do: CAPString_SetLength, when it
\* makes a text longer than its buffer (CAPString.c:511), and CAPString_Trim of a
\* string never set (CAPString.c:474).
TextFitsBuffer ==
    /\ \A s \in {str, arg} : s.chars = <<>> \/ Len(s.chars) < s.nBufferLen
    /\ overran \in {"none", "SetLength", "Trim"}

\* The place a needle is found at holds it, and when the first letter of the needle
\* that the search meets starts an occurrence, that occurrence is found.  (One
\* behind a partial match may be missed: CAPString_FindString does not back up.)
OccursAt(s, needle, n) ==
    /\ n + S!nLen(needle) <= S!nLen(s)
    /\ SubSeq(s.chars, n + 1, n + S!nLen(needle)) = needle.chars
FindsTheNeedle ==
    \A n \in 0..(S!nLen(str) - 1) :
       LET found == S!FindString(str, n, arg)
           first == S!FindChar(str, n, arg.chars[1])
       IN arg.chars # <<>> =>
            /\ found # S!NOT_FOUND => found >= n /\ OccursAt(str, arg, found)
            /\ first # S!NOT_FOUND /\ OccursAt(str, arg, first) => found = first
=============================================================================
