-------------------------- MODULE CapCommon_proofs --------------------------
(***************************************************************************)
(* For any values of the constants: the parts of the library, side by      *)
(* side, run each by its own specification, and keep what it promises.     *)
(* The proofs about lists and the logger are those of their modules; the   *)
(* ones about texts (Str), the values of services (History), codings       *)
(* (Base64), arguments (Argument) and key-value lists (KeyValue) are here. *)
(***************************************************************************)
EXTENDS CapCommon, FiniteSetTheorems, SequenceTheorems, WellFoundedInduction, TLAPS

-----------------------------------------------------------------------------
(* Sets of numbers *)

\* A set of natural numbers has a least element (NatLessThanWellFounded).
LEMMA Least ==
    ASSUME NEW T \in SUBSET Nat, T # {}
    PROVE  \E x \in T : \A y \in T : x <= y
<1>1. \E x \in T : \A y \in T : ~(<<y, x>> \in OpToRel(<, Nat))
  BY NatLessThanWellFounded, WFMin
<1>2. ASSUME NEW x \in T, \A y \in T : ~(<<y, x>> \in OpToRel(<, Nat)) PROVE \A y \in T : x <= y
  <2>1. \A y \in T : ~(y < x)
    BY <1>2 DEF OpToRel
  <2>2. QED  BY <2>1
<1>3. QED  BY <1>1, <1>2

\* Induction, for a property given as the set of the numbers that have it.
LEMMA Induction ==
    ASSUME NEW T \in SUBSET Nat, 0 \in T, \A n \in T : n + 1 \in T
    PROVE  T = Nat
<1>1. SUFFICES ASSUME Nat \ T # {} PROVE FALSE
  OBVIOUS
<1>2. PICK x \in Nat \ T : \A y \in Nat \ T : x <= y
  BY <1>1, Least
<1>3. x - 1 \in Nat /\ x - 1 \in T
  BY <1>2
<1>4. QED  BY <1>2, <1>3

\* A bounded set of natural numbers has a greatest element.
LEMMA Greatest ==
    ASSUME NEW n \in Nat, NEW T \in SUBSET (0..n), T # {}
    PROVE  \E x \in T : \A y \in T : x >= y
<1> DEFINE U == {n - x : x \in T}
<1>1. U \in SUBSET Nat
  OBVIOUS
<1>2. U # {}
  <2>1. PICK x \in T : TRUE
    OBVIOUS
  <2>2. n - x \in U
    OBVIOUS
  <2>3. QED  BY <2>2
<1>3. PICK u \in U : \A v \in U : u <= v
  BY <1>1, <1>2, Least
<1>4. PICK x \in T : u = n - x
  OBVIOUS
<1>5. ASSUME NEW y \in T PROVE x >= y
  <2>1. n - y \in U
    OBVIOUS
  <2>2. QED  BY <1>3, <1>4, <2>1
<1>6. QED  BY <1>5

-----------------------------------------------------------------------------
(* The functions of CAPString.c *)

Characters == Letters \cup {Space}

Buffers == [chars : Seq(Characters), nBufferLen : Nat]

\* The characters and the terminator lie within the buffer.
Lies(s) == s.chars = <<>> \/ Len(s.chars) < s.nBufferLen

Sound(s) == s \in Buffers /\ Lies(s)

LEMMA TextParts ==
    ASSUME NEW s, Sound(s)
    PROVE  /\ s.chars \in Seq(Characters) /\ s.nBufferLen \in Nat
           /\ Str!S!nLen(s) = Len(s.chars) /\ Len(s.chars) \in Nat
           /\ s.chars = <<>> \/ Len(s.chars) < s.nBufferLen
           /\ \A c : [s EXCEPT !.chars = c] = [chars |-> c, nBufferLen |-> s.nBufferLen]
BY DEF Sound, Buffers, Lies, Str!S!nLen

LEMMA TextWhole ==
    ASSUME NEW c \in Seq(Characters), NEW n \in Nat, c = <<>> \/ Len(c) < n
    PROVE  Sound([chars |-> c, nBufferLen |-> n])
BY DEF Sound, Buffers, Lies

\* An append grows the buffer by multiples of what it was, beyond the new text.
LEMMA GrownHolds ==
    ASSUME Str!StringAssumption, NEW nBufferLen \in Nat, NEW newLen \in Nat
    PROVE  Str!S!Grown(nBufferLen, newLen) \in Nat /\ newLen < Str!S!Grown(nBufferLen, newLen)
<1>1. ASSUME NEW step \in Nat, step > 0
      PROVE  step * (newLen \div step + 1) + 1 \in Nat /\ newLen < step * (newLen \div step + 1) + 1
  BY <1>1
<1>2. QED  BY <1>1 DEF Str!S!Grown, Str!StringAssumption

LEMMA NewSound == Sound(Str!S!New)
BY DEF Sound, Buffers, Lies, Str!S!New

LEMMA SetLowSound ==
    ASSUME NEW dst, Sound(dst), NEW src \in Seq(Characters), NEW isGiven \in BOOLEAN
    PROVE  Sound(Str!S!SetLow(dst, src, isGiven))
BY DEF Sound, Buffers, Lies, Str!S!SetLow

LEMMA SetSound ==
    ASSUME NEW dst, Sound(dst), NEW src, Sound(src)
    PROVE  Sound(Str!S!Set(dst, src))
<1>1. src.chars \in Seq(Characters)
  BY DEF Sound, Buffers
<1>2. QED  BY <1>1, SetLowSound DEF Str!S!Set

LEMMA SetSubSound ==
    ASSUME NEW dst, Sound(dst), NEW src, Sound(src), NEW n \in Nat, NEW len \in Nat, n <= Str!S!nLen(src)
    PROVE  Sound(Str!S!SetSub(dst, src, n, len))
<1> DEFINE k == IF Str!S!nLen(src) - n < len THEN Str!S!nLen(src) - n ELSE len
<1>1. src.chars \in Seq(Characters) /\ Str!S!nLen(src) = Len(src.chars)
  BY DEF Sound, Buffers, Str!S!nLen
<1>2. k \in Nat /\ n + k <= Len(src.chars)
  BY <1>1
<1>3. SubSeq(src.chars, n + 1, n + k) \in Seq(Characters)
  BY <1>1, <1>2
<1>4. QED  BY <1>3, SetLowSound DEF Str!S!SetSub

LEMMA Append1Sound ==
    ASSUME Str!StringAssumption, NEW s, Sound(s), NEW text \in Seq(Characters)
    PROVE  Sound(Str!S!Append1(s, text))
<1> DEFINE chars == s.chars \o text
           size == Str!S!Grown(s.nBufferLen, Str!S!nLen(s) + Len(text))
<1>1. s.chars \in Seq(Characters) /\ s.nBufferLen \in Nat /\ Str!S!nLen(s) = Len(s.chars) /\ Len(s.chars) \in Nat
  BY TextParts
<1>2. chars \in Seq(Characters) /\ Len(chars) = Str!S!nLen(s) + Len(text) /\ Str!S!nLen(s) + Len(text) \in Nat
  BY <1>1
<1>3. size \in Nat /\ Str!S!nLen(s) + Len(text) < size
  BY <1>1, <1>2, GrownHolds
<1>4. Str!S!Append1(s, text) = [chars |-> chars, nBufferLen |-> size]
  BY DEF Str!S!Append1
<1> HIDE DEF chars, size
<1>5. QED  BY <1>2, <1>3, <1>4, TextWhole

LEMMA PrintFormatSound ==
    ASSUME NEW s, Sound(s), NEW text \in Seq(Characters)
    PROVE  Sound(Str!S!PrintFormat(s, text))
BY DEF Sound, Buffers, Lies, Str!S!PrintFormat

LEMMA SetLengthSound ==
    ASSUME NEW s, Sound(s), NEW n \in Nat
    PROVE  Sound(Str!S!SetLength(s, n))
<1>1. s.chars \in Seq(Characters) /\ s.nBufferLen \in Nat /\ Str!S!nLen(s) = Len(s.chars) /\ Len(s.chars) \in Nat
  BY TextParts
<1>2. CASE n <= Len(s.chars)
  <2>1. SubSeq(s.chars, 1, n) \in Seq(Characters) /\ Len(SubSeq(s.chars, 1, n)) = n
    BY <1>1, <1>2
  <2>2. n = 0 => SubSeq(s.chars, 1, n) = <<>>
    BY <2>1
  <2>3. Str!S!SetLength(s, n) = [s EXCEPT !.chars = SubSeq(s.chars, 1, n)]
    BY <1>1, <1>2 DEF Str!S!SetLength
  <2>4. s.chars = <<>> => n = 0
    BY <1>1, <1>2
  <2>5. Str!S!SetLength(s, n) = [chars |-> SubSeq(s.chars, 1, n), nBufferLen |-> s.nBufferLen]
    BY <2>3, TextParts
  <2>6. SubSeq(s.chars, 1, n) = <<>> \/ Len(SubSeq(s.chars, 1, n)) < s.nBufferLen
    <3>1. s.chars = <<>> \/ Len(s.chars) < s.nBufferLen
      BY TextParts
    <3>2. QED  BY <1>1, <1>2, <2>1, <2>2, <2>4, <3>1
  <2>7. QED  BY <1>1, <2>1, <2>5, <2>6, TextWhole
<1>3. CASE n > Len(s.chars)
  <2> DEFINE pad == Str!S!Blanks(n - Len(s.chars))
  <2>1. pad \in Seq(Characters) /\ Len(pad) = n - Len(s.chars)
    BY <1>1, <1>3 DEF Str!S!Blanks, Characters
  <2> HIDE DEF pad
  <2>2. s.chars \o pad \in Seq(Characters) /\ Len(s.chars \o pad) = n
    BY <1>1, <1>3, <2>1
  <2>3. Str!S!SetLength(s, n) = [chars |-> s.chars \o pad, nBufferLen |-> IF n >= s.nBufferLen THEN n + 1 ELSE s.nBufferLen]
    BY <1>1, <1>3 DEF Str!S!SetLength, pad
  <2> DEFINE size == IF n >= s.nBufferLen THEN n + 1 ELSE s.nBufferLen
  <2>4. size \in Nat /\ n < size
    BY <1>1
  <2>5. Str!S!SetLength(s, n) = [chars |-> s.chars \o pad, nBufferLen |-> size]
    BY <2>3
  <2> HIDE DEF size
  <2>6. QED  BY <2>2, <2>4, <2>5, TextWhole
<1>4. QED  BY <1>1, <1>2, <1>3

\* What is left lies between the first and the last character that is no blank.
LEMMA TrimSound ==
    ASSUME NEW s, Sound(s)
    PROVE  Sound(Str!S!Trim(s))
<1> DEFINE ink == {i \in 1..Str!S!nLen(s) : s.chars[i] # Space}
           first == CHOOSE i \in ink : \A j \in ink : i <= j
           last == CHOOSE i \in ink : \A j \in ink : i >= j
<1>1. s.chars \in Seq(Characters) /\ s.nBufferLen \in Nat /\ Str!S!nLen(s) = Len(s.chars) /\ Len(s.chars) \in Nat
  BY DEF Sound, Buffers, Str!S!nLen
<1>2. Str!S!Trim(s) = [s EXCEPT !.chars = IF ink = {} THEN <<>> ELSE SubSeq(s.chars, first, last)]
  BY DEF Str!S!Trim
<1>3. CASE ink = {}
  <2>1. Str!S!Trim(s) = [chars |-> <<>>, nBufferLen |-> s.nBufferLen]
    BY <1>2, <1>3, TextParts
  <2>2. <<>> \in Seq(Characters)
    OBVIOUS
  <2>3. QED  BY <1>1, <2>1, <2>2, TextWhole
<1>4. CASE ink # {}
  <2>1. ink \in SUBSET Nat /\ ink \in SUBSET (0..Len(s.chars))
    BY <1>1
  <2>2. first \in ink /\ \A j \in ink : first <= j
    BY <1>4, <2>1, Least
  <2>3. last \in ink
    BY <1>1, <1>4, <2>1, Greatest
  <2>4. first \in 1..Len(s.chars) /\ last \in 1..Len(s.chars) /\ first <= last
    BY <1>1, <2>2, <2>3
  <2> HIDE DEF ink, first, last
  <2>5. SubSeq(s.chars, first, last) \in Seq(Characters) /\ Len(SubSeq(s.chars, first, last)) <= Len(s.chars)
    BY <1>1, <2>4
  <2>6. Len(SubSeq(s.chars, first, last)) < s.nBufferLen
    <3>1. s.chars # <<>>
      BY <1>1, <2>4
    <3>2. QED  BY <1>1, <2>5, <3>1, TextParts
  <2>7. Str!S!Trim(s) = [chars |-> SubSeq(s.chars, first, last), nBufferLen |-> s.nBufferLen]
    BY <1>2, <1>4, TextParts
  <2>8. QED  BY <1>1, <2>5, <2>6, <2>7, TextWhole
<1>5. QED  BY <1>3, <1>4

LEMMA ReplaceCharSound ==
    ASSUME NEW s, Sound(s), NEW from \in Letters, NEW to \in Letters
    PROVE  Sound(Str!S!ReplaceChar(s, from, to))
<1> DEFINE replaced == [i \in 1..Len(s.chars) |-> IF s.chars[i] = from THEN to ELSE s.chars[i]]
<1>1. s.chars \in Seq(Characters) /\ s.nBufferLen \in Nat /\ Str!S!nLen(s) = Len(s.chars) /\ Len(s.chars) \in Nat
  BY TextParts
<1>2. replaced \in Seq(Characters) /\ Len(replaced) = Len(s.chars)
  BY <1>1 DEF Characters
<1>3. Str!S!ReplaceChar(s, from, to) = [s EXCEPT !.chars = replaced]
  BY <1>1 DEF Str!S!ReplaceChar
<1>4. Str!S!ReplaceChar(s, from, to) = [chars |-> replaced, nBufferLen |-> s.nBufferLen]
  BY <1>3, TextParts
<1>5. replaced = <<>> \/ Len(replaced) < s.nBufferLen
  <2>1. s.chars = <<>> \/ Len(s.chars) < s.nBufferLen
    BY TextParts
  <2>2. Len(replaced) = 0 => replaced = <<>>
    BY <1>2
  <2>3. QED  BY <1>1, <1>2, <2>1, <2>2
<1>6. QED  BY <1>1, <1>2, <1>4, <1>5, TextWhole

-----------------------------------------------------------------------------
(* The theorem *)

TextsSound == Sound(str) /\ Sound(arg) /\ overran \in {"none", "SetLength", "Trim"}

\* A call whose text is sound keeps it so, wherever the call went.
LEMMA AccessSound ==
    ASSUME TextsSound, NEW call, NEW n, NEW s, Sound(s), Str!Access(call, n, s),
           n <= str.nBufferLen \/ call \in {"SetLength", "Trim"}
    PROVE  TextsSound'
BY DEF TextsSound, Str!Access

\* A change that copies no more than there is stays inside the buffer it finds.
LEMMA ChangeSound ==
    ASSUME TextsSound, NEW call, NEW n, NEW s, Sound(s), Str!Change(call, n, s),
           n <= str.nBufferLen \/ call \in {"SetLength", "Trim"}
    PROVE  TextsSound'
<1> DEFINE touched == IF s.nBufferLen # str.nBufferLen THEN n
                      ELSE IF Str!S!IsNull(str) THEN 0 ELSE Len(s.chars) + 1
<1>1. Str!Access(call, touched, s)
  BY DEF Str!Change
<1>2. str.nBufferLen \in Nat /\ s.nBufferLen \in Nat /\ Len(s.chars) \in Nat /\ (s.chars = <<>> \/ Len(s.chars) < s.nBufferLen)
  BY TextParts DEF TextsSound
<1>3. CASE s.nBufferLen # str.nBufferLen
  BY <1>1, <1>3, AccessSound
<1>4. CASE s.nBufferLen = str.nBufferLen
  <2>1. s.chars = <<>> => Len(s.chars) = 0
    OBVIOUS
  <2>2. touched <= str.nBufferLen
    BY <1>2, <1>4, <2>1 DEF Str!S!IsNull
  <2> HIDE DEF touched
  <2>3. QED  BY <1>1, <2>2, AccessSound
<1>5. QED  BY <1>3, <1>4

LEMMA CallsKeepTexts == ASSUME Str!StringAssumption, TextsSound, [Str!Next]_(Str!vars) PROVE TextsSound'
<1>s. Sound(str) /\ Sound(arg)
  BY DEF TextsSound
<1>t. str.chars \in Seq(Characters) /\ arg.chars \in Seq(Characters) /\ \A n \in 0..MaxText : n \in Nat
  BY <1>s DEF Sound, Buffers, Str!StringAssumption
<1>l. str.nBufferLen \in Nat /\ Str!S!nLen(str) <= str.nBufferLen /\ 0 <= str.nBufferLen
  <2>1. str.chars = <<>> => Len(str.chars) = 0
    OBVIOUS
  <2>2. QED  BY <1>s, <2>1, TextParts
<1>1. ASSUME NEW text \in Str!TextsUpTo(3), Str!SetLow(text) PROVE TextsSound'
  <2>1. text \in Seq(Characters)
    <3>1. PICK m \in 0..3 : text \in [1..m -> Letters]
      BY DEF Str!TextsUpTo
    <3>2. text \in [1..m -> Characters]
      BY <3>1 DEF Characters
    <3>3. QED  BY <3>2
  <2>2. Sound(Str!S!SetLow(arg, text, TRUE))
    BY <1>s, <2>1, SetLowSound
  <2>3. QED  BY <1>1, <2>2 DEF Str!SetLow, TextsSound
<1>2. CASE Str!Set
  BY <1>2, <1>s, <1>l, SetSound, ChangeSound DEF Str!Set
<1>3. CASE Str!AppendString
  <2>1. Sound(Str!S!AppendString(str, arg))
    BY <1>s, <1>t, Append1Sound DEF Str!S!AppendString, Str!S!AppendLow
  <2>2. QED  BY <1>3, <2>1, <1>l, ChangeSound DEF Str!AppendString
<1>4. CASE Str!AppendFormat
  <2>1. Sound(Str!S!AppendFormat(str, arg.chars))
    BY <1>s, <1>t, Append1Sound DEF Str!S!AppendFormat
  <2>2. QED  BY <1>4, <2>1, <1>l, ChangeSound DEF Str!AppendFormat
<1>5. CASE Str!PrintFormat
  BY <1>5, <1>s, <1>t, <1>l, PrintFormatSound, ChangeSound DEF Str!PrintFormat
<1>6. CASE Str!Trim
  BY <1>6, <1>s, TrimSound, AccessSound DEF Str!Trim
<1>7. ASSUME NEW n \in 0..MaxText, Str!SetLength(n) PROVE TextsSound'
  BY <1>7, <1>s, <1>t, SetLengthSound, ChangeSound DEF Str!SetLength
<1>8. ASSUME NEW n \in 0..MaxText, NEW len \in 0..MaxText, Str!SetSub(n, len) PROVE TextsSound'
  <2>1. Sound(Str!S!SetSub(str, arg, n, len))
    BY <1>8, <1>s, <1>t, SetSubSound DEF Str!SetSub
  <2>2. QED  BY <1>8, <2>1, <1>l, ChangeSound DEF Str!SetSub
<1>9. ASSUME NEW ch \in Letters, Str!AppendChar(ch) PROVE TextsSound'
  <2>1. <<ch>> \in Seq(Characters)
    BY DEF Characters
  <2>2. Sound(Str!S!AppendChar(str, ch))
    BY <1>s, <2>1, Append1Sound DEF Str!S!AppendChar
  <2>3. QED  BY <1>9, <2>2, <1>l, ChangeSound DEF Str!AppendChar
<1>10. ASSUME NEW from \in Letters, NEW to \in Letters, Str!ReplaceChar(from, to) PROVE TextsSound'
  <2>1. Sound(Str!S!ReplaceChar(str, from, to))
    BY <1>s, ReplaceCharSound
  <2>2. QED  BY <1>10, <2>1, <1>l, AccessSound DEF Str!ReplaceChar
<1>11. CASE UNCHANGED Str!vars
  BY <1>11 DEF Str!vars, TextsSound
<1>12. QED
  BY <1>1, <1>2, <1>3, <1>4, <1>5, <1>6, <1>7, <1>8, <1>9, <1>10, <1>11 DEF Str!Next

\* Whatever calls grew, shrank or replaced a text, its characters and the NUL
\* behind them lie within the buffer that the next change will reuse.
THEOREM TextsFit == Spec => []TextFitsBuffer
<1>0. Str!StringAssumption
  BY CapCommonAssumption DEF PartsAssumption
<1>1. Init => TextsSound
  BY NewSound DEF Init, Str!Init, TextsSound
<1>2. [Next]_vars => [Str!Next]_(Str!vars)
  BY DEF Next, vars, TextVars, Str!vars
<1>3. TextsSound /\ [Next]_vars => TextsSound'
  BY <1>0, <1>2, CallsKeepTexts
<1>4. TextsSound => TextFitsBuffer
  BY DEF TextsSound, Sound, Lies, TextFitsBuffer, Str!TextFitsBuffer
<1>5. QED  BY <1>1, <1>3, <1>4, PTL DEF Spec

-----------------------------------------------------------------------------
(* CAPString_FindString *)

\* One value of the walk over the target from those behind it: the result when m
\* characters of the needle are matched before place n.
Walk(s, d, scan) ==
    [n \in 0..Len(s) |->
       [m \in 0..(Len(d) - 1) |->
          IF n >= Len(s) - Len(d) + m + 1 THEN -1
          ELSE IF s[n + 1] # d[m + 1] THEN scan[n + 1][0]
          ELSE IF m + 1 = Len(d) THEN n - m
          ELSE scan[n + 1][m + 1]]]

\* The walk reads the values behind a place alone.
AgreeBehind(n, end, f, g) == n < end => f[n + 1] = g[n + 1]

LEMMA WalkReadsAhead ==
    ASSUME NEW s \in Seq(Characters), NEW d \in Seq(Characters), Len(d) > 0, NEW f, NEW g,
           NEW n \in 0..Len(s), AgreeBehind(n, Len(s), f, g)
    PROVE  Walk(s, d, f)[n] = Walk(s, d, g)[n]
<1>1. Len(s) \in Nat /\ Len(d) \in Nat
  OBVIOUS
<1>2. ASSUME NEW m \in 0..(Len(d) - 1), ~(n >= Len(s) - Len(d) + m + 1) PROVE f[n + 1] = g[n + 1]
  BY <1>1, <1>2 DEF AgreeBehind
<1>3. QED  BY <1>2 DEF Walk

\* There is a function that the equation of the walk describes: from the end of the
\* target on, each place has its values.
LEMMA WalkIsDefined ==
    ASSUME NEW s \in Seq(Characters), NEW d \in Seq(Characters), Len(d) > 0
    PROVE  \E scan : scan = Walk(s, d, scan)
<1> DEFINE N == Len(s)
           Part(f, k) == [n \in 0..N |-> IF n >= N - k THEN Walk(s, d, f)[n] ELSE 0]
           T == {k \in Nat : \E f : f = Part(f, k)}
<1>0. N \in Nat
  OBVIOUS
<1>1. 0 \in T
  <2> DEFINE f == Part(0, 0)
  <2>1. \A n \in 0..N : n >= N - 0 => n = N
    BY <1>0
  <2>2. Walk(s, d, f)[N] = Walk(s, d, 0)[N]
    <3> HIDE DEF f
    <3>1. N \in 0..Len(s) /\ AgreeBehind(N, Len(s), f, 0)
      BY <1>0 DEF AgreeBehind
    <3> HIDE DEF N
    <3>2. QED  BY <3>1, WalkReadsAhead
  <2>3. f = Part(f, 0)
    BY <2>1, <2>2
  <2> HIDE DEF Part, f
  <2>4. QED  BY <2>3
<1>2. ASSUME NEW k \in T PROVE k + 1 \in T
  <2>1. PICK f : f = Part(f, k)
    OBVIOUS
  <2> DEFINE g == Part(f, k + 1)
  <2>2. k \in Nat
    OBVIOUS
  <2>3. \A n \in 0..N : n >= N - k => f[n] = g[n]
    <3>1. ASSUME NEW n \in 0..N, n >= N - k PROVE f[n] = g[n]
      <4>1. n >= N - (k + 1)
        BY <1>0, <2>2, <3>1
      <4>2. f[n] = Walk(s, d, f)[n]
        BY <2>1, <3>1
      <4>3. QED  BY <4>1, <4>2
    <3>2. QED  BY <3>1
  <2> HIDE DEF N
  <2>4. ASSUME NEW n \in 0..N, n >= N - (k + 1) PROVE Walk(s, d, f)[n] = Walk(s, d, g)[n]
    <3>1. n < N => n + 1 \in 0..N /\ n + 1 >= N - k
      BY <1>0, <2>2, <2>4
    <3>2. n < N => f[n + 1] = g[n + 1]
      BY <2>3, <3>1
    <3> HIDE DEF g
    <3>3. n \in 0..Len(s) /\ AgreeBehind(n, Len(s), f, g)
      BY <3>2 DEF N, AgreeBehind
    <3>4. QED  BY <3>3, WalkReadsAhead
  <2>5. g = Part(g, k + 1)
    BY <2>4
  <2>6. k + 1 \in Nat
    BY <2>2
  <2> HIDE DEF Part, g
  <2>7. QED  BY <2>5, <2>6
<1>3. N \in T
  <2>1. T \in SUBSET Nat
    OBVIOUS
  <2> HIDE DEF T
  <2>2. QED  BY <1>0, <1>1, <1>2, <2>1, Induction
<1>4. PICK f : f = Part(f, N)
  BY <1>3
<1>5. \A n \in 0..N : n >= N - N
  BY <1>0
<1>6. f = [n \in 0..N |-> Walk(s, d, f)[n]]
  BY <1>4, <1>5
<1>7. f = Walk(s, d, f)
  BY <1>6 DEF Walk
<1>8. QED  BY <1>7

\* The needle stands in the text at a place counted from zero.
Stands(s, d, r) == r + Len(d) <= Len(s) /\ \A j \in 1..Len(d) : s[r + j] = d[j]

\* m characters of the needle stand before place n.
Matched(s, d, n, m) == m <= n /\ \A j \in 1..m : s[(n - m) + j] = d[j]

\* The walk goes on from a place as the code does.
Goes(s, d, scan, n, m) ==
    /\ n >= Len(s) - Len(d) + m + 1 => scan[n][m] = -1
    /\ ~(n >= Len(s) - Len(d) + m + 1) =>
         /\ s[n + 1] # d[m + 1] => scan[n][m] = scan[n + 1][0]
         /\ s[n + 1] = d[m + 1] => scan[n][m] = IF m + 1 = Len(d) THEN n - m ELSE scan[n + 1][m + 1]

LEMMA WalkAt ==
    ASSUME NEW s \in Seq(Characters), NEW d \in Seq(Characters), Len(d) > 0,
           NEW scan, scan = Walk(s, d, scan),
           NEW n \in 0..Len(s), NEW m \in 0..(Len(d) - 1)
    PROVE  Goes(s, d, scan, n, m)
<1>1. scan[n][m] = Walk(s, d, scan)[n][m]
  OBVIOUS
<1>2. Walk(s, d, scan)[n][m] = IF n >= Len(s) - Len(d) + m + 1 THEN -1
                               ELSE IF s[n + 1] # d[m + 1] THEN scan[n + 1][0]
                               ELSE IF m + 1 = Len(d) THEN n - m
                               ELSE scan[n + 1][m + 1]
  BY DEF Walk
<1>3. QED  BY <1>1, <1>2 DEF Goes

\* Where the walk says it found the needle, the needle is.
LEMMA WalkIsRight ==
    ASSUME NEW s \in Seq(Characters), NEW d \in Seq(Characters), Len(d) > 0,
           NEW scan, scan = Walk(s, d, scan),
           NEW n \in 0..Len(s), scan[n][0] # -1
    PROVE  scan[n][0] \in Nat /\ scan[n][0] >= n /\ Stands(s, d, scan[n][0])
<1> DEFINE Right(i, m) == Matched(s, d, i, m) /\ scan[i][m] # -1
                            => scan[i][m] \in Nat /\ scan[i][m] >= i - m /\ Stands(s, d, scan[i][m])
           T == {k \in Nat : \A i \in 0..Len(s) : i + k = Len(s) => \A m \in 0..(Len(d) - 1) : Right(i, m)}
<1>0. Len(s) \in Nat /\ Len(d) \in Nat
  OBVIOUS
<1>1. 0 \in T
  <2>1. ASSUME NEW i \in 0..Len(s), i + 0 = Len(s), NEW m \in 0..(Len(d) - 1) PROVE scan[i][m] = -1
    BY <1>0, <2>1, WalkAt DEF Goes
  <2>2. QED  BY <2>1
<1>2. ASSUME NEW k \in T PROVE k + 1 \in T
  <2>1. k \in Nat /\ \A i \in 0..Len(s) : i + k = Len(s) => \A m \in 0..(Len(d) - 1) : Right(i, m)
    OBVIOUS
  <2>2. ASSUME NEW i \in 0..Len(s), i + (k + 1) = Len(s), NEW m \in 0..(Len(d) - 1),
               Matched(s, d, i, m), scan[i][m] # -1
        PROVE  scan[i][m] \in Nat /\ scan[i][m] >= i - m /\ Stands(s, d, scan[i][m])
    <3>1. i + 1 \in 0..Len(s) /\ (i + 1) + k = Len(s) /\ 0 \in 0..(Len(d) - 1)
      BY <1>0, <2>1, <2>2
    <3>2. Right(i + 1, 0) /\ \A j \in 0..(Len(d) - 1) : Right(i + 1, j)
      BY <2>1, <3>1
    <3>0. Goes(s, d, scan, i, m)
      BY <2>2, WalkAt
    <3>3. ~(i >= Len(s) - Len(d) + m + 1)
      BY <2>2, <3>0 DEF Goes
    <3>4. CASE s[i + 1] # d[m + 1]
      <4>1. scan[i][m] = scan[i + 1][0]
        BY <3>0, <3>3, <3>4 DEF Goes
      <4>2. Matched(s, d, i + 1, 0)
        BY DEF Matched
      <4>3. scan[i + 1][0] \in Nat /\ scan[i + 1][0] >= (i + 1) - 0 /\ Stands(s, d, scan[i + 1][0])
        BY <2>2, <3>2, <4>1, <4>2
      <4>4. QED  BY <4>1, <4>3
    <3>5. CASE s[i + 1] = d[m + 1] /\ m + 1 = Len(d)
      <4>1. scan[i][m] = i - m
        BY <3>0, <3>3, <3>5 DEF Goes
      <4>2. i - m \in Nat /\ (i - m) + Len(d) <= Len(s)
        BY <1>0, <2>2, <3>1, <3>5 DEF Matched
      <4>3. ASSUME NEW j \in 1..Len(d) PROVE s[(i - m) + j] = d[j]
        <5>1. CASE j \in 1..m
          BY <2>2, <5>1 DEF Matched
        <5>2. CASE j = m + 1
          <6>1. (i - m) + j = i + 1
            BY <5>2
          <6>2. QED  BY <3>5, <5>2, <6>1
        <5>3. QED  BY <1>0, <3>5, <5>1, <5>2
      <4>4. QED  BY <4>1, <4>2, <4>3 DEF Stands
    <3>6. CASE s[i + 1] = d[m + 1] /\ m + 1 # Len(d)
      <4>1. scan[i][m] = scan[i + 1][m + 1]
        BY <3>0, <3>3, <3>6 DEF Goes
      <4>2. m + 1 \in 0..(Len(d) - 1)
        BY <1>0, <3>6
      <4>3. Matched(s, d, i + 1, m + 1)
        <5>1. m + 1 <= i + 1 /\ (i + 1) - (m + 1) = i - m
          BY <2>2 DEF Matched
        <5>2. ASSUME NEW j \in 1..(m + 1) PROVE s[(i - m) + j] = d[j]
          <6>1. CASE j \in 1..m
            BY <2>2, <6>1 DEF Matched
          <6>2. CASE j = m + 1
            <7>1. (i - m) + j = i + 1
              BY <6>2
            <7>2. QED  BY <3>6, <6>2, <7>1
          <6>3. QED  BY <6>1, <6>2
        <5>3. QED  BY <5>1, <5>2 DEF Matched
      <4>4. scan[i + 1][m + 1] \in Nat /\ scan[i + 1][m + 1] >= (i + 1) - (m + 1) /\ Stands(s, d, scan[i + 1][m + 1])
        BY <2>2, <3>2, <4>1, <4>2, <4>3
      <4>5. QED  BY <4>1, <4>4
    <3>7. QED  BY <3>4, <3>5, <3>6
  <2>3. QED  BY <2>1, <2>2
<1>3. Len(s) - n \in T
  <2>1. T \in SUBSET Nat /\ Len(s) - n \in Nat
    BY <1>0
  <2> HIDE DEF T
  <2>2. QED  BY <1>1, <1>2, <2>1, Induction
<1>4. Matched(s, d, n, 0)
  BY DEF Matched
<1>5. 0 \in 0..(Len(d) - 1) /\ n + (Len(s) - n) = Len(s)
  BY <1>0
<1>6. Right(n, 0)
  BY <1>3, <1>5
<1>7. QED  BY <1>4, <1>6

\* From the place where the needle stands the walk matches it to its end.
LEMMA WalkMatches ==
    ASSUME NEW s \in Seq(Characters), NEW d \in Seq(Characters), Len(d) > 0,
           NEW scan, scan = Walk(s, d, scan),
           NEW r \in Nat, Stands(s, d, r)
    PROVE  scan[r][0] = r
<1> DEFINE T == {k \in Nat : \A m \in 0..(Len(d) - 1) : m + k = Len(d) - 1 => scan[r + m][m] = r}
<1>0. Len(s) \in Nat /\ Len(d) \in Nat
  OBVIOUS
<1>1. ASSUME NEW m \in 0..(Len(d) - 1)
      PROVE  scan[r + m][m] = IF m + 1 = Len(d) THEN r ELSE scan[r + (m + 1)][m + 1]
  <2>1. /\ r + m \in 0..Len(s) /\ ~(r + m >= Len(s) - Len(d) + m + 1) /\ (r + m) - m = r
        /\ (r + m) + 1 = r + (m + 1) /\ m + 1 \in 1..Len(d)
    BY <1>0 DEF Stands
  <2>2. s[(r + m) + 1] = d[m + 1]
    BY <2>1 DEF Stands
  <2>3. Goes(s, d, scan, r + m, m)
    <3> DEFINE n == r + m
    <3>1. n \in 0..Len(s)
      BY <2>1
    <3> HIDE DEF n
    <3>2. Goes(s, d, scan, n, m)
      BY <3>1, WalkAt
    <3>3. QED  BY <3>2 DEF n
  <2>4. scan[r + m][m] = IF m + 1 = Len(d) THEN (r + m) - m ELSE scan[(r + m) + 1][m + 1]
    BY <2>1, <2>2, <2>3 DEF Goes
  <2>5. QED  BY <2>1, <2>4
<1>2. 0 \in T
  <2>1. ASSUME NEW m \in 0..(Len(d) - 1), m + 0 = Len(d) - 1 PROVE scan[r + m][m] = r
    <3>1. m + 1 = Len(d)
      BY <1>0, <2>1
    <3>2. QED  BY <1>1, <3>1
  <2>2. QED  BY <2>1
<1>3. ASSUME NEW k \in T PROVE k + 1 \in T
  <2>1. ASSUME NEW m \in 0..(Len(d) - 1), m + (k + 1) = Len(d) - 1 PROVE scan[r + m][m] = r
    <3>1. m + 1 \in 0..(Len(d) - 1) /\ (m + 1) + k = Len(d) - 1 /\ m + 1 # Len(d)
      BY <1>0, <2>1
    <3>2. scan[r + (m + 1)][m + 1] = r
      BY <3>1
    <3>3. QED  BY <1>1, <3>1, <3>2
  <2>2. QED  BY <2>1
<1>4. Len(d) - 1 \in T
  <2>1. T \in SUBSET Nat /\ Len(d) - 1 \in Nat
    BY <1>0
  <2> HIDE DEF T
  <2>2. QED  BY <1>2, <1>3, <2>1, Induction
<1>5. 0 \in 0..(Len(d) - 1) /\ 0 + (Len(d) - 1) = Len(d) - 1 /\ r + 0 = r
  BY <1>0
<1>6. QED  BY <1>4, <1>5

\* Before it, the walk passes over what does not begin like the needle.
LEMMA WalkReaches ==
    ASSUME NEW s \in Seq(Characters), NEW d \in Seq(Characters), Len(d) > 0,
           NEW scan, scan = Walk(s, d, scan),
           NEW r \in Nat, Stands(s, d, r), NEW n \in 0..r, \A i \in n..(r - 1) : s[i + 1] # d[1]
    PROVE  scan[n][0] = r
<1> DEFINE T == {k \in Nat : k <= r - n => scan[r - k][0] = r}
<1>0. Len(s) \in Nat /\ Len(d) \in Nat
  OBVIOUS
<1>1. 0 \in T
  BY WalkMatches
<1>2. ASSUME NEW k \in T PROVE k + 1 \in T
  <2>1. k \in Nat /\ (k <= r - n => scan[r - k][0] = r)
    OBVIOUS
  <2>2. ASSUME k + 1 <= r - n PROVE scan[r - (k + 1)][0] = r
    <3> DEFINE i == r - (k + 1)
    <3>0. r + Len(d) <= Len(s)
      BY DEF Stands
    <3>1. /\ i \in 0..Len(s) /\ i \in n..(r - 1) /\ i + 1 = r - k
          /\ 0 \in 0..(Len(d) - 1) /\ ~(i >= Len(s) - Len(d) + 0 + 1) /\ 0 + 1 = 1
      BY <1>0, <2>1, <2>2, <3>0
    <3> HIDE DEF i
    <3>2. s[i + 1] # d[1]
      <4>1. \A j \in n..(r - 1) : s[j + 1] # d[1]
        OBVIOUS
      <4>2. i \in n..(r - 1)
        BY <3>1
      <4>3. QED  BY <4>1, <4>2, Zenon
    <3>3. Goes(s, d, scan, i, 0)
      BY <3>1, WalkAt
    <3>4. k <= r - n
      BY <2>1, <2>2
    <3>5. scan[i][0] = r
      BY <2>1, <3>1, <3>2, <3>3, <3>4 DEF Goes
    <3>6. QED  BY <3>5 DEF i
  <2>3. k + 1 \in Nat
    BY <2>1
  <2>4. QED  BY <2>2, <2>3
<1>3. r - n \in T
  <2>1. T \in SUBSET Nat /\ r - n \in Nat
    OBVIOUS
  <2> HIDE DEF T
  <2>2. QED  BY <1>1, <1>2, <2>1, Induction
<1>4. r - n <= r - n /\ r - (r - n) = n
  OBVIOUS
<1>5. QED  BY <1>3, <1>4

LEMMA StandsWhereItOccurs ==
    ASSUME NEW s, NEW d, Sound(s), Sound(d), NEW r \in Nat
    PROVE  Str!OccursAt(s, d, r) <=> Stands(s.chars, d.chars, r)
<1> DEFINE a == s.chars
           b == d.chars
           part == SubSeq(a, r + 1, r + Len(b))
<1>1. a \in Seq(Characters) /\ b \in Seq(Characters) /\ Len(a) \in Nat /\ Len(b) \in Nat
  BY DEF Sound, Buffers
<1>2. Str!OccursAt(s, d, r) <=> r + Len(b) <= Len(a) /\ part = b
  BY DEF Str!OccursAt, Str!S!nLen
<1> HIDE DEF a, b
<1>3. ASSUME r + Len(b) <= Len(a) PROVE part = b <=> \A j \in 1..Len(b) : a[r + j] = b[j]
  <2>1. part \in Seq(Characters) /\ Len(part) = Len(b) /\ \A j \in 1..Len(b) : part[j] = a[r + j]
    BY <1>1, <1>3
  <2> HIDE DEF part
  <2>2. part = b <=> \A j \in 1..Len(b) : part[j] = b[j]
    BY <1>1, <2>1
  <2>3. QED  BY <2>1, <2>2
<1> HIDE DEF part
<1>4. QED  BY <1>2, <1>3 DEF Stands, a, b

\* CAPString_FindString is the walk.
LEMMA FindStringWalks ==
    ASSUME NEW s, NEW d, Sound(s), Sound(d), d.chars # <<>>
    PROVE  \E scan : /\ scan = Walk(s.chars, d.chars, scan)
                     /\ \A n \in 0..(Len(s.chars) - 1) :
                           Str!S!FindString(s, n, d) = IF Len(d.chars) > Len(s.chars) - n THEN -1 ELSE scan[n][0]
<1> DEFINE scan == CHOOSE f : f = Walk(s.chars, d.chars, f)
<1>1. s.chars \in Seq(Characters) /\ d.chars \in Seq(Characters) /\ Len(d.chars) > 0
  BY DEF Sound, Buffers
<1>2. scan = Walk(s.chars, d.chars, scan)
  BY <1>1, WalkIsDefined
<1>3. \A n \in 0..(Len(s.chars) - 1) :
        Str!S!FindString(s, n, d) = IF Len(d.chars) > Len(s.chars) - n THEN -1 ELSE scan[n][0]
  BY DEF Str!S!FindString, Str!S!nLen, Str!S!At, Str!S!NOT_FOUND, Walk
<1>4. QED  BY <1>2, <1>3

LEMMA FirstCharacter ==
    ASSUME NEW s, Sound(s), NEW n \in 0..(Len(s.chars) - 1), NEW ch,
           Str!S!FindChar(s, n, ch) # -1
    PROVE  LET first == Str!S!FindChar(s, n, ch)
           IN  first \in Nat /\ first >= n /\ \A i \in n..(first - 1) : s.chars[i + 1] # ch
<1> DEFINE there == {i \in n..(Len(s.chars) - 1) : s.chars[i + 1] = ch}
           first == CHOOSE i \in there : \A j \in there : i <= j
<1>0. s.chars \in Seq(Characters) /\ Len(s.chars) \in Nat
  BY DEF Sound, Buffers
<1>1. Str!S!FindChar(s, n, ch) = IF there = {} THEN -1 ELSE first
  BY <1>0 DEF Str!S!FindChar, Str!S!nLen, Str!S!At, Str!S!NOT_FOUND
<1>2. there # {} /\ there \in SUBSET Nat
  BY <1>0, <1>1
<1>3. \E i \in there : \A j \in there : i <= j
  <2> HIDE DEF there
  <2>1. QED  BY <1>2, Least
<1>4. first \in there /\ \A j \in there : first <= j
  BY <1>3
<1> HIDE DEF first
<1>5. ASSUME NEW i \in n..(first - 1) PROVE s.chars[i + 1] # ch
  <2>1. first \in n..(Len(s.chars) - 1)
    BY <1>4
  <2>2. i \in n..(Len(s.chars) - 1) /\ ~(first <= i)
    BY <1>0, <2>1
  <2>3. QED  BY <1>4, <2>2
<1>6. first \in Nat /\ first >= n
  BY <1>0, <1>4
<1>7. QED  BY <1>1, <1>2, <1>5, <1>6

LEMMA SearchIsRight == ASSUME TextsSound PROVE Str!FindsTheNeedle
<1> SUFFICES ASSUME NEW n \in 0..(Str!S!nLen(str) - 1), arg.chars # <<>>
             PROVE  LET found == Str!S!FindString(str, n, arg)
                        first == Str!S!FindChar(str, n, arg.chars[1])
                    IN  /\ found # Str!S!NOT_FOUND => found >= n /\ Str!OccursAt(str, arg, found)
                        /\ first # Str!S!NOT_FOUND /\ Str!OccursAt(str, arg, first) => found = first
  BY DEF Str!FindsTheNeedle
<1> DEFINE found == Str!S!FindString(str, n, arg)
           first == Str!S!FindChar(str, n, arg.chars[1])
           s == str.chars
           d == arg.chars
<1>1. /\ Sound(str) /\ Sound(arg) /\ s \in Seq(Characters) /\ d \in Seq(Characters)
      /\ Len(s) \in Nat /\ Len(d) \in Nat /\ Len(d) > 0 /\ n \in 0..(Len(s) - 1) /\ n \in 0..Len(s)
  BY DEF TextsSound, Sound, Buffers, Str!S!nLen
<1>2. PICK scan : /\ scan = Walk(s, d, scan)
                  /\ \A i \in 0..(Len(s) - 1) : Str!S!FindString(str, i, arg) = IF Len(d) > Len(s) - i THEN -1 ELSE scan[i][0]
  BY <1>1, FindStringWalks
<1>3. found = IF Len(d) > Len(s) - n THEN -1 ELSE scan[n][0]
  BY <1>1, <1>2
<1> HIDE DEF found, first
<1>4. ASSUME found # -1 PROVE found >= n /\ Str!OccursAt(str, arg, found)
  <2>1. found = scan[n][0] /\ scan[n][0] # -1
    BY <1>3, <1>4
  <2>2. found \in Nat /\ found >= n /\ Stands(s, d, found)
    BY <1>1, <1>2, <2>1, WalkIsRight
  <2>3. QED  BY <1>1, <2>2, StandsWhereItOccurs
<1>5. ASSUME first # -1, Str!OccursAt(str, arg, first) PROVE found = first
  <2>1. first \in Nat /\ first >= n /\ \A i \in n..(first - 1) : s[i + 1] # d[1]
    BY <1>1, <1>5, FirstCharacter DEF first
  <2>2. Stands(s, d, first)
    BY <1>1, <1>5, <2>1, StandsWhereItOccurs
  <2>3. n \in 0..first /\ ~(Len(d) > Len(s) - n)
    BY <1>1, <2>1, <2>2 DEF Stands
  <2>4. scan[n][0] = first
    BY <1>1, <1>2, <2>1, <2>2, <2>3, WalkReaches
  <2>5. QED  BY <1>3, <2>3, <2>4
<1>6. QED  BY <1>4, <1>5 DEF found, first, Str!S!NOT_FOUND

\* What CAPString_FindString says of a needle is right: at the place it answers the
\* needle stands, and an occurrence that the first letter met begins is found.
THEOREM NeedlesAreFound == Spec => []FindsTheNeedle
<1>0. Str!StringAssumption
  BY CapCommonAssumption DEF PartsAssumption
<1>1. Init => TextsSound
  BY NewSound DEF Init, Str!Init, TextsSound
<1>2. [Next]_vars => [Str!Next]_(Str!vars)
  BY DEF Next, vars, TextVars, Str!vars
<1>3. TextsSound /\ [Next]_vars => TextsSound'
  BY <1>0, <1>2, CallsKeepTexts
<1>4. TextsSound => FindsTheNeedle
  BY SearchIsRight DEF FindsTheNeedle
<1>5. QED  BY <1>1, <1>3, <1>4, PTL DEF Spec

-----------------------------------------------------------------------------
(* Values of services (handleServiceMessage of ThingManager.c, DBHandler.c) *)

\* Past the first step the key is right and there is a value; the rows of the query
\* belong to things the value is meant for.
OnTheWay ==
    /\ pc \in {"save", "check", "find", "insert"} => History!KeyIsRight(msg) /\ msg.variable # "none"
    /\ pc = "insert" => userThings \subseteq History!Addressed(msg)

HandlerInv == History!TypeOK /\ OnTheWay /\ History!ValuesReachEveryThing

\* The query finds only things the value is meant for, and for a user with one
\* thing of the service, or a general service, all of them (RowsFor, DBHandler.c).
LEMMA RowsAreAddressed ==
    ASSUME NEW m, History!KeyIsRight(m), m.variable # "none"
    PROVE  History!RowsFor(m) = History!Addressed(m)
  BY DEF History!RowsFor, History!Addressed, History!KeyIsRight

LEMMA AddressedAreThings ==
    ASSUME History!HistoryAssumption, NEW m
    PROVE  History!Addressed(m) \subseteq UserThings
  BY DEF History!Addressed, History!HistoryAssumption

-----------------------------------------------------------------------------
LEMMA HandlerInit == ASSUME History!HistoryAssumption, History!Init PROVE HandlerInv
  BY DEF History!Init, HandlerInv, History!TypeOK, History!Places, OnTheWay, History!ValuesReachEveryThing, History!Missing, History!Pending

\* A step of the handler that records nothing and loses nothing: whatever was going
\* to be recorded still is.
LEMMA QuietStep ==
    ASSUME History!ValuesReachEveryThing, UNCHANGED <<due, recorded, nErrors>>,
           \A t \in UserThings : History!Pending(t)' <=> History!Pending(t)
    PROVE  History!ValuesReachEveryThing'
  <1>1. \A t \in UserThings : History!Missing(t)' = History!Missing(t)
    BY DEF History!Missing
  <1> QED BY <1>1 DEF History!ValuesReachEveryThing, History!Served, History!IsConnected

LEMMA ReceiveKeeps ==
    ASSUME History!HistoryAssumption, HandlerInv, NEW m \in Messages, History!Receive(m) PROVE HandlerInv'
  <1> USE DEF HandlerInv, History!TypeOK, History!Places
  <1>1. History!TypeOK' /\ OnTheWay'
    BY DEF History!HistoryAssumption, History!Receive, OnTheWay
  <1>2. CASE UNCHANGED <<pc, msg, due>>
    <2>1. \A t \in UserThings : History!Pending(t)' <=> History!Pending(t)
      BY <1>2, AddressedAreThings DEF History!Pending, History!Receive, History!Addressed
    <2> QED BY <1>1, <1>2, <2>1, QuietStep DEF History!Receive
  <1>3. CASE pc' = "verify" /\ msg' = m /\
             due' = [t \in UserThings |-> IF t \in History!Addressed(m) THEN due[t] + 1 ELSE due[t]]
    <2>1. \A t \in UserThings : ~History!Pending(t) /\ (History!Pending(t)' <=> t \in History!Addressed(m))
      BY <1>3 DEF History!Pending, History!Receive, History!Addressed
    <2>2. \A t \in UserThings : History!Missing(t)' = History!Missing(t)
      BY <1>3, <2>1 DEF History!Missing, History!Receive
    <2> QED BY <1>1, <2>2 DEF History!ValuesReachEveryThing, History!Served, History!IsConnected, History!Receive
  <1> QED BY <1>2, <1>3 DEF History!Receive

\* The message given up was meant for nobody.
LEMMA VerifyApiKeyKeeps ==
    ASSUME History!HistoryAssumption, HandlerInv, History!VerifyApiKey PROVE HandlerInv'
  <1> USE DEF HandlerInv, History!TypeOK, History!Places
  <1>1. History!TypeOK' /\ OnTheWay'
    BY DEF History!VerifyApiKey, History!Leave, History!Proceed, OnTheWay, History!KeyIsRight
  <1>2. \A t \in UserThings : History!Pending(t)' <=> History!Pending(t)
    BY DEF History!VerifyApiKey, History!Leave, History!Proceed, History!Pending, History!Addressed, History!KeyIsRight
  <1> QED BY <1>1, <1>2, QuietStep DEF History!VerifyApiKey

LEMMA ProceedingKeeps ==
    ASSUME History!HistoryAssumption, HandlerInv, History!SaveBinaryFile \/ History!CheckService PROVE HandlerInv'
  <1> USE DEF HandlerInv, History!TypeOK, History!Places
  <1>1. History!TypeOK' /\ OnTheWay'
    BY DEF History!SaveBinaryFile, History!CheckService, History!Proceed, OnTheWay, History!KeyIsRight
  <1>2. \A t \in UserThings : History!Pending(t)' <=> History!Pending(t)
    BY DEF History!SaveBinaryFile, History!CheckService, History!Proceed, History!Pending, History!Addressed
  <1> QED BY <1>1, <1>2, QuietStep DEF History!SaveBinaryFile, History!CheckService

\* A row that is not fetched belongs to a user with another thing of the service.
LEMMA FindUserThingsKeeps ==
    ASSUME History!HistoryAssumption, HandlerInv, History!FindUserThings PROVE HandlerInv'
  <1> USE DEF HandlerInv, History!TypeOK, History!Places
  <1>1. /\ History!KeyIsRight(msg) /\ msg.variable # "none"
        /\ History!RowsFor(msg) = History!Addressed(msg) /\ History!Addressed(msg) \subseteq UserThings
    BY RowsAreAddressed, AddressedAreThings DEF History!FindUserThings, OnTheWay
  <1>2. userThings' \subseteq History!RowsFor(msg)
    BY DEF History!FindUserThings
  <1>3. History!TypeOK' /\ OnTheWay'
    <2>1. History!TypeOK' BY <1>1, <1>2 DEF History!FindUserThings
    <2>2. OnTheWay'
      BY <1>1, <1>2 DEF History!FindUserThings, OnTheWay, History!KeyIsRight, History!Addressed
    <2> QED BY <2>1, <2>2
  <1>4. \A t \in UserThings : History!Pending(t)' => History!Pending(t)
    BY DEF History!FindUserThings, History!Pending, History!Addressed
  <1>5. ASSUME NEW t \in UserThings, History!Served(t), History!Pending(t) PROVE History!Pending(t)'
    <2>1. t \in History!RowsFor(msg) /\ t \in ThingsOf[msg.service] /\ msg.service \in Services
      BY <1>1, <1>5 DEF History!Pending, History!Addressed
    <2>2. History!IsConnected(msg.service)
      BY <2>1, <1>5 DEF History!Served
    <2>3. CASE msg.user = EveryUser
      BY <2>1, <2>3, <1>5 DEF History!FindUserThings, History!Pending, History!Addressed
    <2>4. CASE msg.user # EveryUser
      <3>1. History!RowsFor(msg) = {t}
        <4>1. \A x \in History!RowsFor(msg) : x \in ThingsOf[msg.service] /\ Customer[x] = msg.user
          BY <2>4 DEF History!RowsFor
        <4> QED BY <4>1, <2>1, <2>2 DEF History!IsConnected
      <3> QED BY <3>1, <2>4, <1>5 DEF History!FindUserThings, History!Pending, History!Addressed
    <2> QED BY <2>3, <2>4
  <1>6. \A t \in UserThings : /\ History!Missing(t)' >= 0
                              /\ History!Served(t) => History!Missing(t)' <= nErrors'
    <2> SUFFICES ASSUME NEW t \in UserThings
                 PROVE  History!Missing(t)' >= 0 /\ (History!Served(t) => History!Missing(t)' <= nErrors')
      OBVIOUS
    <2>1. History!Missing(t) >= 0 /\ (History!Served(t) => History!Missing(t) <= nErrors)
      BY DEF History!ValuesReachEveryThing
    <2>2. UNCHANGED <<due, recorded, nErrors>> /\ due[t] \in Nat /\ recorded[t] \in Nat
      BY DEF History!FindUserThings
    <2>3. History!Missing(t)' >= History!Missing(t) /\ (History!Served(t) => History!Missing(t)' = History!Missing(t))
      BY <1>4, <1>5, <2>2 DEF History!Missing
    <2> QED BY <2>1, <2>2, <2>3 DEF History!Missing
  <1> QED BY <1>3, <1>6 DEF History!ValuesReachEveryThing, History!Served, History!IsConnected

\* The row inserted was meant; a thing without a customer, which ends the loop, is
\* only found beside things that are not counted on to be served.
LEMMA InsertVariableKeeps ==
    ASSUME History!HistoryAssumption, HandlerInv, NEW t \in UserThings, History!InsertVariable(t) PROVE HandlerInv'
  <1> USE DEF HandlerInv, History!TypeOK, History!Places
  <1>1. userThings \subseteq History!Addressed(msg) /\ t \in History!Addressed(msg)
    BY DEF OnTheWay, History!InsertVariable
  <1>2. History!TypeOK' /\ OnTheWay'
    BY <1>1 DEF History!InsertVariable, OnTheWay, History!KeyIsRight, History!Addressed
  <1> SUFFICES ASSUME NEW x \in UserThings
               PROVE  History!Missing(x)' >= 0 /\ (History!Served(x) => History!Missing(x)' <= nErrors')
    BY <1>2 DEF History!ValuesReachEveryThing, History!Served, History!IsConnected
  <1>3. History!Missing(x) >= 0 /\ (History!Served(x) => History!Missing(x) <= nErrors)
    BY DEF History!ValuesReachEveryThing
  <1>4. /\ UNCHANGED <<due, nErrors, msg, pc>> /\ pc = "insert"
        /\ due[x] \in Nat /\ recorded[x] \in Nat
    BY DEF History!InsertVariable
  <1>5. CASE Customer[t] = NoCustomer
    <2>1. UNCHANGED recorded /\ userThings' = {} /\ ~History!Pending(x)'
      BY <1>4, <1>5 DEF History!InsertVariable, History!Pending
    <2>2. History!Served(x) => ~History!Pending(x)
      <3>1. ~History!IsConnected(msg.service)
        BY <1>1, <1>5 DEF History!Addressed, History!IsConnected
      <3> QED BY <3>1 DEF History!Served, History!Pending, History!Addressed
    <2> QED BY <1>3, <1>4, <2>1, <2>2 DEF History!Missing
  <1>6. CASE Customer[t] # NoCustomer
    <2>1. userThings' = userThings \ {t} /\ recorded' = [recorded EXCEPT ![t] = @ + 1]
      BY <1>6 DEF History!InsertVariable
    <2>2. CASE x = t
      <3>1. History!Pending(x) /\ ~History!Pending(x)' /\ recorded'[x] = recorded[x] + 1
        BY <1>1, <1>4, <2>1, <2>2 DEF History!InsertVariable, History!Pending
      <3> QED BY <1>3, <1>4, <3>1 DEF History!Missing
    <2>3. CASE x # t
      <3>1. (History!Pending(x)' <=> History!Pending(x)) /\ recorded'[x] = recorded[x]
        BY <1>4, <2>1, <2>3 DEF History!Pending, History!Addressed
      <3> QED BY <1>3, <1>4, <3>1 DEF History!Missing
    <2> QED BY <2>2, <2>3
  <1> QED BY <1>5, <1>6

LEMMA AllInsertedKeeps ==
    ASSUME History!HistoryAssumption, HandlerInv, History!AllInserted PROVE HandlerInv'
  <1> USE DEF HandlerInv, History!TypeOK, History!Places
  <1>1. History!TypeOK' /\ OnTheWay'
    BY DEF History!AllInserted, History!Leave, OnTheWay
  <1>2. \A t \in UserThings : History!Pending(t)' <=> History!Pending(t)
    BY DEF History!AllInserted, History!Leave, History!Pending
  <1> QED BY <1>1, <1>2, QuietStep DEF History!AllInserted

\* What was pending is lost, once for each thing, and the failure is counted.
LEMMA FailKeeps ==
    ASSUME History!HistoryAssumption, HandlerInv, History!Fail PROVE HandlerInv'
  <1> USE DEF HandlerInv, History!TypeOK, History!Places
  <1>1. History!TypeOK' /\ OnTheWay'
    BY DEF History!Fail, History!Leave, OnTheWay
  <1> SUFFICES ASSUME NEW x \in UserThings
               PROVE  History!Missing(x)' >= 0 /\ (History!Served(x) => History!Missing(x)' <= nErrors')
    BY <1>1 DEF History!ValuesReachEveryThing, History!Served, History!IsConnected
  <1>2. History!Missing(x) >= 0 /\ (History!Served(x) => History!Missing(x) <= nErrors)
    BY DEF History!ValuesReachEveryThing
  <1>3. /\ UNCHANGED <<due, recorded>> /\ nErrors' = nErrors + 1 /\ nErrors \in Nat
        /\ due[x] \in Nat /\ recorded[x] \in Nat /\ ~History!Pending(x)'
    BY DEF History!Fail, History!Leave, History!Pending
  <1> QED BY <1>2, <1>3 DEF History!Missing

-----------------------------------------------------------------------------
LEMMA HandlerSteps == ASSUME History!HistoryAssumption, HandlerInv, [History!Next]_(History!vars) PROVE HandlerInv'
  <1>1. CASE History!Next
    BY <1>1, ReceiveKeeps, VerifyApiKeyKeeps, ProceedingKeeps, FindUserThingsKeeps,
       InsertVariableKeeps, AllInsertedKeeps, FailKeeps DEF History!Next
  <1>2. CASE UNCHANGED History!vars
    BY <1>2 DEF History!vars, HandlerInv, History!TypeOK, OnTheWay, History!KeyIsRight, History!Addressed, History!ValuesReachEveryThing,
                History!Missing, History!Pending, History!Served, History!IsConnected
  <1> QED BY <1>1, <1>2

\* Whatever services, things, users and messages there are, and however often a
\* statement fails: a value is recorded once for each user it is meant for, and for
\* nobody else (DBHandler_InsertServiceVariableHistory).
THEOREM ValuesReachTheirThings == Spec => []ValuesReachEveryThing
<1>0. History!HistoryAssumption
  BY CapCommonAssumption DEF PartsAssumption
<1>1. Init => HandlerInv
  BY <1>0, HandlerInit DEF Init
<1>2. [Next]_vars => [History!Next]_(History!vars)
  BY DEF Next, vars, HistoryVars, History!vars
<1>3. HandlerInv /\ [Next]_vars => HandlerInv'
  BY <1>0, <1>2, HandlerSteps
<1>4. HandlerInv => ValuesReachEveryThing
  BY DEF HandlerInv, ValuesReachEveryThing
<1>5. QED  BY <1>1, <1>3, <1>4, PTL DEF Spec

-----------------------------------------------------------------------------
(* Codings (CAPBase64.c): groups of three bytes and of four characters *)

LEMMA SameCardinality == ASSUME NEW S PROVE Base64!Cardinality(S) = Cardinality(S)
BY DEF Base64!Cardinality, Cardinality

Octet == 0..255

\* The groups of three bytes.
Groups(n) == (n + 2) \div 3

LEMMA Lengths ==
    ASSUME NEW n \in Nat
    PROVE  /\ Groups(n) \in Nat /\ 3 * Groups(n) - n \in 0..2
           /\ Base64!EncodedLen(n) = 4 * Groups(n) + 1
           /\ Base64!EncodedLen(3 * Groups(n)) = 4 * Groups(n) + 1
           /\ (4 * Groups(n) + 1 + 3) \div 4 = Groups(n) + 1
<1> DEFINE g == (n + 2) \div 3
<1>1. g \in Nat /\ 3 * g - n \in 0..2
  OBVIOUS
<1>2. (3 * g + 2) \div 3 = g
  BY <1>1
<1>3. (4 * g + 1 + 3) \div 4 = g + 1
  BY <1>1
<1>4. QED  BY <1>1, <1>2, <1>3 DEF Groups, Base64!EncodedLen

\* Six bits at a time, and back.
LEMMA BitFields ==
    ASSUME NEW c3 \in Octet, NEW c2 \in Octet, NEW c1 \in Octet
    PROVE  /\ c3 \div 4 \in 0..63 /\ (c3 % 4) * 16 + c2 \div 16 \in 0..63
           /\ (c2 % 16) * 4 + c1 \div 64 \in 0..63 /\ c1 % 64 \in 0..63
           /\ (c3 \div 4) * 4 + ((c3 % 4) * 16 + c2 \div 16) \div 16 = c3
           /\ (((c3 % 4) * 16 + c2 \div 16) % 16) * 16 + ((c2 % 16) * 4 + c1 \div 64) \div 4 = c2
           /\ (((c2 % 16) * 4 + c1 \div 64) % 4) * 64 + (c1 % 64) = c1
<1> DEFINE q3 == c3 \div 4  r3 == c3 % 4
           q2 == c2 \div 16 r2 == c2 % 16
           q1 == c1 \div 64 r1 == c1 % 64
<1>1. q3 \in 0..63 /\ r3 \in 0..3 /\ c3 = 4 * q3 + r3
  BY DEF Octet
<1>2. q2 \in 0..15 /\ r2 \in 0..15 /\ c2 = 16 * q2 + r2
  BY DEF Octet
<1>3. q1 \in 0..3 /\ r1 \in 0..63 /\ c1 = 64 * q1 + r1
  BY DEF Octet
<1> HIDE DEF q3, r3, q2, r2, q1, r1
<1>4. (r3 * 16 + q2) \div 16 = r3 /\ (r3 * 16 + q2) % 16 = q2
  BY <1>1, <1>2
<1>5. (r2 * 4 + q1) \div 4 = r2 /\ (r2 * 4 + q1) % 4 = q1
  BY <1>2, <1>3
<1>6. /\ q3 \in 0..63 /\ r3 * 16 + q2 \in 0..63 /\ r2 * 4 + q1 \in 0..63 /\ r1 \in 0..63
      /\ q3 * 4 + (r3 * 16 + q2) \div 16 = c3
      /\ ((r3 * 16 + q2) % 16) * 16 + (r2 * 4 + q1) \div 4 = c2
      /\ ((r2 * 4 + q1) % 4) * 64 + r1 = c1
  BY <1>1, <1>2, <1>3, <1>4, <1>5
<1>7. QED  BY <1>6 DEF q3, r3, q2, r2, q1, r1

\* Place 4g - 4 + k of the text is character k of group g.
LEMMA PlaceOfChar ==
    ASSUME NEW d \in Seq(Octet), NEW b \in Octet, NEW g \in 1..Groups(Len(d)), NEW k \in 1..4
    PROVE  Base64!Encoded(d, b)[4 * (g - 1) + k] = Base64!EncodeGroup(d, b, 3 * (g - 1))[k]
<1>0. Len(d) \in Nat
  OBVIOUS
<1>1. Groups(Len(d)) \in Nat /\ Base64!EncodedLen(Len(d)) - 1 = 4 * Groups(Len(d))
  BY <1>0, Lengths, SMTT(30)
<1> DEFINE i == 4 * (g - 1) + k
<1>2. i \in 1..(4 * Groups(Len(d))) /\ (i - 1) \div 4 = g - 1 /\ ((i - 1) % 4) + 1 = k
  BY <1>1
<1>3. Base64!Encoded(d, b)[i] = Base64!EncodeGroup(d, b, ((i - 1) \div 4) * 3)[((i - 1) % 4) + 1]
  BY <1>1, <1>2 DEF Base64!Encoded
<1>4. (g - 1) * 3 = 3 * (g - 1)
  BY <1>1
<1>5. QED  BY <1>2, <1>3, <1>4

\* What the four characters of a group are, and which bytes they give back: the pads
\* stand for bytes behind the data, and nothing of what lies there reaches a byte of it.
LEMMA GroupOfChars ==
    ASSUME NEW d \in Seq(Octet), NEW b \in Octet, NEW g \in 1..Groups(Len(d))
    PROVE  LET e == Base64!Encoded(d, b) IN
           /\ e[4 * g - 3] \in 0..63 /\ e[4 * g - 2] \in 0..63
           /\ IF 3 * g - 1 > Len(d) THEN e[4 * g - 1] = Base64!Pad ELSE e[4 * g - 1] \in 0..63
           /\ IF 3 * g > Len(d) THEN e[4 * g] = Base64!Pad ELSE e[4 * g] \in 0..63
           /\ e[4 * g - 3] * 4 + e[4 * g - 2] \div 16 = d[3 * g - 2]
           /\ 3 * g - 1 <= Len(d) => (e[4 * g - 2] % 16) * 16 + e[4 * g - 1] \div 4 = d[3 * g - 1]
           /\ 3 * g <= Len(d) => (e[4 * g - 1] % 4) * 64 + e[4 * g] = d[3 * g]
<1> DEFINE e1 == Base64!Encoded(d, b)[4 * g - 3]  e2 == Base64!Encoded(d, b)[4 * g - 2]
           e3 == Base64!Encoded(d, b)[4 * g - 1]  e4 == Base64!Encoded(d, b)[4 * g]
           n == Len(d)
           ni == 3 * (g - 1)
           Byte(i) == IF i < n THEN d[i + 1] ELSE b
           c2 == IF ni > n - 1 THEN 0 ELSE Byte(ni + 1)
           c1 == IF ni > n - 2 THEN 0 ELSE Byte(ni + 2)
           s == Base64!Sextets(Byte(ni), c2, c1)
<1>0. n \in Nat /\ \A i \in 1..n : d[i] \in Octet
  OBVIOUS
<1>1. ni \in Nat /\ g \in Nat /\ ni < n /\ 3 * g = ni + 3
  <2>1. Groups(n) \in Nat /\ 3 * Groups(n) - n \in 0..2
    BY <1>0, Lengths
  <2>2. QED  BY <1>0, <2>1
<1>2. Byte(ni) = d[3 * g - 2] /\ Byte(ni) \in Octet
  BY <1>0, <1>1
<1>3. c2 \in Octet /\ (3 * g - 1 <= n => c2 = d[3 * g - 1])
  BY <1>0, <1>1 DEF Octet
<1>4. c1 \in Octet /\ (3 * g <= n => c1 = d[3 * g])
  <2>1. CASE ni > n - 2
    BY <1>0, <1>1, <2>1 DEF Octet
  <2>2. CASE ni + 2 = n
    BY <1>0, <1>1, <2>2
  <2>3. CASE ni + 2 < n
    <3>1. ni + 3 \in 1..n /\ c1 = d[ni + 3]
      BY <1>0, <1>1, <2>3
    <3>2. QED  BY <1>0, <1>1, <3>1
  <2>4. QED  BY <1>0, <1>1, <2>1, <2>2, <2>3
<1>5. /\ Base64!EncodeGroup(d, b, ni)[1] = s[1] /\ Base64!EncodeGroup(d, b, ni)[2] = s[2]
      /\ Base64!EncodeGroup(d, b, ni)[3] = (IF ni > n - 2 THEN Base64!Pad ELSE s[3])
      /\ Base64!EncodeGroup(d, b, ni)[4] = (IF ni > n - 3 THEN Base64!Pad ELSE s[4])
  BY DEF Base64!EncodeGroup
<1>6. /\ s[1] = Byte(ni) \div 4 /\ s[2] = (Byte(ni) % 4) * 16 + c2 \div 16
      /\ s[3] = (c2 % 16) * 4 + c1 \div 64 /\ s[4] = c1 % 64
  BY DEF Base64!Sextets
<1>7. /\ 4 * (g - 1) + 1 = 4 * g - 3 /\ 4 * (g - 1) + 2 = 4 * g - 2
      /\ 4 * (g - 1) + 3 = 4 * g - 1 /\ 4 * (g - 1) + 4 = 4 * g
  BY <1>1
<1>8. /\ e1 = s[1] /\ e2 = s[2]
      /\ e3 = (IF ni > n - 2 THEN Base64!Pad ELSE s[3])
      /\ e4 = (IF ni > n - 3 THEN Base64!Pad ELSE s[4])
  <2>1. \A k \in 1..4 : Base64!Encoded(d, b)[4 * (g - 1) + k] = Base64!EncodeGroup(d, b, ni)[k]
    BY PlaceOfChar
  <2>2. /\ e1 = Base64!EncodeGroup(d, b, ni)[1] /\ e2 = Base64!EncodeGroup(d, b, ni)[2]
        /\ e3 = Base64!EncodeGroup(d, b, ni)[3] /\ e4 = Base64!EncodeGroup(d, b, ni)[4]
    <3> HIDE DEF ni
    <3>1. QED  BY <2>1, <1>7
  <2>3. QED  BY <2>2, <1>5
<1>9. /\ (ni > n - 2) <=> (3 * g - 1 > n)
      /\ (ni > n - 3) <=> (3 * g > n)
  BY <1>0, <1>1
<1>10. /\ s[1] \in 0..63 /\ s[2] \in 0..63 /\ s[3] \in 0..63 /\ s[4] \in 0..63
       /\ s[1] * 4 + s[2] \div 16 = Byte(ni)
       /\ (s[2] % 16) * 16 + s[3] \div 4 = c2
       /\ (s[3] % 4) * 64 + s[4] = c1
  <2>1. Byte(ni) \in Octet /\ c2 \in Octet /\ c1 \in Octet
    BY <1>2, <1>3, <1>4
  <2> DEFINE c3 == Byte(ni)
  <2>2. /\ s[1] = c3 \div 4 /\ s[2] = (c3 % 4) * 16 + c2 \div 16
        /\ s[3] = (c2 % 16) * 4 + c1 \div 64 /\ s[4] = c1 % 64
    BY <1>6
  <2>3. c3 \in Octet /\ c2 \in Octet /\ c1 \in Octet
    BY <2>1
  <2> HIDE DEF c3, c2, c1, s
  <2>4. /\ s[1] \in 0..63 /\ s[2] \in 0..63 /\ s[3] \in 0..63 /\ s[4] \in 0..63
        /\ s[1] * 4 + s[2] \div 16 = c3
        /\ (s[2] % 16) * 16 + s[3] \div 4 = c2
        /\ (s[3] % 4) * 64 + s[4] = c1
    BY <2>2, <2>3, BitFields
  <2>5. QED  BY <2>4 DEF c3
<1>11. /\ e1 \in 0..63 /\ e2 \in 0..63
       /\ IF 3 * g - 1 > n THEN e3 = Base64!Pad ELSE e3 \in 0..63
       /\ IF 3 * g > n THEN e4 = Base64!Pad ELSE e4 \in 0..63
       /\ e1 * 4 + e2 \div 16 = d[3 * g - 2]
       /\ 3 * g - 1 <= n => (e2 % 16) * 16 + e3 \div 4 = d[3 * g - 1]
       /\ 3 * g <= n => (e3 % 4) * 64 + e4 = d[3 * g]
  <2> HIDE DEF n, ni, Byte, c2, c1, s, e1, e2, e3, e4
  <2>1. QED  BY <1>0, <1>1, <1>2, <1>3, <1>4, <1>8, <1>9, <1>10
<1>12. QED  BY <1>11

\* A text as long as the code says, in groups of four; every place of it is in a group.
LEMMA GroupOfPlace ==
    ASSUME NEW n \in Nat, NEW i \in 1..(4 * Groups(n))
    PROVE  \E g \in 1..Groups(n) : i \in {4 * g - 3, 4 * g - 2, 4 * g - 1, 4 * g}
<1> DEFINE G == Groups(n)
           g == (i - 1) \div 4 + 1
<1>1. G \in Nat
  BY Lengths
<1> HIDE DEF G
<1>2. g \in 1..G /\ i \in {4 * g - 3, 4 * g - 2, 4 * g - 1, 4 * g}
  <2>1. i \in 1..(4 * G)
    BY DEF G
  <2>2. QED  BY <1>1, <2>1
<1>3. QED  BY <1>2 DEF G

LEMMA TextIsLongEnough ==
    ASSUME NEW d \in Seq(Octet), NEW b
    PROVE  Base64!Encoded(d, b) \in [1..(4 * Groups(Len(d))) -> {Base64!Encoded(d, b)[i] : i \in 1..(4 * Groups(Len(d)))}]
           /\ Len(Base64!Encoded(d, b)) = 4 * Groups(Len(d))
<1>0. Len(d) \in Nat
  OBVIOUS
<1>a. Groups(Len(d)) \in Nat /\ Base64!EncodedLen(Len(d)) = 4 * Groups(Len(d)) + 1
  BY <1>0, Lengths
<1>1. Base64!EncodedLen(Len(d)) - 1 = 4 * Groups(Len(d)) /\ 4 * Groups(Len(d)) \in Nat
  BY <1>a
<1>2. Base64!Encoded(d, b) = [i \in 1..(4 * Groups(Len(d))) |-> Base64!Encoded(d, b)[i]]
  BY <1>1 DEF Base64!Encoded
<1> DEFINE m == 4 * Groups(Len(d))
           e == Base64!Encoded(d, b)
<1> HIDE DEF m, e
<1>3. e = [i \in 1..m |-> e[i]] /\ m \in Nat
  BY <1>1, <1>2 DEF m, e
<1>4. Len(e) = m
  BY <1>3
<1>5. QED  BY <1>2, <1>4 DEF m, e

LEMMA PadOrNot ==
    ASSUME NEW x, NEW late \in BOOLEAN, IF late THEN x = Base64!Pad ELSE x \in 0..63
    PROVE  (x >= Base64!Nul <=> x = Base64!Pad) /\ (x = Base64!Pad <=> late) /\ x \in 0..Base64!Pad
BY DEF Base64!Nul, Base64!Pad

\* Only the pads stop the decoder's count, and they fall into the last group.
LEMMA WhereThePadsAre ==
    ASSUME NEW d \in Seq(Octet), NEW b \in Octet, NEW i \in 1..(4 * Groups(Len(d)))
    PROVE  /\ Base64!Encoded(d, b)[i] >= Base64!Nul <=> Base64!Encoded(d, b)[i] = Base64!Pad
           /\ Base64!Encoded(d, b)[i] = Base64!Pad <=> i > 4 * Groups(Len(d)) - (3 * Groups(Len(d)) - Len(d))
           /\ Base64!Encoded(d, b)[i] \in 0..Base64!Pad
<1> DEFINE n == Len(d)
           G == Groups(n)
           e == Base64!Encoded(d, b)
<1>1. n \in Nat
  OBVIOUS
<1>2. G \in Nat /\ 3 * G - n \in 0..2
  BY <1>1, Lengths
<1>3. PICK g \in 1..G : i \in {4 * g - 3, 4 * g - 2, 4 * g - 1, 4 * g}
  BY <1>1, GroupOfPlace
<1>4. /\ e[4 * g - 3] \in 0..63 /\ e[4 * g - 2] \in 0..63
      /\ IF 3 * g - 1 > n THEN e[4 * g - 1] = Base64!Pad ELSE e[4 * g - 1] \in 0..63
      /\ IF 3 * g > n THEN e[4 * g] = Base64!Pad ELSE e[4 * g] \in 0..63
  BY <1>3, GroupOfChars
<1>5. i \in Nat /\ g \in Nat /\ g <= G
  BY <1>2, <1>3
<1> HIDE DEF n, G, e
<1> DEFINE late == i > 4 * G - (3 * G - n)
<1>6. IF late THEN e[i] = Base64!Pad ELSE e[i] \in 0..63
  <2>1. CASE i = 4 * g - 3 \/ i = 4 * g - 2
    <3>1. ~late
      BY <1>1, <1>2, <1>5, <2>1
    <3>2. QED  BY <1>4, <2>1, <3>1
  <2>2. CASE i = 4 * g - 1
    <3>1. late <=> 3 * g - 1 > n
      BY <1>1, <1>2, <1>5, <2>2
    <3>2. QED  BY <1>4, <2>2, <3>1
  <2>3. CASE i = 4 * g
    <3>1. late <=> 3 * g > n
      BY <1>1, <1>2, <1>5, <2>3
    <3>2. QED  BY <1>4, <2>3, <3>1
  <2>4. QED  BY <1>3, <2>1, <2>2, <2>3
<1>7. late \in BOOLEAN
  OBVIOUS
<1> HIDE DEF late
<1>8. QED  BY <1>6, <1>7, PadOrNot DEF late, n, G, e

\* The count of the decoder: three bytes for each group, pads or not.
LEMMA DecodedGroups ==
    ASSUME NEW d \in Seq(Octet), NEW b \in Octet
    PROVE  Base64!DecodedLen(Base64!Encoded(d, b)) = 3 * Groups(Len(d))
<1> DEFINE n == Len(d)
           G == Groups(n)
           e == Base64!Encoded(d, b)
           stops == {i \in 1..Len(e) : e[i] >= Base64!Nul}
           first == CHOOSE i \in stops : \A j \in stops : i <= j
           k == IF stops = {} THEN Len(e) ELSE first - 1
<1>1. n \in Nat
  OBVIOUS
<1>2. G \in Nat /\ 3 * G - n \in 0..2
  BY <1>1, Lengths
<1>3. Len(e) = 4 * G
  BY TextIsLongEnough
<1>4. \A i \in 1..(4 * G) : e[i] >= Base64!Nul <=> i > 4 * G - (3 * G - n)
  BY WhereThePadsAre
<1>5. Base64!DecodedLen(e) = ((k + 3) \div 4) * 3
  BY DEF Base64!DecodedLen
<1> HIDE DEF n, G, e
<1>6. stops = {i \in 1..(4 * G) : i > 4 * G - (3 * G - n)}
  BY <1>3, <1>4
<1>7. k = 4 * G - (3 * G - n)
  <2>1. CASE 3 * G - n = 0
    <3>1. stops = {}
      BY <1>2, <1>6, <2>1
    <3>2. QED  BY <1>2, <1>3, <2>1, <3>1
  <2>2. CASE 3 * G - n # 0
    <3> DEFINE f == 4 * G - (3 * G - n) + 1
    <3>1. G > 0
      BY <1>1, <1>2, <2>2
    <3>2. f \in stops /\ \A j \in stops : f <= j
      <4>1. f \in 1..(4 * G) /\ f > 4 * G - (3 * G - n)
        BY <1>1, <1>2, <2>2, <3>1
      <4>2. \A j \in 1..(4 * G) : j > 4 * G - (3 * G - n) => f <= j
        BY <1>1, <1>2
      <4> HIDE DEF f, stops
      <4>3. QED  BY <1>6, <4>1, <4>2
    <3>3. \A i \in stops : (\A j \in stops : i <= j) => i = f
      <4>1. \A i \in stops : i \in Int
        BY <1>2, <1>6
      <4>2. f \in Int
        BY <1>1, <1>2
      <4>3. QED  BY <3>2, <4>1, <4>2
    <3>4. first = f
      BY <3>2, <3>3
    <3>5. k = f - 1
      BY <3>2, <3>4
    <3>6. QED  BY <1>1, <1>2, <3>5
  <2>3. QED  BY <2>1, <2>2
<1> HIDE DEF k
<1>8. (k + 3) \div 4 = G
  BY <1>1, <1>2, <1>7
<1>9. Base64!DecodedLen(e) = 3 * G
  BY <1>2, <1>5, <1>8
<1>10. QED  BY <1>9 DEF n, G, e

\* At most the two pads that may lie behind the terminator.
LEMMA PadsBehind ==
    ASSUME NEW m \in Nat, NEW J \in SUBSET (2..3)
    PROVE  /\ IsFiniteSet({m + i : i \in J})
           /\ Cardinality({m + i : i \in J}) = Cardinality(J) /\ Cardinality(J) \in 0..2
<1> DEFINE T == {m + i : i \in J}
<1>1. CASE J = {}
  <2>1. T = {}
    BY <1>1
  <2>2. QED  BY <1>1, <2>1, FS_EmptySet
<1>2. ASSUME NEW j \in 2..3, J = {j} PROVE IsFiniteSet(T) /\ Cardinality(T) = 1 /\ Cardinality(J) = 1
  <2>1. T = {m + j}
    BY <1>2
  <2>2. QED  BY <1>2, <2>1, FS_Singleton
<1>3. ASSUME J = {2, 3} PROVE IsFiniteSet(T) /\ Cardinality(T) = 2 /\ Cardinality(J) = 2
  <2>1. T = {m + 2} \cup {m + 3} /\ J = {2} \cup {3} /\ m + 3 \notin {m + 2} /\ 3 \notin {2}
    BY <1>3
  <2>2. ASSUME NEW x, NEW y, y \notin {x}
        PROVE  IsFiniteSet({x} \cup {y}) /\ Cardinality({x} \cup {y}) = 2
    <3>1. IsFiniteSet({x}) /\ Cardinality({x}) = 1
      BY FS_Singleton
    <3>2. IsFiniteSet({x} \cup {y}) /\ Cardinality({x} \cup {y}) = Cardinality({x}) + 1
      BY <2>2, <3>1, FS_AddElement
    <3>3. QED  BY <3>1, <3>2
  <2>3. IsFiniteSet(T) /\ Cardinality(T) = 2
    <3> HIDE DEF T
    <3>1. IsFiniteSet({m + 2} \cup {m + 3}) /\ Cardinality({m + 2} \cup {m + 3}) = 2
      BY <2>1, <2>2
    <3>2. QED  BY <2>1, <3>1
  <2>4. Cardinality(J) = 2
    BY <2>1, <2>2
  <2>5. QED  BY <2>3, <2>4
<1>4. J = {} \/ J = {2} \/ J = {3} \/ J = {2, 3}
  <2>1. 2..3 = {2, 3}
    OBVIOUS
  <2>2. QED  BY <2>1
<1> HIDE DEF T
<1>5. IsFiniteSet(T) /\ Cardinality(T) = Cardinality(J) /\ Cardinality(J) \in 0..2
  <2>1. CASE J = {}
    BY <1>1, <2>1, FS_EmptySet DEF T
  <2>2. CASE J = {2} \/ J = {3}
    BY <1>2, <2>2
  <2>3. CASE J = {2, 3}
    BY <1>3, <2>3 DEF T
  <2>4. QED  BY <1>4, <2>1, <2>2, <2>3
<1>6. QED  BY <1>5 DEF T

\* The pads among the third and fourth characters of groups, and those in memory
\* behind a terminator that Decode still reads.
PadsAmong(c, turns) == {i \in {4 * g - 1 : g \in turns} \cup {4 * g : g \in turns} : c[i] = Base64!Pad}
PadsPast(junk) == {i \in 2..3 : junk[i] = Base64!Pad}

\* The pads are those of the text and those behind its terminator.
LEMMA PadsCounted ==
    ASSUME NEW d \in Seq(Octet), NEW b \in Octet, NEW junk,
           NEW c,
           \A i \in 1..(4 * Groups(Len(d))) : c[i] = Base64!Encoded(d, b)[i],
           \A i \in 2..3 : c[4 * Groups(Len(d)) + 1 + i] = junk[i]
    PROVE  /\ Cardinality(PadsAmong(c, 1..(Groups(Len(d)) + 1)))
                = 3 * Groups(Len(d)) - Len(d) + Cardinality(PadsPast(junk))
           /\ Cardinality(PadsPast(junk)) \in 0..2
<1> DEFINE n == Len(d)
           G == Groups(n)
           J == {i \in 2..3 : junk[i] = Base64!Pad}
           turns == 1..(G + 1)
           pads == {i \in {4 * g - 1 : g \in turns} \cup {4 * g : g \in turns} : c[i] = Base64!Pad}
           own == (4 * G - (3 * G - n) + 1)..(4 * G)
           behind == {4 * G + 1 + i : i \in J}
<1>1. n \in Nat
  OBVIOUS
<1>2. G \in Nat /\ 3 * G - n \in 0..2
  BY <1>1, Lengths
<1>3. \A i \in 1..(4 * G) : c[i] = Base64!Pad <=> i > 4 * G - (3 * G - n)
  BY WhereThePadsAre
<1>4. \A i \in 2..3 : c[4 * G + 1 + i] = Base64!Pad <=> i \in J
  OBVIOUS
<1> HIDE DEF n, G, J
<1>5. G = 0 => n = 0
  BY <1>1, <1>2
<1>6. pads = own \cup behind
  <2>1. ASSUME NEW i \in pads PROVE i \in own \cup behind
    <3>1. PICK g \in turns : (i = 4 * g - 1 \/ i = 4 * g) /\ c[i] = Base64!Pad
      OBVIOUS
    <3>2. g \in Nat /\ g >= 1 /\ g <= G + 1
      BY <1>2
    <3>3. CASE g <= G
      <4>1. i \in 1..(4 * G)
        BY <1>2, <3>1, <3>2, <3>3
      <4>2. QED  BY <1>1, <1>2, <1>3, <3>1, <4>1
    <3>4. CASE g = G + 1
      <4>1. PICK k \in 2..3 : i = 4 * G + 1 + k
        <5>1. i = 4 * G + 1 + 2 \/ i = 4 * G + 1 + 3
          BY <1>2, <3>1, <3>4
        <5>2. QED  BY <5>1
      <4>2. QED  BY <1>4, <3>1, <4>1
    <3>5. QED  BY <1>2, <3>2, <3>3, <3>4
  <2>2. ASSUME NEW i \in own PROVE i \in pads
    <3>1. i \in 1..(4 * G) /\ i > 4 * G - (3 * G - n) /\ (i = 4 * G - 1 \/ i = 4 * G) /\ G \in turns
      BY <1>1, <1>2, <1>5
    <3>2. c[i] = Base64!Pad
      BY <1>3, <3>1
    <3>3. QED  BY <3>1, <3>2
  <2>3. ASSUME NEW i \in behind PROVE i \in pads
    <3>1. PICK k \in J : i = 4 * G + 1 + k
      OBVIOUS
    <3>2. k \in 2..3 /\ c[i] = Base64!Pad
      BY <1>4, <3>1 DEF J
    <3>3. G + 1 \in turns /\ (i = 4 * (G + 1) - 1 \/ i = 4 * (G + 1))
      BY <1>2, <3>1, <3>2
    <3>4. QED  BY <3>2, <3>3
  <2>4. QED  BY <2>1, <2>2, <2>3
<1>7. own \cap behind = {}
  <2>1. \A i \in J : i \in 2..3
    BY DEF J
  <2>2. \A i \in own : i <= 4 * G
    BY <1>1, <1>2
  <2>3. \A i \in behind : ~(i <= 4 * G)
    BY <1>2, <2>1
  <2>4. QED  BY <2>2, <2>3
<1>8. IsFiniteSet(own) /\ Cardinality(own) = 3 * G - n
  <2> DEFINE low == 4 * G - (3 * G - n) + 1
  <2>1. low \in Int /\ 4 * G \in Int /\ (IF low > 4 * G THEN 0 ELSE 4 * G - low + 1) = 3 * G - n
    BY <1>1, <1>2
  <2> HIDE DEF low
  <2>2. IsFiniteSet(low..(4 * G)) /\ Cardinality(low..(4 * G)) = 3 * G - n
    BY <2>1, FS_Interval
  <2>3. QED  BY <2>2 DEF low
<1>9. IsFiniteSet(behind) /\ Cardinality(behind) = Cardinality(J) /\ Cardinality(J) \in 0..2
  <2>1. 4 * G + 1 \in Nat /\ J \in SUBSET (2..3)
    BY <1>2 DEF J
  <2>2. QED  BY <2>1, PadsBehind
<1> HIDE DEF pads, own, behind
<1>10. Cardinality(pads) = 3 * G - n + Cardinality(J)
  <2>1. Cardinality(own \cup behind) = Cardinality(own) + Cardinality(behind) - Cardinality({})
    BY <1>7, <1>8, <1>9, FS_Union
  <2>2. Cardinality({}) = 0
    BY FS_EmptySet
  <2>3. QED  BY <1>1, <1>2, <1>6, <1>8, <1>9, <2>1, <2>2
<1>11. pads = PadsAmong(c, 1..(Groups(Len(d)) + 1)) /\ J = PadsPast(junk)
  BY DEF PadsAmong, PadsPast, pads, J, turns, n, G
<1>12. QED  BY <1>9, <1>10, <1>11 DEF n, G

\* A byte of the data is what its group gives back, at its place.
LEMMA ByteOfGroup ==
    ASSUME NEW d \in Seq(Octet), NEW b \in Octet, NEW i \in 1..Len(d), NEW Six,
           \A j \in 1..(4 * Groups(Len(d))) :
              Six[j] = IF Base64!Encoded(d, b)[j] >= Base64!Nul THEN 0 ELSE Base64!Encoded(d, b)[j],
           NEW g \in 1..Groups(Len(d)), NEW p \in 1..3, i = 3 * (g - 1) + p
    PROVE  Base64!Bytes(Six[4 * g - 3], Six[4 * g - 2], Six[4 * g - 1], Six[4 * g])[p] = d[i]
<1> DEFINE n == Len(d)
           G == Groups(n)
           e == Base64!Encoded(d, b)
           out == Base64!Bytes(Six[4 * g - 3], Six[4 * g - 2], Six[4 * g - 1], Six[4 * g])
<1>1. n \in Nat /\ i \in 1..n
  OBVIOUS
<1>2. G \in Nat /\ 3 * G - n \in 0..2
  BY <1>1, Lengths
<1>3. g \in Nat /\ g >= 1 /\ g <= G
  BY <1>2
<1> HIDE DEF n, G
<1>4. \/ i = 3 * g - 2 /\ p = 1
      \/ i = 3 * g - 1 /\ p = 2
      \/ i = 3 * g /\ p = 3
  BY <1>1, <1>3
<1>5. /\ e[4 * g - 3] \in 0..63 /\ e[4 * g - 2] \in 0..63
      /\ IF 3 * g - 1 > n THEN e[4 * g - 1] = Base64!Pad ELSE e[4 * g - 1] \in 0..63
      /\ IF 3 * g > n THEN e[4 * g] = Base64!Pad ELSE e[4 * g] \in 0..63
      /\ e[4 * g - 3] * 4 + e[4 * g - 2] \div 16 = d[3 * g - 2]
      /\ 3 * g - 1 <= n => (e[4 * g - 2] % 16) * 16 + e[4 * g - 1] \div 4 = d[3 * g - 1]
      /\ 3 * g <= n => (e[4 * g - 1] % 4) * 64 + e[4 * g] = d[3 * g]
  <2>1. g \in 1..Groups(Len(d))
    BY <1>2, <1>3 DEF G, n
  <2>2. QED  BY <2>1, GroupOfChars DEF n
<1>6. \A j \in 1..(4 * G) : e[j] \in 0..63 => Six[j] = e[j]
  <2>1. ASSUME NEW j \in 1..(4 * G), e[j] \in 0..63 PROVE Six[j] = e[j]
    <3>1. Six[j] = IF e[j] >= Base64!Nul THEN 0 ELSE e[j]
      BY DEF G, n
    <3>2. ~(e[j] >= Base64!Nul)
      <4> DEFINE x == e[j]
      <4>1. x \in 0..63
        BY <2>1
      <4> HIDE DEF x
      <4>2. ~(x >= Base64!Nul)
        BY <4>1 DEF Base64!Nul
      <4>3. QED  BY <4>2 DEF x
    <3>3. QED  BY <3>1, <3>2
  <2>2. QED  BY <2>1
<1>7. {4 * g - 3, 4 * g - 2, 4 * g - 1, 4 * g} \subseteq 1..(4 * G)
  BY <1>2, <1>3
<1>8. Six[4 * g - 3] = e[4 * g - 3] /\ Six[4 * g - 2] = e[4 * g - 2]
  BY <1>5, <1>6, <1>7
<1>9. /\ out[1] = Six[4 * g - 3] * 4 + Six[4 * g - 2] \div 16
      /\ out[2] = (Six[4 * g - 2] % 16) * 16 + Six[4 * g - 1] \div 4
      /\ out[3] = (Six[4 * g - 1] % 4) * 64 + Six[4 * g]
  BY DEF Base64!Bytes
<1> HIDE DEF e, out
<1>10. CASE i = 3 * g - 2 /\ p = 1
  BY <1>5, <1>8, <1>9, <1>10 DEF out
<1>11. CASE i = 3 * g - 1 /\ p = 2
  <2>1. 3 * g - 1 <= n /\ ~(3 * g - 1 > n)
    BY <1>1, <1>3, <1>11
  <2>2. Six[4 * g - 1] = e[4 * g - 1]
    BY <1>5, <1>6, <1>7, <2>1
  <2>3. out[2] = d[i]
    BY <1>5, <1>8, <1>9, <1>11, <2>1, <2>2
  <2>4. QED  BY <1>11, <2>3 DEF out
<1>12. CASE i = 3 * g /\ p = 3
  <2>1. 3 * g <= n /\ ~(3 * g > n) /\ ~(3 * g - 1 > n)
    BY <1>1, <1>3, <1>12
  <2>2. Six[4 * g - 1] = e[4 * g - 1] /\ Six[4 * g] = e[4 * g]
    BY <1>5, <1>6, <1>7, <2>1
  <2>3. out[3] = d[i]
    BY <1>5, <1>9, <1>12, <2>1, <2>2
  <2>4. QED  BY <1>12, <2>3 DEF out
<1>13. QED  BY <1>4, <1>10, <1>11, <1>12 DEF out

\* A sequence cut at a place within it, or before its first.
LEMMA CutShort ==
    ASSUME NEW d \in Seq(Octet), NEW size \in Int, size <= Len(d)
    PROVE  SubSeq(d, 1, size) = [i \in 1..(IF size < 0 THEN 0 ELSE size) |-> d[i]]
<1>1. CASE size >= 0
  <2>1. SubSeq(d, 1, size) = [i \in 1..size |-> d[i]]
    BY <1>1
  <2>2. QED  BY <1>1, <2>1
<1>2. CASE size < 0
  <2>1. 1..size = {} /\ 1..0 = {}
    BY <1>2
  <2>2. SubSeq(d, 1, size) = <<>>
    BY <1>2
  <2>3. [i \in 1..0 |-> d[i]] = <<>>
    BY <2>1
  <2>4. QED  BY <1>2, <2>2, <2>3
<1>3. QED  BY <1>1, <1>2

LEMMA Decoding ==
    ASSUME NEW d \in Seq(Octet), NEW b \in Octet, NEW junk
    PROVE  LET r == Base64!Decode(Base64!Encoded(d, b), junk) IN
           /\ r.junk = junk /\ r.size = Len(d) - Cardinality(PadsPast(junk))
           /\ r.bytes = SubSeq(d, 1, r.size)
<1> DEFINE e == Base64!Encoded(d, b)
           G == Groups(Len(d))
           turns == 1..((Base64!EncodedLen(Base64!DecodedLen(e)) + 3) \div 4)
           Char(i) == IF i <= Len(e) THEN e[i] ELSE IF i = Len(e) + 1 THEN Base64!Nul ELSE junk[i - Len(e) - 1]
           Six(i)  == IF Char(i) >= Base64!Nul THEN 0 ELSE Char(i)
           Group(g) == Base64!Bytes(Six(4 * g - 3), Six(4 * g - 2), Six(4 * g - 1), Six(4 * g))
           pads == {i \in {4 * g - 1 : g \in turns} \cup {4 * g : g \in turns} : Char(i) = Base64!Pad}
           size == Base64!DecodedLen(e) - Cardinality(pads)
           k == Cardinality(PadsPast(junk))
           bytes == [i \in 1..(IF size < 0 THEN 0 ELSE size) |-> Group((i - 1) \div 3 + 1)[((i - 1) % 3) + 1]]
<1>1. Base64!Decode(e, junk) = [done |-> TRUE, junk |-> junk, size |-> size, bytes |-> bytes]
  BY SameCardinality DEF Base64!Decode
<1>2. Len(d) \in Nat
  OBVIOUS
<1>3. G \in Nat /\ 3 * G - Len(d) \in 0..2 /\ Base64!EncodedLen(3 * G) = 4 * G + 1 /\ (4 * G + 1 + 3) \div 4 = G + 1
  BY <1>2, Lengths
<1>4. Len(e) = 4 * G /\ Base64!DecodedLen(e) = 3 * G
  BY TextIsLongEnough, DecodedGroups
<1>5. turns = 1..(G + 1)
  BY <1>3, <1>4
<1>6. \A i \in 1..(4 * G) : Char(i) = e[i]
  BY <1>3, <1>4
<1>7. \A i \in 2..3 : Char(4 * G + 1 + i) = junk[i]
  BY <1>3, <1>4, SMTT(30)
<1> HIDE DEF Char, turns
<1>8. Cardinality(pads) = 3 * G - Len(d) + k /\ k \in 0..2
  <2> DEFINE c == [i \in Nat |-> Char(i)]
             found == PadsAmong(c, 1..(G + 1))
  <2>1. \A i \in 1..(4 * G) : c[i] = e[i]
    BY <1>3, <1>6
  <2>2. \A i \in 2..3 : c[4 * G + 1 + i] = junk[i]
    BY <1>3, <1>7
  <2>3. \A g \in 1..(G + 1) : 4 * g - 1 \in Nat /\ 4 * g \in Nat
    BY <1>3
  <2>4. pads = found
    BY <1>5, <2>3 DEF PadsAmong
  <2> HIDE DEF c, k
  <2>5. Cardinality(found) = 3 * G - Len(d) + k /\ k \in 0..2
    BY <2>1, <2>2, PadsCounted DEF k
  <2>6. QED  BY <2>4, <2>5
<1> HIDE DEF pads, k
<1>9. size = Len(d) - k /\ size \in Int /\ size <= Len(d)
  <2>1. size = 3 * G - (3 * G - Len(d) + k)
    BY <1>4, <1>8
  <2> HIDE DEF G, size
  <2>2. QED  BY <1>2, <1>3, <1>8, <2>1
<1> HIDE DEF size
<1>10. ASSUME NEW i \in 1..(IF size < 0 THEN 0 ELSE size)
       PROVE  Group((i - 1) \div 3 + 1)[((i - 1) % 3) + 1] = d[i]
  <2>1. i \in 1..Len(d)
    BY <1>2, <1>9
  <2> DEFINE s == [j \in Nat |-> Six(j)]
             g == (i - 1) \div 3 + 1
  <2>2. \A j \in 1..(4 * G) : s[j] = IF e[j] >= Base64!Nul THEN 0 ELSE e[j]
    BY <1>3, <1>6
  <2>3. g \in Nat /\ g >= 1
    BY <2>1
  <2>4. 4 * g - 3 \in Nat /\ 4 * g - 2 \in Nat /\ 4 * g - 1 \in Nat /\ 4 * g \in Nat
    BY <2>3
  <2>5. Group(g) = Base64!Bytes(s[4 * g - 3], s[4 * g - 2], s[4 * g - 1], s[4 * g])
    BY <2>4
  <2> HIDE DEF s, Six, Group
  <2> DEFINE p == ((i - 1) % 3) + 1
  <2>6. g \in 1..G /\ p \in 1..3 /\ i = 3 * (g - 1) + p
    <3> HIDE DEF G
    <3>1. QED  BY <1>2, <1>3, <2>1
  <2> HIDE DEF p, g
  <2>7. Base64!Bytes(s[4 * g - 3], s[4 * g - 2], s[4 * g - 1], s[4 * g])[p] = d[i]
    BY <2>1, <2>2, <2>6, ByteOfGroup
  <2>8. QED  BY <2>5, <2>7 DEF p, g
<1>11. bytes = [i \in 1..(IF size < 0 THEN 0 ELSE size) |-> d[i]]
  BY <1>10
<1>12. bytes = SubSeq(d, 1, size)
  BY <1>9, <1>11, CutShort
<1> HIDE DEF bytes
<1>13. /\ Base64!Decode(e, junk).junk = junk /\ Base64!Decode(e, junk).size = Len(d) - k
       /\ Base64!Decode(e, junk).bytes = SubSeq(d, 1, Base64!Decode(e, junk).size)
  BY <1>1, <1>9, <1>12
<1>14. QED  BY <1>13 DEF k

\* The text there is encodes the data there are.
CodingInv == /\ data \in Seq(Octet) /\ \E b \in Octet : encoded = Base64!Encoded(data, b)
             /\ Base64!DecodesWhatWasEncoded

LEMMA CodingInit == Base64!Init => CodingInv
<1> SUFFICES ASSUME Base64!Init PROVE CodingInv
  OBVIOUS
<1>1. data = <<>> /\ data \in Seq(Octet) /\ Len(data) = 0 /\ 0 \in Octet
  BY DEF Base64!Init, Octet
<1>2. encoded = Base64!Encoded(data, 0)
  <2>1. Base64!EncodedLen(Len(data)) - 1 = 0
    BY <1>1 DEF Base64!EncodedLen
  <2>2. 1..(Base64!EncodedLen(Len(data)) - 1) = {}
    BY <2>1
  <2>3. Base64!Encoded(data, 0) = <<>>
    BY <2>2 DEF Base64!Encoded
  <2>4. QED  BY <2>3 DEF Base64!Init
<1>3. Base64!DecodesWhatWasEncoded
  BY DEF Base64!Init, Base64!DecodesWhatWasEncoded
<1>4. QED  BY <1>1, <1>2, <1>3 DEF CodingInv

LEMMA CodingSteps == ASSUME Base64!CodingAssumption, CodingInv, [Base64!Next]_(Base64!vars) PROVE CodingInv'
<1>1. ASSUME NEW d \in Inputs, NEW b \in Behind, Base64!EncodeIt(d, b) PROVE CodingInv'
  <2>1. d \in Seq(Octet) /\ b \in Octet
    BY DEF Base64!CodingAssumption, Octet
  <2>2. data' = d /\ encoded' = Base64!Encoded(d, b) /\ ~decoded'.done
    BY <1>1 DEF Base64!EncodeIt
  <2>3. QED  BY <2>1, <2>2 DEF CodingInv, Base64!DecodesWhatWasEncoded
<1>2. ASSUME NEW junk \in Junk \X Junk \X Junk, Base64!DecodeIt(junk) PROVE CodingInv'
  <2>1. PICK b \in Octet : encoded = Base64!Encoded(data, b)
    BY DEF CodingInv
  <2>2. UNCHANGED <<data, encoded>> /\ decoded' = Base64!Decode(Base64!Encoded(data, b), junk) /\ data \in Seq(Octet)
    BY <1>2, <2>1 DEF Base64!DecodeIt, CodingInv
  <2>3. /\ decoded'.junk = junk /\ decoded'.size = Len(data) - Cardinality(PadsPast(junk))
        /\ decoded'.bytes = SubSeq(data, 1, decoded'.size)
    <3> DEFINE r == Base64!Decode(Base64!Encoded(data, b), junk)
    <3>1. /\ r.junk = junk /\ r.size = Len(data) - Cardinality(PadsPast(junk))
          /\ r.bytes = SubSeq(data, 1, r.size)
      BY <2>2, Decoding, ZenonT(30)
    <3>2. decoded' = r
      BY <2>2
    <3> HIDE DEF r
    <3>3. QED  BY <3>1, <3>2
  <2>4. Base64!DecodesWhatWasEncoded'
    BY <2>2, <2>3, SameCardinality DEF Base64!DecodesWhatWasEncoded, PadsPast
  <2>5. QED  BY <2>1, <2>2, <2>4 DEF CodingInv
<1>3. CASE UNCHANGED Base64!vars
  BY <1>3 DEF Base64!vars, CodingInv, Base64!DecodesWhatWasEncoded
<1>4. QED  BY <1>1, <1>2, <1>3 DEF Base64!Next

\* Bytes of any number, encoded and decoded, are the same bytes, whatever lies in
\* memory behind them and behind their code; a pad sign behind the terminator takes
\* one off the end.
THEOREM CodingsAreUndone == Spec => []DecodesWhatWasEncoded
<1>0. Base64!CodingAssumption
  BY CapCommonAssumption DEF PartsAssumption
<1>1. Init => CodingInv
  BY CodingInit DEF Init
<1>2. [Next]_vars => [Base64!Next]_(Base64!vars)
  BY DEF Next, vars, CodingVars, Base64!vars
<1>3. CodingInv /\ [Next]_vars => CodingInv'
  BY <1>0, <1>2, CodingSteps
<1>4. CodingInv => DecodesWhatWasEncoded
  BY DEF CodingInv, DecodesWhatWasEncoded
<1>5. QED  BY <1>1, <1>3, <1>4, PTL DEF Spec

-----------------------------------------------------------------------------
(* Sequences of sequences *)

\* What FlattenSeq has joined of the first k sequences.
Joined(s, C, f) ==
    /\ f \in [0..Len(s) -> Seq(C)] /\ f[0] = <<>>
    /\ \A k \in 1..Len(s) : f[k] = f[k - 1] \o s[k]

LEMMA JoinedExists ==
    ASSUME NEW C, NEW s \in Seq(Seq(C))
    PROVE  \E f : Joined(s, C, f)
<1> DEFINE n == Len(s)
           Part(k) == \E f \in [0..k -> Seq(C)] : f[0] = <<>> /\ \A i \in 1..k : f[i] = f[i - 1] \o s[i]
           T == {k \in Nat : k <= n => Part(k)}
<1>0. n \in Nat /\ \A k \in 1..n : s[k] \in Seq(C)
  OBVIOUS
<1>1. 0 \in T
  <2> DEFINE f == [i \in 0..0 |-> <<>>]
  <2>1. f \in [0..0 -> Seq(C)] /\ f[0] = <<>> /\ \A i \in 1..0 : f[i] = f[i - 1] \o s[i]
    OBVIOUS
  <2>2. QED  BY <2>1
<1>2. ASSUME NEW k \in T PROVE k + 1 \in T
  <2>1. k \in Nat
    OBVIOUS
  <2>2. SUFFICES ASSUME k + 1 <= n PROVE Part(k + 1)
    <3> HIDE DEF Part
    <3>1. QED  BY <2>1
  <2>a. Part(k)
    <3> HIDE DEF Part
    <3>1. QED  BY <1>0, <2>1, <2>2
  <2>3. PICK f \in [0..k -> Seq(C)] : f[0] = <<>> /\ \A i \in 1..k : f[i] = f[i - 1] \o s[i]
    BY <2>a
  <2> DEFINE g == [i \in 0..(k + 1) |-> IF i <= k THEN f[i] ELSE f[k] \o s[k + 1]]
  <2>4. f[k] \in Seq(C) /\ s[k + 1] \in Seq(C)
    BY <1>0, <2>1, <2>2, <2>3
  <2>5. f[k] \o s[k + 1] \in Seq(C)
    BY <2>4
  <2>6. g \in [0..(k + 1) -> Seq(C)]
    <3>1. ASSUME NEW i \in 0..(k + 1) PROVE (IF i <= k THEN f[i] ELSE f[k] \o s[k + 1]) \in Seq(C)
      BY <2>1, <2>3, <2>5
    <3>2. QED  BY <3>1
  <2>7. g[0] = <<>>
    BY <2>1, <2>3, SMTT(30)
  <2>8. ASSUME NEW i \in 1..(k + 1) PROVE g[i] = g[i - 1] \o s[i]
    <3>1. CASE i <= k
      <4>1. g[i] = f[i] /\ g[i - 1] = f[i - 1] /\ i \in 1..k
        BY <2>1, <3>1
      <4>2. QED  BY <2>3, <4>1
    <3>2. CASE ~(i <= k)
      <4>1. i = k + 1 /\ i - 1 = k /\ k \in 0..(k + 1)
        BY <2>1, <3>2
      <4>2. g[i - 1] = f[k] /\ g[i] = f[k] \o s[k + 1]
        BY <2>1, <4>1
      <4>3. QED  BY <4>1, <4>2
    <3>3. QED  BY <3>1, <3>2
  <2> HIDE DEF g
  <2>9. QED  BY <2>6, <2>7, <2>8
<1>3. n \in T
  <2>1. T \in SUBSET Nat
    OBVIOUS
  <2> HIDE DEF T
  <2>2. QED  BY <1>0, <1>1, <1>2, <2>1, Induction
<1>4. Part(n)
  <2> HIDE DEF Part
  <2>1. QED  BY <1>0, <1>3
<1>5. QED  BY <1>4 DEF Joined

\* FlattenSeq is its last value.
LEMMA FlattenJoins ==
    ASSUME NEW C, NEW s \in Seq(Seq(C)), NEW f, Joined(s, C, f)
    PROVE  Argument!FlattenSeq(s) = f[Len(s)]
<1> DEFINE n == Len(s)
           Body(g) == [i \in 1..n |-> IF i = 1 THEN s[i] ELSE g[i - 1] \o s[i]]
           flatten == CHOOSE g : g = Body(g)
           own == [i \in 1..n |-> f[i]]
<1>0. n \in Nat
  OBVIOUS
<1>1. CASE n = 0
  <2>1. s = <<>> /\ f[n] = <<>>
    BY <1>1 DEF Joined
  <2>2. QED  BY <1>1, <2>1 DEF Argument!FlattenSeq
<1>2. CASE n # 0
  <2>1. own = Body(own)
    <3>1. ASSUME NEW i \in 1..n PROVE own[i] = IF i = 1 THEN s[i] ELSE own[i - 1] \o s[i]
      <4>1. f[i] = f[i - 1] \o s[i] /\ s[i] \in Seq(C)
        BY DEF Joined
      <4>2. CASE i = 1
        <5>1. f[i - 1] = <<>>
          BY <4>2 DEF Joined
        <5>2. <<>> \o s[i] = s[i]
          BY <4>1
        <5>3. QED  BY <4>1, <4>2, <5>1, <5>2
      <4>3. CASE i # 1
        <5>1. i - 1 \in 1..n
          BY <4>3
        <5>2. QED  BY <4>1, <4>3, <5>1
      <4>4. QED  BY <4>2, <4>3
    <3>2. QED  BY <3>1
  <2>2. flatten = Body(flatten)
    BY <2>1, Zenon
  <2>3. Argument!FlattenSeq(s) = flatten[n]
    BY <1>2 DEF Argument!FlattenSeq
  <2> HIDE DEF flatten
  <2> DEFINE T == {k \in Nat : k + 1 <= n => flatten[k + 1] = f[k + 1]}
  <2>4. 0 \in T
    <3>1. 1 \in 1..n
      BY <1>0, <1>2
    <3>2. flatten[1] = s[1]
      BY <2>2, <3>1
    <3>3. own[1] = s[1]
      BY <2>1, <3>1
    <3>4. QED  BY <3>1, <3>2, <3>3
  <2>5. ASSUME NEW k \in T PROVE k + 1 \in T
    <3>1. k \in Nat /\ (k + 1 <= n => flatten[k + 1] = f[k + 1])
      OBVIOUS
    <3>2. ASSUME (k + 1) + 1 <= n PROVE flatten[(k + 1) + 1] = f[(k + 1) + 1]
      <4> DEFINE i == (k + 1) + 1
      <4>1. i \in 1..n /\ i # 1 /\ i - 1 = k + 1 /\ k + 1 <= n
        BY <1>0, <3>1, <3>2
      <4> HIDE DEF i
      <4>2. flatten[i] = flatten[i - 1] \o s[i]
        BY <2>2, <4>1
      <4>3. f[i] = f[i - 1] \o s[i]
        BY <4>1 DEF Joined
      <4>4. flatten[i] = f[i]
        BY <3>1, <4>1, <4>2, <4>3
      <4>5. QED  BY <4>4 DEF i
    <3>3. k + 1 \in Nat
      BY <3>1
    <3>4. QED  BY <3>2, <3>3
  <2>6. n - 1 \in T
    <3>1. T \in SUBSET Nat /\ n - 1 \in Nat
      BY <1>0, <1>2
    <3> HIDE DEF T
    <3>2. QED  BY <2>4, <2>5, <3>1, Induction
  <2>7. (n - 1) + 1 = n
    BY <1>0
  <2>8. QED  BY <1>0, <2>3, <2>6, <2>7
<1>3. QED  BY <1>1, <1>2

Begins(a, c) == Len(a) <= Len(c) /\ \A i \in 1..Len(a) : c[i] = a[i]

HoldsAt(p, b, a) == b + Len(a) <= Len(p) /\ \A t \in 1..Len(a) : p[b + t] = a[t]

LEMMA Concat ==
    ASSUME NEW C, NEW a \in Seq(C), NEW b \in Seq(C), NEW c, c = a \o b
    PROVE  /\ Len(a) \in Nat /\ Len(b) \in Nat /\ Len(c) = Len(a) + Len(b)
           /\ Begins(a, c) /\ HoldsAt(c, Len(a), b)
BY DEF Begins, HoldsAt

LEMMA BeginsTwice ==
    ASSUME NEW C, NEW a \in Seq(C), NEW b \in Seq(C), NEW c \in Seq(C), Begins(a, b), Begins(b, c)
    PROVE  Begins(a, c)
BY DEF Begins

LEMMA HoldsLonger ==
    ASSUME NEW C, NEW a \in Seq(C), NEW b \in Seq(C), NEW c \in Seq(C), NEW n \in Nat, HoldsAt(b, n, a), Begins(b, c)
    PROVE  HoldsAt(c, n, a)
BY DEF Begins, HoldsAt

LEMMA JoinedStep ==
    ASSUME NEW C, NEW s \in Seq(Seq(C)), NEW f, Joined(s, C, f), NEW k \in 1..Len(s)
    PROVE  f[k - 1] \in Seq(C) /\ s[k] \in Seq(C) /\ f[k] \in Seq(C) /\ f[k] = f[k - 1] \o s[k]
<1>1. k - 1 \in 0..Len(s) /\ k \in 0..Len(s)
  OBVIOUS
<1>2. f[k - 1] \in Seq(C) /\ f[k] \in Seq(C) /\ f[k] = f[k - 1] \o s[k]
  BY <1>1 DEF Joined
<1>3. QED  BY <1>2

\* What is joined stays at its place.
LEMMA JoinedGrows ==
    ASSUME NEW C, NEW s \in Seq(Seq(C)), NEW f, Joined(s, C, f), NEW k \in 0..Len(s), NEW l \in k..Len(s)
    PROVE  Begins(f[k], f[l])
<1> DEFINE T == {j \in Nat : k + j <= Len(s) => Begins(f[k], f[k + j])}
<1>0. Len(s) \in Nat /\ k \in Nat /\ \A i \in 0..Len(s) : f[i] \in Seq(C)
  <2>1. f \in [0..Len(s) -> Seq(C)]
    BY DEF Joined
  <2>2. QED  BY <2>1
<1>1. 0 \in T
  <2>1. f[k] \in Seq(C) /\ k + 0 = k
    BY <1>0
  <2>2. Begins(f[k], f[k])
    <3> DEFINE a == f[k]
    <3> HIDE DEF a
    <3>1. Begins(a, a)
      BY <2>1 DEF Begins, a
    <3>2. QED  BY <3>1 DEF a
  <2>3. QED  BY <2>1, <2>2
<1>2. ASSUME NEW j \in T PROVE j + 1 \in T
  <2>1. j \in Nat /\ (k + j <= Len(s) => Begins(f[k], f[k + j]))
    OBVIOUS
  <2>2. ASSUME k + (j + 1) <= Len(s) PROVE Begins(f[k], f[k + (j + 1)])
    <3> DEFINE m == k + (j + 1)
               a == f[m - 1]
               c == f[m]
    <3>1. m \in 1..Len(s) /\ m - 1 = k + j /\ k + j <= Len(s)
      BY <1>0, <2>1, <2>2
    <3>2. Begins(f[k], a)
      BY <2>1, <3>1
    <3> HIDE DEF m
    <3>3. a \in Seq(C) /\ s[m] \in Seq(C) /\ c \in Seq(C) /\ c = a \o s[m]
      BY <3>1, JoinedStep
    <3>4. f[k] \in Seq(C)
      BY <1>0
    <3> HIDE DEF a, c
    <3>5. Begins(a, c)
      BY <3>3, Concat
    <3>6. Begins(f[k], c)
      BY <3>2, <3>3, <3>4, <3>5, BeginsTwice
    <3>7. QED  BY <3>6 DEF c, m
  <2>3. j + 1 \in Nat
    BY <2>1
  <2>4. QED  BY <2>2, <2>3
<1>3. l - k \in T
  <2>1. T \in SUBSET Nat /\ l - k \in Nat
    BY <1>0
  <2> HIDE DEF T
  <2>2. QED  BY <1>1, <1>2, <2>1, Induction
<1>4. k + (l - k) = l /\ l <= Len(s)
  BY <1>0
<1>5. QED  BY <1>3, <1>4

\* Where the characters of one sequence come to stand.
LEMMA JoinedAt ==
    ASSUME NEW C, NEW s \in Seq(Seq(C)), NEW f, Joined(s, C, f), NEW k \in 1..Len(s)
    PROVE  /\ Len(f[k - 1]) \in Nat /\ Len(s[k]) \in Nat /\ Len(f[k]) = Len(f[k - 1]) + Len(s[k])
           /\ HoldsAt(f[Len(s)], Len(f[k - 1]), s[k])
<1> DEFINE a == f[k - 1]
           b == s[k]
           c == f[k]
           p == f[Len(s)]
<1>1. k \in 0..Len(s) /\ Len(s) \in k..Len(s) /\ Len(s) \in 0..Len(s)
  OBVIOUS
<1>2. a \in Seq(C) /\ b \in Seq(C) /\ c \in Seq(C) /\ c = a \o b
  BY JoinedStep
<1>3. p \in Seq(C)
  BY <1>1 DEF Joined
<1>4. Begins(c, p)
  BY <1>1, JoinedGrows
<1> HIDE DEF a, b, c, p
<1>5. Len(a) \in Nat /\ Len(b) \in Nat /\ Len(c) = Len(a) + Len(b) /\ HoldsAt(c, Len(a), b)
  BY <1>2, Concat
<1>6. HoldsAt(p, Len(a), b)
  BY <1>2, <1>3, <1>4, <1>5, HoldsLonger
<1>7. QED  BY <1>5, <1>6 DEF a, b, c, p

\* Every character came from one of the sequences.
CameFrom(s, f, j, i) == \E k \in 1..j : \E t \in 1..Len(s[k]) : i = Len(f[k - 1]) + t

LEMMA JoinedFrom ==
    ASSUME NEW C, NEW s \in Seq(Seq(C)), NEW f, Joined(s, C, f), NEW i \in 1..Len(f[Len(s)])
    PROVE  CameFrom(s, f, Len(s), i)
<1> DEFINE T == {j \in Nat : j <= Len(s) /\ i <= Len(f[j]) => CameFrom(s, f, j, i)}
<1>0. Len(s) \in Nat /\ Len(f[Len(s)]) \in Nat /\ i \in Int
  <2>1. f[Len(s)] \in Seq(C)
    BY DEF Joined
  <2>2. QED  BY <2>1
<1>1. 0 \in T
  <2>1. Len(f[0]) = 0
    BY DEF Joined
  <2>2. QED  BY <1>0, <2>1
<1>2. ASSUME NEW j \in T PROVE j + 1 \in T
  <2>1. j \in Nat /\ (j <= Len(s) /\ i <= Len(f[j]) => CameFrom(s, f, j, i))
    OBVIOUS
  <2>2. ASSUME j + 1 <= Len(s), i <= Len(f[j + 1]) PROVE CameFrom(s, f, j + 1, i)
    <3> DEFINE l == j + 1
    <3>1. l \in 1..Len(s) /\ l - 1 = j /\ j <= Len(s) /\ l \in Nat
      BY <1>0, <2>1, <2>2
    <3>2. i <= Len(f[l])
      BY <2>2
    <3> HIDE DEF l
    <3> DEFINE x == Len(f[l - 1])
               y == Len(s[l])
    <3>3. x \in Nat /\ y \in Nat /\ Len(f[l]) = x + y
      BY <3>1, JoinedAt
    <3>4. i <= x + y
      BY <3>2, <3>3
    <3>5. CASE i <= x
      <4>1. CameFrom(s, f, j, i)
        BY <2>1, <3>1, <3>5
      <4>2. PICK k \in 1..j : \E t \in 1..Len(s[k]) : i = Len(f[k - 1]) + t
        BY <4>1 DEF CameFrom
      <4>3. k \in 1..l
        BY <2>1, <3>1
      <4>4. CameFrom(s, f, l, i)
        BY <4>2, <4>3 DEF CameFrom
      <4>5. QED  BY <4>4 DEF l
    <3>6. CASE ~(i <= x)
      <4> HIDE DEF x, y
      <4>1. i - x \in 1..y /\ i = x + (i - x)
        BY <1>0, <3>3, <3>4, <3>6
      <4>2. l \in 1..l
        BY <3>1
      <4>3. CameFrom(s, f, l, i)
        BY <4>1, <4>2 DEF CameFrom, x, y
      <4>4. QED  BY <4>3 DEF l
    <3>7. QED  BY <3>5, <3>6
  <2>3. j + 1 \in Nat
    BY <2>1
  <2>4. QED  BY <2>2, <2>3
<1>3. Len(s) \in T
  <2>1. T \in SUBSET Nat
    OBVIOUS
  <2> HIDE DEF T
  <2>2. QED  BY <1>0, <1>1, <1>2, <2>1, Induction
<1>4. QED  BY <1>0, <1>3

-----------------------------------------------------------------------------
(* replaceWithRealVariable of DBHandler.c *)

Signs == ArgumentLetters \cup References \cup {Open, Close}

\* One value of the loop from those behind it: what replaces the argument from i on.
Replaced(p, f) ==
    [i \in 1..(Len(p) + 1) |->
       IF i > Len(p) THEN <<>>
       ELSE IF Argument!OpensAt(p, i) /\ Argument!HasRow(Argument!UserArgument(p, i))
            THEN latest[p[i + 2]] \o f[Argument!Min(Argument!ClosingsBehind(p, i)) + 2]
            ELSE <<p[i]>> \o f[i + 1]]

LEMMA FirstClosing ==
    ASSUME NEW p \in Seq(Signs), NEW i \in 1..Len(p), Argument!ClosingsBehind(p, i) # {}
    PROVE  LET first == Argument!Min(Argument!ClosingsBehind(p, i)) IN
           first \in Argument!ClosingsBehind(p, i) /\ \A j \in Argument!ClosingsBehind(p, i) : first <= j
<1> DEFINE T == Argument!ClosingsBehind(p, i)
<1>1. T \in SUBSET Nat
  BY DEF Argument!ClosingsBehind
<1>2. T # {}
  OBVIOUS
<1> HIDE DEF T
<1>3. \E x \in T : \A y \in T : x <= y
  BY <1>1, <1>2, Least
<1>4. Argument!Min(T) \in T /\ \A y \in T : Argument!Min(T) <= y
  BY <1>3 DEF Argument!Min
<1>5. QED  BY <1>4 DEF T

AgreeBehindPlace(i, end, f, g) == \A j \in 1..end : j > i => f[j] = g[j]

LEMMA ReplacedReadsAhead ==
    ASSUME NEW p \in Seq(Signs), Argument!IsDelimited(p), NEW f, NEW g,
           NEW i \in 1..(Len(p) + 1), AgreeBehindPlace(i, Len(p) + 1, f, g)
    PROVE  Replaced(p, f)[i] = Replaced(p, g)[i]
<1>0. Len(p) \in Nat
  OBVIOUS
<1>1. ASSUME i <= Len(p) PROVE f[i + 1] = g[i + 1]
  <2>1. i + 1 \in 1..(Len(p) + 1) /\ i + 1 > i
    BY <1>0, <1>1
  <2>2. QED  BY <2>1 DEF AgreeBehindPlace
<1>2. ASSUME i <= Len(p), Argument!OpensAt(p, i)
      PROVE  LET j == Argument!Min(Argument!ClosingsBehind(p, i)) + 2 IN f[j] = g[j]
  <2> DEFINE m == Argument!Min(Argument!ClosingsBehind(p, i))
  <2>1. i \in 1..Len(p)
    BY <1>0, <1>2
  <2>2. Argument!ClosingsBehind(p, i) # {}
    BY <1>2, <2>1 DEF Argument!IsDelimited
  <2>3. m \in Argument!ClosingsBehind(p, i)
    BY <2>1, <2>2, FirstClosing
  <2>4. m \in (i + 2)..(Len(p) - 1)
    BY <2>3 DEF Argument!ClosingsBehind
  <2> HIDE DEF m
  <2>5. m + 2 \in 1..(Len(p) + 1) /\ m + 2 > i
    BY <1>0, <2>4
  <2>6. f[m + 2] = g[m + 2]
    BY <2>5 DEF AgreeBehindPlace
  <2>7. QED  BY <2>6 DEF m
<1>3. ASSUME ~(i > Len(p)) PROVE i <= Len(p)
  BY <1>0, <1>3
<1>4. QED  BY <1>1, <1>2, <1>3 DEF Replaced

LEMMA ReplacedExists ==
    ASSUME NEW p \in Seq(Signs), Argument!IsDelimited(p)
    PROVE  \E f : f = Replaced(p, f)
<1> DEFINE M == Len(p) + 1
           Part(f, k) == [i \in 1..M |-> IF i >= M - k THEN Replaced(p, f)[i] ELSE <<>>]
           T == {k \in Nat : \E f : f = Part(f, k)}
<1>0. M \in Nat
  OBVIOUS
<1>1. 0 \in T
  <2> DEFINE f == Part(<<>>, 0)
  <2>1. \A i \in 1..M : i >= M - 0 => i = M
    BY <1>0
  <2>2. M \in 1..M
    BY <1>0
  <2>3. Replaced(p, f)[M] = Replaced(p, <<>>)[M]
    <3> HIDE DEF f
    <3>1. AgreeBehindPlace(M, Len(p) + 1, f, <<>>) /\ M \in 1..(Len(p) + 1)
      BY <1>0, <2>2 DEF AgreeBehindPlace
    <3> HIDE DEF M
    <3>2. QED  BY <3>1, ReplacedReadsAhead
  <2>4. f = Part(f, 0)
    BY <2>1, <2>3
  <2> HIDE DEF Part, f
  <2>5. QED  BY <2>4
<1>2. ASSUME NEW k \in T PROVE k + 1 \in T
  <2>1. PICK f : f = Part(f, k)
    OBVIOUS
  <2> DEFINE g == Part(f, k + 1)
  <2>2. k \in Nat
    OBVIOUS
  <2>3. ASSUME NEW i \in 1..M, i >= M - k PROVE f[i] = g[i]
    <3>1. i >= M - (k + 1)
      BY <1>0, <2>2, <2>3
    <3>2. f[i] = Replaced(p, f)[i]
      BY <2>1, <2>3
    <3>3. QED  BY <3>1, <3>2
  <2> HIDE DEF M
  <2>4. ASSUME NEW i \in 1..M, i >= M - (k + 1) PROVE Replaced(p, f)[i] = Replaced(p, g)[i]
    <3>1. ASSUME NEW j \in 1..M, j > i PROVE j >= M - k
      BY <1>0, <2>2, <2>4, <3>1
    <3>2. \A j \in 1..M : j > i => f[j] = g[j]
      BY <2>3, <3>1
    <3> HIDE DEF g
    <3>3. i \in 1..(Len(p) + 1) /\ AgreeBehindPlace(i, Len(p) + 1, f, g)
      BY <3>2 DEF M, AgreeBehindPlace
    <3>4. QED  BY <3>3, ReplacedReadsAhead
  <2>5. g = Part(g, k + 1)
    BY <2>4
  <2>6. k + 1 \in Nat
    BY <2>2
  <2> HIDE DEF Part, g
  <2>7. QED  BY <2>5, <2>6
<1>3. M \in T
  <2>1. T \in SUBSET Nat
    OBVIOUS
  <2> HIDE DEF T
  <2>2. QED  BY <1>0, <1>1, <1>2, <2>1, Induction
<1>4. PICK f : f = Part(f, M)
  BY <1>3
<1>5. \A i \in 1..M : i >= M - M
  BY <1>0
<1>6. f = [i \in 1..M |-> Replaced(p, f)[i]]
  BY <1>4, <1>5
<1>7. f = Replaced(p, f)
  BY <1>6 DEF Replaced
<1>8. QED  BY <1>7

\* The result is the first value of a function that the loop's equation describes.
LEMMA LoopReplaces ==
    ASSUME NEW p \in Seq(Signs), Argument!IsDelimited(p)
    PROVE  \E f : f = Replaced(p, f) /\ Argument!replaceWithRealVariable(p) = f[1]
<1> DEFINE f == CHOOSE g : g = Replaced(p, g)
<1>1. f = Replaced(p, f)
  BY ReplacedExists
<1>2. Argument!replaceWithRealVariable(p) = f[1]
  BY DEF Argument!replaceWithRealVariable, Replaced
<1>3. QED  BY <1>1, <1>2

\* The loop goes on from a place as the code does.
HasValue(p, i) == Argument!OpensAt(p, i) /\ Argument!HasRow(Argument!UserArgument(p, i))

GoesOn(p, f, i) ==
    /\ HasValue(p, i) => f[i] = latest[p[i + 2]] \o f[Argument!Min(Argument!ClosingsBehind(p, i)) + 2]
    /\ ~HasValue(p, i) => f[i] = <<p[i]>> \o f[i + 1]

LEMMA ReplacedAt ==
    ASSUME NEW p \in Seq(Signs), NEW f, f = Replaced(p, f), NEW i \in 1..(Len(p) + 1)
    PROVE  /\ i <= Len(p) => GoesOn(p, f, i)
           /\ i > Len(p) => f[i] = <<>>
<1>0. Len(p) \in Nat /\ (i > Len(p) <=> ~(i <= Len(p)))
  OBVIOUS
<1>1. f[i] = Replaced(p, f)[i]
  OBVIOUS
<1>2. Replaced(p, f)[i] =
        IF i > Len(p) THEN <<>>
        ELSE IF Argument!OpensAt(p, i) /\ Argument!HasRow(Argument!UserArgument(p, i))
             THEN latest[p[i + 2]] \o f[Argument!Min(Argument!ClosingsBehind(p, i)) + 2]
             ELSE <<p[i]>> \o f[i + 1]
  BY DEF Replaced
<1>3. QED  BY <1>0, <1>1, <1>2 DEF GoesOn, HasValue

-----------------------------------------------------------------------------
(* The segments of an argument *)

IsLetter(x) == Len(x) = 1 /\ x[1] \in ArgumentLetters

IsReference(x) ==
    /\ Len(x) = 5 /\ x[3] \in References
    /\ x[1] = Open /\ x[2] = Open /\ x[4] = Close /\ x[5] = Close

LEMMA OneMore ==
    ASSUME NEW C, NEW rest \in Seq(C), NEW a \in C, NEW s, s = <<a>> \o rest
    PROVE  /\ s \in Seq(C) /\ Len(s) = Len(rest) + 1 /\ s[1] = a
           /\ \A i \in 1..Len(s) : i # 1 => s[i] = rest[i - 1]
<1>1. <<a>> \in Seq(C) /\ Len(<<a>>) = 1 /\ Len(rest) \in Nat
  OBVIOUS
<1>2. QED  BY <1>1

FiveThen(s, o, r, c, rest) ==
    /\ Len(s) = Len(rest) + 5
    /\ s[1] = o /\ s[2] = o /\ s[3] = r /\ s[4] = c /\ s[5] = c
    /\ \A i \in 1..Len(s) : i > 5 => s[i] = rest[i - 5]

LEMMA SignBySign ==
    ASSUME NEW C, NEW rest \in Seq(C), NEW r \in C, NEW o \in C, NEW c \in C,
           NEW s5, s5 = <<c>> \o rest, NEW s4, s4 = <<c>> \o s5, NEW s3, s3 = <<r>> \o s4,
           NEW s2, s2 = <<o>> \o s3, NEW s1, s1 = <<o>> \o s2
    PROVE  s1 \in Seq(C) /\ FiveThen(s1, o, r, c, rest)
<1>0. Len(rest) \in Nat
  OBVIOUS
<1>1. /\ s5 \in Seq(C) /\ Len(s5) = Len(rest) + 1 /\ s5[1] = c
      /\ \A i \in 1..Len(s5) : i # 1 => s5[i] = rest[i - 1]
  BY OneMore
<1>2. /\ s4 \in Seq(C) /\ Len(s4) = Len(s5) + 1 /\ s4[1] = c
      /\ \A i \in 1..Len(s4) : i # 1 => s4[i] = s5[i - 1]
  BY <1>1, OneMore
<1>3. /\ s3 \in Seq(C) /\ Len(s3) = Len(s4) + 1 /\ s3[1] = r
      /\ \A i \in 1..Len(s3) : i # 1 => s3[i] = s4[i - 1]
  BY <1>2, OneMore
<1>4. /\ s2 \in Seq(C) /\ Len(s2) = Len(s3) + 1 /\ s2[1] = o
      /\ \A i \in 1..Len(s2) : i # 1 => s2[i] = s3[i - 1]
  BY <1>3, OneMore
<1>5. /\ s1 \in Seq(C) /\ Len(s1) = Len(s2) + 1 /\ s1[1] = o
      /\ \A i \in 1..Len(s1) : i # 1 => s1[i] = s2[i - 1]
  BY <1>4, OneMore
<1> DEFINE n == Len(rest)
           n5 == Len(s5)
           n4 == Len(s4)
           n3 == Len(s3)
           n2 == Len(s2)
           n1 == Len(s1)
<1>6. n \in Nat /\ n5 = n + 1 /\ n4 = n + 2 /\ n3 = n + 3 /\ n2 = n + 4 /\ n1 = n + 5
  BY <1>0, <1>1, <1>2, <1>3, <1>4, <1>5
<1>7. s1[2] = o /\ s1[3] = r /\ s1[4] = c /\ s1[5] = c
  <2>1. s2[2] = s3[1] /\ s2[3] = s3[2] /\ s2[4] = s3[3]
    BY <1>4, <1>6
  <2>2. s3[2] = s4[1] /\ s3[3] = s4[2] /\ s4[2] = s5[1]
    BY <1>2, <1>3, <1>6
  <2>3. s1[2] = s2[1] /\ s1[3] = s2[2] /\ s1[4] = s2[3] /\ s1[5] = s2[4]
    BY <1>5, <1>6
  <2>4. QED  BY <1>1, <1>2, <1>3, <1>4, <2>1, <2>2, <2>3
<1>8. ASSUME NEW i \in 1..Len(s1), i > 5 PROVE s1[i] = rest[i - 5]
  <2>1. s1[i] = s2[i - 1]
    BY <1>5, <1>8
  <2>2. s2[i - 1] = s3[i - 2]
    <3>1. i - 1 \in 1..Len(s2) /\ i - 1 # 1 /\ (i - 1) - 1 = i - 2
      BY <1>6, <1>8
    <3>2. QED  BY <1>4, <3>1
  <2>3. s3[i - 2] = s4[i - 3]
    <3>1. i - 2 \in 1..Len(s3) /\ i - 2 # 1 /\ (i - 2) - 1 = i - 3
      BY <1>6, <1>8
    <3>2. QED  BY <1>3, <3>1
  <2>4. s4[i - 3] = s5[i - 4]
    <3>1. i - 3 \in 1..Len(s4) /\ i - 3 # 1 /\ (i - 3) - 1 = i - 4
      BY <1>6, <1>8
    <3>2. QED  BY <1>2, <3>1
  <2>5. s5[i - 4] = rest[i - 5]
    <3>1. i - 4 \in 1..Len(s5) /\ i - 4 # 1 /\ (i - 4) - 1 = i - 5
      BY <1>6, <1>8
    <3>2. QED  BY <1>1, <3>1
  <2>6. QED  BY <2>1, <2>2, <2>3, <2>4, <2>5
<1>9. QED  BY <1>5, <1>6, <1>7, <1>8 DEF FiveThen

SignsBefore(five, s1, s2, s3, s4, s5, o, r, c, rest) ==
    /\ five = <<o, o, r, c, c>>
    /\ s5 = <<c>> \o rest /\ s4 = <<c>> \o s5 /\ s3 = <<r>> \o s4
    /\ s2 = <<o>> \o s3 /\ s1 = <<o>> \o s2

AllSigns(C, o, r, c, rest) == o \in C /\ r \in C /\ c \in C /\ rest \in Seq(C)

LEMMA FiveSigns ==
    ASSUME NEW C, NEW rest, NEW r, NEW o, NEW c, AllSigns(C, o, r, c, rest),
           NEW s1, NEW s2, NEW s3, NEW s4, NEW s5, NEW five, SignsBefore(five, s1, s2, s3, s4, s5, o, r, c, rest)
    PROVE  s1 = five \o rest
<1>a. o \in C /\ r \in C /\ c \in C /\ rest \in Seq(C)
  BY DEF AllSigns
<1>1. five \in Seq(C) /\ Len(five) = 5 /\ five[1] = o /\ five[2] = o /\ five[3] = r /\ five[4] = c /\ five[5] = c
  BY <1>a DEF SignsBefore
<1> DEFINE w == five \o rest
<1>0. Len(rest) \in Nat
  BY <1>a
<1>2. w \in Seq(C) /\ Len(w) = Len(five) + Len(rest)
  BY <1>1, <1>a, ConcatProperties
<1>3. \A i \in 1..Len(w) : w[i] = IF i <= 5 THEN five[i] ELSE rest[i - 5]
  <2>1. \A i \in 1..(Len(five) + Len(rest)) : w[i] = IF i <= Len(five) THEN five[i] ELSE rest[i - Len(five)]
    BY <1>1, <1>a, ConcatProperties
  <2> HIDE DEF w
  <2>2. QED  BY <1>1, <1>2, <2>1
<1> HIDE DEF w
<1>4. s1 \in Seq(C) /\ FiveThen(s1, o, r, c, rest)
  BY <1>a, SignBySign DEF SignsBefore
<1>5. ASSUME NEW i \in 1..Len(s1) PROVE s1[i] = w[i]
  <2>1. i \in 1..Len(w) /\ i \in Int
    BY <1>0, <1>1, <1>2, <1>4 DEF FiveThen
  <2>2. CASE i > 5
    BY <1>3, <1>4, <2>1, <2>2 DEF FiveThen
  <2>3. CASE ~(i > 5)
    <3>1. i = 1 \/ i = 2 \/ i = 3 \/ i = 4 \/ i = 5
      BY <2>3
    <3>2. w[i] = five[i]
      BY <1>3, <2>1, <2>3
    <3>3. s1[i] = five[i]
      BY <1>1, <1>4, <3>1 DEF FiveThen
    <3>4. QED  BY <3>2, <3>3
  <2>4. QED  BY <2>2, <2>3
<1>6. Len(s1) = Len(w)
  BY <1>0, <1>1, <1>2, <1>4 DEF FiveThen
<1>7. s1 = w
  BY <1>2, <1>4, <1>5, <1>6, SeqEqual
<1>8. QED  BY <1>7 DEF w

LEMMA SegmentShapes ==
    ASSUME NEW x \in Argument!Segments
    PROVE  /\ x \in Seq(Signs)
           /\ \/ IsLetter(x) /\ x = <<x[1]>>
              \/ IsReference(x) /\ x = <<Open, Open, x[3], Close, Close>>
<1>1. CASE \E a \in ArgumentLetters : x = <<a>>
  BY <1>1 DEF Signs, IsLetter
<1>2. CASE \E r \in References : x = <<Open, Open, r, Close, Close>>
  <2>1. PICK r \in References : x = <<Open, Open, r, Close, Close>>
    BY <1>2
  <2>2. r \in Signs /\ Open \in Signs /\ Close \in Signs
    BY DEF Signs
  <2>3. x \in Seq(Signs)
    BY <2>1, <2>2
  <2>4. Len(x) = 5 /\ x[1] = Open /\ x[2] = Open /\ x[3] = r /\ x[4] = Close /\ x[5] = Close
    BY <2>1
  <2>5. QED  BY <2>1, <2>3, <2>4 DEF IsReference
<1>3. QED  BY <1>1, <1>2 DEF Argument!Segments

\* A reference stands in its segment alone.
LEMMA NoReferenceBehindALetter ==
    ASSUME Argument!ArgumentAssumption, segments \in Seq(Argument!Segments), segments \in Seq(Seq(Signs)),
           NEW F, Joined(segments, Signs, F), NEW k \in 1..Len(segments), IsLetter(segments[k])
    PROVE  LET p == F[Len(segments)]
               b == Len(F[k - 1])
           IN  b + 3 <= Len(p) => p[b + 3] \notin References
<1> DEFINE n == Len(segments)
           p == F[n]
           b == Len(F[k - 1])
<1>0. n \in Nat /\ p \in Seq(Signs)
  <2>1. n \in Nat
    OBVIOUS
  <2>2. n \in 0..n
    BY <2>1
  <2>3. QED  BY <2>1, <2>2 DEF Joined
<1>1. b \in Nat /\ Len(F[k]) = b + 1
  <2>1. b \in Nat /\ Len(F[k]) = b + Len(segments[k])
    BY JoinedAt
  <2>2. QED  BY <2>1 DEF IsLetter
<1>2. SUFFICES ASSUME b + 3 <= Len(p), p[b + 3] \in References PROVE FALSE
  OBVIOUS
<1> DEFINE i == b + 3
<1>3. i \in 1..Len(p)
  BY <1>0, <1>1, <1>2
<1>4. CameFrom(segments, F, n, i)
  BY <1>3, JoinedFrom
<1> HIDE DEF i
<1>a. PICK j \in 1..n : \E t \in 1..Len(segments[j]) : i = Len(F[j - 1]) + t
  BY <1>4 DEF CameFrom
<1>5. PICK t \in 1..Len(segments[j]) : i = Len(F[j - 1]) + t
  BY <1>a
<1> DEFINE c == Len(F[j - 1])
           x == segments[j]
<1>6. c \in Nat /\ Len(F[j]) = c + Len(x) /\ HoldsAt(p, c, x)
  BY JoinedAt
<1>7. p[c + t] = x[t]
  BY <1>5, <1>6 DEF HoldsAt
<1>8. x[t] \in References
  <2>1. p[i] \in References
    BY <1>2 DEF i
  <2>2. QED  BY <1>5, <1>7, <2>1
<1>9. x \in Argument!Segments
  OBVIOUS
<1>10. ~IsLetter(x)
  <2>1. ASSUME IsLetter(x) PROVE t = 1
    <3>1. t \in 1..1
      BY <1>5, <2>1 DEF IsLetter
    <3>2. QED  BY <3>1
  <2>2. IsLetter(x) => x[t] \notin References
    BY <2>1 DEF IsLetter, Argument!ArgumentAssumption
  <2>3. QED  BY <1>8, <2>2
<1>11. IsReference(x)
  BY <1>9, <1>10, SegmentShapes
<1>12. t = 3
  <2>1. t \in 1..5
    BY <1>5, <1>11 DEF IsReference
  <2>2. t # 3 => x[t] \in {Open, Close}
    BY <1>11, <2>1 DEF IsReference
  <2>3. QED  BY <1>8, <2>2 DEF Argument!ArgumentAssumption
<1>13. c = b /\ Len(F[j]) = b + 5
  <2>1. b + 3 = c + 3
    BY <1>5, <1>12 DEF i
  <2>2. Len(F[j]) = c + 5
    BY <1>6, <1>11 DEF IsReference
  <2> HIDE DEF b, c
  <2>3. QED  BY <1>1, <1>6, <2>1, <2>2
<1> HIDE DEF b
<1>14. CASE j < k
  <2>1. j \in 0..n /\ k - 1 \in j..n
    BY <1>0, <1>14
  <2>2. Begins(F[j], F[k - 1])
    BY <2>1, JoinedGrows
  <2>3. QED  BY <1>1, <1>13, <2>2 DEF Begins, b
<1>15. CASE k < j
  <2>1. k \in 0..n /\ j - 1 \in k..n
    BY <1>0, <1>15
  <2>2. Begins(F[k], F[j - 1])
    BY <2>1, JoinedGrows
  <2>3. QED  BY <1>1, <1>13, <2>2 DEF Begins
<1>16. CASE j = k
  BY <1>10, <1>16
<1>17. QED  BY <1>0, <1>14, <1>15, <1>16

\* A letter is kept, braces included.
LEMMA LetterStep ==
    ASSUME Argument!ArgumentAssumption, segments \in Seq(Argument!Segments), segments \in Seq(Seq(Signs)),
           NEW F, Joined(segments, Signs, F), NEW k \in 1..Len(segments), IsLetter(segments[k]),
           Argument!IsDelimited(F[Len(segments)])
    PROVE  ~HasValue(F[Len(segments)], Len(F[k - 1]) + 1)
<1> DEFINE n == Len(segments)
           p == F[n]
           b == Len(F[k - 1])
<1>0. n \in Nat /\ p \in Seq(Signs) /\ Len(p) \in Nat
  <2>1. n \in Nat
    OBVIOUS
  <2>2. n \in 0..n
    BY <2>1
  <2>3. p \in Seq(Signs)
    BY <2>1, <2>2 DEF Joined
  <2>4. QED  BY <2>1, <2>3
<1>1. b \in Nat
  BY JoinedAt
<1>2. b + 3 <= Len(p) => p[b + 3] \notin References
  BY NoReferenceBehindALetter
<1> HIDE DEF p, b
<1> DEFINE i == b + 1
<1>3. SUFFICES ASSUME HasValue(p, i) PROVE FALSE
  BY DEF p, b
<1>4. i \in 1..Len(p)
  BY <1>0, <1>1, <1>3 DEF HasValue, Argument!OpensAt
<1>5. Argument!ClosingsBehind(p, i) # {}
  <2>1. Argument!IsDelimited(p)
    BY DEF p
  <2>2. Argument!OpensAt(p, i)
    BY <1>3 DEF HasValue
  <2> HIDE DEF i
  <2>3. QED  BY <1>4, <2>1, <2>2 DEF Argument!IsDelimited
<1> DEFINE m == Argument!Min(Argument!ClosingsBehind(p, i))
<1>6. m \in Argument!ClosingsBehind(p, i)
  <2> HIDE DEF i
  <2>1. QED  BY <1>0, <1>4, <1>5, FirstClosing
<1>7. m \in (i + 2)..(Len(p) - 1)
  BY <1>6 DEF Argument!ClosingsBehind
<1> DEFINE name == SubSeq(p, i + 2, m - 1)
<1>8. Len(name) = 1 /\ name[1] \in References
  BY <1>3 DEF HasValue, Argument!HasRow, Argument!UserArgument
<1> HIDE DEF m
<1>9. m - 1 = b + 3 /\ b + 3 <= Len(p)
  <2>1. Len(name) = (m - 1) - (i + 2) + 1
    BY <1>0, <1>1, <1>7
  <2>2. QED  BY <1>0, <1>1, <1>7, <1>8, <2>1
<1>10. name[1] = p[b + 3]
  BY <1>0, <1>1, <1>9
<1>11. QED  BY <1>2, <1>8, <1>9, <1>10

LEMMA LetterReplaced ==
    ASSUME Argument!ArgumentAssumption, segments \in Seq(Argument!Segments), segments \in Seq(Seq(Signs)),
           NEW F, Joined(segments, Signs, F), NEW k \in 1..Len(segments), IsLetter(segments[k]),
           Argument!IsDelimited(F[Len(segments)]), NEW f, f = Replaced(F[Len(segments)], f)
    PROVE  f[Len(F[k - 1]) + 1] = segments[k] \o f[Len(F[k]) + 1]
<1> DEFINE n == Len(segments)
           p == F[n]
           b == Len(F[k - 1])
           x == segments[k]
           e == Len(F[k])
<1>1. b \in Nat /\ e = b + 1 /\ HoldsAt(p, b, x) /\ Len(x) = 1
  BY JoinedAt DEF IsLetter
<1>2. p \in Seq(Signs) /\ Len(p) \in Nat
  <2>1. n \in 0..n
    OBVIOUS
  <2>2. p \in Seq(Signs)
    BY <2>1 DEF Joined
  <2>3. QED  BY <2>2
<1>3. ~HasValue(p, b + 1)
  BY LetterStep
<1>4. x = <<x[1]>>
  BY SegmentShapes DEF IsLetter
<1> HIDE DEF p, b, x, e
<1>5. p[b + 1] = x[1] /\ b + 1 \in 1..Len(p)
  BY <1>1, <1>2 DEF HoldsAt
<1>6. f = Replaced(p, f)
  BY DEF p
<1> DEFINE i == b + 1
<1>7. i \in 1..(Len(p) + 1) /\ i <= Len(p)
  BY <1>1, <1>2, <1>5
<1> HIDE DEF i
<1>8. GoesOn(p, f, i)
  BY <1>2, <1>6, <1>7, ReplacedAt
<1>9. f[i] = <<p[i]>> \o f[i + 1]
  BY <1>3, <1>8 DEF GoesOn, i
<1>10. f[b + 1] = x \o f[e + 1]
  BY <1>1, <1>4, <1>5, <1>9 DEF i
<1>11. QED  BY <1>10 DEF b, x, e

LEMMA OnePlace ==
    ASSUME NEW C, NEW p \in Seq(C), NEW q \in 1..Len(p)
    PROVE  SubSeq(p, q, q) = <<p[q]>>
<1>1. q \in Nat /\ q - q + 1 = 1 /\ Len(p) \in Nat
  OBVIOUS
<1>2. SubSeq(p, q, q) \in Seq(C) /\ Len(SubSeq(p, q, q)) = 1 /\ SubSeq(p, q, q)[1] = p[q]
  BY <1>1
<1>3. <<p[q]>> \in Seq(C) /\ Len(<<p[q]>>) = 1 /\ <<p[q]>>[1] = p[q]
  BY <1>1
<1> DEFINE a == SubSeq(p, q, q)
           c == <<p[q]>>
<1> HIDE DEF a, c
<1>4. a \in Seq(C) /\ c \in Seq(C) /\ Len(a) = Len(c) /\ \A i \in 1..Len(a) : a[i] = c[i]
  BY <1>2, <1>3 DEF a, c
<1>5. a = c
  BY <1>4, SeqEqual
<1>6. QED  BY <1>5 DEF a, c

\* A reference is replaced as a whole, or kept sign by sign.
ReferenceStands(p, b, r, x) ==
    /\ p \in Seq(Signs) /\ b \in Nat /\ r \in References /\ x = <<Open, Open, r, Close, Close>>
    /\ b + 5 <= Len(p) /\ p[b + 1] = Open /\ p[b + 2] = Open /\ p[b + 3] = r
    /\ p[b + 4] = Close /\ p[b + 5] = Close

ReplacesFrom(p, f, i) == f = Replaced(p, f) /\ f[i] \in Seq(Signs)

ValueOrItself(r, x) == IF latest[r] # Argument!NoRow THEN latest[r] ELSE x

LEMMA ReferenceInText ==
    ASSUME Argument!ArgumentAssumption, NEW p, NEW b, NEW r, NEW x, ReferenceStands(p, b, r, x),
           NEW f, ReplacesFrom(p, f, b + 6)
    PROVE  f[b + 1] = ValueOrItself(r, x) \o f[b + 6]
<1>d. f = Replaced(p, f) /\ f[b + 6] \in Seq(Signs)
  BY DEF ReplacesFrom
<1>a. p \in Seq(Signs) /\ b \in Nat /\ Len(p) \in Nat /\ b + 5 <= Len(p)
  BY DEF ReferenceStands
<1>b. p[b + 1] = Open /\ p[b + 2] = Open /\ p[b + 3] = r /\ p[b + 4] = Close /\ p[b + 5] = Close
  BY DEF ReferenceStands
<1>c. r \in References /\ x = <<Open, Open, r, Close, Close>>
  BY DEF ReferenceStands
<1>1. Open # Close /\ r # Open /\ r # Close
  BY <1>c DEF Argument!ArgumentAssumption
<1>2. \A i \in {b + 1, b + 2, b + 3, b + 4, b + 5} : GoesOn(p, f, i)
  <2>1. ASSUME NEW i \in {b + 1, b + 2, b + 3, b + 4, b + 5} PROVE i \in 1..(Len(p) + 1) /\ i <= Len(p)
    BY <1>a
  <2>2. ASSUME NEW i \in 1..(Len(p) + 1), i <= Len(p) PROVE GoesOn(p, f, i)
    BY <1>a, <1>d, <2>2, ReplacedAt
  <2>3. QED  BY <2>1, <2>2
<1>3. Argument!OpensAt(p, b + 1)
  BY <1>a, <1>b DEF Argument!OpensAt
<1>4. Argument!Min(Argument!ClosingsBehind(p, b + 1)) = b + 4
  <2> DEFINE C == Argument!ClosingsBehind(p, b + 1)
  <2>1. b + 4 \in C
    BY <1>a, <1>b DEF Argument!ClosingsBehind
  <2>2. \A j \in C : j \in Int /\ b + 3 <= j /\ p[j] = Close
    BY <1>a DEF Argument!ClosingsBehind
  <2>3. \A j \in C : j \in Int /\ b + 4 <= j
    BY <1>1, <1>a, <1>b, <2>2
  <2> HIDE DEF C
  <2>4. Argument!Min(C) \in C /\ \A j \in C : Argument!Min(C) <= j
    BY <2>1, <2>3 DEF Argument!Min
  <2> DEFINE m == Argument!Min(C)
  <2> HIDE DEF m
  <2>5. m = b + 4
    BY <1>a, <2>1, <2>3, <2>4 DEF m
  <2>6. QED  BY <2>5 DEF m, C
<1>5. Argument!UserArgument(p, b + 1) = <<r>>
  <2>1. (b + 1) + 2 = b + 3 /\ (b + 4) - 1 = b + 3 /\ b + 3 \in 1..Len(p)
    BY <1>a
  <2>2. SubSeq(p, b + 3, b + 3) = <<p[b + 3]>>
    BY <1>a, <2>1, OnePlace
  <2>3. QED  BY <1>4, <1>b, <2>1, <2>2 DEF Argument!UserArgument
<1>6. HasValue(p, b + 1) <=> latest[r] # Argument!NoRow
  BY <1>3, <1>5, <1>c DEF HasValue, Argument!HasRow
<1>7. CASE latest[r] # Argument!NoRow
  <2>1. f[b + 1] = latest[p[(b + 1) + 2]] \o f[(b + 4) + 2]
    BY <1>2, <1>4, <1>6, <1>7 DEF GoesOn
  <2>2. (b + 1) + 2 = b + 3 /\ (b + 4) + 2 = b + 6
    BY <1>a
  <2>3. QED  BY <1>7, <1>b, <2>1, <2>2 DEF ValueOrItself
<1>8. CASE ~(latest[r] # Argument!NoRow)
  <2>1. /\ (b + 1) + 1 = b + 2 /\ (b + 2) + 1 = b + 3 /\ (b + 3) + 1 = b + 4
        /\ (b + 4) + 1 = b + 5 /\ (b + 5) + 1 = b + 6
    BY <1>a
  <2>2. /\ ~HasValue(p, b + 1) /\ ~HasValue(p, b + 2) /\ ~HasValue(p, b + 3)
        /\ ~HasValue(p, b + 4) /\ ~HasValue(p, b + 5)
    BY <1>1, <1>6, <1>8, <1>b, <2>1 DEF HasValue, Argument!OpensAt
  <2> DEFINE rest == f[b + 6]
             s1 == f[b + 1]
             s2 == f[b + 2]
             s3 == f[b + 3]
             s4 == f[b + 4]
             s5 == f[b + 5]
  <2>3. s1 = <<Open>> \o s2 /\ s2 = <<Open>> \o s3
    BY <1>2, <1>b, <2>1, <2>2 DEF GoesOn
  <2>4. s3 = <<r>> \o s4 /\ s4 = <<Close>> \o s5 /\ s5 = <<Close>> \o rest
    BY <1>2, <1>b, <2>1, <2>2 DEF GoesOn
  <2>5. AllSigns(Signs, Open, r, Close, rest)
    BY <1>c, <1>d DEF Signs, AllSigns
  <2> HIDE DEF rest, s1, s2, s3, s4, s5
  <2>6. SignsBefore(x, s1, s2, s3, s4, s5, Open, r, Close, rest)
    BY <1>c, <2>3, <2>4 DEF SignsBefore
  <2>7. s1 = x \o rest
    BY <2>5, <2>6, FiveSigns
  <2>8. QED  BY <1>8, <2>7 DEF rest, s1, ValueOrItself
<1>9. QED  BY <1>7, <1>8

LEMMA ReferenceReplaced ==
    ASSUME Argument!ArgumentAssumption, segments \in Seq(Argument!Segments), segments \in Seq(Seq(Signs)),
           NEW F, Joined(segments, Signs, F), NEW k \in 1..Len(segments), IsReference(segments[k]),
           NEW f, ReplacesFrom(F[Len(segments)], f, Len(F[k]) + 1)
    PROVE  f[Len(F[k - 1]) + 1] = Argument!Meaning(segments[k]) \o f[Len(F[k]) + 1]
<1> DEFINE p == F[Len(segments)]
           b == Len(F[k - 1])
           x == segments[k]
           r == x[3]
<1>1. b \in Nat /\ Len(F[k]) = b + Len(x) /\ HoldsAt(p, b, x)
  BY JoinedAt
<1>2. p \in Seq(Signs)
  <2>1. Len(segments) \in 0..Len(segments)
    OBVIOUS
  <2>2. QED  BY <2>1 DEF Joined
<1>3. x = <<Open, Open, r, Close, Close>> /\ Len(x) = 5 /\ r \in References
  <2>1. ~IsLetter(x)
    BY DEF IsLetter, IsReference
  <2>2. QED  BY <2>1, SegmentShapes DEF IsReference
<1>4. Argument!Meaning(x) = ValueOrItself(r, x)
  BY <1>3 DEF Argument!Meaning, Argument!ReferenceIn, ValueOrItself
<1>5. Len(F[k]) + 1 = b + 6
  BY <1>1, <1>3
<1>6. ReplacesFrom(p, f, b + 6)
  BY <1>5
<1> HIDE DEF p, b, x, r
<1>7. ReferenceStands(p, b, r, x)
  <2>1. b + 5 <= Len(p) /\ \A t \in 1..5 : p[b + t] = x[t]
    BY <1>1, <1>3 DEF HoldsAt
  <2>2. x[1] = Open /\ x[2] = Open /\ x[3] = r /\ x[4] = Close /\ x[5] = Close
    BY <1>3
  <2>3. QED  BY <1>1, <1>2, <1>3, <2>1, <2>2 DEF ReferenceStands
<1>8. f[b + 1] = ValueOrItself(r, x) \o f[b + 6]
  BY <1>6, <1>7, ReferenceInText
<1>9. f[b + 1] = Argument!Meaning(x) \o f[Len(F[k]) + 1]
  BY <1>4, <1>5, <1>8
<1>10. QED  BY <1>9, Zenon DEF b, x

-----------------------------------------------------------------------------
\* A variable without a row has no value, and every other value is one that was recorded.
ArgumentInv ==
    /\ segments \in Seq(Argument!Segments)
    /\ latest \in [References -> Recorded \cup {Argument!NoRow}]

LEMMA SegmentsOfSigns ==
    ASSUME ArgumentInv
    PROVE  segments \in Seq(Seq(Signs))
<1>1. Argument!Segments \subseteq Seq(Signs)
  BY SegmentShapes
<1>2. QED  BY <1>1 DEF ArgumentInv

LEMMA MeaningOfSigns ==
    ASSUME Argument!ArgumentAssumption, ArgumentInv, NEW x \in Argument!Segments
    PROVE  /\ Argument!Meaning(x) \in Seq(Signs)
           /\ IsLetter(x) => Argument!Meaning(x) = x
<1>1. x \in Seq(Signs)
  BY SegmentShapes
<1>2. CASE IsLetter(x)
  BY <1>1, <1>2 DEF IsLetter, Argument!Meaning
<1>3. CASE IsReference(x)
  <2>1. latest[x[3]] \in Recorded \cup {Argument!NoRow}
    BY <1>3 DEF ArgumentInv, IsReference
  <2>2. Recorded \subseteq Seq(Signs)
    <3>1. QED  BY DEF Signs, Argument!ArgumentAssumption
  <2>3. ~IsLetter(x)
    BY <1>3 DEF IsLetter, IsReference
  <2> HIDE DEF Argument!NoRow
  <2>4. QED  BY <1>1, <2>1, <2>2, <2>3 DEF Argument!Meaning, Argument!ReferenceIn
<1>4. QED  BY <1>2, <1>3, SegmentShapes

LEMMA SegmentReplaced ==
    ASSUME Argument!ArgumentAssumption, ArgumentInv,
           NEW F, Joined(segments, Signs, F), NEW k \in 1..Len(segments),
           Argument!IsDelimited(F[Len(segments)]), NEW f, f = Replaced(F[Len(segments)], f),
           f[Len(F[k]) + 1] \in Seq(Signs)
    PROVE  f[Len(F[k - 1]) + 1] = Argument!Meaning(segments[k]) \o f[Len(F[k]) + 1]
<1>1. segments \in Seq(Argument!Segments) /\ segments \in Seq(Seq(Signs)) /\ segments[k] \in Argument!Segments
  BY SegmentsOfSigns DEF ArgumentInv
<1>2. CASE IsLetter(segments[k])
  <2>1. Argument!Meaning(segments[k]) = segments[k]
    BY <1>1, <1>2, MeaningOfSigns
  <2>2. f[Len(F[k - 1]) + 1] = segments[k] \o f[Len(F[k]) + 1]
    BY <1>1, <1>2, LetterReplaced
  <2>3. QED  BY <2>1, <2>2
<1>3. CASE IsReference(segments[k])
  <2>1. ReplacesFrom(F[Len(segments)], f, Len(F[k]) + 1)
    BY DEF ReplacesFrom
  <2>2. QED  BY <1>1, <1>3, <2>1, ReferenceReplaced
<1>4. QED  BY <1>1, <1>2, <1>3, SegmentShapes

Meant == [i \in DOMAIN segments |-> Argument!Meaning(segments[i])]

\* What the loop makes of the segments behind a place is what they mean.
BehindIsMeant(F, G, f, k) ==
    /\ f[Len(F[k]) + 1] \in Seq(Signs)
    /\ G[Len(segments)] = G[k] \o f[Len(F[k]) + 1]

LEMMA NothingBehind ==
    ASSUME ArgumentInv, NEW F, Joined(segments, Signs, F), NEW G, Joined(Meant, Signs, G),
           NEW f, f = Replaced(F[Len(segments)], f)
    PROVE  BehindIsMeant(F, G, f, Len(segments))
<1> DEFINE n == Len(segments)
           p == F[n]
           g == G[n]
<1>1. n \in Nat /\ n \in 0..n /\ Len(Meant) = n
  BY DEF ArgumentInv, Meant
<1>2. p \in Seq(Signs) /\ g \in Seq(Signs)
  BY <1>1 DEF Joined
<1>3. f = Replaced(p, f)
  OBVIOUS
<1> HIDE DEF p, g
<1> DEFINE i == Len(p) + 1
<1>4. i \in 1..(Len(p) + 1) /\ i > Len(p)
  BY <1>2
<1> HIDE DEF i
<1>5. f[i] = <<>>
  BY <1>2, <1>3, <1>4, ReplacedAt
<1>6. g = g \o <<>> /\ <<>> \in Seq(Signs)
  BY <1>2, ConcatEmptySeq
<1>7. QED  BY <1>5, <1>6 DEF BehindIsMeant, p, g, i

LEMMA OneSegmentBefore ==
    ASSUME Argument!ArgumentAssumption, ArgumentInv,
           NEW F, Joined(segments, Signs, F), NEW G, Joined(Meant, Signs, G),
           Argument!IsDelimited(F[Len(segments)]), NEW f, f = Replaced(F[Len(segments)], f),
           NEW k \in 1..Len(segments), BehindIsMeant(F, G, f, k)
    PROVE  BehindIsMeant(F, G, f, k - 1)
<1> DEFINE n == Len(segments)
           m == Argument!Meaning(segments[k])
           a == G[k - 1]
           c == G[k]
           rest == f[Len(F[k]) + 1]
           more == f[Len(F[k - 1]) + 1]
           g == G[n]
<1>1. rest \in Seq(Signs) /\ g = c \o rest
  BY DEF BehindIsMeant
<1>2. segments[k] \in Argument!Segments
  BY DEF ArgumentInv
<1>3. m \in Seq(Signs)
  BY <1>2, MeaningOfSigns
<1>4. Len(Meant) = n /\ Meant[k] = m /\ k - 1 \in 0..n /\ k \in 1..n
  BY DEF ArgumentInv, Meant
<1>5. a \in Seq(Signs) /\ c = a \o m
  BY <1>4 DEF Joined
<1>6. more = m \o rest
  BY <1>1, SegmentReplaced
<1> HIDE DEF m, a, c, rest, more, g
<1>7. more \in Seq(Signs) /\ (a \o m) \o rest = a \o (m \o rest)
  BY <1>1, <1>3, <1>5, <1>6, ConcatProperties, ConcatAssociative
<1>8. more \in Seq(Signs) /\ g = a \o more
  BY <1>1, <1>5, <1>6, <1>7
<1>9. QED  BY <1>8 DEF BehindIsMeant, a, more, g

LEMMA ArgumentIsReplaced ==
    ASSUME Argument!ArgumentAssumption, ArgumentInv
    PROVE  Argument!ReferencesBecomeValues
<1> DEFINE n == Len(segments)
           p == Argument!Payload
<1>1. n \in Nat /\ segments \in Seq(Seq(Signs))
  BY SegmentsOfSigns DEF ArgumentInv
<1>2. Meant \in Seq(Seq(Signs)) /\ Len(Meant) = n
  <2>1. \A i \in 1..n : Argument!Meaning(segments[i]) \in Seq(Signs)
    BY MeaningOfSigns DEF ArgumentInv
  <2>2. DOMAIN segments = 1..n
    BY DEF ArgumentInv
  <2>3. QED  BY <1>1, <2>1, <2>2 DEF Meant
<1>3. PICK F : Joined(segments, Signs, F)
  BY <1>1, JoinedExists
<1>4. PICK G : Joined(Meant, Signs, G)
  BY <1>2, JoinedExists
<1>5. p = F[n]
  BY <1>1, <1>3, FlattenJoins DEF Argument!Payload
<1>6. Argument!FlattenSeq(Meant) = G[n]
  BY <1>2, <1>4, FlattenJoins
<1>7. SUFFICES ASSUME Argument!IsDelimited(p)
               PROVE  Argument!replaceWithRealVariable(p) = Argument!FlattenSeq(Meant)
  BY DEF Argument!ReferencesBecomeValues, Meant
<1>8. p \in Seq(Signs)
  <2>1. n \in 0..n
    BY <1>1
  <2>2. QED  BY <1>3, <1>5, <2>1 DEF Joined
<1> HIDE DEF p
<1>9. PICK f : f = Replaced(p, f) /\ Argument!replaceWithRealVariable(p) = f[1]
  BY <1>7, <1>8, LoopReplaces
<1>a. f = Replaced(F[n], f) /\ Argument!IsDelimited(F[n])
  BY <1>5, <1>7, <1>9
<1> DEFINE T == {j \in Nat : j <= n => BehindIsMeant(F, G, f, n - j)}
<1>10. 0 \in T
  <2>1. BehindIsMeant(F, G, f, n)
    BY <1>3, <1>4, <1>a, NothingBehind
  <2>2. n - 0 = n
    BY <1>1
  <2>3. QED  BY <2>1, <2>2
<1>11. ASSUME NEW j \in T PROVE j + 1 \in T
  <2>1. j \in Nat /\ (j <= n => BehindIsMeant(F, G, f, n - j))
    OBVIOUS
  <2>2. ASSUME j + 1 <= n PROVE BehindIsMeant(F, G, f, n - (j + 1))
    <3> DEFINE k == n - j
    <3>1. k \in 1..n /\ j <= n /\ n - (j + 1) = k - 1
      BY <1>1, <2>1, <2>2
    <3>2. BehindIsMeant(F, G, f, k)
      BY <2>1, <3>1
    <3> HIDE DEF k
    <3>3. BehindIsMeant(F, G, f, k - 1)
      BY <1>3, <1>4, <1>a, <3>1, <3>2, OneSegmentBefore
    <3>4. QED  BY <3>1, <3>3
  <2>3. j + 1 \in Nat
    BY <2>1
  <2>4. QED  BY <2>2, <2>3
<1>12. n \in T
  <2>1. T \in SUBSET Nat
    OBVIOUS
  <2> HIDE DEF T
  <2>2. QED  BY <1>1, <1>10, <1>11, <2>1, Induction
<1>13. BehindIsMeant(F, G, f, 0)
  <2>1. n - n = 0 /\ n <= n
    BY <1>1
  <2>2. QED  BY <1>12, <2>1
<1>14. F[0] = <<>> /\ G[0] = <<>> /\ Len(F[0]) + 1 = 1
  BY <1>3, <1>4 DEF Joined
<1>15. f[1] \in Seq(Signs) /\ G[n] = <<>> \o f[1]
  BY <1>13, <1>14 DEF BehindIsMeant
<1>16. G[n] = f[1]
  BY <1>15, ConcatEmptySeq
<1>17. QED  BY <1>6, <1>9, <1>16

LEMMA ArgumentSteps ==
    ASSUME Argument!ArgumentAssumption, ArgumentInv, [Argument!Next]_(Argument!vars)
    PROVE  ArgumentInv'
<1>1. ASSUME NEW x \in Argument!Segments, Argument!Write(x) PROVE ArgumentInv'
  BY <1>1 DEF ArgumentInv, Argument!Write, Argument!Segments
<1>2. ASSUME NEW r \in References, NEW value \in Recorded, Argument!Record(r, value) PROVE ArgumentInv'
  BY <1>2 DEF ArgumentInv, Argument!Record, Argument!Segments
<1>3. CASE UNCHANGED Argument!vars
  BY <1>3 DEF ArgumentInv, Argument!vars, Argument!Segments
<1>4. QED  BY <1>1, <1>2, <1>3 DEF Argument!Next

\* An argument of any number of letters and references, closed braces behind every
\* pair that opens: every reference to a variable with a row becomes its latest value,
\* and everything else stays.
THEOREM ReferencesAreReplaced == Spec => []ReferencesBecomeValues
<1>0. Argument!ArgumentAssumption
  BY CapCommonAssumption DEF PartsAssumption
<1>1. Init => ArgumentInv
  BY DEF Init, Argument!Init, ArgumentInv
<1>2. [Next]_vars => [Argument!Next]_(Argument!vars)
  BY DEF Next, vars, ArgumentVars, Argument!vars
<1>3. ArgumentInv /\ [Next]_vars => ArgumentInv'
  BY <1>0, <1>2, ArgumentSteps
<1>4. ArgumentInv => ReferencesBecomeValues
  BY <1>0, ArgumentIsReplaced DEF ReferencesBecomeValues
<1>5. QED  BY <1>1, <1>3, <1>4, PTL DEF Spec

-----------------------------------------------------------------------------
(* Dictionaries (CAPHash.c, CAPKeyValue.c): sets of nodes *)

KeyData == Seq(KeyCharacters) \cup {NoText}

Node == [key : Seq(KeyCharacters) \ {<<>>}, data : KeyData]

NodeLists == INSTANCE CAPLinkedList_proofs WITH Data <- Node, result <- listResult, got <- listGot

OneEach(N) == \A x, y \in N : x.key = y.key => x = y

KeysOf(N) == {n.key : n \in N}

DictOfNodes(N) == [k \in KeysOf(N) |-> (CHOOSE n \in N : n.key = k).data]

LEMMA DictAt ==
    ASSUME NEW N, OneEach(N), NEW n \in N
    PROVE  DictOfNodes(N)[n.key] = n.data
<1> DEFINE c == CHOOSE x \in N : x.key = n.key
<1>1. c \in N /\ c.key = n.key
  OBVIOUS
<1>2. c = n
  BY <1>1 DEF OneEach
<1>3. n.key \in KeysOf(N)
  BY DEF KeysOf
<1>4. QED  BY <1>2, <1>3 DEF DictOfNodes

LEMMA DictIs ==
    ASSUME NEW N, OneEach(N), NEW d, d = [k \in KeysOf(N) |-> d[k]], \A n \in N : d[n.key] = n.data
    PROVE  d = DictOfNodes(N)
<1>1. ASSUME NEW k \in KeysOf(N) PROVE d[k] = DictOfNodes(N)[k]
  <2>1. PICK n \in N : n.key = k
    BY DEF KeysOf
  <2>2. QED  BY <2>1, DictAt
<1>2. DictOfNodes(N) = [k \in KeysOf(N) |-> DictOfNodes(N)[k]]
  BY DEF DictOfNodes
<1>3. QED  BY <1>1, <1>2

LEMMA DictWith ==
    ASSUME NEW N, OneEach(N), NEW x, x.key \notin KeysOf(N)
    PROVE  /\ OneEach(N \cup {x})
           /\ DictOfNodes(N \cup {x}) = KeyValue!Dicts!With(DictOfNodes(N), x.key, x.data)
<1> DEFINE M == N \cup {x}
           d == KeyValue!Dicts!With(DictOfNodes(N), x.key, x.data)
<1>1. OneEach(M)
  BY DEF OneEach, KeysOf
<1>2. DOMAIN DictOfNodes(N) = KeysOf(N) /\ KeysOf(M) = KeysOf(N) \cup {x.key}
  BY DEF DictOfNodes, KeysOf
<1>3. d = [k \in KeysOf(M) |-> d[k]]
  BY <1>2 DEF KeyValue!Dicts!With
<1>4. ASSUME NEW n \in M PROVE d[n.key] = n.data
  <2>1. CASE n = x
    BY <1>2, <2>1 DEF KeyValue!Dicts!With
  <2>2. CASE n \in N
    <3>1. n.key \in KeysOf(N) /\ n.key # x.key
      BY <2>2 DEF KeysOf
    <3>2. QED  BY <1>2, <2>2, <3>1, DictAt DEF KeyValue!Dicts!With
  <2>3. QED  BY <2>1, <2>2
<1> HIDE DEF M, d
<1>5. d = DictOfNodes(M)
  BY <1>1, <1>3, <1>4, DictIs
<1>6. QED  BY <1>1, <1>5 DEF M, d

LEMMA DictWithout ==
    ASSUME NEW N, OneEach(N), NEW x \in N
    PROVE  /\ OneEach(N \ {x})
           /\ DictOfNodes(N \ {x}) = KeyValue!Dicts!Without(DictOfNodes(N), x.key)
<1> DEFINE M == N \ {x}
           d == KeyValue!Dicts!Without(DictOfNodes(N), x.key)
<1>1. OneEach(M)
  BY DEF OneEach
<1>2. DOMAIN DictOfNodes(N) = KeysOf(N)
  BY DEF DictOfNodes
<1>3. KeysOf(M) = KeysOf(N) \ {x.key}
  BY DEF KeysOf, OneEach
<1>4. d = [k \in KeysOf(M) |-> d[k]]
  BY <1>2, <1>3 DEF KeyValue!Dicts!Without
<1>5. ASSUME NEW n \in M PROVE d[n.key] = n.data
  <2>1. n \in N /\ n.key \in KeysOf(M)
    BY DEF KeysOf
  <2>2. QED  BY <1>2, <1>3, <2>1, DictAt DEF KeyValue!Dicts!Without
<1> HIDE DEF M, d
<1>6. d = DictOfNodes(M)
  BY <1>1, <1>4, <1>5, DictIs
<1>7. QED  BY <1>1, <1>6 DEF M, d

LEMMA DictOfNone == OneEach({}) /\ DictOfNodes({}) = KeyValue!Dicts!NoKeys
<1>1. KeysOf({}) = {}
  BY DEF KeysOf
<1>2. DictOfNodes({}) = [k \in {} |-> <<>>]
  BY <1>1 DEF DictOfNodes
<1>3. QED  BY <1>2 DEF OneEach, KeyValue!Dicts!NoKeys

-----------------------------------------------------------------------------
(* The buckets of a hash *)

Buckets == 0..(nBucketSize - 1)

\* The code masks the hash value of a key by the number of buckets less one.
BucketsAreFound == \A key \in Seq(KeyCharacters) : BucketOf(key) \in Buckets

InBucket(b, l) ==
    /\ NodeLists!Sound(l)
    /\ \A i \in 1..Len(l.items) : BucketOf(l.items[i].key) = b
    /\ \A i, j \in 1..Len(l.items) : l.items[i].key = l.items[j].key => i = j

\* A node is in the bucket of its key, and no other node there has its key.
HashSound(hh) == hh = [b \in Buckets |-> hh[b]] /\ \A b \in Buckets : InBucket(b, hh[b])

In(l, x) == \E i \in 1..Len(l.items) : l.items[i] = x

NodesOf(hh) == {x \in Node : \E b \in Buckets : In(hh[b], x)}

LEMMA BucketParts ==
    ASSUME NEW b, NEW l, InBucket(b, l)
    PROVE  /\ NodeLists!Sound(l) /\ l.items \in Seq(Node) /\ Len(l.items) \in Nat
           /\ \A i \in 1..Len(l.items) : l.items[i] \in Node /\ BucketOf(l.items[i].key) = b
           /\ \A i, j \in 1..Len(l.items) : l.items[i].key = l.items[j].key => i = j
<1>1. NodeLists!Sound(l) /\ l.items \in Seq(Node)
  BY DEF InBucket, NodeLists!Sound, NodeLists!Lists
<1>2. \A i \in 1..Len(l.items) : BucketOf(l.items[i].key) = b
  BY DEF InBucket
<1>3. \A i, j \in 1..Len(l.items) : l.items[i].key = l.items[j].key => i = j
  BY DEF InBucket
<1>4. QED  BY <1>1, <1>2, <1>3

LEMMA NodeInItsBucket ==
    ASSUME NEW hh, HashSound(hh), NEW x
    PROVE  x \in NodesOf(hh) <=> x \in Node /\ BucketOf(x.key) \in Buckets /\ In(hh[BucketOf(x.key)], x)
<1>1. ASSUME NEW b \in Buckets, In(hh[b], x) PROVE BucketOf(x.key) = b
  <2>1. InBucket(b, hh[b])
    BY DEF HashSound
  <2>2. PICK i \in 1..Len(hh[b].items) : hh[b].items[i] = x
    BY <1>1 DEF In
  <2>3. QED  BY <2>1, <2>2, BucketParts
<1>2. QED  BY <1>1 DEF NodesOf

LEMMA OneEachInHash ==
    ASSUME NEW hh, HashSound(hh)
    PROVE  OneEach(NodesOf(hh))
<1>1. SUFFICES ASSUME NEW x \in NodesOf(hh), NEW y \in NodesOf(hh), x.key = y.key PROVE x = y
  BY DEF OneEach
<1> DEFINE b == BucketOf(x.key)
           l == hh[b]
<1>2. b \in Buckets /\ In(l, x) /\ In(l, y)
  BY <1>1, NodeInItsBucket
<1>3. InBucket(b, l)
  BY <1>2 DEF HashSound
<1> HIDE DEF l
<1>4. PICK i \in 1..Len(l.items) : l.items[i] = x
  BY <1>2 DEF In
<1>5. PICK j \in 1..Len(l.items) : l.items[j] = y
  BY <1>2 DEF In
<1>6. i = j
  BY <1>1, <1>3, <1>4, <1>5, BucketParts
<1>7. QED  BY <1>4, <1>5, <1>6

\* The sequences that CAPHash_Traverse goes through, one after the other.
BucketItems(hh) == [b \in 1..nBucketSize |-> hh[b - 1].items]

LEMMA FlattensAlike ==
    ASSUME NEW s
    PROVE  /\ KeyValue!H!SeqExt!FlattenSeq(s) = Argument!FlattenSeq(s)
           /\ KeyValue!SeqExt!FlattenSeq(s) = Argument!FlattenSeq(s)
BY Zenon DEF KeyValue!H!SeqExt!FlattenSeq, KeyValue!SeqExt!FlattenSeq, Argument!FlattenSeq

LEMMA BucketsInOrder ==
    ASSUME KeyValue!KeyValueAssumption, NEW hh, HashSound(hh)
    PROVE  /\ BucketItems(hh) \in Seq(Seq(Node)) /\ Len(BucketItems(hh)) = nBucketSize
           /\ \A k \in 1..nBucketSize :
                 k - 1 \in Buckets /\ BucketItems(hh)[k] = hh[k - 1].items /\ InBucket(k - 1, hh[k - 1])
<1>1. nBucketSize \in Nat
  BY DEF KeyValue!KeyValueAssumption
<1>2. ASSUME NEW k \in 1..nBucketSize
      PROVE  k - 1 \in Buckets /\ InBucket(k - 1, hh[k - 1]) /\ hh[k - 1].items \in Seq(Node)
  <2>1. k - 1 \in Buckets
    BY <1>1 DEF Buckets
  <2>2. InBucket(k - 1, hh[k - 1])
    BY <2>1 DEF HashSound
  <2>3. QED  BY <2>1, <2>2, BucketParts
<1>3. QED  BY <1>1, <1>2 DEF BucketItems

ItemsAreNodes(hh) ==
    LET s == KeyValue!H!Items(hh) IN
    /\ s \in Seq(Node)
    /\ \A i \in 1..Len(s) : s[i] \in NodesOf(hh)
    /\ \A x \in NodesOf(hh) : \E i \in 1..Len(s) : s[i] = x
    /\ \A i, j \in 1..Len(s) : s[i].key = s[j].key => i = j

LEMMA HashItems ==
    ASSUME KeyValue!KeyValueAssumption, NEW hh, HashSound(hh)
    PROVE  ItemsAreNodes(hh)
<1> DEFINE q == BucketItems(hh)
           n == nBucketSize
           s == KeyValue!H!Items(hh)
<1>1. /\ q \in Seq(Seq(Node)) /\ Len(q) = n
      /\ \A k \in 1..n : k - 1 \in Buckets /\ q[k] = hh[k - 1].items /\ InBucket(k - 1, hh[k - 1])
  BY BucketsInOrder
<1>2. n \in Nat
  BY DEF KeyValue!KeyValueAssumption
<1>3. PICK F : Joined(q, Node, F)
  BY <1>1, JoinedExists
<1>4. s = F[n]
  <2>1. s = Argument!FlattenSeq(q)
    BY FlattensAlike DEF KeyValue!H!Items, BucketItems
  <2>2. Argument!FlattenSeq(q) = F[Len(q)]
    BY <1>1, <1>3, FlattenJoins
  <2>3. QED  BY <1>1, <2>1, <2>2
<1> HIDE DEF s, q, n
<1>5. s \in Seq(Node) /\ Len(s) \in Nat
  <2>1. n \in 0..Len(q)
    BY <1>1, <1>2
  <2>2. s \in Seq(Node)
    BY <1>3, <1>4, <2>1 DEF Joined
  <2>3. QED  BY <2>2
<1>6. ASSUME NEW k \in 1..n, NEW t \in 1..Len(q[k])
      PROVE  /\ Len(F[k - 1]) \in Nat /\ Len(F[k - 1]) + t \in 1..Len(s)
             /\ s[Len(F[k - 1]) + t] = q[k][t] /\ q[k][t] \in NodesOf(hh)
  <2>1. Len(F[k - 1]) \in Nat /\ Len(q[k]) \in Nat /\ HoldsAt(s, Len(F[k - 1]), q[k])
    BY <1>1, <1>3, <1>4, JoinedAt
  <2>2. Len(F[k - 1]) + t \in 1..Len(s) /\ s[Len(F[k - 1]) + t] = q[k][t]
    <3> DEFINE b == Len(F[k - 1])
               a == q[k]
    <3>1. b \in Nat /\ Len(a) \in Nat /\ b + Len(a) <= Len(s) /\ t \in 1..Len(a) /\ s[b + t] = a[t]
      BY <2>1 DEF HoldsAt
    <3> HIDE DEF a, b
    <3>2. b + t \in 1..Len(s) /\ s[b + t] = a[t]
      BY <1>5, <3>1
    <3>3. QED  BY <3>2 DEF a, b
  <2>3. q[k][t] \in Node
    BY <1>1
  <2>4. In(hh[k - 1], q[k][t])
    BY <1>1 DEF In
  <2>5. q[k][t] \in NodesOf(hh)
    BY <1>1, <2>3, <2>4 DEF NodesOf
  <2>6. QED  BY <2>1, <2>2, <2>5
<1>7. ASSUME NEW i \in 1..Len(s) PROVE CameFrom(q, F, n, i)
  BY <1>1, <1>3, <1>4, JoinedFrom
<1>8. ASSUME NEW i \in 1..Len(s) PROVE s[i] \in NodesOf(hh)
  <2>1. PICK k \in 1..n : \E t \in 1..Len(q[k]) : i = Len(F[k - 1]) + t
    BY <1>7 DEF CameFrom
  <2>2. PICK t \in 1..Len(q[k]) : i = Len(F[k - 1]) + t
    BY <2>1
  <2>3. QED  BY <1>6, <2>2
<1>9. ASSUME NEW x \in NodesOf(hh) PROVE \E i \in 1..Len(s) : s[i] = x
  <2>1. PICK b \in Buckets : In(hh[b], x)
    BY DEF NodesOf
  <2> DEFINE k == b + 1
  <2>2. k \in 1..n /\ k - 1 = b
    BY <1>2 DEF Buckets, n
  <2>3. PICK t \in 1..Len(hh[b].items) : hh[b].items[t] = x
    BY <2>1 DEF In
  <2>4. t \in 1..Len(q[k]) /\ q[k][t] = x
    BY <1>1, <2>2, <2>3
  <2> HIDE DEF k
  <2>5. QED  BY <1>6, <2>2, <2>4
<1>10. ASSUME NEW i \in 1..Len(s), NEW j \in 1..Len(s), s[i].key = s[j].key PROVE i = j
  <2>1. PICK k \in 1..n : \E t \in 1..Len(q[k]) : i = Len(F[k - 1]) + t
    BY <1>7 DEF CameFrom
  <2>2. PICK t \in 1..Len(q[k]) : i = Len(F[k - 1]) + t
    BY <2>1
  <2>3. PICK l \in 1..n : \E u \in 1..Len(q[l]) : j = Len(F[l - 1]) + u
    BY <1>7 DEF CameFrom
  <2>4. PICK u \in 1..Len(q[l]) : j = Len(F[l - 1]) + u
    BY <2>3
  <2>5. s[i] = q[k][t] /\ s[j] = q[l][u]
    BY <1>6, <2>2, <2>4
  <2>6. q[k][t].key = q[l][u].key
    BY <1>10, <2>5
  <2>7. BucketOf(q[k][t].key) = k - 1 /\ BucketOf(q[l][u].key) = l - 1
    <3>1. InBucket(k - 1, hh[k - 1]) /\ q[k] = hh[k - 1].items
      BY <1>1
    <3>2. InBucket(l - 1, hh[l - 1]) /\ q[l] = hh[l - 1].items
      BY <1>1
    <3>3. QED  BY <3>1, <3>2, BucketParts
  <2>8. k = l
    BY <2>6, <2>7
  <2>9. t = u
    <3>1. InBucket(k - 1, hh[k - 1]) /\ q[k] = hh[k - 1].items /\ u \in 1..Len(q[k])
      BY <1>1, <2>8
    <3>2. q[k][t].key = q[k][u].key
      BY <2>6, <2>8
    <3>3. QED  BY <3>1, <3>2, BucketParts
  <2>10. QED  BY <2>2, <2>4, <2>8, <2>9
<1>11. QED  BY <1>5, <1>8, <1>9, <1>10 DEF ItemsAreNodes, s

-----------------------------------------------------------------------------
(* Loops as functions of their round *)

Iterates(n, S, a, step, f) ==
    f \in [0..n -> S] /\ f[0] = a /\ \A i \in 1..n : f[i] = step[i][f[i - 1]]

LEMMA IterationExists ==
    ASSUME NEW n \in Nat, NEW S, NEW a \in S, NEW step \in [1..n -> [S -> S]]
    PROVE  \E f : Iterates(n, S, a, step, f)
<1> DEFINE T == {k \in Nat : k <= n => \E f : Iterates(k, S, a, step, f)}
<1>1. 0 \in T
  <2> DEFINE f == [i \in 0..0 |-> a]
  <2>1. Iterates(0, S, a, step, f)
    BY DEF Iterates
  <2>2. QED  BY <2>1
<1>2. ASSUME NEW k \in T PROVE k + 1 \in T
  <2>1. k \in Nat
    OBVIOUS
  <2>2. SUFFICES ASSUME k + 1 <= n PROVE \E f : Iterates(k + 1, S, a, step, f)
    BY <2>1
  <2>3. PICK f : Iterates(k, S, a, step, f)
    BY <2>1, <2>2
  <2> HIDE DEF T
  <2> DEFINE g == [i \in 0..(k + 1) |-> IF i <= k THEN f[i] ELSE step[k + 1][f[k]]]
  <2>4. step[k + 1] \in [S -> S] /\ f[k] \in S
    BY <2>1, <2>2, <2>3 DEF Iterates
  <2>5. step[k + 1][f[k]] \in S
    BY <2>4
  <2>6. g \in [0..(k + 1) -> S]
    <3>1. ASSUME NEW i \in 0..(k + 1) PROVE (IF i <= k THEN f[i] ELSE step[k + 1][f[k]]) \in S
      BY <2>1, <2>3, <2>5 DEF Iterates
    <3>2. QED  BY <3>1
  <2>7. g[0] = a
    BY <2>1, <2>3 DEF Iterates
  <2>8. ASSUME NEW i \in 1..(k + 1) PROVE g[i] = step[i][g[i - 1]]
    <3>1. CASE i <= k
      <4>1. g[i] = f[i] /\ g[i - 1] = f[i - 1] /\ i \in 1..k
        BY <2>1, <3>1
      <4>2. QED  BY <2>3, <4>1 DEF Iterates
    <3>2. CASE ~(i <= k)
      <4>1. i = k + 1 /\ i - 1 = k /\ k \in 0..(k + 1)
        BY <2>1, <3>2
      <4>2. g[i - 1] = f[k] /\ g[i] = step[k + 1][f[k]]
        BY <2>1, <4>1
      <4>3. QED  BY <4>1, <4>2
    <3>3. QED  BY <3>1, <3>2
  <2> HIDE DEF g
  <2>9. QED  BY <2>6, <2>7, <2>8 DEF Iterates
<1>3. n \in T
  <2>1. T \in SUBSET Nat
    OBVIOUS
  <2> HIDE DEF T
  <2>2. QED  BY <1>1, <1>2, <2>1, Induction
<1>4. QED  BY <1>3

LEMMA IterationStays ==
    ASSUME NEW n \in Nat, NEW S, NEW f, f[0] \in S[0], \A i \in 1..n : f[i - 1] \in S[i - 1] => f[i] \in S[i]
    PROVE  \A i \in 0..n : f[i] \in S[i]
<1> DEFINE T == {k \in Nat : k <= n => f[k] \in S[k]}
<1>1. 0 \in T
  OBVIOUS
<1>2. ASSUME NEW k \in T PROVE k + 1 \in T
  <2>1. k \in Nat
    OBVIOUS
  <2>2. SUFFICES ASSUME k + 1 <= n PROVE f[k + 1] \in S[k + 1]
    BY <2>1
  <2>3. f[k] \in S[k] /\ k + 1 \in 1..n /\ (k + 1) - 1 = k
    BY <2>1, <2>2
  <2>4. QED  BY <2>3
<1>3. T \in SUBSET Nat
  OBVIOUS
<1> HIDE DEF T
<1>4. T = Nat
  BY <1>1, <1>2, <1>3, Induction
<1>5. QED  BY <1>4 DEF T

-----------------------------------------------------------------------------
(* What the operations on a list do to a bucket *)

LEMMA SameLists ==
    ASSUME NEW l, NEW off, NEW i, NEW d
    PROVE  /\ KeyValue!H!L!Append1(l, d) = NodeLists!L!Append1(l, d)
           /\ KeyValue!H!L!Get(l, off, i) = NodeLists!L!Get(l, off, i)
           /\ KeyValue!H!L!Remove(l, off, i) = NodeLists!L!Remove(l, off, i)
           /\ KeyValue!H!L!Create = NodeLists!L!Create
           /\ KeyValue!H!L!Size(l) = NodeLists!L!Size(l)
<1>1. KeyValue!H!L!Size(l) = NodeLists!L!Size(l) /\ KeyValue!H!L!Create = NodeLists!L!Create
  BY DEF KeyValue!H!L!Size, NodeLists!L!Size, KeyValue!H!L!Create, NodeLists!L!Create,
         KeyValue!H!L!CURRENT_NOT_SET, NodeLists!L!CURRENT_NOT_SET
<1>2. KeyValue!H!L!Append1(l, d) = NodeLists!L!Append1(l, d)
  BY Zenon DEF KeyValue!H!L!Append1, NodeLists!L!Append1, KeyValue!H!L!Add, NodeLists!L!Add,
         KeyValue!H!L!Place, NodeLists!L!Place, KeyValue!H!L!Size, NodeLists!L!Size,
         KeyValue!H!L!Link, NodeLists!L!Link, KeyValue!H!L!Shift, NodeLists!L!Shift,
         KeyValue!H!L!Answer, NodeLists!L!Answer, KeyValue!H!L!SeqExt!InsertAt, NodeLists!L!SeqExt!InsertAt
<1>3. KeyValue!H!L!Get(l, off, i) = NodeLists!L!Get(l, off, i)
  BY Zenon DEF KeyValue!H!L!Get, NodeLists!L!Get, KeyValue!H!L!Find, NodeLists!L!Find,
         KeyValue!H!L!Seek, NodeLists!L!Seek, KeyValue!H!L!MoveTo, NodeLists!L!MoveTo,
         KeyValue!H!L!Walk, NodeLists!L!Walk, KeyValue!H!L!Answer, NodeLists!L!Answer,
         KeyValue!H!L!Place, NodeLists!L!Place, KeyValue!H!L!Size, NodeLists!L!Size
<1>4. KeyValue!H!L!Remove(l, off, i) = NodeLists!L!Remove(l, off, i)
  BY Zenon DEF KeyValue!H!L!Remove, NodeLists!L!Remove, KeyValue!H!L!RemoveFirst, NodeLists!L!RemoveFirst,
         KeyValue!H!L!Unlink, NodeLists!L!Unlink, KeyValue!H!L!MoveTo, NodeLists!L!MoveTo,
         KeyValue!H!L!Walk, NodeLists!L!Walk, KeyValue!H!L!Shift, NodeLists!L!Shift,
         KeyValue!H!L!Answer, NodeLists!L!Answer, KeyValue!H!L!Place, NodeLists!L!Place,
         KeyValue!H!L!Size, NodeLists!L!Size, KeyValue!H!L!SeqExt!RemoveAt, NodeLists!L!SeqExt!RemoveAt
<1>5. QED  BY <1>1, <1>2, <1>3, <1>4

LEMMA Appended ==
    ASSUME NEW l, NodeLists!Sound(l), NEW d \in Node
    PROVE  /\ NodeLists!Sound(KeyValue!H!L!Append1(l, d))
           /\ KeyValue!H!L!Append1(l, d).items = Append(l.items, d)
<1> DEFINE r == NodeLists!L!Add(l, "LAST", 0, d)
           n == Len(l.items)
<1>1. l.items \in Seq(Node) /\ n \in Nat /\ NodeLists!L!Size(l) = n
  BY NodeLists!Parts
<1>2. NodeLists!L!Place(l, "LAST", 0) = n
  BY <1>1 DEF NodeLists!L!Place
<1>3. r.result = "NOERROR" /\ r.list.nCurrent = n
  BY <1>1, <1>2 DEF NodeLists!L!Add, NodeLists!L!Answer, NodeLists!L!Link
<1>4. "LAST" \in NodeLists!L!Offsets /\ 0 \in Int
  BY DEF NodeLists!L!Offsets
<1>5. /\ NodeLists!Sound(r.list)
      /\ \/ r = NodeLists!L!Answer(l, "INVALID_PARAM")
         \/ \E k \in 0..n : /\ r.list.nCurrent = k
                            /\ r.list.items = SubSeq(l.items, 1, k) \o <<d>> \o SubSeq(l.items, k + 1, n)
  BY <1>4, NodeLists!AddAnswers
<1>6. r.list.items = SubSeq(l.items, 1, n) \o <<d>> \o SubSeq(l.items, n + 1, n)
  <2>1. r # NodeLists!L!Answer(l, "INVALID_PARAM")
    BY <1>3 DEF NodeLists!L!Answer
  <2>2. QED  BY <1>3, <1>5, <2>1
<1> DEFINE s == l.items
<1>7. SubSeq(s, 1, n) \o <<d>> \o SubSeq(s, n + 1, n) = Append(s, d)
  <2>1. s \in Seq(Node) /\ Len(s) = n /\ n \in Nat
    BY <1>1
  <2> HIDE DEF s, n
  <2>2. SubSeq(s, 1, n) = s /\ SubSeq(s, n + 1, n) = <<>>
    BY <2>1
  <2>3. s \o <<d>> \o <<>> = Append(s, d)
    BY <2>1
  <2>4. QED  BY <2>2, <2>3
<1>8. KeyValue!H!L!Append1(l, d) = r.list
  BY SameLists DEF NodeLists!L!Append1
<1>9. QED  BY <1>5, <1>6, <1>7, <1>8

LEMMA Found ==
    ASSUME NEW l, NodeLists!Sound(l), NEW k \in 0..(Len(l.items) - 1)
    PROVE  LET got == KeyValue!H!L!Get(l, "FIRST", k) IN
           /\ NodeLists!Sound(got.list) /\ got.list.items = l.items
           /\ got.data = <<l.items[k + 1]>>
<1> DEFINE n == Len(l.items)
           m == NodeLists!L!MoveTo(l, k)
<1>1. l.items \in Seq(Node) /\ n \in Nat /\ NodeLists!L!Size(l) = n
  BY NodeLists!Parts
<1>2. NodeLists!L!Place(l, "FIRST", k) = k
  BY <1>1 DEF NodeLists!L!Place
<1>3. /\ m = [items |-> l.items, pCurrent |-> IF k < n THEN k + 1 ELSE 0, nCurrent |-> k, pLast |-> l.pLast]
      /\ NodeLists!Sound(m)
  <2>1. k \in 0..Len(l.items) /\ Len(l.items) > 0
    BY <1>1
  <2>2. QED  BY <2>1, NodeLists!MoveToPlace
<1>4. m.items = l.items /\ m.pCurrent = k + 1
  BY <1>1, <1>3
<1> HIDE DEF m
<1>5. NodeLists!L!Seek(l, "FIRST", k) = NodeLists!L!Answer(m, "NOERROR")
  BY <1>1, <1>2 DEF NodeLists!L!Seek, m
<1>6. NodeLists!L!Find(l, "FIRST", k) = NodeLists!L!Answer(m, "NOERROR")
  BY <1>1, <1>4, <1>5 DEF NodeLists!L!Find, NodeLists!L!Answer
<1>7. /\ NodeLists!L!Get(l, "FIRST", k).list = m
      /\ NodeLists!L!Get(l, "FIRST", k).data = <<m.items[m.pCurrent]>>
  BY <1>6 DEF NodeLists!L!Get, NodeLists!L!Answer
<1>8. KeyValue!H!L!Get(l, "FIRST", k) = NodeLists!L!Get(l, "FIRST", k)
  BY SameLists
<1>9. QED  BY <1>3, <1>4, <1>7, <1>8

LEMMA Removed ==
    ASSUME NEW l, NodeLists!Sound(l), NEW k \in 0..(Len(l.items) - 1)
    PROVE  LET r == KeyValue!H!L!Remove(l, "FIRST", k) IN
           /\ NodeLists!Sound(r.list)
           /\ Len(r.list.items) = Len(l.items) - 1
           /\ \A i \in 1..(Len(l.items) - 1) :
                 r.list.items[i] = IF i <= k THEN l.items[i] ELSE l.items[i + 1]
<1> DEFINE s == l.items
           n == Len(s)
           r == NodeLists!L!Remove(l, "FIRST", k)
<1>1. s \in Seq(Node) /\ n \in Nat /\ NodeLists!L!Size(l) = n
  BY NodeLists!Parts
<1>2. NodeLists!L!Place(l, "FIRST", k) = k
  BY <1>1 DEF NodeLists!L!Place
<1>3. NodeLists!Sound(r.list)
  <2>1. "FIRST" \in NodeLists!L!Offsets /\ k \in Int
    BY <1>1 DEF NodeLists!L!Offsets
  <2>2. QED  BY <2>1, NodeLists!RemoveAnswers
<1>4. r.list.items = IF k = 0 THEN Tail(s) ELSE NodeLists!L!SeqExt!RemoveAt(s, k + 1)
  BY <1>1, <1>2 DEF NodeLists!L!Remove, NodeLists!L!RemoveFirst, NodeLists!L!Unlink, NodeLists!L!Answer
<1>5. r.list.items = SubSeq(s, 1, k) \o SubSeq(s, k + 2, n)
  <2>1. CASE k = 0
    <3>1. Tail(s) = SubSeq(s, 1, 0) \o SubSeq(s, 2, Len(s))
      BY <1>1, <2>1, NodeLists!TailRemovesFirst
    <3>2. r.list.items = Tail(s)
      BY <1>4, <2>1
    <3>3. k + 2 = 2
      BY <2>1
    <3> HIDE DEF r, s
    <3>4. QED  BY <2>1, <3>1, <3>2, <3>3 DEF n
  <2>2. CASE k # 0
    <3>1. NodeLists!L!SeqExt!RemoveAt(s, k + 1) = SubSeq(s, 1, k) \o SubSeq(s, k + 2, Len(s))
      BY <1>1, NodeLists!RemovedAt
    <3>2. QED  BY <1>4, <2>2, <3>1
  <2>3. QED  BY <2>1, <2>2
<1> DEFINE t == r.list.items
<1>6. /\ Len(t) = n - 1
      /\ \A i \in 1..(n - 1) : t[i] = IF i <= k THEN s[i] ELSE s[i + 1]
  <2>1. s \in Seq(Node) /\ Len(s) = n /\ n \in Nat /\ k \in 0..(n - 1) /\ t = SubSeq(s, 1, k) \o SubSeq(s, k + 2, n)
    BY <1>1, <1>5
  <2> HIDE DEF s, n, t
  <2> DEFINE a == SubSeq(s, 1, k)
             b == SubSeq(s, k + 2, n)
  <2>2. a \in Seq(Node) /\ Len(a) = k /\ \A i \in 1..k : a[i] = s[i]
    BY <2>1
  <2>3. b \in Seq(Node) /\ Len(b) = n - 1 - k /\ \A i \in 1..(n - 1 - k) : b[i] = s[k + 1 + i]
    BY <2>1
  <2> HIDE DEF a, b
  <2>4. t = a \o b
    BY <2>1 DEF a, b
  <2>5. Len(t) = n - 1
    BY <2>1, <2>2, <2>3, <2>4
  <2>6. ASSUME NEW i \in 1..(n - 1) PROVE t[i] = IF i <= k THEN s[i] ELSE s[i + 1]
    <3>1. CASE i <= k
      BY <2>1, <2>2, <2>3, <2>4, <3>1
    <3>2. CASE ~(i <= k)
      <4>2. i - k \in 1..(n - 1 - k) /\ k + 1 + (i - k) = i + 1 /\ Len(a) + (i - k) = i
        BY <2>1, <2>2, <3>2
      <4>3. t[i] = b[i - k]
        <5>1. HoldsAt(t, Len(a), b)
          BY <2>2, <2>3, <2>4, Concat
        <5>2. QED  BY <2>3, <4>2, <5>1 DEF HoldsAt
      <4>4. QED  BY <2>3, <3>2, <4>2, <4>3
    <3>3. QED  BY <3>1, <3>2
  <2>7. QED  BY <2>5, <2>6
<1>7. KeyValue!H!L!Remove(l, "FIRST", k) = r
  BY SameLists
<1> HIDE DEF r
<1>8. QED  BY <1>3, <1>6, <1>7

-----------------------------------------------------------------------------
(* What the operations on a hash do to its nodes *)

HashIs(hh, N) == HashSound(hh) /\ NodesOf(hh) = N

Others(N, key) == {n \in N : n.key # key}

LEMMA BucketChanged ==
    ASSUME NEW hh, HashSound(hh), NEW b \in Buckets, NEW l, InBucket(b, l), NEW new, new = [hh EXCEPT ![b] = l]
    PROVE  /\ HashSound(new)
           /\ \A x \in Node : x \in NodesOf(new) <=> IF BucketOf(x.key) = b THEN In(l, x) ELSE x \in NodesOf(hh)
<1>1. hh = [c \in Buckets |-> hh[c]] /\ \A c \in Buckets : InBucket(c, hh[c])
  BY DEF HashSound
<1>2. new = [c \in Buckets |-> new[c]] /\ \A c \in Buckets : new[c] = IF c = b THEN l ELSE hh[c]
  BY <1>1
<1>3. HashSound(new)
  BY <1>1, <1>2 DEF HashSound
<1>4. ASSUME NEW x \in Node
      PROVE  x \in NodesOf(new) <=> IF BucketOf(x.key) = b THEN In(l, x) ELSE x \in NodesOf(hh)
  <2>1. x \in NodesOf(new) <=> BucketOf(x.key) \in Buckets /\ In(new[BucketOf(x.key)], x)
    BY <1>3, NodeInItsBucket
  <2>2. x \in NodesOf(hh) <=> BucketOf(x.key) \in Buckets /\ In(hh[BucketOf(x.key)], x)
    BY NodeInItsBucket
  <2>3. QED  BY <1>2, <2>1, <2>2
<1>5. QED  BY <1>3, <1>4

FoundOrNot(hh, key, p) ==
    LET l == hh[BucketOf(key)] IN
    \/ p = 0 /\ \A i \in 1..Len(l.items) : l.items[i].key # key
    \/ p \in 1..Len(l.items) /\ l.items[p].key = key

LEMMA FindKeyFinds ==
    ASSUME BucketsAreFound, NEW hh, HashSound(hh), NEW key \in Seq(KeyCharacters)
    PROVE  /\ BucketOf(key) \in Buckets /\ InBucket(BucketOf(key), hh[BucketOf(key)])
           /\ FoundOrNot(hh, key, KeyValue!H!FindKey(hh, key))
<1> DEFINE l == hh[BucketOf(key)]
           s == l.items
           I == {i \in 1..Len(s) : s[i] \in {node \in KeyValue!H!SeqExt!ToSet(s) : node.key = key}}
           p == KeyValue!H!FindKey(hh, key)
<1>1. BucketOf(key) \in Buckets /\ InBucket(BucketOf(key), l)
  BY DEF BucketsAreFound, HashSound
<1>2. s \in Seq(Node) /\ Len(s) \in Nat
  BY <1>1, BucketParts
<1>3. p = IF I # {} THEN CHOOSE x \in I : \A y \in I : x <= y ELSE 0
  BY DEF KeyValue!H!FindKey, KeyValue!H!L!Traverse, KeyValue!H!L!SeqExt!SelectInSeq, KeyValue!H!L!SeqExt!Min
<1>4. I = {i \in 1..Len(s) : s[i].key = key}
  <2>1. \A i \in 1..Len(s) : s[i] \in KeyValue!H!SeqExt!ToSet(s)
    BY <1>2 DEF KeyValue!H!SeqExt!ToSet
  <2>2. QED  BY <2>1
<1> HIDE DEF s, p
<1>5. CASE I = {}
  BY <1>1, <1>3, <1>4, <1>5 DEF FoundOrNot, s, p
<1>6. CASE I # {}
  <2>1. I \in SUBSET Nat
    BY <1>2
  <2> HIDE DEF I
  <2>2. \E x \in I : \A y \in I : x <= y
    BY <1>6, <2>1, Least
  <2>3. p \in I
    BY <1>3, <1>6, <2>2
  <2>4. p \in 1..Len(s) /\ s[p].key = key
    BY <1>4, <2>3
  <2>5. QED  BY <1>1, <2>4 DEF FoundOrNot, s, p
<1>7. QED  BY <1>5, <1>6

LEMMA KeyIsThere ==
    ASSUME NEW hh, NEW N, HashIs(hh, N), NEW key, key \in Seq(KeyCharacters) \ {<<>>}, BucketOf(key) \in Buckets
    PROVE  LET l == hh[BucketOf(key)] IN
           /\ \A i \in 1..Len(l.items) : l.items[i] \in N
           /\ key \in KeysOf(N) => \E i \in 1..Len(l.items) : l.items[i].key = key
<1> DEFINE l == hh[BucketOf(key)]
<1>1. InBucket(BucketOf(key), l)
  BY DEF HashIs, HashSound
<1>2. ASSUME NEW i \in 1..Len(l.items) PROVE l.items[i] \in N
  <2>1. l.items[i] \in Node /\ In(l, l.items[i])
    BY <1>1, BucketParts DEF In
  <2>2. QED  BY <2>1 DEF HashIs, NodesOf
<1>3. ASSUME key \in KeysOf(N) PROVE \E i \in 1..Len(l.items) : l.items[i].key = key
  <2>1. PICK x \in N : x.key = key
    BY <1>3 DEF KeysOf
  <2>2. In(l, x)
    BY <2>1, NodeInItsBucket DEF HashIs
  <2>3. QED  BY <2>1, <2>2 DEF In
<1>4. QED  BY <1>2, <1>3

Added(hh, N, key, datum, a) ==
    \/ key = <<>> /\ a.result = "INVALID_PARAM" /\ a.hash = hh
    \/ key # <<>> /\ key \in KeysOf(N) /\ a.result = "DUPLICATED" /\ a.hash = hh
    \/ /\ key # <<>> /\ key \notin KeysOf(N) /\ a.result = "NOERROR"
       /\ HashIs(a.hash, N \cup {[key |-> key, data |-> datum]})

LEMMA AddKeyAdds ==
    ASSUME BucketsAreFound, NEW hh, NEW N, HashIs(hh, N),
           NEW key \in Seq(KeyCharacters), NEW datum \in KeyData
    PROVE  Added(hh, N, key, datum, KeyValue!H!AddKey(hh, key, datum))
<1> DEFINE b == BucketOf(key)
           l == hh[b]
           p == KeyValue!H!FindKey(hh, key)
           x == [key |-> key, data |-> datum]
           r == KeyValue!H!L!Append1(l, x)
           a == KeyValue!H!AddKey(hh, key, datum)
           new == [hh EXCEPT ![b] = r]
<1>1. b \in Buckets /\ InBucket(b, l) /\ FoundOrNot(hh, key, p)
  BY FindKeyFinds DEF HashIs
<1>2. CASE key = <<>>
  BY <1>2 DEF KeyValue!H!AddKey, KeyValue!H!Answer, Added
<1>3. CASE key # <<>> /\ p # 0
  <2>1. a.result = "DUPLICATED" /\ a.hash = hh
    BY <1>3 DEF KeyValue!H!AddKey, KeyValue!H!Answer
  <2>2. l.items[p].key = key /\ p \in 1..Len(l.items)
    BY <1>1, <1>3 DEF FoundOrNot
  <2>3. l.items[p] \in N
    BY <1>1, <1>3, <2>2, KeyIsThere
  <2>4. key \in KeysOf(N)
    BY <2>2, <2>3 DEF KeysOf
  <2>5. QED  BY <1>3, <2>1, <2>4 DEF Added
<1>4. CASE key # <<>> /\ p = 0
  <2>1. a.result = "NOERROR" /\ a.hash = new
    BY <1>4 DEF KeyValue!H!AddKey, KeyValue!H!Answer
  <2>2. x \in Node
    BY <1>4 DEF Node
  <2>3. /\ NodeLists!Sound(l) /\ l.items \in Seq(Node) /\ Len(l.items) \in Nat
        /\ \A i \in 1..Len(l.items) : l.items[i] \in Node /\ BucketOf(l.items[i].key) = b
        /\ \A i, j \in 1..Len(l.items) : l.items[i].key = l.items[j].key => i = j
    BY <1>1, BucketParts
  <2>4. \A i \in 1..Len(l.items) : l.items[i].key # key
    <3>1. 0 \notin 1..Len(l.items)
      BY <2>3
    <3>2. QED  BY <1>1, <1>4, <3>1 DEF FoundOrNot
  <2>5. key \notin KeysOf(N)
    BY <1>1, <1>4, <2>4, KeyIsThere
  <2>6. NodeLists!Sound(r) /\ r.items = Append(l.items, x)
    BY <2>2, <2>3, Appended
  <2>7. x.key = key
    OBVIOUS
  <2> HIDE DEF x, l, r, p, a, new
  <2>8. /\ Len(r.items) = Len(l.items) + 1
        /\ \A i \in 1..Len(r.items) : r.items[i] = IF i <= Len(l.items) THEN l.items[i] ELSE x
    BY <2>3, <2>6
  <2>9. InBucket(b, r)
    <3>1. ASSUME NEW i \in 1..Len(r.items) PROVE BucketOf(r.items[i].key) = b
      BY <2>3, <2>7, <2>8, SMTT(30)
    <3>2. ASSUME NEW i \in 1..Len(r.items), NEW j \in 1..Len(r.items), r.items[i].key = r.items[j].key
          PROVE  i = j
      <4>1. CASE i <= Len(l.items) /\ j <= Len(l.items)
        BY <2>3, <2>8, <3>2, <4>1, SMTT(30)
      <4>2. CASE i <= Len(l.items) /\ ~(j <= Len(l.items))
        <5>1. r.items[i] = l.items[i] /\ r.items[j].key = key /\ i \in 1..Len(l.items)
          BY <2>3, <2>7, <2>8, <4>2
        <5>2. QED  BY <2>4, <3>2, <5>1
      <4>3. CASE ~(i <= Len(l.items)) /\ j <= Len(l.items)
        <5>1. r.items[j] = l.items[j] /\ r.items[i].key = key /\ j \in 1..Len(l.items)
          BY <2>3, <2>7, <2>8, <4>3
        <5>2. QED  BY <2>4, <3>2, <5>1
      <4>4. CASE ~(i <= Len(l.items)) /\ ~(j <= Len(l.items))
        BY <2>3, <2>8, <4>4
      <4>5. QED  BY <4>1, <4>2, <4>3, <4>4
    <3>3. QED  BY <2>6, <3>1, <3>2 DEF InBucket
  <2>10. ASSUME NEW y PROVE In(r, y) <=> In(l, y) \/ y = x
    <3>1. ASSUME In(r, y) PROVE In(l, y) \/ y = x
      <4>1. PICK i \in 1..Len(r.items) : r.items[i] = y
        BY <3>1 DEF In
      <4>2. CASE i <= Len(l.items)
        <5>1. i \in 1..Len(l.items) /\ l.items[i] = y
          BY <2>3, <2>8, <4>1, <4>2
        <5>2. QED  BY <5>1 DEF In
      <4>3. CASE ~(i <= Len(l.items))
        BY <2>8, <4>1, <4>3
      <4>4. QED  BY <4>2, <4>3
    <3>2. ASSUME In(l, y) PROVE In(r, y)
      <4>1. PICK i \in 1..Len(l.items) : l.items[i] = y
        BY <3>2 DEF In
      <4>2. i \in 1..Len(r.items) /\ r.items[i] = y
        BY <2>3, <2>8, <4>1
      <4>3. QED  BY <4>2 DEF In
    <3>3. In(r, x)
      <4>1. Len(l.items) + 1 \in 1..Len(r.items) /\ r.items[Len(l.items) + 1] = x
        BY <2>3, <2>8
      <4>2. QED  BY <4>1 DEF In
    <3>4. QED  BY <3>1, <3>2, <3>3
  <2>11. /\ HashSound(new)
         /\ \A y \in Node : y \in NodesOf(new) <=> IF BucketOf(y.key) = b THEN In(r, y) ELSE y \in NodesOf(hh)
    BY <1>1, <2>9, BucketChanged DEF HashIs, new
  <2>12. \A y : y \in N <=> y \in Node /\ BucketOf(y.key) \in Buckets /\ In(hh[BucketOf(y.key)], y)
    BY NodeInItsBucket DEF HashIs
  <2>13. \A y : y \in NodesOf(new) => y \in Node
    BY DEF NodesOf
  <2>14. ASSUME NEW y PROVE y \in NodesOf(new) <=> y \in N \cup {x}
    <3>1. CASE y \in Node /\ BucketOf(y.key) = b
      <4>1. In(hh[b], y) <=> In(l, y)
        BY DEF l
      <4>2. QED  BY <1>1, <2>10, <2>11, <2>12, <3>1, <4>1
    <3>2. CASE y \in Node /\ BucketOf(y.key) # b
      BY <2>7, <2>11, <3>2 DEF HashIs
    <3>3. CASE y \notin Node
      BY <2>2, <2>12, <2>13, <3>3
    <3>4. QED  BY <3>1, <3>2, <3>3
  <2>15. NodesOf(new) = N \cup {x}
    BY <2>14
  <2>16. HashIs(a.hash, N \cup {x})
    BY <2>1, <2>11, <2>15 DEF HashIs
  <2>17. QED  BY <1>4, <2>1, <2>5, <2>16 DEF Added, x, a
<1>5. QED  BY <1>2, <1>3, <1>4

LEMMA CreatedIsEmpty ==
    ASSUME NEW hh, hh = KeyValue!H!Create
    PROVE  HashIs(hh, {})
<1> DEFINE l == NodeLists!L!Create
<1>1. hh = [b \in Buckets |-> l]
  BY SameLists DEF KeyValue!H!Create, Buckets
<1>2. NodeLists!Sound(l)
  BY NodeLists!CreateSound
<1>3. Len(l.items) = 0
  BY DEF NodeLists!L!Create
<1> HIDE DEF l
<1>4. ASSUME NEW b PROVE InBucket(b, l)
  BY <1>2, <1>3 DEF InBucket
<1>5. HashSound(hh)
  BY <1>1, <1>4 DEF HashSound
<1>6. \A x : ~In(l, x)
  BY <1>3 DEF In
<1>7. NodesOf(hh) = {}
  BY <1>1, <1>6 DEF NodesOf
<1>8. QED  BY <1>5, <1>7 DEF HashIs

\* Moving the cursor of a bucket.
LEMMA CursorMoved ==
    ASSUME NEW hh, NEW N, HashIs(hh, N), NEW b \in Buckets, NEW l, NodeLists!Sound(l), l.items = hh[b].items,
           NEW new, new = [hh EXCEPT ![b] = l]
    PROVE  HashIs(new, N)
<1>1. InBucket(b, hh[b])
  BY DEF HashIs, HashSound
<1>2. InBucket(b, l)
  BY <1>1 DEF InBucket
<1>3. \A x : In(l, x) <=> In(hh[b], x)
  BY DEF In
<1>4. /\ HashSound(new)
      /\ \A x \in Node : x \in NodesOf(new) <=> IF BucketOf(x.key) = b THEN In(l, x) ELSE x \in NodesOf(hh)
  BY <1>2, BucketChanged DEF HashIs
<1>5. \A x : x \in NodesOf(hh) <=> x \in Node /\ BucketOf(x.key) \in Buckets /\ In(hh[BucketOf(x.key)], x)
  BY NodeInItsBucket DEF HashIs
<1>6. \A x : x \in NodesOf(new) => x \in Node
  BY DEF NodesOf
<1>7. ASSUME NEW x PROVE x \in NodesOf(new) <=> x \in NodesOf(hh)
  BY <1>3, <1>4, <1>5, <1>6
<1>8. QED  BY <1>4, <1>7 DEF HashIs

Deleted(hh, N, key, a) ==
    \/ key = <<>> /\ a.result = "INVALID_PARAM" /\ a.hash = hh
    \/ key # <<>> /\ a.result = "NOERROR" /\ HashIs(a.hash, Others(N, key))

LEMMA DeleteKeyDeletes ==
    ASSUME BucketsAreFound, NEW hh, NEW N, HashIs(hh, N), NEW key \in Seq(KeyCharacters)
    PROVE  Deleted(hh, N, key, KeyValue!H!DeleteKey(hh, key, FALSE))
<1> DEFINE b == BucketOf(key)
           l == hh[b]
           p == KeyValue!H!FindKey(hh, key)
           f == KeyValue!H!L!Get(l, "FIRST", p - 1).list
           r == KeyValue!H!L!Remove(f, "FIRST", p - 1).list
           a == KeyValue!H!DeleteKey(hh, key, FALSE)
           new == [hh EXCEPT ![b] = r]
<1>1. b \in Buckets /\ InBucket(b, l) /\ FoundOrNot(hh, key, p)
  BY FindKeyFinds DEF HashIs
<1>2. CASE key = <<>>
  BY <1>2 DEF KeyValue!H!DeleteKey, KeyValue!H!Answer, Deleted
<1>a. /\ NodeLists!Sound(l) /\ l.items \in Seq(Node) /\ Len(l.items) \in Nat
      /\ \A i \in 1..Len(l.items) : l.items[i] \in Node /\ BucketOf(l.items[i].key) = b
      /\ \A i, j \in 1..Len(l.items) : l.items[i].key = l.items[j].key => i = j
  BY <1>1, BucketParts
<1>3. CASE key # <<>> /\ p = 0
  <2>1. a.result = "NOERROR" /\ a.hash = hh
    BY <1>3 DEF KeyValue!H!DeleteKey, KeyValue!H!Answer
  <2>2. \A i \in 1..Len(l.items) : l.items[i].key # key
    <3>1. 0 \notin 1..Len(l.items)
      BY <1>a
    <3>2. QED  BY <1>1, <1>3, <3>1 DEF FoundOrNot
  <2>3. key \notin KeysOf(N)
    BY <1>1, <1>3, <2>2, KeyIsThere
  <2>4. Others(N, key) = N
    BY <2>3 DEF Others, KeysOf
  <2>5. QED  BY <1>3, <2>1, <2>4 DEF Deleted
<1>4. CASE key # <<>> /\ p # 0
  <2>1. p \in 1..Len(l.items) /\ l.items[p].key = key
    BY <1>1, <1>4 DEF FoundOrNot
  <2>2. a.result = "NOERROR" /\ a.hash = new
    <3>1. ~(p - 1 < 0)
      BY <1>a, <2>1
    <3>2. QED  BY <1>4, <3>1 DEF KeyValue!H!DeleteKey, KeyValue!H!Answer
  <2>3. p - 1 \in 0..(Len(l.items) - 1) /\ (p - 1) + 1 = p
    BY <1>a, <2>1
  <2>4. NodeLists!Sound(f) /\ f.items = l.items
    BY <1>a, <2>3, Found
  <2>5. /\ NodeLists!Sound(r) /\ Len(r.items) = Len(l.items) - 1
        /\ \A i \in 1..(Len(l.items) - 1) : r.items[i] = IF i <= p - 1 THEN l.items[i] ELSE l.items[i + 1]
    <3> DEFINE k == p - 1
    <3>1. k \in 0..(Len(f.items) - 1)
      BY <2>3, <2>4
    <3> HIDE DEF f, k
    <3>2. /\ NodeLists!Sound(KeyValue!H!L!Remove(f, "FIRST", k).list)
          /\ Len(KeyValue!H!L!Remove(f, "FIRST", k).list.items) = Len(f.items) - 1
          /\ \A i \in 1..(Len(f.items) - 1) :
                KeyValue!H!L!Remove(f, "FIRST", k).list.items[i]
                   = IF i <= k THEN f.items[i] ELSE f.items[i + 1]
      BY <2>4, <3>1, Removed
    <3>3. QED  BY <2>4, <3>2 DEF k
  <2> HIDE DEF l, r, p, f, a, new
  <2> DEFINE n == Len(l.items)
             from == [i \in 1..(n - 1) |-> IF i < p THEN i ELSE i + 1]
  <2>6. n \in Nat /\ p \in 1..n
    BY <1>a, <2>1
  <2>7. ASSUME NEW i \in 1..(n - 1)
        PROVE  from[i] \in 1..n /\ from[i] # p /\ r.items[i] = l.items[from[i]]
    BY <2>5, <2>6
  <2>8. \A i, j \in 1..(n - 1) : from[i] = from[j] => i = j
    BY <2>6
  <2>9. ASSUME NEW j \in 1..n, j # p PROVE \E i \in 1..(n - 1) : from[i] = j
    <3>1. CASE j < p
      <4>1. j \in 1..(n - 1) /\ from[j] = j
        BY <2>6, <3>1
      <4>2. QED  BY <4>1
    <3>2. CASE ~(j < p)
      <4>1. j - 1 \in 1..(n - 1) /\ from[j - 1] = j
        BY <2>6, <2>9, <3>2
      <4>2. QED  BY <4>1
    <3>3. QED  BY <3>1, <3>2
  <2>10. Len(r.items) = n - 1
    BY <2>5
  <2> HIDE DEF n, from
  <2>11. InBucket(b, r)
    <3>1. ASSUME NEW i \in 1..Len(r.items) PROVE BucketOf(r.items[i].key) = b
      <4>1. from[i] \in 1..n /\ r.items[i] = l.items[from[i]]
        BY <2>7, <2>10
      <4>2. QED  BY <1>a, <4>1 DEF n
    <3>2. ASSUME NEW i \in 1..Len(r.items), NEW j \in 1..Len(r.items), r.items[i].key = r.items[j].key
          PROVE  i = j
      <4>1. from[i] \in 1..n /\ r.items[i] = l.items[from[i]] /\ from[j] \in 1..n /\ r.items[j] = l.items[from[j]]
        BY <2>7, <2>10
      <4>2. from[i] = from[j]
        BY <1>a, <3>2, <4>1 DEF n
      <4>3. QED  BY <2>8, <2>10, <4>2
    <3>3. QED  BY <2>5, <3>1, <3>2 DEF InBucket
  <2>12. ASSUME NEW y PROVE In(r, y) <=> In(l, y) /\ y.key # key
    <3>1. ASSUME In(r, y) PROVE In(l, y) /\ y.key # key
      <4>1. PICK i \in 1..Len(r.items) : r.items[i] = y
        BY <3>1 DEF In
      <4>2. from[i] \in 1..n /\ from[i] # p /\ l.items[from[i]] = y
        BY <2>7, <2>10, <4>1
      <4>3. In(l, y)
        BY <4>2 DEF In, n
      <4>4. y.key # key
        BY <1>a, <2>1, <4>2 DEF n
      <4>5. QED  BY <4>3, <4>4
    <3>2. ASSUME In(l, y), y.key # key PROVE In(r, y)
      <4>1. PICK j \in 1..Len(l.items) : l.items[j] = y
        BY <3>2 DEF In
      <4>2. j \in 1..n /\ j # p
        BY <2>1, <3>2, <4>1 DEF n
      <4>3. PICK i \in 1..(n - 1) : from[i] = j
        BY <2>9, <4>2
      <4>4. i \in 1..Len(r.items) /\ r.items[i] = y
        BY <2>7, <2>10, <4>1, <4>3
      <4>5. QED  BY <4>4 DEF In
    <3>3. QED  BY <3>1, <3>2
  <2>13. /\ HashSound(new)
         /\ \A y \in Node : y \in NodesOf(new) <=> IF BucketOf(y.key) = b THEN In(r, y) ELSE y \in NodesOf(hh)
    BY <1>1, <2>11, BucketChanged DEF HashIs, new
  <2>14. \A y : y \in N <=> y \in Node /\ BucketOf(y.key) \in Buckets /\ In(hh[BucketOf(y.key)], y)
    BY NodeInItsBucket DEF HashIs
  <2>15. \A y : y \in NodesOf(new) => y \in Node
    BY DEF NodesOf
  <2>16. ASSUME NEW y PROVE y \in NodesOf(new) <=> y \in Others(N, key)
    <3>1. CASE y \in Node /\ BucketOf(y.key) = b
      <4>1. In(hh[b], y) <=> In(l, y)
        BY DEF l
      <4>2. QED  BY <1>1, <2>12, <2>13, <2>14, <3>1, <4>1 DEF Others
    <3>2. CASE y \in Node /\ BucketOf(y.key) # b
      BY <2>13, <3>2 DEF HashIs, Others
    <3>3. CASE y \notin Node
      BY <2>14, <2>15, <3>3 DEF Others
    <3>4. QED  BY <3>1, <3>2, <3>3
  <2>17. NodesOf(new) = Others(N, key)
    BY <2>16
  <2>18. HashIs(a.hash, Others(N, key))
    BY <2>2, <2>13, <2>17 DEF HashIs
  <2>19. QED  BY <1>4, <2>2, <2>18 DEF Deleted, a
<1>5. QED  BY <1>2, <1>3, <1>4

Given(hh, N, key, a) ==
    \/ key = <<>> /\ a.result = "INVALID_PARAM" /\ a.hash = hh /\ a.data = <<>>
    \/ key # <<>> /\ key \notin KeysOf(N) /\ a.result = "NOT_FOUND" /\ a.hash = hh /\ a.data = <<>>
    \/ /\ key # <<>> /\ key \in KeysOf(N) /\ a.result = "NOERROR" /\ HashIs(a.hash, N)
       /\ a.data = <<DictOfNodes(N)[key]>>

LEMMA GetDataByKeyGives ==
    ASSUME BucketsAreFound, NEW hh, NEW N, HashIs(hh, N), NEW key \in Seq(KeyCharacters)
    PROVE  Given(hh, N, key, KeyValue!H!GetDataByKey(hh, key))
<1> DEFINE b == BucketOf(key)
           l == hh[b]
           p == KeyValue!H!FindKey(hh, key)
           g == KeyValue!H!L!Get(l, "FIRST", p - 1)
           a == KeyValue!H!GetDataByKey(hh, key)
           new == [hh EXCEPT ![b] = g.list]
<1>1. b \in Buckets /\ InBucket(b, l) /\ FoundOrNot(hh, key, p)
  BY FindKeyFinds DEF HashIs
<1>2. CASE key = <<>>
  BY <1>2 DEF KeyValue!H!GetDataByKey, Given
<1>a. NodeLists!Sound(l) /\ l.items \in Seq(Node) /\ Len(l.items) \in Nat
  BY <1>1, BucketParts
<1>3. CASE key # <<>> /\ p = 0
  <2>1. a.result = "NOT_FOUND" /\ a.hash = hh /\ a.data = <<>>
    BY <1>3 DEF KeyValue!H!GetDataByKey
  <2>2. \A i \in 1..Len(l.items) : l.items[i].key # key
    <3>1. 0 \notin 1..Len(l.items)
      BY <1>a
    <3>2. QED  BY <1>1, <1>3, <3>1 DEF FoundOrNot
  <2>3. key \notin KeysOf(N)
    BY <1>1, <1>3, <2>2, KeyIsThere
  <2>4. QED  BY <1>3, <2>1, <2>3 DEF Given
<1>4. CASE key # <<>> /\ p # 0
  <2>1. p \in 1..Len(l.items) /\ l.items[p].key = key
    BY <1>1, <1>4 DEF FoundOrNot
  <2>2. a.result = "NOERROR" /\ a.hash = new /\ a.data = <<g.data[1].data>>
    BY <1>4 DEF KeyValue!H!GetDataByKey
  <2>3. p - 1 \in 0..(Len(l.items) - 1) /\ (p - 1) + 1 = p
    BY <1>a, <2>1
  <2>4. NodeLists!Sound(g.list) /\ g.list.items = l.items /\ g.data = <<l.items[p]>>
    BY <1>a, <2>3, Found
  <2>5. HashIs(new, N)
    BY <1>1, <2>4, CursorMoved
  <2>6. l.items[p] \in N
    BY <1>1, <1>4, <2>1, KeyIsThere
  <2>7. OneEach(N)
    BY OneEachInHash DEF HashIs
  <2>8. DictOfNodes(N)[key] = l.items[p].data
    BY <2>1, <2>6, <2>7, DictAt
  <2>9. key \in KeysOf(N)
    BY <2>1, <2>6 DEF KeysOf
  <2> HIDE DEF a, g, new, l, p
  <2>10. a.data = <<DictOfNodes(N)[key]>>
    BY <2>2, <2>4, <2>8
  <2>11. QED  BY <1>4, <2>2, <2>5, <2>9, <2>10 DEF Given, a
<1>5. QED  BY <1>2, <1>3, <1>4

\* Removing the first node of a list as often as it has nodes.
FirstsRemoved(l, removed) ==
    [i \in 0..KeyValue!H!L!Size(l) |->
       IF i = 0 THEN l ELSE KeyValue!H!L!Remove(removed[i - 1], "FIRST", 0).list]

Emptied(l) == (CHOOSE removed : removed = FirstsRemoved(l, removed))[KeyValue!H!L!Size(l)]

SoundLists == {l \in NodeLists!Lists : NodeLists!Sound(l)}

LEMMA RemoveFirstLeaves ==
    ASSUME NEW m \in SoundLists
    PROVE  LET r == KeyValue!H!L!Remove(m, "FIRST", 0).list IN
           r \in SoundLists /\ (Len(m.items) > 0 => Len(r.items) = Len(m.items) - 1)
<1> DEFINE r == KeyValue!H!L!Remove(m, "FIRST", 0).list
<1>1. NodeLists!Sound(m) /\ Len(m.items) \in Nat
  BY NodeLists!Parts DEF SoundLists
<1>2. r \in SoundLists
  <2>1. "FIRST" \in NodeLists!L!Offsets /\ 0 \in Int
    BY DEF NodeLists!L!Offsets
  <2>2. NodeLists!Sound(NodeLists!L!Remove(m, "FIRST", 0).list)
    BY <1>1, <2>1, NodeLists!RemoveAnswers
  <2>3. NodeLists!Sound(r)
    BY <2>2, SameLists
  <2>4. QED  BY <2>3 DEF SoundLists, NodeLists!Sound
<1>3. ASSUME Len(m.items) > 0 PROVE Len(r.items) = Len(m.items) - 1
  <2>1. 0 \in 0..(Len(m.items) - 1)
    BY <1>1, <1>3
  <2>2. QED  BY <1>1, <2>1, Removed
<1>4. QED  BY <1>2, <1>3

LEMMA BucketEmptied ==
    ASSUME NEW l, NodeLists!Sound(l)
    PROVE  NodeLists!Sound(Emptied(l)) /\ Len(Emptied(l).items) = 0
<1> DEFINE n == Len(l.items)
           step == [i \in 1..n |-> [m \in SoundLists |-> KeyValue!H!L!Remove(m, "FIRST", 0).list]]
           f == CHOOSE removed : removed = FirstsRemoved(l, removed)
           S == [i \in 0..n |-> {m \in SoundLists : Len(m.items) = n - i}]
<1>1. n \in Nat /\ KeyValue!H!L!Size(l) = n /\ l \in SoundLists
  BY NodeLists!Parts DEF KeyValue!H!L!Size, SoundLists, NodeLists!Sound
<1>2. step \in [1..n -> [SoundLists -> SoundLists]]
  BY RemoveFirstLeaves
<1>3. \E g : g = FirstsRemoved(l, g)
  <2> HIDE DEF n, step
  <2>1. PICK g : Iterates(n, SoundLists, l, step, g)
    BY <1>1, <1>2, IterationExists
  <2>2. g \in [0..n -> SoundLists] /\ g[0] = l /\ \A i \in 1..n : g[i] = step[i][g[i - 1]]
    BY <2>1 DEF Iterates
  <2>3. g = [i \in 0..n |-> g[i]]
    BY <2>2
  <2>4. ASSUME NEW i \in 0..n
        PROVE  g[i] = IF i = 0 THEN l ELSE KeyValue!H!L!Remove(g[i - 1], "FIRST", 0).list
    <3>1. CASE i = 0
      BY <2>2, <3>1
    <3>2. CASE i # 0
      <4>1. i \in 1..n /\ i - 1 \in 0..n
        BY <1>1, <3>2
      <4>2. g[i] = step[i][g[i - 1]] /\ g[i - 1] \in SoundLists
        BY <2>2, <4>1
      <4>3. QED  BY <3>2, <4>1, <4>2 DEF step
    <3>3. QED  BY <3>1, <3>2
  <2>5. g = FirstsRemoved(l, g)
    BY <1>1, <2>3, <2>4 DEF FirstsRemoved
  <2>6. QED  BY <2>5
<1>4. f = FirstsRemoved(l, f)
  BY <1>3
<1> HIDE DEF f, n
<1>5. f[0] = l /\ \A i \in 1..n : f[i] = KeyValue!H!L!Remove(f[i - 1], "FIRST", 0).list
  <2>1. ASSUME NEW i \in 0..n
        PROVE  f[i] = IF i = 0 THEN l ELSE KeyValue!H!L!Remove(f[i - 1], "FIRST", 0).list
    <3>1. f[i] = FirstsRemoved(l, f)[i]
      BY <1>4
    <3>2. QED  BY <1>1, <3>1 DEF FirstsRemoved
  <2> HIDE DEF step, S
  <2>2. n \in Nat
    BY <1>1
  <2>3. f[0] = l
    BY <2>1, <2>2
  <2>4. ASSUME NEW i \in 1..n
        PROVE  f[i] = KeyValue!H!L!Remove(f[i - 1], "FIRST", 0).list
    <3>1. i \in 0..n /\ i # 0
      BY <2>2
    <3>2. QED  BY <2>1, <3>1
  <2>5. QED  BY <2>3, <2>4
<1>6. f[0] \in S[0]
  BY <1>1, <1>5 DEF n
<1>7. ASSUME NEW i \in 1..n, f[i - 1] \in S[i - 1] PROVE f[i] \in S[i]
  <2> DEFINE m == f[i - 1]
  <2>1. m \in SoundLists /\ Len(m.items) = n - (i - 1)
    <3>1. i - 1 \in 0..n /\ m \in S[i - 1]
      BY <1>1, <1>7
    <3> HIDE DEF m
    <3>2. QED  BY <3>1
  <2>2. Len(m.items) > 0 /\ n - i = Len(m.items) - 1
    BY <1>1, <2>1
  <2>3. f[i] \in SoundLists /\ Len(f[i].items) = Len(m.items) - 1
    BY <1>5, <2>1, <2>2, RemoveFirstLeaves
  <2>4. Len(f[i].items) = n - i
    BY <2>2, <2>3
  <2>5. QED  BY <2>3, <2>4
<1> HIDE DEF S
<1>8. f[n] \in S[n]
  <2>1. n \in Nat /\ n \in 0..n
    BY <1>1
  <2>2. \A i \in 0..n : f[i] \in S[i]
    BY <1>6, <1>7, <2>1, IterationStays
  <2>3. QED  BY <2>1, <2>2
<1>9. Emptied(l) = f[n]
  BY <1>1 DEF Emptied, f
<1>10. QED  BY <1>1, <1>8, <1>9 DEF S, SoundLists

LEMMA RemoveAllRemoves ==
    ASSUME NEW hh, HashSound(hh)
    PROVE  HashIs(KeyValue!H!RemoveAll(hh), {})
<1> DEFINE new == KeyValue!H!RemoveAll(hh)
<1>1. new = [b \in DOMAIN hh |-> Emptied(hh[b])]
  BY Zenon DEF KeyValue!H!RemoveAll, Emptied, FirstsRemoved
<1>2. DOMAIN hh = Buckets /\ \A b \in Buckets : InBucket(b, hh[b])
  BY DEF HashSound
<1> HIDE DEF new
<1>3. new = [b \in Buckets |-> new[b]]
  BY <1>1, <1>2
<1>4. ASSUME NEW b \in Buckets PROVE InBucket(b, new[b]) /\ \A x : ~In(new[b], x)
  <2>1. new[b] = Emptied(hh[b]) /\ NodeLists!Sound(hh[b])
    BY <1>1, <1>2 DEF InBucket
  <2>2. NodeLists!Sound(new[b]) /\ Len(new[b].items) = 0
    BY <2>1, BucketEmptied
  <2>3. QED  BY <2>2 DEF InBucket, In
<1>5. HashSound(new)
  BY <1>3, <1>4 DEF HashSound
<1>6. NodesOf(new) = {}
  BY <1>4 DEF NodesOf
<1>7. QED  BY <1>5, <1>6 DEF HashIs, new

-----------------------------------------------------------------------------
(* Copies *)

HashValues == {hh \in [Buckets -> NodeLists!Lists] : HashSound(hh)}

LEMMA SoundIsValue == ASSUME NEW hh, HashSound(hh) PROVE hh \in HashValues
<1>1. \A b \in Buckets : hh[b] \in NodeLists!Lists
  BY DEF HashSound, InBucket, NodeLists!Sound
<1>2. hh = [b \in Buckets |-> hh[b]]
  BY DEF HashSound
<1>3. QED  BY <1>1, <1>2 DEF HashValues

\* The nodes of items added one by one.
NodesCopied(dst, items, copied) ==
    [i \in 0..Len(items) |->
       IF i = 0 THEN dst ELSE KeyValue!H!AddKey(copied[i - 1], items[i].key, items[i].data).hash]

Copied(dst, items) == (CHOOSE copied : copied = NodesCopied(dst, items, copied))[Len(items)]

LEMMA AddKeyStays ==
    ASSUME BucketsAreFound, NEW hh \in HashValues, NEW x \in Node
    PROVE  KeyValue!H!AddKey(hh, x.key, x.data).hash \in HashValues
<1> DEFINE a == KeyValue!H!AddKey(hh, x.key, x.data)
<1>1. x.key \in Seq(KeyCharacters) /\ x.data \in KeyData
  BY DEF Node
<1>2. HashIs(hh, NodesOf(hh))
  BY DEF HashIs, HashValues
<1>3. Added(hh, NodesOf(hh), x.key, x.data, a)
  BY <1>1, <1>2, AddKeyAdds
<1>4. HashSound(a.hash)
  BY <1>2, <1>3 DEF Added, HashIs
<1>5. QED  BY <1>4, SoundIsValue

LEMMA NodesAreCopied ==
    ASSUME BucketsAreFound, NEW dst, HashIs(dst, {}), NEW items \in Seq(Node),
           \A i, j \in 1..Len(items) : items[i].key = items[j].key => i = j
    PROVE  HashIs(Copied(dst, items), {items[i] : i \in 1..Len(items)})
<1> DEFINE n == Len(items)
           step == [i \in 1..n |-> [hh \in HashValues |-> KeyValue!H!AddKey(hh, items[i].key, items[i].data).hash]]
           f == CHOOSE copied : copied = NodesCopied(dst, items, copied)
           S == [i \in 0..n |-> {hh \in HashValues : NodesOf(hh) = {items[j] : j \in 1..i}}]
<1>1. n \in Nat /\ dst \in HashValues /\ \A i \in 1..n : items[i] \in Node
  BY SoundIsValue DEF HashIs
<1>2. step \in [1..n -> [HashValues -> HashValues]]
  BY <1>1, AddKeyStays
<1>3. \E g : g = NodesCopied(dst, items, g)
  <2> HIDE DEF n, step
  <2>1. PICK g : Iterates(n, HashValues, dst, step, g)
    BY <1>1, <1>2, IterationExists
  <2>2. g \in [0..n -> HashValues] /\ g[0] = dst /\ \A i \in 1..n : g[i] = step[i][g[i - 1]]
    BY <2>1 DEF Iterates
  <2>3. g = [i \in 0..n |-> g[i]]
    BY <2>2
  <2>4. ASSUME NEW i \in 0..n
        PROVE  g[i] = IF i = 0 THEN dst ELSE KeyValue!H!AddKey(g[i - 1], items[i].key, items[i].data).hash
    <3>1. CASE i = 0
      BY <2>2, <3>1
    <3>2. CASE i # 0
      <4>1. i \in 1..n /\ i - 1 \in 0..n
        BY <1>1, <3>2
      <4>2. g[i] = step[i][g[i - 1]] /\ g[i - 1] \in HashValues
        BY <2>2, <4>1
      <4>3. QED  BY <3>2, <4>1, <4>2 DEF step
    <3>3. QED  BY <3>1, <3>2
  <2>5. g = NodesCopied(dst, items, g)
    BY <2>3, <2>4 DEF NodesCopied, n
  <2>6. QED  BY <2>5
<1>4. f = NodesCopied(dst, items, f)
  BY <1>3
<1> HIDE DEF f
<1>5. f[0] = dst /\ \A i \in 1..n : f[i] = KeyValue!H!AddKey(f[i - 1], items[i].key, items[i].data).hash
  <2>1. ASSUME NEW i \in 0..n
        PROVE  f[i] = IF i = 0 THEN dst ELSE KeyValue!H!AddKey(f[i - 1], items[i].key, items[i].data).hash
    <3>1. f[i] = NodesCopied(dst, items, f)[i]
      BY <1>4
    <3>2. QED  BY <3>1 DEF NodesCopied
  <2>2. QED  BY <1>1, <2>1
<1> HIDE DEF n
<1>6. f[0] \in S[0]
  <2>1. NodesOf(dst) = {items[j] : j \in 1..0}
    BY DEF HashIs
  <2>2. QED  BY <1>1, <1>5, <2>1
<1>7. ASSUME NEW i \in 1..n, f[i - 1] \in S[i - 1] PROVE f[i] \in S[i]
  <2> DEFINE hh == f[i - 1]
             N == {items[j] : j \in 1..(i - 1)}
             x == items[i]
             a == KeyValue!H!AddKey(hh, x.key, x.data)
  <2>1. hh \in HashValues /\ NodesOf(hh) = N
    BY <1>1, <1>7
  <2>2. HashIs(hh, N)
    BY <2>1 DEF HashIs, HashValues
  <2>3. x \in Node /\ x.key \in Seq(KeyCharacters) /\ x.key # <<>> /\ x.data \in KeyData
        /\ [key |-> x.key, data |-> x.data] = x
    BY <1>1 DEF Node
  <2>4. x.key \notin KeysOf(N)
    <3>1. ASSUME x.key \in KeysOf(N) PROVE FALSE
      <4>1. PICK j \in 1..(i - 1) : items[j].key = x.key
        BY <3>1 DEF KeysOf
      <4>2. j \in 1..n /\ i \in 1..n /\ j # i
        BY <1>1
      <4>3. QED  BY <4>1, <4>2 DEF n
    <3>2. QED  BY <3>1
  <2>5. Added(hh, N, x.key, x.data, a)
    BY <2>2, <2>3, AddKeyAdds
  <2>6. HashIs(a.hash, N \cup {x})
    BY <2>3, <2>4, <2>5 DEF Added
  <2>7. N \cup {x} = {items[j] : j \in 1..i}
    <3>1. \A j : j \in 1..i <=> j \in 1..(i - 1) \/ j = i
      BY <1>1
    <3>2. QED  BY <3>1
  <2>8. f[i] = a.hash
    BY <1>5
  <2>9. f[i] \in HashValues /\ NodesOf(f[i]) = {items[j] : j \in 1..i}
    BY <2>6, <2>7, <2>8, SoundIsValue DEF HashIs
  <2>10. QED  BY <1>1, <2>9
<1> HIDE DEF S
<1>8. f[n] \in S[n]
  <2>1. n \in Nat /\ n \in 0..n
    BY <1>1
  <2>2. \A i \in 0..n : f[i] \in S[i]
    BY <1>6, <1>7, <2>1, IterationStays
  <2>3. QED  BY <2>1, <2>2
<1>9. Copied(dst, items) = f[n]
  BY DEF Copied, f, n
<1>10. QED  BY <1>1, <1>8, <1>9 DEF S, HashIs, HashValues, n

LEMMA DuplicateCopies ==
    ASSUME KeyValue!KeyValueAssumption, BucketsAreFound, NEW dst, HashIs(dst, {}), NEW src, NEW M, HashIs(src, M)
    PROVE  /\ HashIs(KeyValue!H!Duplicate(dst, src).hash, M)
           /\ KeyValue!H!Duplicate(dst, src).result = IF M = {} THEN "NO_DATA" ELSE "NOERROR"
<1> DEFINE items == KeyValue!H!Items(src)
           none == KeyValue!H!Items(dst)
           a == KeyValue!H!Duplicate(dst, src)
<1>1. /\ items \in Seq(Node) /\ Len(items) \in Nat
      /\ \A i \in 1..Len(items) : items[i] \in M
      /\ \A x \in M : \E i \in 1..Len(items) : items[i] = x
      /\ \A i, j \in 1..Len(items) : items[i].key = items[j].key => i = j
  <2>1. ItemsAreNodes(src)
    BY HashItems DEF HashIs
  <2>2. QED  BY <2>1 DEF ItemsAreNodes, HashIs
<1>2. Len(none) = 0
  <2>1. ItemsAreNodes(dst)
    BY HashItems DEF HashIs
  <2>2. none \in Seq(Node) /\ \A i \in 1..Len(none) : none[i] \in {}
    BY <2>1 DEF ItemsAreNodes, HashIs
  <2> HIDE DEF none
  <2>3. Len(none) \in Nat /\ 1 \notin 1..Len(none)
    BY <2>2
  <2>4. QED  BY <2>3
<1>3. a = IF items = <<>> THEN KeyValue!H!Answer(dst, "NO_DATA")
          ELSE KeyValue!H!Answer(Copied(dst, items), "NOERROR")
  <2>1. ~(KeyValue!H!GetNumberOfItems(dst) # 0)
    BY <1>2 DEF KeyValue!H!GetNumberOfItems
  <2>2. a = IF KeyValue!H!GetNumberOfItems(dst) # 0 THEN KeyValue!H!Answer(dst, "NOT_EMPTY")
            ELSE IF items = <<>> THEN KeyValue!H!Answer(dst, "NO_DATA")
            ELSE KeyValue!H!Answer(Copied(dst, items), "NOERROR")
    BY Zenon DEF KeyValue!H!Duplicate, Copied, NodesCopied
  <2>3. QED  BY <2>1, <2>2
<1>4. M = {items[i] : i \in 1..Len(items)}
  BY <1>1
<1> HIDE DEF items, a
<1>5. CASE items = <<>>
  <2>1. M = {}
    BY <1>4, <1>5
  <2>2. QED  BY <1>3, <1>5, <2>1 DEF KeyValue!H!Answer, a
<1>6. CASE items # <<>>
  <2>1. HashIs(Copied(dst, items), M)
    BY <1>1, <1>4, NodesAreCopied
  <2>2. M # {}
    <3>1. Len(items) > 0
      BY <1>1, <1>6
    <3>2. 1 \in 1..Len(items)
      BY <1>1, <3>1
    <3>3. QED  BY <1>1, <3>2
  <2>3. QED  BY <1>3, <1>6, <2>1, <2>2 DEF KeyValue!H!Answer, a
<1>7. QED  BY <1>5, <1>6

-----------------------------------------------------------------------------
(* The text of a key-value list *)

KeyTexts == [chars : Seq(KeyCharacters), nBufferLen : Nat]

LEMMA PartAt ==
    ASSUME NEW C, NEW c \in Seq(C), NEW a \in Nat, NEW k \in Int, k > 0, a + k <= Len(c)
    PROVE  /\ SubSeq(c, a + 1, a + k) \in Seq(C) /\ Len(SubSeq(c, a + 1, a + k)) = k
           /\ \A i \in 1..k : SubSeq(c, a + 1, a + k)[i] = c[a + i]
<1> DEFINE m == a + 1
           n == a + k
<1>1. m \in Int /\ n \in Int /\ \A i \in m..n : c[i] \in C
  OBVIOUS
<1>2. n - m + 1 = k /\ m <= n /\ \A i \in 1..k : m + i - 1 = a + i
  OBVIOUS
<1> HIDE DEF m, n
<1>3. /\ SubSeq(c, m, n) \in Seq(C) /\ Len(SubSeq(c, m, n)) = n - m + 1
      /\ \A i \in 1..(n - m + 1) : SubSeq(c, m, n)[i] = c[m + i - 1]
  BY <1>1, <1>2, SubSeqProperties
<1>4. /\ SubSeq(c, m, n) \in Seq(C) /\ Len(SubSeq(c, m, n)) = k
      /\ \A i \in 1..k : SubSeq(c, m, n)[i] = c[a + i]
  BY <1>2, <1>3
<1>5. QED  BY <1>4 DEF m, n

LEMMA SetSubIsText ==
    ASSUME NEW dst \in KeyTexts, NEW src \in KeyTexts, NEW n \in Nat, NEW len \in Int
    PROVE  KeyValue!S!SetSub(dst, src, n, len) \in KeyTexts
<1> DEFINE c == src.chars
           k == IF Len(c) - n < len THEN Len(c) - n ELSE len
           given == k > 0 /\ ~KeyValue!S!IsNull(src)
           part == SubSeq(c, n + 1, n + k)
           r == KeyValue!S!SetSub(dst, src, n, len)
<1>1. c \in Seq(KeyCharacters) /\ Len(c) \in Nat /\ dst.nBufferLen \in Nat
  BY DEF KeyTexts
<1>2. r = [chars |-> IF given THEN part ELSE <<>>,
           nBufferLen |-> IF given /\ Len(part) >= dst.nBufferLen THEN Len(part) + 1 ELSE dst.nBufferLen]
  BY DEF KeyValue!S!SetSub, KeyValue!S!SetLow, KeyValue!S!nLen
<1>3. ASSUME given PROVE part \in Seq(KeyCharacters) /\ Len(part) \in Nat
  <2>1. k \in Int /\ k > 0 /\ n + k <= Len(c)
    BY <1>1, <1>3
  <2> HIDE DEF c, k
  <2>2. part \in Seq(KeyCharacters)
    BY <1>1, <2>1, PartAt
  <2>3. QED  BY <2>2
<1> HIDE DEF c, k, given, part, r
<1>4. CASE given
  BY <1>1, <1>2, <1>3, <1>4 DEF KeyTexts, r
<1>5. CASE ~given
  BY <1>1, <1>2, <1>5 DEF KeyTexts, r
<1>6. QED  BY <1>4, <1>5

NoBlankEnds(s) == s = <<>> \/ (s[1] # Space /\ s[Len(s)] # Space)

\* Blanks go from both ends, and only they.
Trimmed(s, c) ==
    /\ c \in Seq(KeyCharacters) /\ NoBlankEnds(c)
    /\ \A i \in 1..Len(c) : \E j \in 1..Len(s) : c[i] = s[j]
    /\ NoBlankEnds(s) => c = s

LEMMA TrimTrims ==
    ASSUME NEW s \in KeyTexts
    PROVE  /\ Trimmed(s.chars, KeyValue!S!Trim(s).chars)
           /\ KeyValue!S!Trim(s).nBufferLen = s.nBufferLen
<1> DEFINE c == s.chars
           ink == {i \in 1..Len(c) : c[i] # Space}
           p == CHOOSE i \in ink : \A j \in ink : i <= j
           q == CHOOSE i \in ink : \A j \in ink : i >= j
           d == IF ink = {} THEN <<>> ELSE SubSeq(c, p, q)
<1>1. c \in Seq(KeyCharacters) /\ Len(c) \in Nat /\ s.nBufferLen \in Nat
  BY DEF KeyTexts
<1>2. KeyValue!S!Trim(s) = [s EXCEPT !.chars = d] /\ s = [chars |-> s.chars, nBufferLen |-> s.nBufferLen]
  BY DEF KeyValue!S!Trim, KeyValue!S!nLen, KeyTexts
<1>3. KeyValue!S!Trim(s).chars = d /\ KeyValue!S!Trim(s).nBufferLen = s.nBufferLen
  BY <1>2
<1>4. CASE ink = {}
  <2>1. d = <<>>
    BY <1>4
  <2>2. NoBlankEnds(c) => c = <<>>
    <3>1. SUFFICES ASSUME c # <<>> PROVE ~(c[1] # Space)
      BY DEF NoBlankEnds
    <3>2. 1 \in 1..Len(c)
      BY <1>1, <3>1
    <3>3. QED  BY <1>4, <3>2
  <2> HIDE DEF c, d
  <2>3. QED  BY <1>3, <2>1, <2>2 DEF Trimmed, NoBlankEnds, c
<1>5. CASE ink # {}
  <2>1. ink \in SUBSET Nat /\ ink \in SUBSET (0..Len(c))
    OBVIOUS
  <2>2. \E i \in ink : \A j \in ink : i <= j
    BY <1>5, <2>1, Least
  <2>3. \E i \in ink : \A j \in ink : i >= j
    <3> HIDE DEF c, ink
    <3>1. QED  BY <1>1, <1>5, <2>1, Greatest
  <2>4. p \in ink /\ (\A j \in ink : p <= j) /\ q \in ink /\ (\A j \in ink : q >= j)
    BY <2>2, <2>3
  <2> HIDE DEF p, q
  <2>5. p \in 1..Len(c) /\ q \in 1..Len(c) /\ p <= q /\ c[p] # Space /\ c[q] # Space
    BY <2>4
  <2>6. NoBlankEnds(c) => p = 1 /\ q = Len(c)
    <3>1. SUFFICES ASSUME NoBlankEnds(c) PROVE 1 \in ink /\ Len(c) \in ink
      BY <1>1, <2>4, <2>5
    <3>2. c # <<>>
      BY <2>5
    <3>3. QED  BY <1>1, <2>5, <3>1, <3>2 DEF NoBlankEnds
  <2>7. d = SubSeq(c, p, q)
    BY <1>5
  <2> HIDE DEF c, ink, d
  <2>8. /\ d \in Seq(KeyCharacters) /\ Len(d) = q - p + 1
        /\ \A i \in 1..Len(d) : d[i] = c[p + i - 1]
    BY <1>1, <2>5, <2>7, SubSeqProperties
  <2>9. d[1] = c[p] /\ d[Len(d)] = c[q]
    <3>1. 1 \in 1..Len(d) /\ Len(d) \in 1..Len(d) /\ p + 1 - 1 = p /\ p + Len(d) - 1 = q
      BY <1>1, <2>5, <2>8
    <3>2. d[1] = c[p + 1 - 1] /\ d[Len(d)] = c[p + Len(d) - 1]
      BY <2>8, <3>1
    <3>3. QED  BY <3>1, <3>2
  <2>10. \A i \in 1..Len(d) : \E j \in 1..Len(c) : d[i] = c[j]
    <3>1. ASSUME NEW i \in 1..Len(d) PROVE p + i - 1 \in 1..Len(c) /\ d[i] = c[p + i - 1]
      BY <1>1, <2>5, <2>8
    <3>2. QED  BY <3>1
  <2>11. NoBlankEnds(c) => d = c
    <3>1. SubSeq(c, 1, Len(c)) = c
      BY <1>1
    <3>2. QED  BY <2>6, <2>7, <3>1
  <2>12. QED  BY <1>3, <2>5, <2>8, <2>9, <2>10, <2>11 DEF Trimmed, NoBlankEnds, c
<1>6. QED  BY <1>4, <1>5

LEMMA TrimIsText ==
    ASSUME NEW s \in KeyTexts
    PROVE  KeyValue!S!Trim(s) \in KeyTexts
<1> DEFINE c == KeyValue!S!Trim(s).chars
<1>1. KeyValue!S!Trim(s) = [s EXCEPT !.chars = c]
  BY DEF KeyValue!S!Trim, KeyTexts
<1>2. c \in Seq(KeyCharacters)
  BY TrimTrims DEF Trimmed
<1> HIDE DEF c
<1>3. QED  BY <1>1, <1>2 DEF KeyTexts

\* FindChar answers the first place from n on, or that there is none.
FirstFrom(c, n, ch, r) ==
    \/ r = -1 /\ \A i \in n..(Len(c) - 1) : c[i + 1] # ch
    \/ /\ r \in n..(Len(c) - 1) /\ c[r + 1] = ch
       /\ \A i \in n..(r - 1) : c[i + 1] # ch

LEMMA FindCharFinds ==
    ASSUME NEW s \in KeyTexts, NEW n \in Nat, NEW ch
    PROVE  FirstFrom(s.chars, n, ch, KeyValue!S!FindChar(s, n, ch))
<1> DEFINE c == s.chars
           there == {i \in n..(Len(c) - 1) : c[i + 1] = ch}
           first == CHOOSE i \in there : \A j \in there : i <= j
           r == KeyValue!S!FindChar(s, n, ch)
<1>1. c \in Seq(KeyCharacters) /\ Len(c) \in Nat
  BY DEF KeyTexts
<1>2. r = IF n < 0 \/ there = {} THEN -1 ELSE first
  BY DEF KeyValue!S!FindChar, KeyValue!S!nLen, KeyValue!S!At, KeyValue!S!NOT_FOUND
<1>3. there \in SUBSET Nat /\ \A i : i \in there <=> i \in n..(Len(c) - 1) /\ c[i + 1] = ch
  BY <1>1
<1> HIDE DEF r, there
<1>4. CASE there = {}
  <2>1. r = -1
    BY <1>2, <1>4
  <2>2. \A i \in n..(Len(c) - 1) : c[i + 1] # ch
    BY <1>3, <1>4
  <2>3. QED  BY <2>1, <2>2 DEF FirstFrom, r
<1>5. CASE there # {}
  <2>1. \E i \in there : \A j \in there : i <= j
    BY <1>3, <1>5, Least
  <2>2. r = first
    BY <1>2, <1>5
  <2>3. r \in there /\ \A j \in there : r <= j
    BY <2>1, <2>2
  <2> HIDE DEF first
  <2>4. r \in n..(Len(c) - 1) /\ c[r + 1] = ch
    BY <1>3, <2>3
  <2>5. ASSUME NEW i \in n..(r - 1), c[i + 1] = ch PROVE FALSE
    <3>1. i \in there /\ i < r
      BY <1>1, <1>3, <2>4, <2>5
    <3>2. i \in Int /\ r \in Int
      BY <1>1, <2>4
    <3>3. QED  BY <2>3, <3>1, <3>2
  <2>6. QED  BY <2>4, <2>5 DEF FirstFrom, r
<1>6. QED  BY <1>4, <1>5

LEMMA FindCharIsPlace ==
    ASSUME NEW s \in KeyTexts, NEW n \in Nat, NEW ch
    PROVE  KeyValue!S!FindChar(s, n, ch) \in Nat \cup {-1}
<1> DEFINE r == KeyValue!S!FindChar(s, n, ch)
<1>1. FirstFrom(s.chars, n, ch, r)
  BY FindCharFinds
<1>2. Len(s.chars) \in Nat
  BY DEF KeyTexts
<1> HIDE DEF r
<1>3. r \in Nat \cup {-1}
  BY <1>1, <1>2 DEF FirstFrom
<1>4. QED  BY <1>3 DEF r

LEMMA LineIsParsed ==
    ASSUME NEW buffer \in KeyTexts, NEW n \in Nat, NEW key \in KeyTexts, NEW datum \in KeyTexts
    PROVE  LET line == KeyValue!ParseLine(buffer, n, key, datum) IN
           /\ line.end \in Nat \cup {-1} /\ line.key \in KeyTexts /\ line.data \in KeyTexts
           /\ line.outcome \in {"STOP", "INVALID_DATA", "CRASH", "LINE"}
<1> DEFINE end == KeyValue!S!FindChar(buffer, n, LineFeed)
           equal == KeyValue!S!FindChar(buffer, n, Equal)
           len == IF end < 0 THEN KeyValue!S!nLen(buffer) ELSE end - (equal + 1)
<1>1. end \in Nat \cup {-1} /\ equal \in Nat \cup {-1}
  BY FindCharIsPlace
<1>2. KeyValue!S!nLen(buffer) \in Nat
  BY DEF KeyValue!S!nLen, KeyTexts
<1> HIDE DEF end, equal
<1>3. equal + 1 \in Nat /\ len \in Int /\ equal - n \in Int
  BY <1>1, <1>2
<1> HIDE DEF len
<1>4. /\ KeyValue!S!SetSub(datum, buffer, equal + 1, len) \in KeyTexts
      /\ KeyValue!S!SetSub(key, buffer, n, equal - n) \in KeyTexts
  BY <1>3, SetSubIsText
<1>5. QED  BY <1>1, <1>4 DEF KeyValue!ParseLine, end, equal, len

ReadResults == {"NOERROR", "DUPLICATED", "INVALID_DATA", "INVALID_PARAM", "CRASH"}

\* A text brings values that were set.
Extends(hh, gg) ==
    /\ NodesOf(hh) \subseteq NodesOf(gg)
    /\ \A x \in NodesOf(gg) : x \in NodesOf(hh) \/ x.data \in Seq(KeyCharacters)

\* What reading a text has made of hh so far.
ReadStates(hh) ==
    [hash : {gg \in HashValues : Extends(hh, gg)}, result : ReadResults,
     n : Nat, key : KeyTexts, data : KeyTexts, goesOn : BOOLEAN]

LEMMA LineIsRead ==
    ASSUME BucketsAreFound, NEW hh, NEW buffer \in KeyTexts, NEW state \in ReadStates(hh)
    PROVE  KeyValue!ReadLine(buffer, state) \in ReadStates(hh)
<1> DEFINE line == KeyValue!ParseLine(buffer, state.n, state.key, state.data)
           key == KeyValue!S!Trim(line.key)
           datum == KeyValue!S!Trim(line.data)
           added == KeyValue!H!AddKey(state.hash, key.chars, datum.chars)
           new == KeyValue!ReadLine(buffer, state)
<1>1. /\ state.hash \in HashValues /\ Extends(hh, state.hash)
      /\ state.n \in Nat /\ state.key \in KeyTexts /\ state.data \in KeyTexts
  BY DEF ReadStates
<1>2. /\ line.end \in Nat \cup {-1} /\ line.key \in KeyTexts /\ line.data \in KeyTexts
      /\ line.outcome \in {"STOP", "INVALID_DATA", "CRASH", "LINE"}
  BY <1>1, LineIsParsed
<1> HIDE DEF line
<1>3. key \in KeyTexts /\ datum \in KeyTexts
  BY <1>2, TrimIsText
<1> HIDE DEF key, datum
<1>4. key.chars \in Seq(KeyCharacters) /\ datum.chars \in Seq(KeyCharacters) /\ datum.chars \in KeyData
  BY <1>3 DEF KeyTexts, KeyData
<1>5. /\ added.hash \in HashValues /\ Extends(hh, added.hash)
      /\ added.result \in ReadResults
  <2>1. HashIs(state.hash, NodesOf(state.hash))
    BY <1>1 DEF HashIs, HashValues
  <2>2. Added(state.hash, NodesOf(state.hash), key.chars, datum.chars, added)
    BY <1>4, <2>1, AddKeyAdds
  <2> HIDE DEF added
  <2>3. added.result \in ReadResults
    BY <2>2 DEF Added, ReadResults
  <2>4. /\ HashSound(added.hash) /\ NodesOf(state.hash) \subseteq NodesOf(added.hash)
        /\ \A x \in NodesOf(added.hash) : x \in NodesOf(state.hash) \/ x = [key |-> key.chars, data |-> datum.chars]
    BY <2>1, <2>2 DEF Added, HashIs
  <2>5. Extends(hh, added.hash)
    BY <1>1, <1>4, <2>4 DEF Extends
  <2>6. QED  BY <2>3, <2>4, <2>5, SoundIsValue
<1> HIDE DEF added
<1>6. CASE line.outcome = "STOP"
  <2>1. new = [state EXCEPT !.result = "NOERROR", !.goesOn = FALSE]
    BY <1>6 DEF KeyValue!ReadLine, line
  <2>2. QED  BY <2>1 DEF ReadStates, ReadResults
<1>7. CASE line.outcome \in {"INVALID_DATA", "CRASH"}
  <2>1. new = [state EXCEPT !.result = line.outcome, !.goesOn = FALSE]
    BY <1>7 DEF KeyValue!ReadLine, line
  <2> HIDE DEF new
  <2>2. line.outcome \in ReadResults
    BY <1>7 DEF ReadResults
  <2>3. QED  BY <2>1, <2>2 DEF ReadStates, new
<1>8. CASE line.outcome = "LINE"
  <2>1. new = [hash |-> added.hash, result |-> added.result, n |-> line.end + 1, key |-> key, data |-> datum,
               goesOn |-> added.result = "NOERROR" /\ line.end >= 0]
    BY <1>8 DEF KeyValue!ReadLine, line, key, datum, added
  <2>2. line.end + 1 \in Nat /\ (added.result = "NOERROR" /\ line.end >= 0) \in BOOLEAN
    BY <1>2
  <2>3. QED  BY <1>3, <1>5, <2>1, <2>2 DEF ReadStates
<1>9. QED  BY <1>2, <1>6, <1>7, <1>8

\* The rounds of the loop that reads a text.
LinesRead(buffer, start, n, after) ==
    [i \in 0..n |->
       IF i = 0 THEN start
       ELSE IF after[i - 1].goesOn THEN KeyValue!ReadLine(buffer, after[i - 1]) ELSE after[i - 1]]

AfterLines(buffer, start, n) == (CHOOSE after : after = LinesRead(buffer, start, n, after))[n]

\* The rounds of reading: f[i] is the state after i of them.
Rounds(hh, buffer, start, n, f) ==
    /\ f[0] = start
    /\ \A i \in 0..n : f[i] \in ReadStates(hh)
    /\ \A i \in 1..n : f[i] = IF f[i - 1].goesOn THEN KeyValue!ReadLine(buffer, f[i - 1]) ELSE f[i - 1]

LEMMA RoundsOfReading ==
    ASSUME BucketsAreFound, NEW hh, NEW buffer \in KeyTexts, NEW start \in ReadStates(hh), NEW n \in Nat
    PROVE  \E f : Rounds(hh, buffer, start, n, f) /\ AfterLines(buffer, start, n) = f[n]
<1> DEFINE S == ReadStates(hh)
           Next1(state) == IF state.goesOn THEN KeyValue!ReadLine(buffer, state) ELSE state
           step == [i \in 1..n |-> [state \in S |-> Next1(state)]]
           f == CHOOSE after : after = LinesRead(buffer, start, n, after)
<1>1. ASSUME NEW state \in S PROVE Next1(state) \in S
  BY LineIsRead
<1>2. step \in [1..n -> [S -> S]]
  <2> HIDE DEF Next1
  <2>1. QED  BY <1>1
<1>3. \E g : g = LinesRead(buffer, start, n, g)
  <2> HIDE DEF step, S
  <2>0. start \in S
    BY DEF S
  <2>1. PICK g : Iterates(n, S, start, step, g)
    BY <1>2, <2>0, IterationExists
  <2>2. g \in [0..n -> S] /\ g[0] = start /\ \A i \in 1..n : g[i] = step[i][g[i - 1]]
    BY <2>1 DEF Iterates
  <2>3. g = [i \in 0..n |-> g[i]]
    BY <2>2
  <2>4. ASSUME NEW i \in 0..n PROVE g[i] = IF i = 0 THEN start ELSE Next1(g[i - 1])
    <3> HIDE DEF Next1
    <3>1. CASE i = 0
      BY <2>2, <3>1
    <3>2. CASE i # 0
      <4>1. i \in 1..n /\ i - 1 \in 0..n
        BY <3>2
      <4>2. g[i] = step[i][g[i - 1]] /\ g[i - 1] \in S
        BY <2>2, <4>1
      <4>3. QED  BY <3>2, <4>1, <4>2 DEF step
    <3>3. QED  BY <3>1, <3>2
  <2>5. g = LinesRead(buffer, start, n, g)
    BY <2>3, <2>4 DEF LinesRead
  <2>6. QED  BY <2>5
<1>4. f = LinesRead(buffer, start, n, f)
  BY <1>3
<1> HIDE DEF f
<1>5. ASSUME NEW i \in 0..n PROVE f[i] = IF i = 0 THEN start ELSE Next1(f[i - 1])
  <2>1. f[i] = LinesRead(buffer, start, n, f)[i]
    BY <1>4
  <2>2. QED  BY <2>1 DEF LinesRead
<1>a. ASSUME NEW i \in 1..n PROVE f[i] = Next1(f[i - 1])
  <2>1. i \in 0..n /\ i # 0
    OBVIOUS
  <2> HIDE DEF Next1
  <2>2. QED  BY <1>5, <2>1
<1>b. f[0] = start
  <2>1. 0 \in 0..n
    OBVIOUS
  <2> HIDE DEF Next1
  <2>2. QED  BY <1>5, <2>1
<1> DEFINE C == [i \in 0..n |-> S]
<1>6. f[0] \in C[0]
  BY <1>b
<1>7. ASSUME NEW i \in 1..n, f[i - 1] \in C[i - 1] PROVE f[i] \in C[i]
  <2>1. i \in 0..n /\ i - 1 \in 0..n /\ i # 0
    OBVIOUS
  <2> HIDE DEF Next1, S
  <2>2. QED  BY <1>1, <1>a, <1>7, <2>1
<1>8. \A i \in 0..n : f[i] \in S
  <2> HIDE DEF C, S
  <2>1. \A i \in 0..n : f[i] \in C[i]
    BY <1>6, <1>7, IterationStays
  <2>2. QED  BY <2>1 DEF C
<1>9. Rounds(hh, buffer, start, n, f)
  BY <1>a, <1>b, <1>8 DEF Rounds
<1>10. QED  BY <1>9 DEF AfterLines, f

\* The text in its buffer, and what the call begins with.
TextBuffer(t) == KeyValue!S!SetLow(KeyValue!S!New, t, TRUE)

ReadingStart(hh) ==
    [hash |-> hh, result |-> "NOERROR", n |-> 0, key |-> KeyValue!S!New, data |-> KeyValue!S!New, goesOn |-> TRUE]

LEMMA ReadingRuns ==
    ASSUME BucketsAreFound, NEW hh, HashSound(hh), NEW t \in Seq(KeyCharacters)
    PROVE  /\ TextBuffer(t) \in KeyTexts /\ TextBuffer(t).nBufferLen # 0 /\ TextBuffer(t).chars = t
           /\ \E f : /\ Rounds(hh, TextBuffer(t), ReadingStart(hh), Len(t) + 1, f)
                     /\ KeyValue!ReadText(hh, t) =
                          IF t = <<>> THEN KeyValue!H!Answer(hh, "INVALID_PARAM")
                          ELSE KeyValue!H!Answer(f[Len(t) + 1].hash, f[Len(t) + 1].result)
<1> DEFINE buffer == TextBuffer(t)
           start == ReadingStart(hh)
           end == AfterLines(buffer, start, Len(t) + 1)
<1>1. Len(t) + 1 \in Nat
  OBVIOUS
<1>2. KeyValue!S!New \in KeyTexts
  BY DEF KeyTexts, KeyValue!S!New
<1>3. buffer \in KeyTexts /\ buffer.nBufferLen # 0 /\ buffer.chars = t
  BY DEF KeyTexts, KeyValue!S!New, KeyValue!S!SetLow, TextBuffer
<1>4. start \in ReadStates(hh)
  <2>1. hh \in HashValues /\ Extends(hh, hh)
    BY SoundIsValue DEF Extends
  <2>2. QED  BY <1>2, <2>1 DEF ReadStates, ReadResults, ReadingStart
<1>5. KeyValue!ReadText(hh, t) =
        IF t = <<>> THEN KeyValue!H!Answer(hh, "INVALID_PARAM") ELSE KeyValue!H!Answer(end.hash, end.result)
  BY Zenon DEF KeyValue!ReadText, AfterLines, LinesRead, TextBuffer, ReadingStart
<1> HIDE DEF buffer, start
<1>6. PICK f : Rounds(hh, buffer, start, Len(t) + 1, f) /\ end = f[Len(t) + 1]
  BY <1>1, <1>3, <1>4, RoundsOfReading
<1>7. QED  BY <1>3, <1>5, <1>6 DEF buffer, start

LEMMA TextIsRead ==
    ASSUME BucketsAreFound, NEW hh, HashSound(hh), NEW t \in Seq(KeyCharacters)
    PROVE  LET a == KeyValue!ReadText(hh, t) IN
           HashSound(a.hash) /\ Extends(hh, a.hash) /\ a.result \in ReadResults
<1> DEFINE n == Len(t) + 1
           a == KeyValue!ReadText(hh, t)
<1>1. PICK f : /\ Rounds(hh, TextBuffer(t), ReadingStart(hh), n, f)
               /\ a = IF t = <<>> THEN KeyValue!H!Answer(hh, "INVALID_PARAM")
                      ELSE KeyValue!H!Answer(f[n].hash, f[n].result)
  BY ReadingRuns
<1>2. n \in 0..n
  OBVIOUS
<1> HIDE DEF n, a
<1>3. f[n] \in ReadStates(hh)
  BY <1>1, <1>2 DEF Rounds
<1>4. CASE t = <<>>
  BY <1>1, <1>4 DEF KeyValue!H!Answer, ReadResults, Extends, a
<1>5. CASE t # <<>>
  <2>1. a.hash = f[n].hash /\ a.result = f[n].result
    BY <1>1, <1>5 DEF KeyValue!H!Answer
  <2>2. QED  BY <1>3, <2>1 DEF ReadStates, HashValues, a
<1>6. QED  BY <1>4, <1>5

LEMMA TextIsWritten ==
    ASSUME KeyValue!KeyValueAssumption, NEW hh, HashSound(hh)
    PROVE  KeyValue!WriteToString(hh) \in Seq(KeyCharacters)
<1> DEFINE items == KeyValue!H!Items(hh)
           q == [i \in 1..Len(items) |-> KeyValue!KeyValueTraverse(items[i])]
<1>1. items \in Seq(Node) /\ Len(items) \in Nat
  BY HashItems DEF ItemsAreNodes
<1> HIDE DEF items
<1>2. ASSUME NEW i \in 1..Len(items) PROVE KeyValue!KeyValueTraverse(items[i]) \in Seq(KeyCharacters)
  <2>1. items[i].key \in Seq(KeyCharacters) /\ KeyValue!Shown(items[i].data) \in Seq(KeyCharacters)
    <3>1. items[i] \in Node
      BY <1>1
    <3>2. QED  BY <3>1 DEF Node, KeyData, KeyValue!Shown, KeyValue!KeyValueAssumption
  <2>2. <<LineFeed>> \in Seq(KeyCharacters) /\ <<Equal>> \in Seq(KeyCharacters)
    BY DEF KeyValue!KeyValueAssumption
  <2> DEFINE k == items[i].key
             v == KeyValue!Shown(items[i].data)
  <2> HIDE DEF k, v
  <2>3. k \o <<Equal>> \o v \o <<LineFeed>> \in Seq(KeyCharacters)
    BY <2>1, <2>2 DEF k, v
  <2>4. QED  BY <2>3 DEF KeyValue!KeyValueTraverse, k, v
<1>3. q \in Seq(Seq(KeyCharacters)) /\ Len(q) \in Nat
  BY <1>1, <1>2
<1> HIDE DEF q
<1>4. PICK F : Joined(q, KeyCharacters, F)
  BY <1>3, JoinedExists
<1>5. Argument!FlattenSeq(q) = F[Len(q)]
  BY <1>3, <1>4, FlattenJoins
<1>6. F[Len(q)] \in Seq(KeyCharacters)
  BY <1>3, <1>4 DEF Joined
<1>7. KeyValue!WriteToString(hh) = Argument!FlattenSeq(q)
  BY FlattensAlike DEF KeyValue!WriteToString, q, items
<1>8. QED  BY <1>5, <1>6, <1>7

-----------------------------------------------------------------------------
(* Each operation on a key-value list is one of a dictionary *)

HashInv == hash = [h \in Handles |-> hash[h]] /\ \A h \in Handles : HashSound(hash[h])

LEMMA DictOfHash ==
    ASSUME KeyValue!KeyValueAssumption, NEW hh, NEW N, HashIs(hh, N)
    PROVE  OneEach(N) /\ KeyValue!DictOf(hh) = DictOfNodes(N)
<1> DEFINE s == KeyValue!H!Items(hh)
<1>1. ItemsAreNodes(hh)
  BY HashItems DEF HashIs
<1>2. /\ s \in Seq(Node) /\ \A i \in 1..Len(s) : s[i] \in N
      /\ \A x \in N : \E i \in 1..Len(s) : s[i] = x
  BY <1>1 DEF ItemsAreNodes, HashIs
<1>3. KeyValue!DictOf(hh) = [k \in {n.key : n \in KeyValue!SeqExt!ToSet(s)} |->
                               (CHOOSE n \in KeyValue!SeqExt!ToSet(s) : n.key = k).data]
  BY DEF KeyValue!DictOf
<1> HIDE DEF s
<1>4. KeyValue!SeqExt!ToSet(s) = N
  BY <1>2 DEF KeyValue!SeqExt!ToSet
<1>5. KeyValue!DictOf(hh) = DictOfNodes(N)
  BY <1>3, <1>4 DEF DictOfNodes, KeysOf
<1>6. QED  BY <1>5, OneEachInHash DEF HashIs

LEMMA KeysCounted ==
    ASSUME KeyValue!KeyValueAssumption, NEW hh, HashSound(hh)
    PROVE  KeyValue!H!GetNumberOfItems(hh) = KeyValue!Cardinality(DOMAIN KeyValue!DictOf(hh))
<1> DEFINE s == KeyValue!H!Items(hh)
           N == NodesOf(hh)
           K == KeysOf(N)
           n == Len(s)
           f == [i \in 1..n |-> s[i].key]
<1>1. /\ s \in Seq(Node) /\ n \in Nat /\ \A i \in 1..n : s[i] \in N
      /\ \A x \in N : \E i \in 1..n : s[i] = x
      /\ \A i, j \in 1..n : s[i].key = s[j].key => i = j
  BY HashItems DEF ItemsAreNodes
<1> HIDE DEF s, N, n
<1>2. f \in Bijection(1..n, K)
  <2>1. f \in [1..n -> K]
    BY <1>1 DEF KeysOf
  <2>2. \A i, j \in 1..n : f[i] = f[j] => i = j
    BY <1>1
  <2>3. ASSUME NEW k \in K PROVE \E i \in 1..n : f[i] = k
    <3>1. PICK x \in N : x.key = k
      BY DEF KeysOf
    <3>2. PICK i \in 1..n : s[i] = x
      BY <1>1
    <3>3. QED  BY <3>1, <3>2
  <2> HIDE DEF f
  <2>4. f \in Injection(1..n, K)
    <3>1. IsInjective(f)
      BY <2>1, <2>2 DEF IsInjective
    <3>2. QED  BY <2>1, <3>1 DEF Injection
  <2>5. f \in Surjection(1..n, K)
    BY <2>1, <2>3, Zenon DEF Surjection
  <2>6. QED  BY <2>4, <2>5 DEF Bijection
<1> HIDE DEF f, K
<1>3. IsFiniteSet(1..n) /\ Cardinality(1..n) = n
  <2>1. 1 \in Int /\ n \in Int /\ (IF 1 > n THEN 0 ELSE n - 1 + 1) = n
    BY <1>1
  <2>2. QED  BY <2>1, FS_Interval
<1>4. Cardinality(K) = n
  BY <1>2, <1>3, FS_Bijection DEF ExistsBijection
<1>5. DOMAIN KeyValue!DictOf(hh) = K
  <2>1. KeyValue!DictOf(hh) = DictOfNodes(N)
    BY DictOfHash DEF HashIs, N
  <2>2. QED  BY <2>1 DEF DictOfNodes, K
<1>6. KeyValue!Cardinality(K) = Cardinality(K)
  BY DEF KeyValue!Cardinality, Cardinality
<1>7. QED  BY <1>4, <1>5, <1>6 DEF KeyValue!H!GetNumberOfItems, s, n

DictNow == [h \in Handles |-> KeyValue!DictOf(hash[h])]

LEMMA BecomesDict ==
    ASSUME KeyValue!KeyValueAssumption, HashInv, NEW h \in Handles, NEW new, NEW N, HashIs(new, N),
           hash' = [hash EXCEPT ![h] = new]
    PROVE  HashInv' /\ DictNow' = [DictNow EXCEPT ![h] = DictOfNodes(N)]
<1>1. hash' = [g \in Handles |-> IF g = h THEN new ELSE hash[g]]
  BY DEF HashInv
<1>2. ASSUME NEW g \in Handles PROVE HashSound(hash'[g])
  BY <1>1 DEF HashInv, HashIs
<1>3. HashInv'
  <2>1. hash' = [g \in Handles |-> hash'[g]]
    BY <1>1
  <2>2. QED  BY <1>2, <2>1 DEF HashInv, HashSound, InBucket, NodeLists!Sound, NodeLists!Lists
<1>4. KeyValue!DictOf(new) = DictOfNodes(N)
  BY DictOfHash
<1>5. DictNow' = [g \in Handles |-> KeyValue!DictOf(hash'[g])]
  BY DEF DictNow
<1>6. QED  BY <1>1, <1>3, <1>4, <1>5 DEF DictNow

LEMMA ReturnBecomes ==
    ASSUME KeyValue!KeyValueAssumption, HashInv, NEW h \in Handles, NEW a, NEW N, HashIs(a.hash, N),
           KeyValue!Return(h, a)
    PROVE  HashInv' /\ KeyValue!Dicts!Become(h, DictOfNodes(N), a.result)
<1>1. hash' = [hash EXCEPT ![h] = a.hash] /\ hashResult' = a.result /\ hashGot' = <<>>
  BY DEF KeyValue!Return
<1>2. HashInv' /\ DictNow' = [DictNow EXCEPT ![h] = DictOfNodes(N)]
  BY <1>1, BecomesDict
<1>3. QED  BY <1>1, <1>2 DEF KeyValue!Dicts!Become, DictNow

LEMMA DictThere ==
    ASSUME KeyValue!KeyValueAssumption, HashInv, NEW h \in Handles
    PROVE  /\ HashIs(hash[h], NodesOf(hash[h])) /\ OneEach(NodesOf(hash[h]))
           /\ DictNow[h] = DictOfNodes(NodesOf(hash[h]))
           /\ DOMAIN DictNow[h] = KeysOf(NodesOf(hash[h]))
<1>1. HashIs(hash[h], NodesOf(hash[h]))
  BY DEF HashInv, HashIs
<1>2. OneEach(NodesOf(hash[h])) /\ KeyValue!DictOf(hash[h]) = DictOfNodes(NodesOf(hash[h]))
  BY <1>1, DictOfHash
<1>3. DictNow[h] = DictOfNodes(NodesOf(hash[h]))
  BY <1>2 DEF DictNow
<1>4. QED  BY <1>1, <1>2, <1>3 DEF DictOfNodes

LEMMA DictLess ==
    ASSUME NEW N, OneEach(N), NEW k
    PROVE  /\ OneEach(Others(N, k)) /\ k \notin KeysOf(Others(N, k))
           /\ DictOfNodes(Others(N, k)) = KeyValue!Dicts!Without(DictOfNodes(N), k)
<1>1. CASE k \in KeysOf(N)
  <2>1. PICK x \in N : x.key = k
    BY <1>1 DEF KeysOf
  <2>2. Others(N, k) = N \ {x}
    BY <2>1 DEF Others, OneEach
  <2>3. QED  BY <2>1, <2>2, DictWithout DEF KeysOf, Others
<1>2. CASE k \notin KeysOf(N)
  <2>1. Others(N, k) = N
    BY <1>2 DEF Others, KeysOf
  <2>2. DOMAIN DictOfNodes(N) = KeysOf(N) /\ DictOfNodes(N) = [x \in KeysOf(N) |-> DictOfNodes(N)[x]]
    BY DEF DictOfNodes
  <2>3. KeyValue!Dicts!Without(DictOfNodes(N), k) = DictOfNodes(N)
    BY <1>2, <2>2 DEF KeyValue!Dicts!Without
  <2>4. QED  BY <1>2, <2>1, <2>3
<1>3. QED  BY <1>1, <1>2

LEMMA WithWithout ==
    ASSUME NEW d, NEW k, NEW v
    PROVE  KeyValue!Dicts!With(KeyValue!Dicts!Without(d, k), k, v) = KeyValue!Dicts!With(d, k, v)
<1>1. DOMAIN KeyValue!Dicts!Without(d, k) = DOMAIN d \ {k}
      /\ \A x \in DOMAIN d \ {k} : KeyValue!Dicts!Without(d, k)[x] = d[x]
  BY DEF KeyValue!Dicts!Without
<1>2. (DOMAIN d \ {k}) \cup {k} = DOMAIN d \cup {k}
  OBVIOUS
<1>3. QED  BY <1>1, <1>2 DEF KeyValue!Dicts!With

LEMMA AddIsAdd ==
    ASSUME KeyValue!KeyValueAssumption, BucketsAreFound, HashInv,
           NEW h \in Handles, NEW k \in Keys, NEW v \in Values, KeyValue!Add(h, k, v)
    PROVE  HashInv' /\ KeyValue!Dicts!Next
<1> DEFINE hh == hash[h]
           N == NodesOf(hh)
           x == [key |-> k, data |-> v]
           a == KeyValue!H!AddKey(hh, k, v)
<1>1. k \in Seq(KeyCharacters) /\ v \in KeyData
  BY DEF KeyValue!KeyValueAssumption, KeyData
<1>2. /\ HashIs(hh, N) /\ OneEach(N) /\ DictNow[h] = DictOfNodes(N) /\ DOMAIN DictNow[h] = KeysOf(N)
  BY DictThere
<1>3. Added(hh, N, k, v, a)
  BY <1>1, <1>2, AddKeyAdds
<1>4. KeyValue!Return(h, a)
  BY DEF KeyValue!Add
<1>5. x.key = k /\ x.data = v
  OBVIOUS
<1> HIDE DEF hh, N, a, x
<1>6. CASE k = <<>> \/ a.result = "DUPLICATED"
  <2>1. a.hash = hh /\ (k = <<>> => a.result = "INVALID_PARAM") /\ (k # <<>> => k \in KeysOf(N) /\ a.result = "DUPLICATED")
    BY <1>3, <1>6 DEF Added
  <2>2. HashInv' /\ KeyValue!Dicts!Become(h, DictNow[h], a.result)
    BY <1>2, <1>4, <2>1, ReturnBecomes
  <2>3. CASE k = <<>>
    <3>1. KeyValue!Dicts!Refuse(h)
      BY <2>1, <2>2, <2>3 DEF KeyValue!Dicts!Refuse, DictNow
    <3>2. QED  BY <2>2, <3>1 DEF KeyValue!Dicts!Next
  <2>4. CASE k # <<>>
    <3>1. k \in DOMAIN DictNow[h] /\ KeyValue!Dicts!Become(h, DictNow[h], "DUPLICATED")
      BY <1>2, <2>1, <2>2, <2>4
    <3>2. KeyValue!Dicts!Add(h, k, v)
      BY <3>1 DEF KeyValue!Dicts!Add, DictNow
    <3>3. k \in Keys \ {<<>>}
      BY <2>4
    <3>4. QED  BY <2>2, <3>2, <3>3 DEF KeyValue!Dicts!Next
  <2>5. QED  BY <2>3, <2>4
<1>7. CASE k # <<>> /\ a.result # "DUPLICATED"
  <2>1. k \notin KeysOf(N) /\ a.result = "NOERROR" /\ HashIs(a.hash, N \cup {x})
    BY <1>3, <1>7 DEF Added, x
  <2>2. DictOfNodes(N \cup {x}) = KeyValue!Dicts!With(DictNow[h], k, v)
    BY <1>2, <1>5, <2>1, DictWith
  <2>3. HashInv' /\ KeyValue!Dicts!Become(h, KeyValue!Dicts!With(DictNow[h], k, v), "NOERROR")
    BY <1>4, <2>1, <2>2, ReturnBecomes
  <2>4. k \notin DOMAIN DictNow[h]
    BY <1>2, <2>1
  <2>5. KeyValue!Dicts!Add(h, k, v)
    BY <2>3, <2>4 DEF KeyValue!Dicts!Add, DictNow
  <2>6. k \in Keys \ {<<>>}
    BY <1>7
  <2>7. QED  BY <2>3, <2>5, <2>6 DEF KeyValue!Dicts!Next
<1>8. QED  BY <1>6, <1>7

LEMMA RemoveIsRemove ==
    ASSUME KeyValue!KeyValueAssumption, BucketsAreFound, HashInv,
           NEW h \in Handles, NEW k \in Keys, KeyValue!Remove(h, k)
    PROVE  HashInv' /\ KeyValue!Dicts!Next
<1> DEFINE hh == hash[h]
           N == NodesOf(hh)
           a == KeyValue!H!DeleteKey(hh, k, FALSE)
<1>1. k \in Seq(KeyCharacters)
  BY DEF KeyValue!KeyValueAssumption
<1>2. HashIs(hh, N) /\ OneEach(N) /\ DictNow[h] = DictOfNodes(N)
  BY DictThere
<1>3. Deleted(hh, N, k, a)
  BY <1>1, <1>2, DeleteKeyDeletes
<1>4. KeyValue!Return(h, a)
  BY DEF KeyValue!Remove
<1> HIDE DEF hh, N, a
<1>5. CASE k = <<>>
  <2>1. a.hash = hh /\ a.result = "INVALID_PARAM"
    BY <1>3, <1>5 DEF Deleted
  <2>2. HashInv' /\ KeyValue!Dicts!Become(h, DictNow[h], "INVALID_PARAM")
    BY <1>2, <1>4, <2>1, ReturnBecomes
  <2>3. KeyValue!Dicts!Refuse(h)
    BY <2>2 DEF KeyValue!Dicts!Refuse, DictNow
  <2>4. QED  BY <2>2, <2>3 DEF KeyValue!Dicts!Next
<1>6. CASE k # <<>>
  <2>1. a.result = "NOERROR" /\ HashIs(a.hash, Others(N, k))
    BY <1>3, <1>6 DEF Deleted
  <2>2. DictOfNodes(Others(N, k)) = KeyValue!Dicts!Without(DictNow[h], k)
    BY <1>2, DictLess
  <2>3. HashInv' /\ KeyValue!Dicts!Become(h, KeyValue!Dicts!Without(DictNow[h], k), "NOERROR")
    BY <1>4, <2>1, <2>2, ReturnBecomes
  <2>4. KeyValue!Dicts!Remove(h, k)
    BY <2>3 DEF KeyValue!Dicts!Remove, DictNow
  <2>5. k \in Keys \ {<<>>}
    BY <1>6
  <2>6. QED  BY <2>3, <2>4, <2>5 DEF KeyValue!Dicts!Next
<1>7. QED  BY <1>5, <1>6

LEMMA SetIsPut ==
    ASSUME KeyValue!KeyValueAssumption, BucketsAreFound, HashInv,
           NEW h \in Handles, NEW k \in Keys, NEW v \in Values, KeyValue!SetValueByKey(h, k, v)
    PROVE  HashInv' /\ KeyValue!Dicts!Next
<1> DEFINE hh == hash[h]
           N == NodesOf(hh)
           x == [key |-> k, data |-> v]
           d == KeyValue!H!DeleteKey(hh, k, FALSE)
           a == KeyValue!H!AddKey(d.hash, k, v)
<1>1. k \in Seq(KeyCharacters) /\ v \in KeyData
  BY DEF KeyValue!KeyValueAssumption, KeyData
<1>2. HashIs(hh, N) /\ OneEach(N) /\ DictNow[h] = DictOfNodes(N)
  BY DictThere
<1>3. Deleted(hh, N, k, d)
  BY <1>1, <1>2, DeleteKeyDeletes
<1>4. KeyValue!Return(h, IF d.result = "NOERROR" THEN a ELSE d)
  BY DEF KeyValue!SetValueByKey
<1>5. x.key = k /\ x.data = v
  OBVIOUS
<1> HIDE DEF hh, N, x, d
<1>6. CASE k = <<>>
  <2>1. d.hash = hh /\ d.result = "INVALID_PARAM"
    BY <1>3, <1>6 DEF Deleted
  <2>2. KeyValue!Return(h, d)
    BY <1>4, <2>1
  <2>3. HashInv' /\ KeyValue!Dicts!Become(h, DictNow[h], "INVALID_PARAM")
    BY <1>2, <2>1, <2>2, ReturnBecomes
  <2>4. KeyValue!Dicts!Refuse(h)
    BY <2>3 DEF KeyValue!Dicts!Refuse, DictNow
  <2>5. QED  BY <2>3, <2>4 DEF KeyValue!Dicts!Next
<1>7. CASE k # <<>>
  <2>1. d.result = "NOERROR" /\ HashIs(d.hash, Others(N, k))
    BY <1>3, <1>7 DEF Deleted
  <2>2. /\ OneEach(Others(N, k)) /\ k \notin KeysOf(Others(N, k))
        /\ DictOfNodes(Others(N, k)) = KeyValue!Dicts!Without(DictNow[h], k)
    BY <1>2, DictLess
  <2>3. Added(d.hash, Others(N, k), k, v, a)
    BY <1>1, <2>1, AddKeyAdds
  <2>4. KeyValue!Return(h, a)
    BY <1>4, <2>1
  <2> HIDE DEF a
  <2>5. a.result = "NOERROR" /\ HashIs(a.hash, Others(N, k) \cup {x})
    BY <1>7, <2>2, <2>3 DEF Added, x
  <2>6. DictOfNodes(Others(N, k) \cup {x}) = KeyValue!Dicts!With(KeyValue!Dicts!Without(DictNow[h], k), k, v)
    BY <1>5, <2>2, DictWith
  <2>7. DictOfNodes(Others(N, k) \cup {x}) = KeyValue!Dicts!With(DictNow[h], k, v)
    BY <2>6, WithWithout
  <2>8. HashInv' /\ KeyValue!Dicts!Become(h, KeyValue!Dicts!With(DictNow[h], k, v), "NOERROR")
    BY <2>4, <2>5, <2>7, ReturnBecomes
  <2>9. KeyValue!Dicts!Put(h, k, v)
    BY <2>8 DEF KeyValue!Dicts!Put, DictNow
  <2>10. k \in Keys \ {<<>>}
    BY <1>7
  <2>11. QED  BY <2>8, <2>9, <2>10 DEF KeyValue!Dicts!Next
<1>8. QED  BY <1>6, <1>7

\* Writing back the same dictionary changes nothing.
LEMMA SameDicts ==
    ASSUME NEW h \in Handles
    PROVE  [DictNow EXCEPT ![h] = DictNow[h]] = DictNow
<1>1. DictNow = [g \in Handles |-> DictNow[g]]
  BY DEF DictNow
<1>2. QED  BY <1>1

LEMMA GetIsLookup ==
    ASSUME KeyValue!KeyValueAssumption, BucketsAreFound, HashInv,
           NEW h \in Handles, NEW k \in Keys, KeyValue!GetValueByKey(h, k)
    PROVE  HashInv' /\ KeyValue!Dicts!Next
<1> DEFINE hh == hash[h]
           N == NodesOf(hh)
           a == KeyValue!H!GetDataByKey(hh, k)
<1>1. k \in Seq(KeyCharacters)
  BY DEF KeyValue!KeyValueAssumption
<1>2. /\ HashIs(hh, N) /\ DictNow[h] = DictOfNodes(N) /\ DOMAIN DictNow[h] = KeysOf(N)
  BY DictThere
<1>3. Given(hh, N, k, a)
  BY <1>1, <1>2, GetDataByKeyGives
<1>4. /\ hash' = [hash EXCEPT ![h] = a.hash] /\ hashResult' = a.result
      /\ hashGot' = IF a.data = <<>> THEN <<>> ELSE <<k, a.data[1]>>
  BY DEF KeyValue!GetValueByKey
<1> HIDE DEF hh, N, a
<1>5. HashIs(a.hash, N)
  BY <1>2, <1>3 DEF Given
<1>6. HashInv' /\ DictNow' = DictNow
  <2>1. HashInv' /\ DictNow' = [DictNow EXCEPT ![h] = DictNow[h]]
    BY <1>2, <1>4, <1>5, BecomesDict
  <2>2. QED  BY <2>1, SameDicts
<1>7. CASE k = <<>>
  <2>1. hashResult' = "INVALID_PARAM" /\ hashGot' = <<>>
    BY <1>3, <1>4, <1>7 DEF Given
  <2>2. DictNow' = [DictNow EXCEPT ![h] = DictNow[h]]
    <3>1. DictNow = [DictNow EXCEPT ![h] = DictNow[h]]
      BY SameDicts
    <3>2. QED  BY <1>6, <3>1
  <2>3. KeyValue!Dicts!Refuse(h)
    BY <2>1, <2>2 DEF KeyValue!Dicts!Refuse, KeyValue!Dicts!Become, DictNow
  <2>4. QED  BY <1>6, <2>3 DEF KeyValue!Dicts!Next
<1>8. CASE k # <<>>
  <2>1. IF k \in DOMAIN DictNow[h] THEN hashResult' = "NOERROR" /\ hashGot' = <<k, DictNow[h][k]>>
        ELSE hashResult' = "NOT_FOUND" /\ hashGot' = <<>>
    <3>1. CASE k \in KeysOf(N)
      <4>1. a.result = "NOERROR" /\ a.data = <<DictOfNodes(N)[k]>>
        BY <1>3, <1>8, <3>1 DEF Given
      <4>2. a.data # <<>> /\ a.data[1] = DictOfNodes(N)[k]
        BY <4>1
      <4>3. QED  BY <1>2, <1>4, <3>1, <4>1, <4>2
    <3>2. CASE k \notin KeysOf(N)
      BY <1>2, <1>3, <1>4, <1>8, <3>2 DEF Given
    <3>3. QED  BY <3>1, <3>2
  <2>2. KeyValue!Dicts!Lookup(h, k)
    BY <1>6, <2>1 DEF KeyValue!Dicts!Lookup, DictNow
  <2>3. k \in Keys \ {<<>>}
    BY <1>8
  <2>4. QED  BY <1>6, <2>2, <2>3 DEF KeyValue!Dicts!Next
<1>9. QED  BY <1>7, <1>8

LEMMA RemoveAllIsClear ==
    ASSUME KeyValue!KeyValueAssumption, HashInv, NEW h \in Handles, KeyValue!RemoveAll(h)
    PROVE  HashInv' /\ KeyValue!Dicts!Next
<1> DEFINE a == [hash |-> KeyValue!H!RemoveAll(hash[h]), result |-> "NOERROR"]
<1>1. HashIs(a.hash, {}) /\ a.result = "NOERROR"
  BY RemoveAllRemoves DEF HashInv
<1>2. KeyValue!Return(h, a)
  BY DEF KeyValue!RemoveAll
<1> HIDE DEF a
<1>3. HashInv' /\ KeyValue!Dicts!Become(h, KeyValue!Dicts!NoKeys, "NOERROR")
  BY <1>1, <1>2, ReturnBecomes, DictOfNone
<1>4. KeyValue!Dicts!Clear(h)
  BY <1>3 DEF KeyValue!Dicts!Clear
<1>5. QED  BY <1>3, <1>4 DEF KeyValue!Dicts!Next

LEMMA DuplicateIsCopy ==
    ASSUME KeyValue!KeyValueAssumption, BucketsAreFound, HashInv,
           NEW dst \in Handles, NEW src \in Handles, KeyValue!Duplicate(dst, src)
    PROVE  HashInv' /\ KeyValue!Dicts!Next
<1> DEFINE emptied == KeyValue!H!RemoveAll(hash[dst])
           from == IF dst = src THEN emptied ELSE hash[src]
           a == KeyValue!H!Duplicate(emptied, from)
           N == NodesOf(hash[src])
<1>1. HashIs(emptied, {})
  BY RemoveAllRemoves DEF HashInv
<1>2. HashIs(hash[src], N) /\ DictNow[src] = DictOfNodes(N) /\ DOMAIN DictNow[src] = KeysOf(N)
  BY DictThere
<1>3. KeyValue!Return(dst, a)
  BY DEF KeyValue!Duplicate
<1> HIDE DEF emptied, N
<1>4. CASE dst = src
  <2>1. from = emptied
    BY <1>4
  <2>2. HashIs(a.hash, {}) /\ a.result = "NO_DATA"
    BY <1>1, <2>1, DuplicateCopies
  <2> HIDE DEF a
  <2>3. HashInv' /\ KeyValue!Dicts!Become(dst, KeyValue!Dicts!NoKeys, "NO_DATA")
    BY <1>3, <2>2, ReturnBecomes, DictOfNone
  <2>4. KeyValue!Dicts!CopyToSelf(dst)
    BY <2>3 DEF KeyValue!Dicts!CopyToSelf
  <2>5. QED  BY <2>3, <2>4 DEF KeyValue!Dicts!Next
<1>5. CASE dst # src
  <2>1. from = hash[src]
    BY <1>5
  <2>2. HashIs(a.hash, N) /\ a.result = IF N = {} THEN "NO_DATA" ELSE "NOERROR"
    BY <1>1, <1>2, <2>1, DuplicateCopies
  <2> HIDE DEF a
  <2>3. HashInv' /\ KeyValue!Dicts!Become(dst, DictNow[src], a.result)
    BY <1>2, <1>3, <2>2, ReturnBecomes
  <2>4. N = {} <=> DOMAIN DictNow[src] = {}
    BY <1>2 DEF KeysOf
  <2>5. KeyValue!Dicts!Become(dst, DictNow[src], IF DOMAIN DictNow[src] = {} THEN "NO_DATA" ELSE "NOERROR")
    BY <2>2, <2>3, <2>4
  <2>6. KeyValue!Dicts!Copy(dst, src)
    BY <1>5, <2>5 DEF KeyValue!Dicts!Copy, DictNow
  <2>7. QED  BY <2>3, <2>6 DEF KeyValue!Dicts!Next
<1>6. QED  BY <1>4, <1>5

LEMMA ReadIsExtend ==
    ASSUME KeyValue!KeyValueAssumption, BucketsAreFound, HashInv,
           NEW h \in Handles, NEW t \in Seq(KeyCharacters), KeyValue!ReadFromBuffer(h, t)
    PROVE  HashInv' /\ KeyValue!Dicts!Next
<1> DEFINE hh == hash[h]
           N == NodesOf(hh)
           a == KeyValue!ReadText(hh, t)
           M == NodesOf(a.hash)
<1>1. HashIs(hh, N) /\ OneEach(N) /\ DictNow[h] = DictOfNodes(N) /\ DOMAIN DictNow[h] = KeysOf(N)
  BY DictThere
<1>2. /\ HashIs(a.hash, M) /\ N \subseteq M /\ a.result \in ReadResults
      /\ \A x \in M : x \in N \/ x.data \in Seq(KeyCharacters)
  BY <1>1, TextIsRead DEF HashIs, Extends
<1>3. KeyValue!Return(h, IF a.result = "CRASH" THEN KeyValue!H!Answer(hh, "CRASH") ELSE a)
  BY DEF KeyValue!ReadFromBuffer
<1>m. M \subseteq Node
  BY DEF NodesOf
<1> HIDE DEF hh, N, a, M
<1>4. CASE a.result = "CRASH"
  <2> DEFINE c == KeyValue!H!Answer(hh, "CRASH")
  <2>1. c.hash = hh /\ c.result = "CRASH" /\ KeyValue!Return(h, c)
    BY <1>3, <1>4 DEF KeyValue!H!Answer
  <2> HIDE DEF c
  <2>2. hash' = [hash EXCEPT ![h] = hh] /\ hashResult' = "CRASH" /\ hashGot' = <<>>
    BY <2>1 DEF KeyValue!Return
  <2>3. HashInv' /\ DictNow' = [DictNow EXCEPT ![h] = DictNow[h]]
    BY <1>1, <2>2, BecomesDict
  <2>4. DictNow' = DictNow
    BY <2>3, SameDicts
  <2>5. KeyValue!Dicts!Die
    BY <2>2, <2>4 DEF KeyValue!Dicts!Die, DictNow
  <2>6. QED  BY <2>3, <2>5 DEF KeyValue!Dicts!Next
<1>5. CASE a.result # "CRASH"
  <2>1. KeyValue!Return(h, a)
    BY <1>3, <1>5
  <2>2. hash' = [hash EXCEPT ![h] = a.hash] /\ hashResult' = a.result /\ hashGot' = <<>>
    BY <2>1 DEF KeyValue!Return
  <2>3. HashInv' /\ DictNow' = [DictNow EXCEPT ![h] = DictOfNodes(M)]
    BY <1>2, <2>2, BecomesDict
  <2>4. OneEach(M) /\ KeysOf(N) \subseteq KeysOf(M)
    BY <1>2, DictOfHash DEF KeysOf
  <2>5. DOMAIN DictOfNodes(M) = KeysOf(M)
    BY DEF DictOfNodes
  <2>6. KeysOf(M) \subseteq Seq(KeyCharacters) \ {<<>>}
    BY <1>m DEF KeysOf, Node
  <2>7. ASSUME NEW k \in KeysOf(M)
        PROVE  IF k \in KeysOf(N) THEN DictOfNodes(M)[k] = DictOfNodes(N)[k]
               ELSE DictOfNodes(M)[k] \in Seq(KeyCharacters)
    <3>1. CASE k \in KeysOf(N)
      <4>1. PICK x \in N : x.key = k
        BY <3>1 DEF KeysOf
      <4>2. DictOfNodes(N)[k] = x.data /\ DictOfNodes(M)[k] = x.data
        BY <1>1, <1>2, <2>4, <4>1, DictAt
      <4>3. QED  BY <3>1, <4>2
    <3>2. CASE k \notin KeysOf(N)
      <4>1. PICK x \in M : x.key = k
        BY DEF KeysOf
      <4>2. DictOfNodes(M)[k] = x.data
        BY <2>4, <4>1, DictAt
      <4>3. x.data \in Seq(KeyCharacters)
        BY <1>2, <3>2, <4>1 DEF KeysOf
      <4>4. QED  BY <3>2, <4>2, <4>3
    <3>3. QED  BY <3>1, <3>2
  <2>8. hashResult' \in {"NOERROR", "DUPLICATED", "INVALID_DATA", "INVALID_PARAM"}
    BY <1>2, <1>5, <2>2 DEF ReadResults
  <2> DEFINE D == DictNow'
  <2>9. /\ DOMAIN D = Handles /\ \A g \in Handles \ {h} : D[g] = DictNow[g]
        /\ D[h] = DictOfNodes(M)
    <3>1. DOMAIN DictNow = Handles
      BY DEF DictNow
    <3>2. QED  BY <2>3, <3>1
  <2> HIDE DEF D
  <2>10. /\ DOMAIN DictNow[h] \subseteq DOMAIN D[h] /\ DOMAIN D[h] \subseteq Seq(KeyCharacters) \ {<<>>}
         /\ \A k \in DOMAIN D[h] : IF k \in DOMAIN DictNow[h] THEN D[h][k] = DictNow[h][k]
                                   ELSE D[h][k] \in Seq(KeyCharacters)
    BY <1>1, <2>4, <2>5, <2>6, <2>7, <2>9
  <2>11. KeyValue!Dicts!Extend(h)
    BY <2>2, <2>8, <2>9, <2>10 DEF KeyValue!Dicts!Extend, D, DictNow
  <2>12. QED  BY <2>3, <2>11 DEF KeyValue!Dicts!Next
<1>6. QED  BY <1>4, <1>5

LEMMA HashInit ==
    ASSUME KeyValue!KeyValueAssumption, KeyValue!Init
    PROVE  HashInv /\ KeyValue!Dicts!Init
<1>1. hash = [h \in Handles |-> KeyValue!H!Create] /\ hashResult = "NOERROR" /\ hashGot = <<>>
  BY DEF KeyValue!Init
<1>2. HashIs(KeyValue!H!Create, {})
  BY CreatedIsEmpty
<1>3. HashInv
  BY <1>1, <1>2 DEF HashInv, HashIs
<1>4. KeyValue!DictOf(KeyValue!H!Create) = KeyValue!Dicts!NoKeys
  BY <1>2, DictOfHash, DictOfNone
<1>5. DictNow = [h \in Handles |-> KeyValue!Dicts!NoKeys]
  BY <1>1, <1>4 DEF DictNow
<1>6. QED  BY <1>1, <1>3, <1>5 DEF KeyValue!Dicts!Init, DictNow

LEMMA HashSteps ==
    ASSUME KeyValue!KeyValueAssumption, BucketsAreFound, HashInv, [KeyValue!Next]_HashVars
    PROVE  HashInv' /\ [KeyValue!Dicts!Next]_(KeyValue!Dicts!vars)
<1>1. ASSUME NEW h \in Handles, NEW k \in Keys,
             KeyValue!Remove(h, k) \/ KeyValue!GetValueByKey(h, k)
      PROVE  HashInv' /\ KeyValue!Dicts!Next
  BY <1>1, RemoveIsRemove, GetIsLookup
<1>2. ASSUME NEW h \in Handles, NEW k \in Keys, NEW v \in Values,
             KeyValue!Add(h, k, v) \/ KeyValue!SetValueByKey(h, k, v)
      PROVE  HashInv' /\ KeyValue!Dicts!Next
  BY <1>2, AddIsAdd, SetIsPut
<1>3. ASSUME NEW h \in Handles, NEW g \in Handles, KeyValue!Duplicate(h, g)
      PROVE  HashInv' /\ KeyValue!Dicts!Next
  BY <1>3, DuplicateIsCopy
<1>4. ASSUME NEW h \in Handles, NEW g \in Handles,
             KeyValue!ReadFromBuffer(h, KeyValue!WriteToString(hash[g]))
      PROVE  HashInv' /\ KeyValue!Dicts!Next
  <2>1. KeyValue!WriteToString(hash[g]) \in Seq(KeyCharacters)
    BY TextIsWritten DEF HashInv
  <2>2. QED  BY <1>4, <2>1, ReadIsExtend
<1>5. ASSUME NEW h \in Handles, NEW t \in Texts, KeyValue!ReadFromBuffer(h, t)
      PROVE  HashInv' /\ KeyValue!Dicts!Next
  <2>1. t \in Seq(KeyCharacters)
    BY DEF KeyValue!KeyValueAssumption
  <2>2. QED  BY <1>5, <2>1, ReadIsExtend
<1>6. ASSUME NEW h \in Handles, KeyValue!RemoveAll(h)
      PROVE  HashInv' /\ KeyValue!Dicts!Next
  BY <1>6, RemoveAllIsClear
<1>7. CASE UNCHANGED HashVars
  <2>1. hash' = hash /\ hashResult' = hashResult /\ hashGot' = hashGot
    BY <1>7 DEF HashVars
  <2>2. HashInv'
    BY <2>1 DEF HashInv, HashSound, InBucket, NodeLists!Sound, NodeLists!Lists
  <2>3. DictNow' = DictNow
    BY <2>1 DEF DictNow
  <2>4. QED  BY <2>1, <2>2, <2>3 DEF KeyValue!Dicts!vars, DictNow
<1>8. CASE KeyValue!Next
  BY <1>1, <1>2, <1>3, <1>4, <1>5, <1>6, <1>8 DEF KeyValue!Next
<1>9. QED  BY <1>7, <1>8

\* Whatever is done with the key-value lists, each is the dictionary its callers built:
\* every key is in the bucket its hash names, once, wherever its bucket's cursor was and
\* whatever was added, removed, copied and read before (CAPHash.c, CAPKeyValue.c).
THEOREM HashesAreDictionaries == ASSUME BucketsAreFound PROVE Spec => HashImplementsDictionary
<1>a. KeyValue!KeyValueAssumption
  BY CapCommonAssumption DEF PartsAssumption
<1>1. Init => KeyValue!Init
  BY DEF Init
<1>2. [Next]_vars => [KeyValue!Next]_HashVars
  BY Zenon DEF Next, vars, HashVars
<1>3. Init => HashInv /\ KeyValue!Dicts!Init
  BY <1>a, <1>1, HashInit
<1>4. HashInv /\ [Next]_vars => HashInv' /\ [KeyValue!Dicts!Next]_(KeyValue!Dicts!vars)
  BY <1>a, <1>2, HashSteps
<1>5. HashInv => KeyValue!NoKeyTwice
  BY <1>a, KeysCounted DEF HashInv, KeyValue!NoKeyTwice
<1>6. QED
  BY <1>3, <1>4, <1>5, PTL
     DEF Spec, HashImplementsDictionary, KeyValue!ImplementsDictionary, KeyValue!Dicts!Spec

-----------------------------------------------------------------------------
(* What a line of text says *)

CleanKey(k) == NoBlankEnds(k) /\ \A i \in 1..Len(k) : k[i] # LineFeed /\ k[i] # Equal

CleanDatum(d) == NoBlankEnds(d) /\ \A i \in 1..Len(d) : d[i] # LineFeed

TextNode == [key : Seq(KeyCharacters) \ {<<>>}, data : Seq(KeyCharacters)]

CleanNodes == {x \in TextNode : CleanKey(x.key) /\ CleanDatum(x.data)}

\* What the line of a node says, and the nodes whose lines say them.
Said(x) == [key |-> x.key, data |-> KeyValue!Shown(x.data)]

SaidClean == {x \in Node : Said(x) \in CleanNodes}

LEMMA SaidParts == \A x : Said(x).key = x.key /\ Said(x).data = KeyValue!Shown(x.data)
BY DEF Said

\* A key ends at the sign behind it and a value at its line feed, and blanks at their
\* ends are trimmed: keys and values that a line can say have no such character there.
LinesSayThem ==
    /\ LineFeed # Equal /\ LineFeed # Space /\ Equal # Space
    /\ \A k \in Keys : CleanKey(k)
    /\ \A d \in Values : CleanDatum(KeyValue!Shown(d))

LEMMA TextNodes == TextNode \subseteq Node
BY DEF TextNode, Node, KeyData

\* A node whose value was set is what its line says.
LEMMA TextIsSaid ==
    ASSUME KeyValue!KeyValueAssumption, NEW x \in TextNode
    PROVE  KeyValue!Shown(x.data) = x.data /\ Said(x) = x
<1>1. x.data # NoText /\ x = [key |-> x.key, data |-> x.data]
  BY DEF KeyValue!KeyValueAssumption, TextNode
<1>2. KeyValue!Shown(x.data) = x.data
  BY <1>1 DEF KeyValue!Shown
<1>3. QED  BY <1>1, <1>2 DEF Said

LEMMA CleanIsSaid == KeyValue!KeyValueAssumption => CleanNodes \subseteq SaidClean
<1>1. SUFFICES ASSUME KeyValue!KeyValueAssumption, NEW x \in CleanNodes PROVE x \in SaidClean
  OBVIOUS
<1>2. x \in TextNode
  BY DEF CleanNodes
<1>3. x \in Node /\ Said(x) = x
  BY <1>1, <1>2, TextNodes, TextIsSaid
<1>4. QED  BY <1>3 DEF SaidClean

\* A value is written as what is shown of it.
LEMMA SaidIsWritten ==
    ASSUME KeyValue!KeyValueAssumption, NEW x \in Node
    PROVE  KeyValue!KeyValueTraverse(Said(x)) = KeyValue!KeyValueTraverse(x)
<1>1. KeyValue!Shown(x.data) # NoText
  BY DEF KeyValue!KeyValueAssumption, KeyValue!Shown
<1>2. KeyValue!Shown(KeyValue!Shown(x.data)) = KeyValue!Shown(x.data)
  BY <1>1 DEF KeyValue!Shown
<1>3. QED  BY <1>2 DEF KeyValue!KeyValueTraverse, Said

\* SetSub takes the part that is there, and leaves the buffer when there is none.
PartTaken(dst, c, n, len, r) ==
    LET k == IF Len(c) - n < len THEN Len(c) - n ELSE len IN
    /\ r.chars \in Seq(KeyCharacters) /\ Len(r.chars) = IF k > 0 THEN k ELSE 0
    /\ \A i \in 1..Len(r.chars) : r.chars[i] = c[n + i]
    /\ r.nBufferLen = 0 <=> dst.nBufferLen = 0 /\ ~(k > 0)

LEMMA SetSubTakes ==
    ASSUME NEW dst \in KeyTexts, NEW src \in KeyTexts, src.nBufferLen # 0, NEW n \in Nat, NEW len \in Int
    PROVE  PartTaken(dst, src.chars, n, len, KeyValue!S!SetSub(dst, src, n, len))
<1> DEFINE c == src.chars
           k == IF Len(c) - n < len THEN Len(c) - n ELSE len
           part == SubSeq(c, n + 1, n + k)
           r == KeyValue!S!SetSub(dst, src, n, len)
<1>1. c \in Seq(KeyCharacters) /\ Len(c) \in Nat /\ dst.nBufferLen \in Nat
  BY DEF KeyTexts
<1>2. r = [chars |-> IF k > 0 THEN part ELSE <<>>,
           nBufferLen |-> IF k > 0 /\ Len(part) >= dst.nBufferLen THEN Len(part) + 1 ELSE dst.nBufferLen]
  BY DEF KeyValue!S!SetSub, KeyValue!S!SetLow, KeyValue!S!nLen, KeyValue!S!IsNull
<1>k. k \in Int /\ (k > 0 => n + k <= Len(c))
  BY <1>1
<1>t. PartTaken(dst, c, n, len, r) <=>
        /\ r.chars \in Seq(KeyCharacters) /\ Len(r.chars) = IF k > 0 THEN k ELSE 0
        /\ \A i \in 1..Len(r.chars) : r.chars[i] = c[n + i]
        /\ r.nBufferLen = 0 <=> dst.nBufferLen = 0 /\ ~(k > 0)
  BY Zenon DEF PartTaken
<1> HIDE DEF c, k, part, r
<1>3. CASE k > 0
  <2>1. /\ part \in Seq(KeyCharacters) /\ Len(part) = k
        /\ \A i \in 1..k : part[i] = c[n + i]
    <3>1. n + k <= Len(c)
      BY <1>3, <1>k
    <3>2. QED  BY <1>1, <1>3, <1>k, <3>1, PartAt DEF part
  <2>2. r.chars = part /\ r.nBufferLen = IF k >= dst.nBufferLen THEN k + 1 ELSE dst.nBufferLen
    BY <1>2, <1>3, <2>1
  <2>3. r.nBufferLen # 0
    BY <1>1, <1>3, <1>k, <2>2
  <2>4. QED  BY <1>3, <1>t, <2>1, <2>2, <2>3 DEF c, r
<1>4. CASE ~(k > 0)
  <2>1. r.chars = <<>> /\ r.nBufferLen = dst.nBufferLen
    BY <1>2, <1>4
  <2>2. QED  BY <1>4, <1>t, <2>1 DEF c, r
<1>5. QED  BY <1>3, <1>4

LEMMA LineIsClean ==
    ASSUME NEW buffer \in KeyTexts, buffer.nBufferLen # 0, NEW n \in Nat, NEW key \in KeyTexts, NEW datum \in KeyTexts,
           KeyValue!ParseLine(buffer, n, key, datum).outcome = "LINE"
    PROVE  LET line == KeyValue!ParseLine(buffer, n, key, datum) IN
           CleanKey(KeyValue!S!Trim(line.key).chars) /\ CleanDatum(KeyValue!S!Trim(line.data).chars)
<1> DEFINE end == KeyValue!S!FindChar(buffer, n, LineFeed)
           equal == KeyValue!S!FindChar(buffer, n, Equal)
           len == IF end < 0 THEN KeyValue!S!nLen(buffer) ELSE end - (equal + 1)
           k == KeyValue!S!SetSub(key, buffer, n, equal - n)
           d == KeyValue!S!SetSub(datum, buffer, equal + 1, len)
           c == buffer.chars
           line == KeyValue!ParseLine(buffer, n, key, datum)
<1>1. FirstFrom(c, n, LineFeed, end) /\ FirstFrom(c, n, Equal, equal)
  BY FindCharFinds
<1>2. c \in Seq(KeyCharacters) /\ Len(c) \in Nat /\ KeyValue!S!nLen(buffer) = Len(c)
  BY DEF KeyTexts, KeyValue!S!nLen
<1>3. line.key = k /\ line.data = d
  BY DEF KeyValue!ParseLine
<1>4. ~(end < 0 /\ equal < 0) /\ ~(end >= 0 /\ (equal >= end \/ equal < 0))
  BY DEF KeyValue!ParseLine
<1> HIDE DEF end, equal, c, line
<1>5. /\ equal \in n..(Len(c) - 1) /\ \A i \in n..(equal - 1) : c[i + 1] # Equal
      /\ end = -1 \/ (end \in n..(Len(c) - 1) /\ equal < end)
  BY <1>1, <1>2, <1>4 DEF FirstFrom
<1>6. \A i \in n..(Len(c) - 1) : end = -1 \/ i < end => c[i + 1] # LineFeed
  <2>1. SUFFICES ASSUME NEW i \in n..(Len(c) - 1), end = -1 \/ i < end PROVE c[i + 1] # LineFeed
    OBVIOUS
  <2>2. CASE end = -1
    BY <1>1, <2>2 DEF FirstFrom
  <2>3. CASE end # -1
    <3>1. i \in n..(end - 1)
      BY <1>2, <1>5, <2>1, <2>3
    <3>2. QED  BY <1>1, <2>3, <3>1 DEF FirstFrom
  <2>4. QED  BY <2>2, <2>3
<1>7. len = IF end = -1 THEN Len(c) ELSE end - (equal + 1)
  BY <1>2, <1>5
<1> HIDE DEF len
<1>8. equal \in Nat /\ equal + 1 \in Nat /\ len \in Int /\ equal - n \in Int
  BY <1>2, <1>5, <1>7
<1>9. PartTaken(key, c, n, equal - n, k) /\ PartTaken(datum, c, equal + 1, len, d)
  BY <1>8, SetSubTakes DEF c
<1>10. k \in KeyTexts /\ d \in KeyTexts
  BY <1>8, SetSubIsText
<1> HIDE DEF k, d
<1>11. ASSUME NEW j \in 1..Len(k.chars) PROVE k.chars[j] # LineFeed /\ k.chars[j] # Equal
  <2>1. k.chars[j] = c[n + j] /\ j \in Nat /\ j >= 1 /\ j <= equal - n
    <3>1. k.chars[j] = c[n + j]
      BY <1>9 DEF PartTaken
    <3>2. Len(k.chars) = IF (IF Len(c) - n < equal - n THEN Len(c) - n ELSE equal - n) > 0
                         THEN (IF Len(c) - n < equal - n THEN Len(c) - n ELSE equal - n) ELSE 0
      BY <1>9 DEF PartTaken
    <3>3. QED  BY <1>2, <1>8, <3>1, <3>2
  <2> DEFINE i == n + j - 1
  <2>2. i \in n..(equal - 1) /\ i \in n..(Len(c) - 1) /\ (end = -1 \/ i < end) /\ i + 1 = n + j
    BY <1>2, <1>5, <2>1
  <2> HIDE DEF i
  <2>3. c[i + 1] # Equal /\ c[i + 1] # LineFeed
    BY <1>5, <1>6, <2>2
  <2>4. QED  BY <2>1, <2>2, <2>3
<1>12. ASSUME NEW j \in 1..Len(d.chars) PROVE d.chars[j] # LineFeed
  <2>1. d.chars[j] = c[equal + 1 + j] /\ j \in Nat /\ j >= 1 /\ j <= len /\ equal + 1 + j <= Len(c)
    <3>1. d.chars[j] = c[equal + 1 + j]
      BY <1>9 DEF PartTaken
    <3>2. Len(d.chars) = IF (IF Len(c) - (equal + 1) < len THEN Len(c) - (equal + 1) ELSE len) > 0
                         THEN (IF Len(c) - (equal + 1) < len THEN Len(c) - (equal + 1) ELSE len) ELSE 0
      BY <1>9 DEF PartTaken
    <3>3. QED  BY <1>2, <1>8, <3>1, <3>2
  <2> DEFINE i == equal + j
  <2>2. i \in n..(Len(c) - 1) /\ (end = -1 \/ i < end) /\ i + 1 = equal + 1 + j
    BY <1>2, <1>5, <1>7, <2>1
  <2> HIDE DEF i
  <2>3. c[i + 1] # LineFeed
    BY <1>6, <2>2
  <2>4. QED  BY <2>1, <2>2, <2>3
<1>13. Trimmed(k.chars, KeyValue!S!Trim(k).chars) /\ Trimmed(d.chars, KeyValue!S!Trim(d).chars)
  BY <1>10, TrimTrims
<1>14. CleanKey(KeyValue!S!Trim(k).chars)
  BY <1>11, <1>13 DEF Trimmed, CleanKey
<1>15. CleanDatum(KeyValue!S!Trim(d).chars)
  BY <1>12, <1>13 DEF Trimmed, CleanDatum
<1>16. QED  BY <1>3, <1>14, <1>15 DEF line

\* What is read into a hash are nodes that a line can say.
LEMMA LineAddsClean ==
    ASSUME BucketsAreFound, NEW hh, NEW buffer \in KeyTexts, buffer.nBufferLen # 0, NEW state \in ReadStates(hh),
           NEW M, CleanNodes \subseteq M, NodesOf(state.hash) \subseteq M
    PROVE  NodesOf(KeyValue!ReadLine(buffer, state).hash) \subseteq M
<1> DEFINE line == KeyValue!ParseLine(buffer, state.n, state.key, state.data)
           key == KeyValue!S!Trim(line.key)
           datum == KeyValue!S!Trim(line.data)
           added == KeyValue!H!AddKey(state.hash, key.chars, datum.chars)
           new == KeyValue!ReadLine(buffer, state)
           x == [key |-> key.chars, data |-> datum.chars]
<1>1. state.hash \in HashValues /\ state.n \in Nat /\ state.key \in KeyTexts /\ state.data \in KeyTexts
  BY DEF ReadStates
<1>2. /\ line.key \in KeyTexts /\ line.data \in KeyTexts
      /\ line.outcome \in {"STOP", "INVALID_DATA", "CRASH", "LINE"}
  BY <1>1, LineIsParsed
<1>3. CASE line.outcome # "LINE"
  <2>1. new.hash = state.hash
    <3>1. CASE line.outcome = "STOP"
      <4>1. new = [state EXCEPT !.result = "NOERROR", !.goesOn = FALSE]
        BY <3>1 DEF KeyValue!ReadLine
      <4>2. QED  BY <4>1 DEF ReadStates
    <3>2. CASE line.outcome \in {"INVALID_DATA", "CRASH"}
      <4>1. new = [state EXCEPT !.result = line.outcome, !.goesOn = FALSE]
        BY <3>2 DEF KeyValue!ReadLine
      <4>2. QED  BY <4>1 DEF ReadStates
    <3>3. QED  BY <1>2, <1>3, <3>1, <3>2
  <2>2. QED  BY <2>1
<1>4. CASE line.outcome = "LINE"
  <2>1. CleanKey(key.chars) /\ CleanDatum(datum.chars)
    BY <1>1, <1>4, LineIsClean
  <2>2. new.hash = added.hash
    BY <1>4 DEF KeyValue!ReadLine
  <2> HIDE DEF line, new
  <2>3. key \in KeyTexts /\ datum \in KeyTexts
    BY <1>2, TrimIsText
  <2> HIDE DEF key, datum
  <2>4. /\ key.chars \in Seq(KeyCharacters) /\ datum.chars \in Seq(KeyCharacters)
        /\ datum.chars \in KeyData
    BY <2>3 DEF KeyTexts, KeyData
  <2>5. HashIs(state.hash, NodesOf(state.hash))
    BY <1>1 DEF HashIs, HashValues
  <2>6. Added(state.hash, NodesOf(state.hash), key.chars, datum.chars, added)
    BY <2>4, <2>5, AddKeyAdds
  <2>7. key.chars # <<>> => x \in CleanNodes
    BY <2>1, <2>4 DEF CleanNodes, TextNode
  <2> HIDE DEF added, x
  <2>8. \/ added.hash = state.hash
        \/ key.chars # <<>> /\ NodesOf(added.hash) = NodesOf(state.hash) \cup {x}
    BY <2>6 DEF Added, HashIs, x
  <2>9. QED  BY <2>2, <2>7, <2>8 DEF new
<1>5. QED  BY <1>3, <1>4

LEMMA TextAddsClean ==
    ASSUME BucketsAreFound, NEW hh, HashSound(hh), NEW t \in Seq(KeyCharacters),
           NEW M, CleanNodes \subseteq M, NodesOf(hh) \subseteq M
    PROVE  NodesOf(KeyValue!ReadText(hh, t).hash) \subseteq M
<1> DEFINE n == Len(t) + 1
           buffer == TextBuffer(t)
           start == ReadingStart(hh)
           C == [i \in 0..n |-> {state \in ReadStates(hh) : NodesOf(state.hash) \subseteq M}]
           a == KeyValue!ReadText(hh, t)
<1>1. buffer \in KeyTexts /\ buffer.nBufferLen # 0
  BY ReadingRuns
<1>2. PICK f : /\ Rounds(hh, buffer, start, n, f)
               /\ a = IF t = <<>> THEN KeyValue!H!Answer(hh, "INVALID_PARAM")
                      ELSE KeyValue!H!Answer(f[n].hash, f[n].result)
  BY ReadingRuns
<1>3. n \in Nat
  OBVIOUS
<1>4. start.hash = hh
  BY DEF ReadingStart
<1> HIDE DEF n, buffer, start, a
<1>5. f[0] \in C[0]
  <2>1. 0 \in 0..n
    BY <1>3
  <2>2. QED  BY <1>2, <1>4, <2>1 DEF Rounds
<1>6. ASSUME NEW i \in 1..n, f[i - 1] \in C[i - 1] PROVE f[i] \in C[i]
  <2>1. i \in 0..n /\ i - 1 \in 0..n
    BY <1>3
  <2>2. f[i - 1] \in ReadStates(hh) /\ NodesOf(f[i - 1].hash) \subseteq M
    BY <1>6, <2>1
  <2>3. f[i] \in ReadStates(hh) /\ f[i] = IF f[i - 1].goesOn THEN KeyValue!ReadLine(buffer, f[i - 1]) ELSE f[i - 1]
    BY <1>2, <2>1 DEF Rounds
  <2>4. NodesOf(KeyValue!ReadLine(buffer, f[i - 1]).hash) \subseteq M
    BY <1>1, <2>2, LineAddsClean
  <2>5. NodesOf(f[i].hash) \subseteq M
    BY <2>2, <2>3, <2>4
  <2>6. QED  BY <2>1, <2>3, <2>5
<1>7. NodesOf(f[n].hash) \subseteq M
  <2> HIDE DEF C
  <2>1. \A i \in 0..n : f[i] \in C[i]
    BY <1>3, <1>5, <1>6, IterationStays
  <2>2. n \in 0..n
    BY <1>3
  <2>3. QED  BY <2>1, <2>2 DEF C
<1>8. a.hash = hh \/ a.hash = f[n].hash
  BY <1>2 DEF KeyValue!H!Answer
<1>9. QED  BY <1>7, <1>8 DEF a

-----------------------------------------------------------------------------
(* A line that was written, read again *)

LineIs(line, k, d) ==
    /\ line \in Seq(KeyCharacters) /\ Len(line) = Len(k) + Len(d) + 2
    /\ \A i \in 1..Len(k) : line[i] = k[i]
    /\ line[Len(k) + 1] = Equal
    /\ \A i \in 1..Len(d) : line[Len(k) + 1 + i] = d[i]
    /\ line[Len(k) + Len(d) + 2] = LineFeed

LEMMA LineIsWritten ==
    ASSUME KeyValue!KeyValueAssumption, NEW x \in TextNode
    PROVE  LineIs(KeyValue!KeyValueTraverse(x), x.key, x.data)
<1> DEFINE k == x.key
           d == x.data
<1>1. k \in Seq(KeyCharacters) /\ d \in Seq(KeyCharacters) /\ Len(k) \in Nat /\ Len(d) \in Nat
  BY DEF TextNode
<1>2. Equal \in KeyCharacters /\ LineFeed \in KeyCharacters
  BY DEF KeyValue!KeyValueAssumption
<1>3. KeyValue!KeyValueTraverse(x) = k \o <<Equal>> \o d \o <<LineFeed>>
  BY TextIsSaid DEF KeyValue!KeyValueTraverse
<1> HIDE DEF k, d
<1> DEFINE a == k \o <<Equal>>
           b == a \o d
           c == b \o <<LineFeed>>
<1>4. /\ a \in Seq(KeyCharacters) /\ Len(a) = Len(k) + 1 /\ a[Len(k) + 1] = Equal
      /\ \A i \in 1..Len(k) : a[i] = k[i]
  BY <1>1, <1>2
<1> HIDE DEF a
<1>5. /\ b \in Seq(KeyCharacters) /\ Len(b) = Len(k) + 1 + Len(d)
      /\ \A i \in 1..(Len(k) + 1) : b[i] = a[i]
      /\ \A i \in 1..Len(d) : b[Len(k) + 1 + i] = d[i]
  <2>0. b = a \o d /\ b \in Seq(KeyCharacters)
    BY <1>1, <1>4
  <2> HIDE DEF b
  <2>1. Len(b) = Len(a) + Len(d) /\ Begins(a, b) /\ HoldsAt(b, Len(a), d)
    BY <1>1, <1>4, <2>0, Concat
  <2>2. QED  BY <1>1, <1>4, <2>0, <2>1 DEF Begins, HoldsAt
<1> HIDE DEF b
<1>6. /\ c \in Seq(KeyCharacters) /\ Len(c) = Len(k) + Len(d) + 2
      /\ \A i \in 1..(Len(k) + 1 + Len(d)) : c[i] = b[i]
      /\ c[Len(k) + Len(d) + 2] = LineFeed
  <2> DEFINE e == <<LineFeed>>
  <2>1. e \in Seq(KeyCharacters) /\ Len(e) = 1 /\ e[1] = LineFeed
    BY <1>2
  <2>2. c = b \o e /\ c \in Seq(KeyCharacters)
    BY <1>5, <2>1
  <2> HIDE DEF c, e
  <2>3. Len(c) = Len(b) + Len(e) /\ Begins(b, c) /\ HoldsAt(c, Len(b), e)
    BY <1>5, <2>1, <2>2, Concat
  <2>4. c[Len(b) + 1] = LineFeed /\ \A i \in 1..Len(b) : c[i] = b[i]
    BY <2>1, <2>3 DEF Begins, HoldsAt
  <2>5. Len(b) + 1 = Len(k) + Len(d) + 2
    BY <1>1, <1>5
  <2>6. QED  BY <1>1, <1>5, <2>1, <2>2, <2>3, <2>4, <2>5
<1> HIDE DEF c
<1>7. c[Len(k) + 1] = Equal /\ \A i \in 1..Len(k) : c[i] = k[i]
  <2>1. Len(k) + 1 \in 1..(Len(k) + 1) /\ Len(k) + 1 \in 1..(Len(k) + 1 + Len(d))
    BY <1>1
  <2>2. \A i \in 1..Len(k) : i \in 1..(Len(k) + 1) /\ i \in 1..(Len(k) + 1 + Len(d))
    BY <1>1
  <2>3. QED  BY <1>4, <1>5, <1>6, <2>1, <2>2
<1>8. \A i \in 1..Len(d) : c[Len(k) + 1 + i] = d[i]
  <2>1. \A i \in 1..Len(d) : Len(k) + 1 + i \in 1..(Len(k) + 1 + Len(d))
    BY <1>1
  <2>2. QED  BY <1>5, <1>6, <2>1
<1>9. LineIs(c, k, d)
  BY <1>6, <1>7, <1>8 DEF LineIs
<1>10. QED  BY <1>3, <1>9 DEF a, b, c, k, d

\* The first place of a character, when it is known.
StandsFirst(c, n, ch, q) ==
    q \in n..(Len(c) - 1) /\ c[q + 1] = ch /\ \A i \in n..(q - 1) : c[i + 1] # ch

LEMMA FirstIsHere ==
    ASSUME NEW c, Len(c) \in Nat, NEW n \in Nat, NEW ch, NEW r, FirstFrom(c, n, ch, r),
           NEW q, StandsFirst(c, n, ch, q)
    PROVE  r = q
<1>0. q \in n..(Len(c) - 1) /\ c[q + 1] = ch /\ \A i \in n..(q - 1) : c[i + 1] # ch
  BY DEF StandsFirst
<1>1. r # -1
  BY <1>0 DEF FirstFrom
<1>2. r \in n..(Len(c) - 1) /\ c[r + 1] = ch /\ \A i \in n..(r - 1) : c[i + 1] # ch
  BY <1>1 DEF FirstFrom
<1>3. ~(r < q) /\ ~(q < r)
  <2>1. r < q => r \in n..(q - 1)
    BY <1>0, <1>2
  <2>2. q < r => q \in n..(r - 1)
    BY <1>0, <1>2
  <2>3. QED  BY <1>0, <1>2, <2>1, <2>2
<1>4. QED  BY <1>0, <1>2, <1>3

\* What the line of a node says: the node, unless there is no buffer for its value.
LineSaid(line, p, x, datum) ==
    /\ line.end \in Nat /\ line.end + 1 = p + Len(KeyValue!KeyValueTraverse(x))
    /\ line.key \in KeyTexts /\ line.data \in KeyTexts
    /\ KeyValue!S!Trim(line.key).chars = x.key /\ KeyValue!S!Trim(line.data).chars = x.data
    /\ KeyValue!S!Trim(line.data).nBufferLen = line.data.nBufferLen
    /\ line.data.nBufferLen = 0 <=> datum.nBufferLen = 0 /\ x.data = <<>>
    /\ line.outcome = IF line.data.nBufferLen = 0 THEN "CRASH" ELSE "LINE"

\* The characters of a line, in the text that it stands in.
LineAt(c, p, k, d) ==
    /\ p + Len(k) + Len(d) + 2 <= Len(c)
    /\ \A i \in p..(p + Len(k) - 1) : c[i + 1] = k[i + 1 - p]
    /\ c[p + Len(k) + 1] = Equal
    /\ \A i \in (p + Len(k) + 1)..(p + Len(k) + Len(d)) : c[i + 1] = d[i - (p + Len(k))]
    /\ c[p + Len(k) + Len(d) + 1 + 1] = LineFeed

LEMMA LineStands ==
    ASSUME NEW c \in Seq(KeyCharacters), NEW k \in Seq(KeyCharacters), NEW d \in Seq(KeyCharacters), NEW line,
           LineIs(line, k, d), NEW p \in Nat, HoldsAt(c, p, line)
    PROVE  LineAt(c, p, k, d)
<1>1. Len(k) \in Nat /\ Len(d) \in Nat /\ Len(c) \in Nat /\ Len(line) = Len(k) + Len(d) + 2
  BY DEF LineIs
<1>2. p + Len(line) <= Len(c) /\ \A t \in 1..Len(line) : c[p + t] = line[t]
  BY DEF HoldsAt
<1>3. ASSUME NEW i \in p..(p + Len(k) - 1) PROVE c[i + 1] = k[i + 1 - p]
  <2> DEFINE t == i + 1 - p
  <2>1. t \in 1..Len(k) /\ t \in 1..Len(line) /\ p + t = i + 1
    BY <1>1
  <2> HIDE DEF t
  <2>2. c[p + t] = line[t] /\ line[t] = k[t]
    BY <1>2, <2>1 DEF LineIs
  <2>3. QED  BY <2>1, <2>2 DEF t
<1>4. c[p + Len(k) + 1] = Equal
  <2> DEFINE t == Len(k) + 1
  <2>1. t \in 1..Len(line) /\ p + t = p + Len(k) + 1
    BY <1>1
  <2>2. line[t] = Equal
    BY DEF LineIs
  <2> HIDE DEF t
  <2>3. QED  BY <1>2, <2>1, <2>2
<1>5. ASSUME NEW i \in (p + Len(k) + 1)..(p + Len(k) + Len(d)) PROVE c[i + 1] = d[i - (p + Len(k))]
  <2> DEFINE j == i - (p + Len(k))
             t == Len(k) + 1 + j
  <2>1. j \in 1..Len(d) /\ t \in 1..Len(line) /\ p + t = i + 1
    BY <1>1
  <2>2. line[t] = d[j]
    <3> HIDE DEF j
    <3>1. QED  BY <2>1 DEF LineIs
  <2> HIDE DEF j, t
  <2>3. c[p + t] = line[t]
    BY <1>2, <2>1
  <2>4. QED  BY <2>1, <2>2, <2>3 DEF j
<1>6. c[p + Len(k) + Len(d) + 1 + 1] = LineFeed
  <2> DEFINE t == Len(k) + Len(d) + 2
  <2>1. t \in 1..Len(line) /\ p + t = p + Len(k) + Len(d) + 1 + 1
    BY <1>1
  <2>2. line[t] = LineFeed
    BY DEF LineIs
  <2> HIDE DEF t
  <2>3. QED  BY <1>2, <2>1, <2>2
<1>7. QED  BY <1>1, <1>2, <1>3, <1>4, <1>5, <1>6 DEF LineAt

\* Its sign and its line feed are the first from its first place on.
LEMMA SignsOfLine ==
    ASSUME LinesSayThem, NEW c \in Seq(KeyCharacters), NEW x \in CleanNodes, NEW p \in Nat,
           LineAt(c, p, x.key, x.data), NEW equal, NEW end,
           FirstFrom(c, p, Equal, equal), FirstFrom(c, p, LineFeed, end)
    PROVE  equal = p + Len(x.key) /\ end = p + Len(x.key) + Len(x.data) + 1
<1> DEFINE k == x.key
           d == x.data
           e == p + Len(k)
           l == p + Len(k) + Len(d) + 1
<1>1. k \in Seq(KeyCharacters) /\ d \in Seq(KeyCharacters) /\ CleanKey(k) /\ CleanDatum(d)
  BY DEF CleanNodes, TextNode
<1>2. /\ l + 1 <= Len(c) /\ c[e + 1] = Equal /\ c[l + 1] = LineFeed
      /\ \A i \in p..(e - 1) : c[i + 1] = k[i + 1 - p]
      /\ \A i \in (e + 1)..(l - 1) : c[i + 1] = d[i - e]
  <2>1. /\ p + Len(k) + Len(d) + 2 <= Len(c) /\ c[e + 1] = Equal /\ c[l + 1] = LineFeed
        /\ \A i \in p..(e - 1) : c[i + 1] = k[i + 1 - p]
        /\ \A i \in (p + Len(k) + 1)..(p + Len(k) + Len(d)) : c[i + 1] = d[i - e]
    BY DEF LineAt
  <2>2. l + 1 = p + Len(k) + Len(d) + 2 /\ e + 1 = p + Len(k) + 1 /\ l - 1 = p + Len(k) + Len(d)
    BY <1>1
  <2> HIDE DEF e, l
  <2>3. (e + 1)..(l - 1) = (p + Len(k) + 1)..(p + Len(k) + Len(d))
    BY <2>2
  <2>4. QED  BY <2>1, <2>2, <2>3
<1> HIDE DEF k, d
<1>3. Len(k) \in Nat /\ Len(d) \in Nat /\ Len(c) \in Nat /\ e \in Nat /\ l \in Nat /\ l = e + Len(d) + 1 /\ e = p + Len(k)
  BY <1>1
<1> HIDE DEF e, l
<1>4. ASSUME NEW i \in p..(e - 1) PROVE c[i + 1] # Equal /\ c[i + 1] # LineFeed
  <2> DEFINE j == i + 1 - p
  <2>1. j \in 1..Len(k)
    BY <1>3
  <2>2. c[i + 1] = k[j]
    BY <1>2
  <2> HIDE DEF j
  <2>3. QED  BY <1>1, <2>1, <2>2 DEF CleanKey
<1>5. ASSUME NEW i \in (e + 1)..(l - 1) PROVE c[i + 1] # LineFeed
  <2> DEFINE j == i - e
  <2>1. j \in 1..Len(d)
    BY <1>3
  <2>2. c[i + 1] = d[j]
    BY <1>2
  <2> HIDE DEF j
  <2>3. QED  BY <1>1, <2>1, <2>2 DEF CleanDatum
<1>6. equal = e
  <2>1. e \in p..(Len(c) - 1)
    BY <1>2, <1>3
  <2>2. \A i \in p..(e - 1) : c[i + 1] # Equal
    BY <1>4
  <2>3. FirstFrom(c, p, Equal, equal) /\ c[e + 1] = Equal
    BY <1>2
  <2>4. StandsFirst(c, p, Equal, e)
    BY <2>1, <2>2, <2>3 DEF StandsFirst
  <2>5. QED  BY <1>3, <2>3, <2>4, FirstIsHere
<1>7. end = l
  <2>1. l \in p..(Len(c) - 1)
    BY <1>2, <1>3
  <2>2. ASSUME NEW i \in p..(l - 1) PROVE c[i + 1] # LineFeed
    <3>1. i \in p..(e - 1) \/ i = e \/ i \in (e + 1)..(l - 1)
      BY <1>3
    <3>2. i = e => c[i + 1] # LineFeed
      BY <1>2 DEF LinesSayThem
    <3>3. QED  BY <1>4, <1>5, <3>1, <3>2
  <2>3. FirstFrom(c, p, LineFeed, end) /\ c[l + 1] = LineFeed
    BY <1>2
  <2>4. \A i \in p..(l - 1) : c[i + 1] # LineFeed
    BY <2>2
  <2>5. Len(c) \in Nat
    BY <1>3
  <2>6. StandsFirst(c, p, LineFeed, l)
    BY <2>1, <2>3, <2>4 DEF StandsFirst
  <2>7. QED  BY <2>3, <2>5, <2>6, FirstIsHere
<1>8. QED  BY <1>6, <1>7 DEF k, d, e, l

\* A part of the text that is there is taken.
StandsAt(c, n, w) == n + Len(w) < Len(c) /\ \A i \in 1..Len(w) : c[n + i] = w[i]

Takes(dst, w, r) == r.chars = w /\ (r.nBufferLen = 0 <=> dst.nBufferLen = 0 /\ w = <<>>)

LEMMA PartIsHere ==
    ASSUME NEW dst \in KeyTexts, NEW c \in Seq(KeyCharacters), NEW n \in Nat, NEW w \in Seq(KeyCharacters), NEW r,
           StandsAt(c, n, w), PartTaken(dst, c, n, Len(w), r)
    PROVE  Takes(dst, w, r)
<1> DEFINE k == IF Len(c) - n < Len(w) THEN Len(c) - n ELSE Len(w)
<1>0. n + Len(w) < Len(c) /\ \A i \in 1..Len(w) : c[n + i] = w[i]
  BY DEF StandsAt
<1>1. k = Len(w) /\ Len(w) \in Nat
  BY <1>0
<1>2. /\ r.chars \in Seq(KeyCharacters) /\ Len(r.chars) = IF k > 0 THEN k ELSE 0
      /\ \A i \in 1..Len(r.chars) : r.chars[i] = c[n + i]
      /\ r.nBufferLen = 0 <=> dst.nBufferLen = 0 /\ ~(k > 0)
  BY Zenon DEF PartTaken
<1> HIDE DEF k
<1>3. Len(r.chars) = Len(w)
  BY <1>1, <1>2
<1>4. \A i \in 1..Len(w) : r.chars[i] = w[i]
  <2>1. \A i \in 1..Len(r.chars) : r.chars[i] = c[n + i]
    BY <1>2
  <2>2. QED  BY <1>0, <1>3, <2>1
<1>5. r.chars = w
  <2> DEFINE u == r.chars
  <2>1. u \in Seq(KeyCharacters) /\ w \in Seq(KeyCharacters) /\ Len(u) = Len(w) /\ \A i \in 1..Len(w) : u[i] = w[i]
    BY <1>2, <1>3, <1>4
  <2> HIDE DEF u
  <2>2. u = w
    BY <2>1
  <2>3. QED  BY <2>2 DEF u
<1>6. w = <<>> <=> ~(k > 0)
  BY <1>1
<1>7. QED  BY <1>2, <1>5, <1>6 DEF Takes

LEMMA LineSays ==
    ASSUME KeyValue!KeyValueAssumption, LinesSayThem, NEW buffer \in KeyTexts, buffer.nBufferLen # 0,
           NEW x \in CleanNodes, NEW p \in Nat, HoldsAt(buffer.chars, p, KeyValue!KeyValueTraverse(x)),
           NEW key \in KeyTexts, NEW datum \in KeyTexts
    PROVE  LineSaid(KeyValue!ParseLine(buffer, p, key, datum), p, x, datum)
<1> DEFINE end == KeyValue!S!FindChar(buffer, p, LineFeed)
           equal == KeyValue!S!FindChar(buffer, p, Equal)
           len == IF end < 0 THEN KeyValue!S!nLen(buffer) ELSE end - (equal + 1)
           r == KeyValue!S!SetSub(key, buffer, p, equal - p)
           s == KeyValue!S!SetSub(datum, buffer, equal + 1, len)
           c == buffer.chars
           k == x.key
           d == x.data
           line == KeyValue!ParseLine(buffer, p, key, datum)
           traversed == KeyValue!KeyValueTraverse(x)
<1>1. /\ x \in TextNode /\ k \in Seq(KeyCharacters) /\ k # <<>> /\ d \in Seq(KeyCharacters)
      /\ CleanKey(k) /\ CleanDatum(d) /\ c \in Seq(KeyCharacters)
  BY DEF CleanNodes, TextNode, KeyTexts
<1>2. LineIs(traversed, k, d)
  BY <1>1, LineIsWritten
<1>3. LineAt(c, p, k, d)
  <2> HIDE DEF c, k, d, traversed
  <2>1. HoldsAt(c, p, traversed)
    BY DEF c, traversed
  <2>2. QED  BY <1>1, <1>2, <2>1, LineStands
<1>4. FirstFrom(c, p, LineFeed, end) /\ FirstFrom(c, p, Equal, equal)
  BY FindCharFinds
<1>5. equal = p + Len(k) /\ end = p + Len(k) + Len(d) + 1
  <2> HIDE DEF c, end, equal
  <2>1. QED  BY <1>1, <1>3, <1>4, SignsOfLine
<1>6. /\ line.key = r /\ line.data = s /\ line.end = end
      /\ line.outcome = IF end < 0 /\ equal < 0 THEN "STOP"
                        ELSE IF end >= 0 /\ (equal >= end \/ equal < 0) THEN "INVALID_DATA"
                        ELSE IF r.nBufferLen = 0 \/ s.nBufferLen = 0 THEN "CRASH" ELSE "LINE"
  BY DEF KeyValue!ParseLine, KeyValue!S!TrimCrashes, KeyValue!S!IsNull
<1>7. Len(traversed) = Len(k) + Len(d) + 2 /\ p + Len(k) + Len(d) + 2 <= Len(c)
  BY <1>2, <1>3 DEF LineIs, LineAt
<1>8. (\A i \in 1..Len(k) : c[p + i] = k[i]) /\ (\A i \in 1..Len(d) : c[p + Len(k) + 1 + i] = d[i])
  <2> HIDE DEF c, k, d
  <2>0. Len(k) \in Nat /\ Len(d) \in Nat
    BY <1>1
  <2>1. ASSUME NEW i \in 1..Len(k) PROVE c[p + i] = k[i]
    <3> DEFINE j == p + i - 1
    <3>1. j \in p..(p + Len(k) - 1) /\ j + 1 = p + i /\ j + 1 - p = i
      BY <2>0
    <3> HIDE DEF j
    <3>2. c[j + 1] = k[j + 1 - p]
      BY <1>3, <3>1 DEF LineAt
    <3>3. QED  BY <3>1, <3>2
  <2>2. ASSUME NEW i \in 1..Len(d) PROVE c[p + Len(k) + 1 + i] = d[i]
    <3> DEFINE j == p + Len(k) + i
    <3>1. j \in (p + Len(k) + 1)..(p + Len(k) + Len(d)) /\ j + 1 = p + Len(k) + 1 + i /\ j - (p + Len(k)) = i
      BY <2>0
    <3> HIDE DEF j
    <3>2. c[j + 1] = d[j - (p + Len(k))]
      BY <1>3, <3>1 DEF LineAt
    <3>3. QED  BY <3>1, <3>2
  <2>3. QED  BY <2>1, <2>2
<1> HIDE DEF end, equal, line, r, s, k, d, c, traversed
<1>9. /\ Len(k) \in Nat /\ Len(d) \in Nat /\ Len(c) \in Nat /\ equal - p = Len(k) /\ len = Len(d)
      /\ equal + 1 \in Nat /\ equal + 1 + Len(d) < Len(c) /\ p + Len(k) < Len(c)
  <2>1. Len(k) \in Nat /\ Len(d) \in Nat /\ Len(c) \in Nat
    BY <1>1
  <2>2. QED  BY <1>5, <1>7, <2>1
<1>10. r.chars = k /\ r.nBufferLen # 0 /\ r \in KeyTexts
  <2>1. PartTaken(key, c, p, equal - p, r)
    BY <1>9, SetSubTakes DEF c, r
  <2>2. PartTaken(key, c, p, Len(k), r)
    BY <1>9, <2>1
  <2>c. c \in Seq(KeyCharacters) /\ k \in Seq(KeyCharacters)
    BY <1>1
  <2>s. StandsAt(c, p, k)
    BY <1>8, <1>9 DEF StandsAt
  <2>3. Takes(key, k, r)
    BY <2>2, <2>c, <2>s, PartIsHere
  <2>4. r \in KeyTexts
    BY <1>9, SetSubIsText DEF r
  <2>5. QED  BY <1>1, <2>3, <2>4 DEF Takes
<1>11. s.chars = d /\ (s.nBufferLen = 0 <=> datum.nBufferLen = 0 /\ d = <<>>) /\ s \in KeyTexts
  <2>1. PartTaken(datum, c, equal + 1, len, s)
    BY <1>9, SetSubTakes DEF c, s
  <2> DEFINE n == equal + 1
  <2>2. PartTaken(datum, c, n, Len(d), s)
    BY <1>9, <2>1
  <2>3. \A i \in 1..Len(d) : c[n + i] = d[i]
    BY <1>5, <1>8
  <2>n. n \in Nat /\ n + Len(d) < Len(c)
    BY <1>9
  <2> HIDE DEF n
  <2>c. c \in Seq(KeyCharacters) /\ d \in Seq(KeyCharacters)
    BY <1>1
  <2>s. StandsAt(c, n, d)
    BY <2>3, <2>n DEF StandsAt
  <2>4. Takes(datum, d, s)
    BY <2>2, <2>c, <2>n, <2>s, PartIsHere
  <2>5. s \in KeyTexts
    <3>1. len \in Int /\ equal + 1 \in Nat
      BY <1>9
    <3> HIDE DEF len
    <3>2. QED  BY <3>1, SetSubIsText DEF s
  <2>6. QED  BY <2>4, <2>5 DEF Takes
<1>12. /\ KeyValue!S!Trim(r).chars = k /\ KeyValue!S!Trim(s).chars = d
       /\ KeyValue!S!Trim(s).nBufferLen = s.nBufferLen
  <2>1. NoBlankEnds(k) /\ NoBlankEnds(d)
    BY <1>1 DEF CleanKey, CleanDatum
  <2>2. Trimmed(k, KeyValue!S!Trim(r).chars) /\ Trimmed(d, KeyValue!S!Trim(s).chars)
        /\ KeyValue!S!Trim(s).nBufferLen = s.nBufferLen
    BY <1>10, <1>11, TrimTrims
  <2>3. QED  BY <2>1, <2>2 DEF Trimmed
<1>13. end \in Nat /\ end + 1 = p + Len(traversed) /\ equal \in Nat /\ equal < end
  BY <1>5, <1>7, <1>9
<1>14. line.outcome = IF s.nBufferLen = 0 THEN "CRASH" ELSE "LINE"
  BY <1>6, <1>10, <1>13
<1>15. LineSaid(line, p, x, datum)
  BY <1>6, <1>10, <1>11, <1>12, <1>13, <1>14 DEF LineSaid, traversed, k, d
<1>16. QED  BY <1>15 DEF line

-----------------------------------------------------------------------------
(* A list that was written, read again *)

\* Where the lines of items begin in the text t, and where the last one ends.
Written(items, t, P) ==
    /\ items \in Seq(Node) /\ t \in Seq(KeyCharacters)
    /\ P[0] = 0 /\ P[Len(items)] = Len(t) /\ \A i \in 0..Len(items) : P[i] \in Nat
    /\ \A i \in 1..Len(items) :
          /\ items[i] \in CleanNodes
          /\ P[i] = P[i - 1] + Len(KeyValue!KeyValueTraverse(items[i]))
          /\ HoldsAt(t, P[i - 1], KeyValue!KeyValueTraverse(items[i]))

SaidItems(hh) == [i \in 1..Len(KeyValue!H!Items(hh)) |-> Said(KeyValue!H!Items(hh)[i])]

LEMMA ItemsAreSaid ==
    ASSUME KeyValue!KeyValueAssumption, NEW hh, HashSound(hh), NodesOf(hh) \subseteq SaidClean
    PROVE  LET raw == KeyValue!H!Items(hh)
               items == SaidItems(hh)
           IN /\ raw \in Seq(Node) /\ Len(raw) \in Nat /\ Len(items) = Len(raw)
              /\ items \in Seq(Node)
              /\ \A i \in 1..Len(items) : items[i] \in CleanNodes /\ items[i] = Said(raw[i])
<1> DEFINE raw == KeyValue!H!Items(hh)
           items == SaidItems(hh)
<1>1. ItemsAreNodes(hh)
  BY HashItems
<1>2. raw \in Seq(Node) /\ Len(raw) \in Nat /\ \A i \in 1..Len(raw) : raw[i] \in NodesOf(hh)
  BY <1>1 DEF ItemsAreNodes
<1>3. items = [i \in 1..Len(raw) |-> Said(raw[i])]
  BY DEF SaidItems
<1> HIDE DEF raw, items
<1>4. \A i \in 1..Len(raw) : Said(raw[i]) \in CleanNodes /\ Said(raw[i]) \in Node
  BY <1>2, TextNodes DEF SaidClean, CleanNodes
<1>5. /\ items \in Seq(Node) /\ Len(items) = Len(raw)
      /\ \A i \in 1..Len(items) : items[i] \in CleanNodes /\ items[i] = Said(raw[i])
  BY <1>2, <1>3, <1>4
<1>6. QED  BY <1>2, <1>5 DEF raw, items

LEMMA ListIsWritten ==
    ASSUME KeyValue!KeyValueAssumption, NEW hh, HashSound(hh), NodesOf(hh) \subseteq SaidClean
    PROVE  \E P : Written(SaidItems(hh), KeyValue!WriteToString(hh), P)
<1> DEFINE raw == KeyValue!H!Items(hh)
           items == SaidItems(hh)
           q == [i \in 1..Len(raw) |-> KeyValue!KeyValueTraverse(raw[i])]
           t == KeyValue!WriteToString(hh)
<1>0. /\ raw \in Seq(Node) /\ Len(items) = Len(raw)
      /\ \A i \in 1..Len(items) : items[i] = Said(raw[i])
  BY ItemsAreSaid
<1>1. items \in Seq(Node) /\ Len(items) \in Nat /\ \A i \in 1..Len(items) : items[i] \in CleanNodes
  BY ItemsAreSaid
<1>2. t \in Seq(KeyCharacters)
  BY TextIsWritten
<1>3. t = Argument!FlattenSeq(q)
  BY FlattensAlike DEF KeyValue!WriteToString
<1>r. \A i \in 1..Len(items) : KeyValue!KeyValueTraverse(raw[i]) = KeyValue!KeyValueTraverse(items[i])
  <2> HIDE DEF raw, items
  <2>1. SUFFICES ASSUME NEW i \in 1..Len(items)
                 PROVE  KeyValue!KeyValueTraverse(raw[i]) = KeyValue!KeyValueTraverse(items[i])
    OBVIOUS
  <2>2. raw[i] \in Node /\ items[i] = Said(raw[i])
    BY <1>0
  <2>3. QED  BY <2>2, SaidIsWritten
<1> HIDE DEF raw
<1> HIDE DEF items, t
<1>4. ASSUME NEW i \in 1..Len(items) PROVE KeyValue!KeyValueTraverse(items[i]) \in Seq(KeyCharacters)
  <2>1. items[i] \in TextNode
    BY <1>1 DEF CleanNodes
  <2>2. LineIs(KeyValue!KeyValueTraverse(items[i]), items[i].key, items[i].data)
    BY <2>1, LineIsWritten
  <2>3. QED  BY <2>2 DEF LineIs
<1>5. /\ q \in Seq(Seq(KeyCharacters)) /\ Len(q) = Len(items)
      /\ \A i \in 1..Len(items) : q[i] = KeyValue!KeyValueTraverse(items[i])
  BY <1>0, <1>1, <1>4, <1>r
<1> HIDE DEF q
<1>6. PICK F : Joined(q, KeyCharacters, F)
  BY <1>5, JoinedExists
<1>7. t = F[Len(items)]
  BY <1>3, <1>5, <1>6, FlattenJoins
<1> DEFINE P == [i \in 0..Len(items) |-> Len(F[i])]
<1>8. ASSUME NEW i \in 1..Len(items)
      PROVE  P[i] = P[i - 1] + Len(KeyValue!KeyValueTraverse(items[i]))
             /\ HoldsAt(t, P[i - 1], KeyValue!KeyValueTraverse(items[i]))
  <2>1. i \in 1..Len(q) /\ i \in 0..Len(items) /\ i - 1 \in 0..Len(items)
    BY <1>1, <1>5
  <2>2. Len(F[i]) = Len(F[i - 1]) + Len(q[i]) /\ HoldsAt(F[Len(q)], Len(F[i - 1]), q[i])
    BY <1>5, <1>6, <2>1, JoinedAt
  <2>3. P[i] = Len(F[i]) /\ P[i - 1] = Len(F[i - 1])
    BY <2>1
  <2>4. QED  BY <1>5, <1>7, <2>2, <2>3
<1>9. P[0] = 0 /\ P[Len(items)] = Len(t) /\ \A i \in 0..Len(items) : P[i] \in Nat
  <2>1. 0 \in 0..Len(items) /\ Len(items) \in 0..Len(items)
    BY <1>1
  <2>2. F[0] = <<>> /\ \A i \in 0..Len(items) : F[i] \in Seq(KeyCharacters)
    <3>1. F \in [0..Len(items) -> Seq(KeyCharacters)] /\ F[0] = <<>>
      BY <1>5, <1>6 DEF Joined
    <3>2. QED  BY <3>1
  <2>3. Len(F[0]) = 0 /\ \A i \in 0..Len(items) : Len(F[i]) \in Nat
    BY <2>2
  <2>4. QED  BY <1>7, <2>1, <2>3
<1> HIDE DEF P
<1>10. Written(items, t, P)
  BY <1>1, <1>2, <1>8, <1>9 DEF Written
<1>11. QED  BY <1>10 DEF items, t

\* There are at least as many characters as lines.
LEMMA FewerLines ==
    ASSUME KeyValue!KeyValueAssumption, NEW items, NEW t, NEW P, Written(items, t, P)
    PROVE  Len(items) <= Len(t)
<1> DEFINE n == Len(items)
           C == [i \in 0..n |-> {p \in Nat : i <= p}]
<1>1. n \in Nat /\ P[0] = 0 /\ P[n] = Len(t) /\ \A i \in 0..n : P[i] \in Nat
  BY DEF Written
<1>2. ASSUME NEW i \in 1..n PROVE P[i] > P[i - 1]
  <2>1. items[i] \in TextNode /\ P[i] = P[i - 1] + Len(KeyValue!KeyValueTraverse(items[i]))
    BY DEF Written, CleanNodes
  <2>2. LineIs(KeyValue!KeyValueTraverse(items[i]), items[i].key, items[i].data)
    BY <2>1, LineIsWritten
  <2>3. items[i].key \in Seq(KeyCharacters) /\ items[i].data \in Seq(KeyCharacters)
    BY <2>1 DEF TextNode
  <2>4. Len(items[i].key) \in Nat /\ Len(items[i].data) \in Nat
    BY <2>3
  <2> DEFINE l == Len(KeyValue!KeyValueTraverse(items[i]))
  <2>5. l = Len(items[i].key) + Len(items[i].data) + 2
    BY <2>2 DEF LineIs
  <2>6. P[i - 1] \in Nat
    BY <1>1
  <2> HIDE DEF l
  <2>7. P[i] = P[i - 1] + l
    BY <2>1 DEF l
  <2>8. l \in Nat /\ l > 0
    <3> DEFINE k == Len(items[i].key)
               d == Len(items[i].data)
    <3>1. k \in Nat /\ d \in Nat /\ l = k + d + 2
      BY <2>4, <2>5
    <3> HIDE DEF k, d
    <3>2. QED  BY <3>1
  <2>9. QED  BY <2>6, <2>7, <2>8
<1> HIDE DEF n
<1>3. P[0] \in C[0]
  <2>1. 0 \in 0..n
    BY <1>1
  <2>2. QED  BY <1>1, <2>1
<1>4. \A i \in 1..n : P[i - 1] \in C[i - 1] => P[i] \in C[i]
  <2>1. SUFFICES ASSUME NEW i \in 1..n, P[i - 1] \in C[i - 1] PROVE P[i] \in C[i]
    OBVIOUS
  <2>2. i \in 0..n /\ i - 1 \in 0..n
    BY <1>1
  <2>3. i - 1 <= P[i - 1] /\ P[i - 1] \in Nat /\ P[i] \in Nat /\ P[i] > P[i - 1]
    BY <1>1, <1>2, <2>1, <2>2
  <2>4. i <= P[i]
    BY <2>3
  <2>5. QED  BY <2>2, <2>3, <2>4
<1> HIDE DEF C
<1>5. P[n] \in C[n] /\ n \in 0..n
  <2>1. \A i \in 0..n : P[i] \in C[i]
    BY <1>1, <1>3, <1>4, IterationStays
  <2>2. n \in 0..n
    BY <1>1
  <2>3. QED  BY <2>1, <2>2
<1>6. QED  BY <1>1, <1>5 DEF C, n

FirstNodes(items, i) == {items[j] : j \in 1..i}

\* After i rounds the first i nodes have been added, and only before the first is
\* there no buffer for a value.
Going(items, P, i, state) ==
    /\ state \in ReadStates(KeyValue!H!Create)
    /\ HashIs(state.hash, FirstNodes(items, i)) /\ state.n = P[i]
    /\ state.result = "NOERROR" /\ state.goesOn = TRUE
    /\ state.data.nBufferLen = 0 <=> i = 0

Crashed(state) == state.result = "CRASH" /\ state.goesOn = FALSE

AllRead(items, state) ==
    /\ HashIs(state.hash, FirstNodes(items, Len(items)))
    /\ state.result = "NOERROR" /\ state.goesOn = FALSE

LEMMA RoundGoes ==
    ASSUME KeyValue!KeyValueAssumption, BucketsAreFound, LinesSayThem, NEW items, NEW t, NEW P, Written(items, t, P),
           \A i, j \in 1..Len(items) : items[i].key = items[j].key => i = j,
           NEW i \in 1..Len(items), NEW state, Going(items, P, i - 1, state)
    PROVE  IF i = 1 /\ items[i].data = <<>> THEN Crashed(KeyValue!ReadLine(TextBuffer(t), state))
           ELSE Going(items, P, i, KeyValue!ReadLine(TextBuffer(t), state))
<1> DEFINE buffer == TextBuffer(t)
           x == items[i]
           line == KeyValue!ParseLine(buffer, state.n, state.key, state.data)
           key == KeyValue!S!Trim(line.key)
           datum == KeyValue!S!Trim(line.data)
           hh == state.hash
           N == FirstNodes(items, i - 1)
           added == KeyValue!H!AddKey(hh, x.key, x.data)
           new == KeyValue!ReadLine(buffer, state)
<1>1. /\ items \in Seq(Node) /\ t \in Seq(KeyCharacters) /\ x \in CleanNodes
      /\ P[i] = P[i - 1] + Len(KeyValue!KeyValueTraverse(x)) /\ HoldsAt(t, P[i - 1], KeyValue!KeyValueTraverse(x))
  BY DEF Written
<1>2. /\ x.key \in Seq(KeyCharacters) /\ x.key # <<>> /\ x.data \in KeyData
      /\ [key |-> x.key, data |-> x.data] = x
  BY <1>1 DEF CleanNodes, TextNode, KeyData
<1>3. /\ buffer \in KeyTexts /\ buffer.nBufferLen # 0 /\ buffer.chars = t
  <2>1. HashSound(KeyValue!H!Create)
    BY CreatedIsEmpty DEF HashIs
  <2>2. QED  BY <1>1, <2>1, ReadingRuns
<1>4. /\ state \in ReadStates(KeyValue!H!Create) /\ HashIs(hh, N) /\ state.n = P[i - 1]
      /\ state.result = "NOERROR" /\ (state.data.nBufferLen = 0 <=> i - 1 = 0)
      /\ state.n \in Nat /\ state.key \in KeyTexts /\ state.data \in KeyTexts
  BY DEF Going, ReadStates
<1>5. LineSaid(line, state.n, x, state.data)
  <2>1. HoldsAt(buffer.chars, state.n, KeyValue!KeyValueTraverse(x))
    BY <1>1, <1>3, <1>4
  <2> HIDE DEF buffer, x
  <2>2. QED  BY <1>1, <1>3, <1>4, <2>1, LineSays
<1>6. /\ line.end \in Nat /\ line.end + 1 = P[i] /\ key.chars = x.key /\ datum.chars = x.data
      /\ datum.nBufferLen = 0 <=> state.data.nBufferLen = 0 /\ x.data = <<>>
      /\ line.outcome = IF datum.nBufferLen = 0 THEN "CRASH" ELSE "LINE"
  BY <1>1, <1>4, <1>5 DEF LineSaid
<1>7. new \in ReadStates(KeyValue!H!Create)
  BY <1>3, <1>4, LineIsRead
<1>8. /\ line.outcome = "CRASH" => new = [state EXCEPT !.result = "CRASH", !.goesOn = FALSE]
      /\ line.outcome = "LINE" =>
           new = [hash |-> KeyValue!H!AddKey(hh, key.chars, datum.chars).hash,
                  result |-> KeyValue!H!AddKey(hh, key.chars, datum.chars).result,
                  n |-> line.end + 1, key |-> key, data |-> datum,
                  goesOn |-> KeyValue!H!AddKey(hh, key.chars, datum.chars).result = "NOERROR" /\ line.end >= 0]
  BY DEF KeyValue!ReadLine
<1>9. i \in Nat /\ (i - 1 = 0 <=> i = 1) /\ i # 0
  OBVIOUS
<1> HIDE DEF buffer, x, line, key, datum, N, new
<1>10. CASE i = 1 /\ x.data = <<>>
  <2>1. line.outcome = "CRASH"
    BY <1>4, <1>6, <1>10
  <2>2. new = [state EXCEPT !.result = "CRASH", !.goesOn = FALSE]
    BY <1>8, <2>1
  <2>3. Crashed(new)
    BY <1>4, <2>2 DEF Crashed, ReadStates
  <2>4. QED  BY <1>10, <2>3 DEF x, new, buffer
<1>11. CASE ~(i = 1 /\ x.data = <<>>)
  <2>1. datum.nBufferLen # 0 /\ line.outcome = "LINE"
    BY <1>4, <1>6, <1>9, <1>11
  <2>2. Added(hh, N, x.key, x.data, added)
    <3> HIDE DEF hh
    <3>1. QED  BY <1>2, <1>4, AddKeyAdds
  <2>3. x.key \notin KeysOf(N)
    <3>1. ASSUME x.key \in KeysOf(N) PROVE FALSE
      <4>1. PICK j \in 1..(i - 1) : items[j].key = x.key
        BY <3>1 DEF KeysOf, N, FirstNodes
      <4>2. j \in 1..Len(items) /\ j # i
        BY <1>1
      <4>3. QED  BY <4>1, <4>2 DEF x
    <3>2. QED  BY <3>1
  <2>4. added.result = "NOERROR" /\ HashIs(added.hash, N \cup {x})
    BY <1>2, <2>2, <2>3 DEF Added
  <2>5. N \cup {x} = FirstNodes(items, i)
    <3>1. \A j : j \in 1..i <=> j \in 1..(i - 1) \/ j = i
      BY <1>9
    <3>2. QED  BY <3>1 DEF N, x, FirstNodes
  <2>6. new = [hash |-> added.hash, result |-> added.result, n |-> line.end + 1, key |-> key, data |-> datum,
               goesOn |-> added.result = "NOERROR" /\ line.end >= 0]
    BY <1>6, <1>8, <2>1
  <2> HIDE DEF added
  <2>7. /\ new.hash = added.hash /\ new.result = "NOERROR" /\ new.n = P[i] /\ new.data = datum
        /\ new.goesOn = (added.result = "NOERROR" /\ line.end >= 0)
    BY <1>6, <2>4, <2>6
  <2>8. new.goesOn = TRUE
    <3>1. line.end >= 0
      BY <1>6
    <3>2. QED  BY <2>4, <2>7, <3>1
  <2>9. Going(items, P, i, new)
    BY <1>7, <1>9, <2>1, <2>4, <2>5, <2>7, <2>8 DEF Going
  <2>10. QED  BY <1>11, <2>9 DEF x, new, buffer
<1>12. QED  BY <1>10, <1>11 DEF x

LEMMA RoundStops ==
    ASSUME BucketsAreFound, NEW items, NEW t, NEW P, Written(items, t, P),
           NEW state, Going(items, P, Len(items), state)
    PROVE  AllRead(items, KeyValue!ReadLine(TextBuffer(t), state))
<1> DEFINE buffer == TextBuffer(t)
           line == KeyValue!ParseLine(buffer, state.n, state.key, state.data)
           new == KeyValue!ReadLine(buffer, state)
           n == state.n
           end == KeyValue!S!FindChar(buffer, n, LineFeed)
           equal == KeyValue!S!FindChar(buffer, n, Equal)
<1>1. t \in Seq(KeyCharacters) /\ P[Len(items)] = Len(t)
  BY DEF Written
<1>2. buffer \in KeyTexts /\ buffer.chars = t
  <2>1. HashSound(KeyValue!H!Create)
    BY CreatedIsEmpty DEF HashIs
  <2>2. QED  BY <1>1, <2>1, ReadingRuns
<1>3. /\ state \in ReadStates(KeyValue!H!Create) /\ HashIs(state.hash, FirstNodes(items, Len(items)))
      /\ n = Len(t) /\ n \in Nat
  BY <1>1 DEF Going, ReadStates
<1>4. FirstFrom(t, n, LineFeed, end) /\ FirstFrom(t, n, Equal, equal)
  BY <1>2, <1>3, FindCharFinds
<1>5. end = -1 /\ equal = -1
  <2> HIDE DEF end, equal, n
  <2>1. n..(Len(t) - 1) = {}
    BY <1>1, <1>3
  <2>2. QED  BY <1>4, <2>1 DEF FirstFrom
<1>6. line.outcome = "STOP"
  BY <1>5 DEF KeyValue!ParseLine
<1>7. new = [state EXCEPT !.result = "NOERROR", !.goesOn = FALSE]
  BY <1>6 DEF KeyValue!ReadLine
<1>8. QED  BY <1>3, <1>7 DEF AllRead, ReadStates

\* The list itself, or nothing when there is no buffer for its first value.
ReadBack(hh, items, back) ==
    IF items[1].data = <<>> THEN back.result = "CRASH"
    ELSE back.result = "NOERROR" /\ HashIs(back.hash, {Said(x) : x \in NodesOf(hh)})

LEMMA ListIsReadBack ==
    ASSUME KeyValue!KeyValueAssumption, BucketsAreFound, LinesSayThem,
           NEW hh, HashSound(hh), NodesOf(hh) \subseteq SaidClean, KeyValue!H!Items(hh) # <<>>
    PROVE  ReadBack(hh, SaidItems(hh), KeyValue!ReadText(KeyValue!H!Create, KeyValue!WriteToString(hh)))
<1> DEFINE raw == KeyValue!H!Items(hh)
           items == SaidItems(hh)
           t == KeyValue!WriteToString(hh)
           m == Len(items)
           n == Len(t) + 1
           none == KeyValue!H!Create
           back == KeyValue!ReadText(none, t)
           start == ReadingStart(none)
           crashes == items[1].data = <<>>
<1>1. PICK P : Written(items, t, P)
  BY ListIsWritten
<1>r. /\ raw \in Seq(Node) /\ \A i \in 1..Len(raw) : raw[i] \in NodesOf(hh)
      /\ \A x \in NodesOf(hh) : \E i \in 1..Len(raw) : raw[i] = x
      /\ \A i, j \in 1..Len(raw) : raw[i].key = raw[j].key => i = j
  BY HashItems DEF ItemsAreNodes
<1>s. /\ items \in Seq(Node) /\ Len(raw) \in Nat /\ m = Len(raw)
      /\ \A i \in 1..m : items[i] = Said(raw[i])
  BY ItemsAreSaid
<1>0. Len(raw) >= 1
  <2> DEFINE w == raw
  <2>1. w \in Seq(Node) /\ w # <<>>
    BY <1>r
  <2> HIDE DEF w
  <2>2. Len(w) >= 1
    BY <2>1
  <2>3. QED  BY <2>2 DEF w
<1> HIDE DEF raw
<1>2. /\ \A i \in 1..m : \E x \in NodesOf(hh) : items[i] = Said(x)
      /\ \A x \in NodesOf(hh) : \E i \in 1..m : items[i] = Said(x)
      /\ \A i, j \in 1..m : items[i].key = items[j].key => i = j
  <2> HIDE DEF items, m
  <2>1. \A i \in 1..m : items[i].key = raw[i].key
    BY <1>s, SaidParts
  <2>2. \A i, j \in 1..m : items[i].key = items[j].key => i = j
    BY <1>r, <1>s, <2>1
  <2>3. /\ \A i \in 1..m : \E x \in NodesOf(hh) : items[i] = Said(x)
        /\ \A x \in NodesOf(hh) : \E i \in 1..m : items[i] = Said(x)
    BY <1>r, <1>s
  <2>4. QED  BY <2>2, <2>3
<1>3. t \in Seq(KeyCharacters) /\ P[0] = 0
  BY <1>1 DEF Written
<1>4. HashIs(none, {}) /\ HashSound(none)
  BY CreatedIsEmpty DEF HashIs
<1>5. PICK f : /\ Rounds(none, TextBuffer(t), start, n, f)
               /\ back = IF t = <<>> THEN KeyValue!H!Answer(none, "INVALID_PARAM")
                         ELSE KeyValue!H!Answer(f[n].hash, f[n].result)
  BY <1>3, <1>4, ReadingRuns
<1> HIDE DEF items, t, back
<1>6. m \in Nat /\ n \in Nat /\ m >= 1 /\ m < n /\ t # <<>>
  <2>1. m \in Nat /\ m >= 1
    BY <1>0, <1>s
  <2>2. Len(t) \in Nat
    BY <1>3
  <2>3. m <= Len(t)
    BY <1>1, FewerLines
  <2>4. QED  BY <2>1, <2>2, <2>3
<1>7. /\ f[0] = start
      /\ \A i \in 1..n : f[i] = IF f[i - 1].goesOn THEN KeyValue!ReadLine(TextBuffer(t), f[i - 1]) ELSE f[i - 1]
      /\ \A i \in 0..n : f[i] \in ReadStates(none)
  BY <1>5 DEF Rounds
<1> HIDE DEF m, n, none, start, crashes
<1> DEFINE GoesWell(i, state) == IF i = 0 THEN Going(items, P, 0, state)
                                 ELSE IF crashes THEN Crashed(state)
                                 ELSE IF i <= m THEN Going(items, P, i, state)
                                 ELSE AllRead(items, state)
           C == [i \in 0..n |-> {state \in ReadStates(none) : GoesWell(i, state)}]
<1>8. Going(items, P, 0, f[0])
  <2>1. FirstNodes(items, 0) = {}
    BY DEF FirstNodes
  <2>2. f[0] \in ReadStates(none)
    BY <1>6, <1>7
  <2>3. /\ start.hash = none /\ start.n = 0 /\ start.result = "NOERROR" /\ start.goesOn = TRUE
        /\ start.data.nBufferLen = 0
    BY DEF start, ReadingStart, KeyValue!S!New
  <2>4. QED  BY <1>3, <1>4, <1>7, <2>1, <2>2, <2>3 DEF Going, none
<1>9. ASSUME NEW i \in 1..n, GoesWell(i - 1, f[i - 1]) PROVE GoesWell(i, f[i])
  <2> DEFINE state == f[i - 1]
             new == KeyValue!ReadLine(TextBuffer(t), state)
  <2>1. f[i] = IF state.goesOn THEN new ELSE state
    BY <1>7
  <2>2. i \in Nat /\ i # 0 /\ (i - 1 = 0 <=> i = 1) /\ (i - 1 <= m <=> i <= m \/ i = m + 1)
    BY <1>6
  <2> HIDE DEF state, new
  <2>3. CASE i = 1 \/ (~crashes /\ i <= m)
    <3>1. Going(items, P, i - 1, state) /\ i \in 1..m
      BY <1>6, <1>9, <2>2, <2>3 DEF state
    <3>2. f[i] = new
      BY <2>1, <3>1 DEF Going
    <3>3. IF i = 1 /\ items[i].data = <<>> THEN Crashed(new) ELSE Going(items, P, i, new)
      BY <1>1, <1>2, <3>1, RoundGoes DEF new, m
    <3>4. i = 1 => (crashes <=> items[i].data = <<>>)
      BY DEF crashes
    <3>5. QED  BY <1>6, <2>2, <2>3, <3>2, <3>3, <3>4
  <2>4. CASE i # 1 /\ crashes
    <3>1. Crashed(state)
      BY <1>9, <2>2, <2>4 DEF state
    <3>2. f[i] = state
      BY <2>1, <3>1 DEF Crashed
    <3>3. QED  BY <2>2, <2>4, <3>1, <3>2
  <2>5. CASE ~crashes /\ i = m + 1
    <3>1. Going(items, P, m, state)
      BY <1>6, <1>9, <2>2, <2>5 DEF state
    <3>2. f[i] = new
      BY <2>1, <3>1 DEF Going
    <3>3. AllRead(items, new)
      BY <1>1, <3>1, RoundStops DEF new, m
    <3>4. QED  BY <1>6, <2>2, <2>5, <3>2, <3>3
  <2>6. CASE ~crashes /\ i > m + 1
    <3>1. AllRead(items, state)
      BY <1>6, <1>9, <2>2, <2>6 DEF state
    <3>2. f[i] = state
      BY <2>1, <3>1 DEF AllRead
    <3>3. QED  BY <1>6, <2>2, <2>6, <3>1, <3>2
  <2>7. i = 1 \/ i <= m \/ i = m + 1 \/ i > m + 1
    BY <1>6, <2>2
  <2>8. QED  BY <2>3, <2>4, <2>5, <2>6, <2>7
<1>10. GoesWell(n, f[n])
  <2> HIDE DEF GoesWell
  <2>1. f[0] \in C[0]
    <3>1. 0 \in 0..n /\ f[0] \in ReadStates(none)
      BY <1>6, <1>7
    <3>2. GoesWell(0, f[0])
      BY <1>8 DEF GoesWell
    <3>3. QED  BY <3>1, <3>2
  <2>2. \A i \in 1..n : f[i - 1] \in C[i - 1] => f[i] \in C[i]
    <3>1. SUFFICES ASSUME NEW i \in 1..n, f[i - 1] \in C[i - 1] PROVE f[i] \in C[i]
      OBVIOUS
    <3>2. i \in 0..n /\ i - 1 \in 0..n
      BY <1>6
    <3>3. GoesWell(i - 1, f[i - 1])
      BY <3>1, <3>2
    <3>4. GoesWell(i, f[i]) /\ f[i] \in ReadStates(none)
      BY <1>7, <1>9, <3>2, <3>3
    <3>5. QED  BY <3>2, <3>4
  <2>3. n \in 0..n
    BY <1>6
  <2>4. f[n] \in C[n]
    <3> HIDE DEF C
    <3>1. QED  BY <1>6, <2>1, <2>2, <2>3, IterationStays
  <2>5. QED  BY <2>3, <2>4
<1>11. IF crashes THEN Crashed(f[n]) ELSE AllRead(items, f[n])
  <2>1. n # 0 /\ ~(n <= m)
    BY <1>6
  <2>2. QED  BY <1>10, <2>1
<1>12. back.hash = f[n].hash /\ back.result = f[n].result
  BY <1>5, <1>6 DEF KeyValue!H!Answer
<1>13. FirstNodes(items, m) = {Said(x) : x \in NodesOf(hh)}
  BY <1>2 DEF FirstNodes
<1>14. ReadBack(hh, items, back)
  BY <1>11, <1>12, <1>13 DEF ReadBack, Crashed, AllRead, crashes, m
<1>15. QED  BY <1>14 DEF items, back, none, t

\* What is read is what is shown of every value.
LEMMA DictSaid ==
    ASSUME NEW N, OneEach(N)
    PROVE  LET M == {Said(x) : x \in N} IN
           DictOfNodes(M) = [k \in DOMAIN DictOfNodes(N) |-> KeyValue!Shown(DictOfNodes(N)[k])]
<1> DEFINE M == {Said(x) : x \in N}
           d == DictOfNodes(N)
           e == [k \in DOMAIN d |-> KeyValue!Shown(d[k])]
<1>1. DOMAIN d = KeysOf(N)
  BY DEF DictOfNodes
<1>2. KeysOf(M) = KeysOf(N) /\ OneEach(M)
  <2>1. \A y \in M : \E x \in N : y = Said(x) /\ y.key = x.key
    BY SaidParts
  <2>2. \A x \in N : Said(x) \in M /\ Said(x).key = x.key
    BY SaidParts
  <2> HIDE DEF M
  <2>3. KeysOf(M) = KeysOf(N)
    BY <2>1, <2>2 DEF KeysOf
  <2>4. ASSUME NEW y \in M, NEW z \in M, y.key = z.key PROVE y = z
    <3>1. PICK x \in N : y = Said(x) /\ y.key = x.key
      BY <2>1
    <3>2. PICK w \in N : z = Said(w) /\ z.key = w.key
      BY <2>1
    <3>3. x = w
      BY <2>4, <3>1, <3>2 DEF OneEach
    <3>4. QED  BY <3>1, <3>2, <3>3
  <2>5. QED  BY <2>3, <2>4 DEF OneEach
<1>3. ASSUME NEW n \in M PROVE e[n.key] = n.data
  <2>1. PICK x \in N : n = Said(x)
    OBVIOUS
  <2>2. n.key = x.key /\ n.data = KeyValue!Shown(x.data) /\ x.key \in KeysOf(N)
    BY <2>1 DEF Said, KeysOf
  <2>3. d[x.key] = x.data
    BY DictAt
  <2> HIDE DEF d
  <2>4. QED  BY <1>1, <2>2, <2>3
<1>4. e = [k \in KeysOf(M) |-> e[k]]
  <2> HIDE DEF d, M
  <2>1. QED  BY <1>1, <1>2
<1> HIDE DEF e, M
<1>5. DictOfNodes(M) = e
  BY <1>2, <1>3, <1>4, DictIs
<1>6. QED  BY <1>5 DEF e, M

LEMMA SaysItReadsBack ==
    ASSUME KeyValue!KeyValueAssumption, BucketsAreFound, LinesSayThem, HashInv,
           \A h \in Handles : NodesOf(hash[h]) \subseteq SaidClean
    PROVE  KeyValue!ReadsBackWhatIsWritten
<1>1. SUFFICES ASSUME NEW h \in Handles, KeyValue!H!Items(hash[h]) # <<>>
               PROVE  LET items == KeyValue!H!Items(hash[h])
                          dict  == KeyValue!DictOf(hash[h])
                          back  == KeyValue!ReadText(KeyValue!H!Create, KeyValue!WriteToString(hash[h]))
                      IN IF Head(items).data = <<>> THEN back.result = "CRASH"
                         ELSE /\ back.result = "NOERROR"
                              /\ KeyValue!DictOf(back.hash) = [k \in DOMAIN dict |-> KeyValue!Shown(dict[k])]
  BY DEF KeyValue!ReadsBackWhatIsWritten
<1> DEFINE hh == hash[h]
           N == NodesOf(hh)
           M == {Said(x) : x \in N}
           raw == KeyValue!H!Items(hh)
           items == SaidItems(hh)
           dict == KeyValue!DictOf(hh)
           back == KeyValue!ReadText(KeyValue!H!Create, KeyValue!WriteToString(hh))
<1>2. HashSound(hh) /\ NodesOf(hh) \subseteq SaidClean
  BY DEF HashInv
<1>3. ReadBack(hh, items, back)
  <2> HIDE DEF hh
  <2>1. raw # <<>>
    BY <1>1 DEF hh
  <2>2. QED  BY <1>2, <2>1, ListIsReadBack
<1>4. items[1].data = <<>> <=> Head(raw).data = <<>>
  <2>1. raw \in Seq(Node) /\ Len(items) = Len(raw) /\ \A i \in 1..Len(items) : items[i] = Said(raw[i])
    BY <1>2, ItemsAreSaid
  <2>0. raw # <<>>
    BY <1>1
  <2> HIDE DEF raw, items
  <2>2. Head(raw) = raw[1] /\ 1 \in 1..Len(raw)
    BY <2>0, <2>1
  <2>3. items[1].data = KeyValue!Shown(raw[1].data)
    <3>1. items[1] = Said(raw[1])
      BY <2>1, <2>2
    <3>2. QED  BY <3>1, SaidParts
  <2>4. NullText # <<>> /\ NoText # <<>>
    <3>1. <<>> \in Seq(KeyCharacters)
      OBVIOUS
    <3>2. QED  BY <3>1 DEF KeyValue!KeyValueAssumption
  <2>5. QED  BY <2>2, <2>3, <2>4 DEF KeyValue!Shown
<1>5. HashIs(hh, N) /\ OneEach(N) /\ dict = DictOfNodes(N)
  <2>1. HashIs(hh, N)
    BY <1>2 DEF HashIs
  <2>2. QED  BY <2>1, DictOfHash
<1>6. DictOfNodes(M) = [k \in DOMAIN dict |-> KeyValue!Shown(dict[k])]
  BY <1>5, DictSaid
<1>7. HashIs(back.hash, M) => KeyValue!DictOf(back.hash) = DictOfNodes(M)
  <2> HIDE DEF M, back
  <2>1. QED  BY DictOfHash
<1> HIDE DEF raw, items, back, dict
<1>8. IF Head(raw).data = <<>> THEN back.result = "CRASH"
      ELSE back.result = "NOERROR" /\ KeyValue!DictOf(back.hash) = [k \in DOMAIN dict |-> KeyValue!Shown(dict[k])]
  BY <1>3, <1>4, <1>6, <1>7 DEF ReadBack
<1>9. QED  BY <1>8 DEF hh, raw, dict, back

\* Every list holds nodes that a line can say.
ListsAreClean == \A h \in Handles : NodesOf(hash[h]) \subseteq SaidClean

LEMMA ReturnsClean ==
    ASSUME HashInv, ListsAreClean, NEW h \in Handles, NEW a, NodesOf(a.hash) \subseteq SaidClean, KeyValue!Return(h, a)
    PROVE  ListsAreClean'
<1>1. hash' = [g \in Handles |-> IF g = h THEN a.hash ELSE hash[g]]
  BY DEF KeyValue!Return, HashInv
<1>2. ASSUME NEW g \in Handles PROVE NodesOf(hash'[g]) \subseteq SaidClean
  <2>1. NodesOf(a.hash) \subseteq SaidClean /\ NodesOf(hash[g]) \subseteq SaidClean
    BY DEF ListsAreClean
  <2>2. hash'[g] = a.hash \/ hash'[g] = hash[g]
    BY <1>1
  <2>3. QED  BY <2>1, <2>2
<1>3. QED  BY <1>2 DEF ListsAreClean, NodesOf, In

LEMMA DeletesClean ==
    ASSUME BucketsAreFound, NEW hh, HashSound(hh), NodesOf(hh) \subseteq SaidClean, NEW k \in Seq(KeyCharacters)
    PROVE  LET a == KeyValue!H!DeleteKey(hh, k, FALSE) IN HashSound(a.hash) /\ NodesOf(a.hash) \subseteq SaidClean
<1> DEFINE a == KeyValue!H!DeleteKey(hh, k, FALSE)
<1>1. Deleted(hh, NodesOf(hh), k, a)
  BY DeleteKeyDeletes DEF HashIs
<1> HIDE DEF a
<1>2. HashSound(a.hash) /\ NodesOf(a.hash) \subseteq NodesOf(hh)
  BY <1>1 DEF Deleted, HashIs, Others
<1>3. QED  BY <1>2 DEF a

LEMMA AddsClean ==
    ASSUME BucketsAreFound, NEW hh, HashSound(hh), NodesOf(hh) \subseteq SaidClean,
           NEW k \in Seq(KeyCharacters), NEW v \in KeyData, KeyValue!Shown(v) \in Seq(KeyCharacters),
           CleanKey(k), CleanDatum(KeyValue!Shown(v))
    PROVE  NodesOf(KeyValue!H!AddKey(hh, k, v).hash) \subseteq SaidClean
<1> DEFINE a == KeyValue!H!AddKey(hh, k, v)
           x == [key |-> k, data |-> v]
<1>1. Added(hh, NodesOf(hh), k, v, a)
  BY AddKeyAdds DEF HashIs
<1>2. k # <<>> => x \in SaidClean
  BY DEF SaidClean, Said, CleanNodes, TextNode, Node
<1> HIDE DEF a, x
<1>3. NodesOf(a.hash) = NodesOf(hh) \/ (k # <<>> /\ NodesOf(a.hash) = NodesOf(hh) \cup {x})
  BY <1>1 DEF Added, HashIs, x
<1>4. QED  BY <1>2, <1>3 DEF a

LEMMA ReadingClean ==
    ASSUME KeyValue!KeyValueAssumption, BucketsAreFound, HashInv, ListsAreClean,
           NEW h \in Handles, NEW t \in Seq(KeyCharacters),
           KeyValue!ReadFromBuffer(h, t)
    PROVE  ListsAreClean'
<1> DEFINE a == KeyValue!ReadText(hash[h], t)
           b == IF a.result = "CRASH" THEN KeyValue!H!Answer(hash[h], "CRASH") ELSE a
<1>1. HashSound(hash[h]) /\ NodesOf(hash[h]) \subseteq SaidClean
  BY DEF HashInv, ListsAreClean
<1>2. NodesOf(a.hash) \subseteq SaidClean
  BY <1>1, CleanIsSaid, TextAddsClean
<1>3. KeyValue!Return(h, b)
  BY DEF KeyValue!ReadFromBuffer
<1> HIDE DEF a
<1>4. NodesOf(b.hash) \subseteq SaidClean
  <2>1. b.hash = hash[h] \/ b.hash = a.hash
    BY DEF KeyValue!H!Answer
  <2>2. QED  BY <1>1, <1>2, <2>1
<1> HIDE DEF b
<1>5. QED  BY <1>3, <1>4, ReturnsClean

LEMMA StepsClean ==
    ASSUME KeyValue!KeyValueAssumption, BucketsAreFound, LinesSayThem, HashInv, ListsAreClean, [KeyValue!Next]_HashVars
    PROVE  ListsAreClean'
<1>1. ASSUME NEW h \in Handles PROVE HashSound(hash[h]) /\ NodesOf(hash[h]) \subseteq SaidClean
  BY DEF HashInv, ListsAreClean
<1>2. /\ \A k \in Keys : k \in Seq(KeyCharacters) /\ CleanKey(k)
      /\ \A v \in Values : /\ v \in KeyData /\ KeyValue!Shown(v) \in Seq(KeyCharacters)
                           /\ CleanDatum(KeyValue!Shown(v))
      /\ \A t \in Texts : t \in Seq(KeyCharacters)
  BY DEF KeyValue!KeyValueAssumption, LinesSayThem, KeyData, KeyValue!Shown
<1>3. ASSUME NEW h \in Handles, NEW k \in Keys, NEW v \in Values, KeyValue!Add(h, k, v) PROVE ListsAreClean'
  <2>1. NodesOf(KeyValue!H!AddKey(hash[h], k, v).hash) \subseteq SaidClean
    BY <1>1, <1>2, AddsClean
  <2>2. QED  BY <1>3, <2>1, ReturnsClean DEF KeyValue!Add
<1>4. ASSUME NEW h \in Handles, NEW k \in Keys, KeyValue!Remove(h, k) PROVE ListsAreClean'
  <2>1. NodesOf(KeyValue!H!DeleteKey(hash[h], k, FALSE).hash) \subseteq SaidClean
    BY <1>1, <1>2, DeletesClean
  <2>2. QED  BY <1>4, <2>1, ReturnsClean DEF KeyValue!Remove
<1>5. ASSUME NEW h \in Handles, NEW k \in Keys, NEW v \in Values, KeyValue!SetValueByKey(h, k, v) PROVE ListsAreClean'
  <2> DEFINE deleted == KeyValue!H!DeleteKey(hash[h], k, FALSE)
             a == IF deleted.result = "NOERROR" THEN KeyValue!H!AddKey(deleted.hash, k, v) ELSE deleted
  <2>1. HashSound(deleted.hash) /\ NodesOf(deleted.hash) \subseteq SaidClean
    BY <1>1, <1>2, DeletesClean
  <2>2. KeyValue!Return(h, a)
    BY <1>5 DEF KeyValue!SetValueByKey
  <2> HIDE DEF deleted
  <2>3. NodesOf(KeyValue!H!AddKey(deleted.hash, k, v).hash) \subseteq SaidClean
    BY <1>2, <2>1, AddsClean
  <2>4. NodesOf(a.hash) \subseteq SaidClean
    BY <2>1, <2>3
  <2> HIDE DEF a
  <2>5. QED  BY <2>2, <2>4, ReturnsClean
<1>6. ASSUME NEW h \in Handles, NEW k \in Keys, KeyValue!GetValueByKey(h, k) PROVE ListsAreClean'
  <2> DEFINE answer == KeyValue!H!GetDataByKey(hash[h], k)
  <2>1. Given(hash[h], NodesOf(hash[h]), k, answer)
    BY <1>1, <1>2, GetDataByKeyGives DEF HashIs
  <2>2. hash' = [hash EXCEPT ![h] = answer.hash]
    BY <1>6 DEF KeyValue!GetValueByKey
  <2> HIDE DEF answer
  <2>3. NodesOf(answer.hash) \subseteq SaidClean
    BY <1>1, <2>1 DEF Given, HashIs
  <2>4. ASSUME NEW g \in Handles PROVE NodesOf(hash'[g]) \subseteq SaidClean
    <3>1. hash'[g] = answer.hash \/ hash'[g] = hash[g]
      BY <2>2 DEF HashInv
    <3>2. QED  BY <1>1, <2>3, <3>1
  <2>5. QED  BY <2>4 DEF ListsAreClean, NodesOf, In
<1>7. ASSUME NEW h \in Handles, KeyValue!RemoveAll(h) PROVE ListsAreClean'
  <2> DEFINE a == [hash |-> KeyValue!H!RemoveAll(hash[h]), result |-> "NOERROR"]
  <2>1. NodesOf(a.hash) \subseteq SaidClean
    BY <1>1, RemoveAllRemoves DEF HashIs
  <2>2. KeyValue!Return(h, a)
    BY <1>7 DEF KeyValue!RemoveAll
  <2> HIDE DEF a
  <2>3. QED  BY <2>1, <2>2, ReturnsClean
<1>8. ASSUME NEW h \in Handles, NEW g \in Handles, KeyValue!Duplicate(h, g) PROVE ListsAreClean'
  <2> DEFINE emptied == KeyValue!H!RemoveAll(hash[h])
             from == IF h = g THEN emptied ELSE hash[g]
             a == KeyValue!H!Duplicate(emptied, from)
  <2>1. HashIs(emptied, {})
    BY <1>1, RemoveAllRemoves
  <2>2. KeyValue!Return(h, a)
    BY <1>8 DEF KeyValue!Duplicate
  <2> HIDE DEF emptied
  <2>3. HashIs(from, NodesOf(from)) /\ NodesOf(from) \subseteq SaidClean
    BY <1>1, <2>1 DEF HashIs
  <2> HIDE DEF from
  <2>4. HashIs(a.hash, NodesOf(from))
    BY <2>1, <2>3, DuplicateCopies
  <2> HIDE DEF a
  <2>5. NodesOf(a.hash) \subseteq SaidClean
    BY <2>3, <2>4 DEF HashIs
  <2>6. QED  BY <2>2, <2>5, ReturnsClean
<1>9. ASSUME NEW h \in Handles, NEW g \in Handles, KeyValue!ReadFromBuffer(h, KeyValue!WriteToString(hash[g]))
      PROVE  ListsAreClean'
  <2>1. KeyValue!WriteToString(hash[g]) \in Seq(KeyCharacters)
    BY <1>1, TextIsWritten
  <2>2. QED  BY <1>9, <2>1, ReadingClean
<1>10. ASSUME NEW h \in Handles, NEW t \in Texts, KeyValue!ReadFromBuffer(h, t) PROVE ListsAreClean'
  BY <1>2, <1>10, ReadingClean
<1>11. CASE UNCHANGED HashVars
  BY <1>11 DEF HashVars, ListsAreClean, NodesOf, In
<1>12. CASE KeyValue!Next
  BY <1>3, <1>4, <1>5, <1>6, <1>7, <1>8, <1>9, <1>10, <1>12 DEF KeyValue!Next
<1>13. QED  BY <1>11, <1>12

\* Reading what a list was written to gives the list back, whatever was done with the
\* lists before: a key ends at the sign behind it, a value at its line feed, a value that
\* was never set comes back as the text printed for NULL, and a value that is empty finds
\* the buffer of the value before it, except in the first line, where CAPString_Trim
\* writes through NULL (CAPKeyValue_ReadFromBuffer, CAPKeyValue_WriteToString).
THEOREM ListsAreReadBack == ASSUME BucketsAreFound, LinesSayThem PROVE Spec => []ReadsBackWhatIsWritten
<1>a. KeyValue!KeyValueAssumption
  BY CapCommonAssumption DEF PartsAssumption
<1>1. Init => KeyValue!Init
  BY DEF Init
<1>2. [Next]_vars => [KeyValue!Next]_HashVars
  BY Zenon DEF Next, vars, HashVars
<1>3. Init => HashInv /\ ListsAreClean
  <2>1. SUFFICES ASSUME KeyValue!Init PROVE HashInv /\ ListsAreClean
    BY <1>1
  <2>2. HashInv
    BY <1>a, <2>1, HashInit
  <2>3. HashIs(KeyValue!H!Create, {}) /\ hash = [h \in Handles |-> KeyValue!H!Create]
    BY <2>1, CreatedIsEmpty DEF KeyValue!Init
  <2>4. ListsAreClean
    BY <2>3 DEF ListsAreClean, HashIs
  <2>5. QED  BY <2>2, <2>4
<1>4. HashInv /\ ListsAreClean /\ [Next]_vars => HashInv' /\ ListsAreClean'
  BY <1>a, <1>2, HashSteps, StepsClean
<1>5. HashInv /\ ListsAreClean => ReadsBackWhatIsWritten
  BY <1>a, SaysItReadsBack DEF ListsAreClean, ReadsBackWhatIsWritten
<1>6. QED  BY <1>3, <1>4, <1>5, PTL DEF Spec

-----------------------------------------------------------------------------
(* Every part takes its own steps or none *)

ListProofs == INSTANCE CAPLinkedList_proofs WITH result <- listResult, got <- listGot

LoggerProofs == INSTANCE CAPLogger_proofs

LEMMA ListRuns == Spec => ListProofs!Spec
<1>1. List!Init => ListProofs!Init
  BY Zenon DEF List!Init, ListProofs!Init, List!L!Create, ListProofs!L!Create, List!L!CURRENT_NOT_SET,
         ListProofs!L!CURRENT_NOT_SET
<1>2. [List!Next]_ListVars => [ListProofs!Next]_(ListProofs!vars)
  BY Zenon DEF ListVars, List!vars, ListProofs!vars, List!Indices, ListProofs!Indices, List!Nodes,
         ListProofs!Nodes, List!Return, ListProofs!Return, List!Add, ListProofs!Add, List!Seek,
         ListProofs!Seek, List!Get, ListProofs!Get, List!Set, ListProofs!Set, List!Remove,
         ListProofs!Remove, List!Attach, ListProofs!Attach, List!Duplicate,
         ListProofs!Duplicate, List!Destroy, ListProofs!Destroy, List!Next, ListProofs!Next,
         List!L!CURRENT_NOT_SET, ListProofs!L!CURRENT_NOT_SET, List!L!Offsets,
         ListProofs!L!Offsets, List!L!Create, ListProofs!L!Create, List!L!Size,
         ListProofs!L!Size, List!L!Place, ListProofs!L!Place, List!L!Answer,
         ListProofs!L!Answer, List!L!Walk, ListProofs!L!Walk, List!L!MoveTo,
         ListProofs!L!MoveTo, List!L!Seek, ListProofs!L!Seek, List!L!Shift, ListProofs!L!Shift,
         List!L!Link, ListProofs!L!Link, List!L!Add, ListProofs!L!Add, List!L!Find,
         ListProofs!L!Find, List!L!Get, ListProofs!L!Get, List!L!Set, ListProofs!L!Set,
         List!L!Unlink, ListProofs!L!Unlink, List!L!RemoveFirst, ListProofs!L!RemoveFirst,
         List!L!Remove, ListProofs!L!Remove, List!L!Attach, ListProofs!L!Attach, List!L!Append1,
         ListProofs!L!Append1, List!L!Filled, ListProofs!L!Filled, List!L!Duplicate,
         ListProofs!L!Duplicate, List!L!Traverse, ListProofs!L!Traverse, List!L!SeqExt!InsertAt,
         ListProofs!L!SeqExt!InsertAt, List!L!SeqExt!RemoveAt, ListProofs!L!SeqExt!RemoveAt,
         List!MapThenSumSet, ListProofs!MapThenSumSet, List!MapThenFoldSet,
         ListProofs!MapThenFoldSet
<1>3. Init => List!Init
  BY DEF Init
<1>4. [Next]_vars => [List!Next]_ListVars
  BY DEF Next, vars
<1>5. QED  BY <1>1, <1>2, <1>3, <1>4, PTL DEF Spec, ListProofs!Spec

LEMMA LoggerRuns == Spec => LoggerProofs!Spec
<1>1. Logger!Init => LoggerProofs!Init
  BY Zenon DEF Logger!Init, LoggerProofs!Init, Logger!NoWriter, LoggerProofs!NoWriter, Logger!Log, LoggerProofs!Log
<1>2. [Logger!Next]_LogVars => [LoggerProofs!Next]_(LoggerProofs!vars)
  BY Zenon DEF LogVars, Logger!vars, LoggerProofs!vars, Logger!settings, LoggerProofs!settings,
         Logger!Log, LoggerProofs!Log, Logger!MsgLevels, LoggerProofs!MsgLevels,
         Logger!LogLevel, LoggerProofs!LogLevel, Logger!NoWriter, LoggerProofs!NoWriter,
         Logger!EmptyFile, LoggerProofs!EmptyFile, Logger!With, LoggerProofs!With,
         Logger!OpenAppend, LoggerProofs!OpenAppend, Logger!OpenWrite, LoggerProofs!OpenWrite,
         Logger!CountBackups, LoggerProofs!CountBackups, Logger!Create, LoggerProofs!Create,
         Logger!Destroy, LoggerProofs!Destroy, Logger!Kill, LoggerProofs!Kill,
         Logger!AppendLine, LoggerProofs!AppendLine, Logger!NewLine, LoggerProofs!NewLine,
         Logger!GetFileSize, LoggerProofs!GetFileSize, Logger!MustRotate, LoggerProofs!MustRotate,
         Logger!MayWrite, LoggerProofs!MayWrite, Logger!Write, LoggerProofs!Write,
         Logger!FirstFileNum, LoggerProofs!FirstFileNum, Logger!CloseLog, LoggerProofs!CloseLog,
         Logger!RenameUp, LoggerProofs!RenameUp, Logger!RenameNext, LoggerProofs!RenameNext,
         Logger!OpenLog, LoggerProofs!OpenLog, Logger!WriteLine, LoggerProofs!WriteLine,
         Logger!CallFails, LoggerProofs!CallFails, Logger!Next, LoggerProofs!Next
<1>3. Init => Logger!Init
  BY DEF Init
<1>4. [Next]_vars => [Logger!Next]_LogVars
  BY DEF Next, vars
<1>5. QED  BY <1>1, <1>2, <1>3, <1>4, PTL DEF Spec, LoggerProofs!Spec

-----------------------------------------------------------------------------
(* Lists (CAPLinkedList.c) and the logger (CAPLogger.c) *)

\* Whatever calls are made on the lists, the cursor and the last pointer are on the
\* nodes the counters say.
THEOREM CursorsOnNodes == Spec => []PointersOnNodes
<1>1. ListProofs!PointersOnNodes => PointersOnNodes
  BY DEF ListProofs!PointersOnNodes, PointersOnNodes, List!PointersOnNodes, ListProofs!L!Size, List!L!Size
<1>2. QED  BY <1>1, ListRuns, ListProofs!PointersDesignateNodes, PTL

\* Whatever calls are made on the lists, in any order, each chain is the sequence
\* of data its callers built.
THEOREM ListsAreSequences == Spec => ListImplementsSequences
<1>1. ListProofs!Chains!Init => List!Chains!Init
  BY Zenon DEF ListProofs!Chains!Init, List!Chains!Init, ListProofs!Chains!Become, List!Chains!Become
<1>2. [ListProofs!Chains!Next]_(ListProofs!Chains!vars) => [List!Chains!Next]_(List!Chains!vars)
  BY Zenon DEF ListProofs!Chains!vars, List!Chains!vars, ListProofs!Chains!Become, List!Chains!Become,
         ListProofs!Chains!InsertAtPlace, List!Chains!InsertAtPlace,
         ListProofs!Chains!SeekPlace, List!Chains!SeekPlace, ListProofs!Chains!GetPlace,
         List!Chains!GetPlace, ListProofs!Chains!SetPlace, List!Chains!SetPlace,
         ListProofs!Chains!RemovePlace, List!Chains!RemovePlace, ListProofs!Chains!Concatenate,
         List!Chains!Concatenate, ListProofs!Chains!Copy, List!Chains!Copy,
         ListProofs!Chains!Fail, List!Chains!Fail, ListProofs!Chains!Renew, List!Chains!Renew,
         ListProofs!Chains!Next, List!Chains!Next
<1>3. ListProofs!Chains!Spec => List!Chains!Spec
  BY <1>1, <1>2, PTL DEF ListProofs!Chains!Spec, List!Chains!Spec
<1>4. QED
  BY <1>3, ListRuns, ListProofs!ListsAreSequences, PTL
     DEF ListProofs!ImplementsSequences, ListImplementsSequences, List!ImplementsSequences

\* The log and its backups hold lines in order and within their limits, whatever
\* limits the logger is given, whatever calls fail and wherever the process ends; and
\* they hold the newest ones until a start finds a backup missing below another.
THEOREM LogsKeepTheNewest == Spec => []NewestLinesInOrder
<1>1. LoggerProofs!NewestLinesInOrder => NewestLinesInOrder
  BY DEF NewestLinesInOrder, LoggerProofs!NewestLinesInOrder, Logger!NewestLinesInOrder,
         LoggerProofs!FilesInOrder, Logger!FilesInOrder, LoggerProofs!NewestAreKept, Logger!NewestAreKept,
         LoggerProofs!FilesStayBounded, Logger!FilesStayBounded, LoggerProofs!Kept, Logger!Kept,
         LoggerProofs!Lines, Logger!Lines, LoggerProofs!LogIsNewest, Logger!LogIsNewest,
         LoggerProofs!GivenUpLast, Logger!GivenUpLast, LoggerProofs!Log, Logger!Log
<1>2. LoggerProofs!LoggerAssumption
  BY CapCommonAssumption DEF PartsAssumption, Logger!LoggerAssumption, LoggerProofs!LoggerAssumption
<1>3. QED  BY <1>1, <1>2, LoggerRuns, LoggerProofs!LogKeepsTheNewest, PTL

=============================================================================
