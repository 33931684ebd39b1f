------------------------------ MODULE CAPBase64 ------------------------------
(***************************************************************************)
(* CAPBase64.c.  A character of the code alphabet is its value 0..63; Pad  *)
(* is '=' and Nul the terminator.  Both directions read memory behind what *)
(* they were given; what lies there is chosen freely.                      *)
(***************************************************************************)
EXTENDS Integers, Sequences, FiniteSets

CONSTANTS Inputs,      \* the byte sequences to encode
          Behind,      \* bytes that may lie behind them
          Junk         \* characters that may lie behind an encoded text

CodingAssumption == Inputs \subseteq Seq(0..255) /\ Behind \subseteq 0..255

Nul == 64
Pad == 65

VARIABLES data, encoded, decoded

vars == <<data, encoded, decoded>>

Init == data = <<>> /\ encoded = <<>> /\ decoded = [done |-> FALSE, junk |-> <<>>, bytes |-> <<>>, size |-> 0]

-----------------------------------------------------------------------------
\* A mutant: the terminator is not counted.
EncodedLenBare(nLen) == ((nLen + 2) \div 3) * 4

\* How many groups the three-byte, four-character loops run through.
EncodedLen(nLen) == ((nLen + 2) \div 3) * 4 + 1

\* The bit fields of the union BF, most significant first.
Sextets(c3, c2, c1) == <<c3 \div 4, (c3 % 4) * 16 + c2 \div 16, (c2 % 16) * 4 + c1 \div 64, c1 % 64>>
Bytes(e4, e3, e2, e1) == <<e4 * 4 + e3 \div 16, (e3 % 16) * 16 + e2 \div 4, (e2 % 4) * 64 + e1>>

\* One turn of the encoding loop at byte ni.  The test before the second byte is
\* off by one, so the byte behind the data takes part; so it does as the third
\* byte of a group of two.
EncodeGroup(d, behind, ni) ==
    LET n       == Len(d)
        Byte(i) == IF i < n THEN d[i + 1] ELSE behind
        s       == Sextets(Byte(ni), IF ni > n - 1 THEN 0 ELSE Byte(ni + 1),
                           IF ni > n - 2 THEN 0 ELSE Byte(ni + 2))
    IN <<s[1], s[2], IF ni > n - 2 THEN Pad ELSE s[3], IF ni > n - 3 THEN Pad ELSE s[4]>>

\* The text before its terminator.
Encoded(d, behind) ==
    [i \in 1..(EncodedLen(Len(d)) - 1) |->
        EncodeGroup(d, behind, ((i - 1) \div 4) * 3)[((i - 1) % 4) + 1]]

\* CAPBase64_Decode_Len stops at the first character outside the alphabet.
DecodedLen(e) ==
    LET stops == {i \in 1..Len(e) : e[i] >= Nul}
        n     == IF stops = {} THEN Len(e) ELSE (CHOOSE i \in stops : \A j \in stops : i <= j) - 1
    IN ((n + 3) \div 4) * 3

\* The loop is bounded by the encoded length, which counts the terminator: it
\* runs once more over the terminator and what lies behind it.  A pad there is
\* counted as a blank too.
Decode(e, junk) ==
    LET n       == DecodedLen(e)
        turns   == 1..((EncodedLen(n) + 3) \div 4)
        Char(i) == IF i <= Len(e) THEN e[i] ELSE IF i = Len(e) + 1 THEN Nul ELSE junk[i - Len(e) - 1]
        Six(i)  == IF Char(i) >= Nul THEN 0 ELSE Char(i)
        Group(g) == Bytes(Six(4 * g - 3), Six(4 * g - 2), Six(4 * g - 1), Six(4 * g))
        pads    == {i \in {4 * g - 1 : g \in turns} \cup {4 * g : g \in turns} : Char(i) = Pad}
        size    == n - Cardinality(pads)
    IN [done  |-> TRUE, junk |-> junk, size |-> size,
        bytes |-> [i \in 1..(IF size < 0 THEN 0 ELSE size) |-> Group((i - 1) \div 3 + 1)[((i - 1) % 3) + 1]]]

-----------------------------------------------------------------------------
EncodeIt(d, behind) == /\ encoded = <<>> /\ ~decoded.done
                       /\ data' = d
                       /\ encoded' = Encoded(d, behind)
                       /\ UNCHANGED decoded

DecodeIt(junk) == /\ ~decoded.done
                  /\ decoded' = Decode(encoded, junk)
                  /\ UNCHANGED <<data, encoded>>

Next == \/ \E d \in Inputs, b \in Behind : EncodeIt(d, b)
        \/ \E junk \in Junk \X Junk \X Junk : DecodeIt(junk)

Spec == Init /\ [][Next]_vars

-----------------------------------------------------------------------------
\* Decoding what was encoded gives the bytes back, whatever lay behind them when
\* they were encoded and although the last group is padded.  A pad sign behind
\* the terminator takes a byte off the end, and changes nothing else.
DecodesWhatWasEncoded ==
    decoded.done => /\ decoded.size = Len(data) - Cardinality({i \in 2..3 : decoded.junk[i] = Pad})
                    /\ decoded.bytes = SubSeq(data, 1, decoded.size)
=============================================================================
