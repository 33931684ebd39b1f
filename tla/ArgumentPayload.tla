-------------------------- MODULE ArgumentPayload --------------------------
(***************************************************************************)
(* replaceWithRealVariable of DBHandler.c: in the arguments of an action,  *)
(* {{user_thing_id#variable}} stands for the latest value of the variable. *)
(* What is between the braces is one character here, a reference.          *)
(***************************************************************************)
EXTENDS Integers, Sequences, FiniteSetsExt, SequencesExt

CONSTANTS References,    \* characters that name a variable of a user's thing
          Letters,       \* other characters, the two braces among them
          Recorded,      \* values, sequences of characters
          MaxSegments,   \* bound: the segments of an argument
          Open, Close    \* the two braces

ArgumentAssumption == /\ Open # Close /\ References \cap (Letters \cup {Open, Close}) = {}
                      /\ Recorded \subseteq Seq(Letters \cup References \cup {Open, Close})

VARIABLES segments,      \* the argument as its user means it: letters and references
          latest         \* the latest value of things_variablehistory, if there is a row

vars == <<segments, latest>>

NoRow == <<"no row">>

Segments == {<<a>> : a \in Letters} \cup {<<Open, Open, r, Close, Close>> : r \in References}

ReferenceIn(segment) == segment[3]

Payload == FlattenSeq(segments)

-----------------------------------------------------------------------------
(* replaceWithRealVariable *)

OpensAt(payload, i) == i < Len(payload) /\ payload[i] = Open /\ payload[i + 1] = Open

ClosingsBehind(payload, i) ==
    {j \in (i + 2)..(Len(payload) - 1) : payload[j] = Close /\ payload[j + 1] = Close}

\* What stands between the braces opening at i and the first ones that close.
UserArgument(payload, i) == SubSeq(payload, i + 2, Min(ClosingsBehind(payload, i)) - 1)

HasRow(name) == Len(name) = 1 /\ name[1] \in References /\ latest[name[1]] # NoRow

\* Mutant: goes on at the second closing brace instead of behind it.
replaceKeepsABrace(payload) ==
    LET final[i \in 1..(Len(payload) + 1)] ==
          IF i > Len(payload) THEN <<>>
          ELSE IF OpensAt(payload, i) /\ HasRow(UserArgument(payload, i))
               THEN latest[payload[i + 2]] \o final[Min(ClosingsBehind(payload, i)) + 1]
               ELSE <<payload[i]>> \o final[i + 1]
    IN  final[1]

\* A reference without a row is kept as it is, its first brace first.
replaceWithRealVariable(payload) ==
    LET final[i \in 1..(Len(payload) + 1)] ==
          IF i > Len(payload) THEN <<>>
          ELSE IF OpensAt(payload, i) /\ HasRow(UserArgument(payload, i))
               THEN latest[payload[i + 2]] \o final[Min(ClosingsBehind(payload, i)) + 2]
               ELSE <<payload[i]>> \o final[i + 1]
    IN  final[1]

\* Braces that open are closed further on and hold something; the code computes
\* with an index it has not set when they are not closed, and reads a number
\* from NULL when they are empty.
IsDelimited(payload) ==
    \A i \in 1..Len(payload) :
       OpensAt(payload, i) => ClosingsBehind(payload, i) # {} /\ UserArgument(payload, i) # <<>>

-----------------------------------------------------------------------------
Init == segments = <<>> /\ latest = [r \in References |-> NoRow]

Write(segment) == /\ Len(segments) < MaxSegments
                  /\ segments' = Append(segments, segment)
                  /\ UNCHANGED latest

\* The thing manager adds a row.
Record(r, value) == /\ latest' = [latest EXCEPT ![r] = value]
                    /\ UNCHANGED segments

Next == \/ \E segment \in Segments : Write(segment)
        \/ \E r \in References, value \in Recorded : Record(r, value)

Spec == Init /\ [][Next]_vars

-----------------------------------------------------------------------------
\* In an argument whose braces are closed, every reference to a variable with a
\* value becomes that value, and everything else, single braces, braces around
\* other things and the braces inside a value included, stays as it was written.
Meaning(segment) ==
    IF Len(segment) > 1 /\ latest[ReferenceIn(segment)] # NoRow
    THEN latest[ReferenceIn(segment)] ELSE segment

ReferencesBecomeValues ==
    IsDelimited(Payload) =>
       replaceWithRealVariable(Payload) = FlattenSeq([i \in DOMAIN segments |-> Meaning(segments[i])])
=============================================================================
