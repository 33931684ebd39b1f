----------------------------- MODULE CapCommon -----------------------------
(***************************************************************************)
(* The library of src/common/capcommon, and two parts of DBHandler.c: the  *)
(* arguments it makes and the values of services.  The parts share nothing *)
(* with each other, so a behaviour exercises one of them, chosen at the    *)
(* start as unit, and leaves the others as created.                        *)
(***************************************************************************)
EXTENDS Integers, Sequences

CONSTANTS Handles, Data, MaxNodes,                          \* CAPLinkedList
          KeyCharacters, Keys, Values, Texts, NoText, NullText, LineFeed, Equal, Space,   \* CAPKeyValue
          DEFAULT_APPEND_SIZE, nBucketSize, BucketOf(_),
          Letters, MaxText,                                 \* CAPString
          Inputs, Behind, Junk,                             \* CAPBase64
          MaxBackupNums, nMaxLogSize, enLogLevel, Sizes, MaxLines, MaxCallFailures,  \* CAPLogger
          References, ArgumentLetters, Recorded, MaxSegments, Open, Close,  \* ArgumentPayload
          Services, UserThings, ThingsOf, Users, NoCustomer, Customer, EveryUser,    \* VariableHistory
          Messages, NoMessage, MaxMessages, MaxErrors

VARIABLES unit,
          list, listResult, listGot,                \* CAPLinkedList
          hash, hashResult, hashGot,                \* CAPHash, CAPKeyValue
          str, arg, overran, crashed,               \* CAPString
          data, encoded, decoded,                   \* CAPBase64
          file, nMaxBackupNum, nBackupNum, isCreated, writer, isLocked, callFailures, written, miscounted,  \* CAPLogger
          segments, latest,                         \* ArgumentPayload
          pc, msg, userThings, recorded, nErrors, nMessages, due  \* VariableHistory

List == INSTANCE CAPLinkedList WITH result <- listResult, got <- listGot

KeyValue == INSTANCE CAPKeyValue WITH
               Characters <- KeyCharacters, result <- hashResult, got <- hashGot

Str == INSTANCE CAPString

Base64 == INSTANCE CAPBase64

Logger == INSTANCE CAPLogger

Argument == INSTANCE ArgumentPayload WITH Letters <- ArgumentLetters

History == INSTANCE VariableHistory

PartsAssumption == /\ KeyValue!KeyValueAssumption /\ Str!StringAssumption
                   /\ Base64!CodingAssumption /\ Logger!LoggerAssumption /\ 0 \in MaxBackupNums
                   /\ Argument!ArgumentAssumption /\ History!HistoryAssumption
ASSUME CapCommonAssumption == PartsAssumption

Init == /\ unit \in {"History", "Argument", "List", "KeyValue", "Str", "Base64", "Logger"}
        /\ List!Init /\ KeyValue!Init /\ Str!Init /\ Base64!Init /\ Logger!Init /\ Argument!Init /\ History!Init
        /\ unit # "Logger" => nMaxBackupNum = 0

ListVars == <<list, listResult, listGot>>
HashVars == <<hash, hashResult, hashGot>>
TextVars == <<str, arg, overran, crashed>>
CodingVars == <<data, encoded, decoded>>
LogVars == <<file, nMaxBackupNum, nBackupNum, isCreated, writer, isLocked, callFailures, written, miscounted>>
ArgumentVars == <<segments, latest>>
HistoryVars == <<pc, msg, userThings, recorded, nErrors, nMessages, due>>

Next ==
    /\ UNCHANGED unit
    /\ \/ /\ unit = "List" /\ List!Next
          /\ UNCHANGED <<HashVars, TextVars, CodingVars, LogVars, ArgumentVars, HistoryVars>>
       \/ /\ unit = "KeyValue" /\ KeyValue!Next
          /\ UNCHANGED <<ListVars, TextVars, CodingVars, LogVars, ArgumentVars, HistoryVars>>
       \/ /\ unit = "Str" /\ Str!Next
          /\ UNCHANGED <<ListVars, HashVars, CodingVars, LogVars, ArgumentVars, HistoryVars>>
       \/ /\ unit = "Base64" /\ Base64!Next
          /\ UNCHANGED <<ListVars, HashVars, TextVars, LogVars, ArgumentVars, HistoryVars>>
       \/ /\ unit = "Argument" /\ Argument!Next
          /\ UNCHANGED <<ListVars, HashVars, TextVars, CodingVars, LogVars, HistoryVars>>
       \/ /\ unit = "History" /\ History!Next
          /\ UNCHANGED <<ListVars, HashVars, TextVars, CodingVars, LogVars, ArgumentVars>>
       \/ /\ unit = "Logger" /\ Logger!Next
          /\ UNCHANGED <<ListVars, HashVars, TextVars, CodingVars, ArgumentVars, HistoryVars>>

vars == <<unit, ListVars, HashVars, TextVars, CodingVars, LogVars, ArgumentVars, HistoryVars>>

Spec == Init /\ [][Next]_vars

-----------------------------------------------------------------------------
\* The pointers and the length kept beside a chain of nodes agree with it.
PointersOnNodes == List!PointersOnNodes

\* Every chain is the sequence its callers built (CAPLinkedList.c).
ListImplementsSequences == List!ImplementsSequences

\* Every key-value list is the dictionary its callers built (CAPHash.c, CAPKeyValue.c).
HashImplementsDictionary == KeyValue!ImplementsDictionary

\* What CAPKeyValue_WriteToString writes, CAPKeyValue_ReadFromBuffer reads back.
ReadsBackWhatIsWritten == KeyValue!ReadsBackWhatIsWritten

\* A text and its terminator lie within their buffer, and only two calls go outside it
\* (CAPString.c).
TextFitsBuffer == Str!TextFitsBuffer

\* CAPString_FindString is right about what it finds.
FindsTheNeedle == Str!FindsTheNeedle

\* CAPBase64_Decode gives back the bytes that were encoded.
DecodesWhatWasEncoded == Base64!DecodesWhatWasEncoded

\* The log and its backups hold the newest lines in order, within their limits (CAPLogger.c).
NewestLinesInOrder == Logger!NewestLinesInOrder

\* replaceWithRealVariable puts the latest values in the place of their references and
\* changes nothing else (DBHandler.c).
ReferencesBecomeValues == Argument!ReferencesBecomeValues

\* The value of a service's variable is recorded once for each user it is meant for
\* (handleServiceMessage of ThingManager.c, DBHandler.c).
ValuesReachEveryThing == History!ValuesReachEveryThing
=============================================================================
