SPECIFICATION Spec
CONSTANTS
    h1 = h1
    h2 = h2
    d1 = d1
    d2 = d2
    Handles = {h1, h2}
    Data = {d1, d2}
    MaxNodes = 4
    KeyCharacters = {"a", "b", "x", " ", "=", "LF", "(null)"}
    Keys <- MCKeys
    Values <- MCValues
    Texts <- MCTexts
    NoText = NoText
    NullText <- MCNullText
    LineFeed = "LF"
    Equal = "="
    Space = " "
    DEFAULT_APPEND_SIZE = 2
    nBucketSize = 2
    BucketOf <- MCBucketOf
    Letters = {"a", "b", " "}
    MaxText = 3
    Inputs <- MCInputs
    Behind = {0, 255}
    Junk = {0, 12, 64, 65}
    MaxBackupNums = {0, 1, 3}
    nMaxLogSize = 2
    enLogLevel = 3
    Sizes = {1, 3}
    MaxLines = 6
    MaxCallFailures = 1
    References = {"x", "y"}
    ArgumentLetters = {"{", "}", "a"}
    Recorded <- MCRecorded
    MaxSegments = 5
    Open = "{"
    Close = "}"
    Services = {"clock", "news", "lamp"}
    UserThings <- MCUserThings
    ThingsOf <- MCThingsOf
    Users = {"u1", "u2"}
    NoCustomer = "null"
    EveryUser = "-1"
    Customer <- MCCustomer
    Messages <- MCMessages
    NoMessage <- MCNoMessage
    MaxMessages = 3
    MaxErrors = 1
INVARIANTS PointersOnNodes ReadsBackWhatIsWritten TextFitsBuffer FindsTheNeedle
           DecodesWhatWasEncoded NewestLinesInOrder ReferencesBecomeValues ValuesReachEveryThing
PROPERTIES ListImplementsSequences HashImplementsDictionary
CHECK_DEADLOCK FALSE
