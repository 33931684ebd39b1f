------------------------------ MODULE CAPLogger ------------------------------
(***************************************************************************)
(* CAPLogger.c with the calls of CAPFile.c it makes: lines are appended to *)
(* the log file, and when it would grow past its limit it is renamed to    *)
(* backup 0, backup 0 to 1 and so on, and a new one is opened.  File -1 is *)
(* the log, file n its backup n; the domain of file are those that exist,  *)
(* each with its lines and the size that CAPFile_GetFileSize is told.  The *)
(* process may end between any two calls on the files.                     *)
(***************************************************************************)
EXTENDS Integers, Sequences

CONSTANTS MaxBackupNums,   \* values of nMaxBackupNum to choose from
          nMaxLogSize,
          enLogLevel,      \* the level of the logger
          Sizes,           \* sizes of the lines
          MaxLines,        \* bound: the lines ever written
          MaxCallFailures  \* bound: how often a call of CAPFile.c or malloc fails

LoggerAssumption == /\ MaxBackupNums \subseteq Nat /\ Sizes \subseteq Nat
                    /\ nMaxLogSize \in Nat

VARIABLES file, nMaxBackupNum, nBackupNum, isCreated,
          writer,          \* the rotation under way: its next step, nFileNum and the size of its line
          isLocked,        \* a call has returned with the lock held
          callFailures,
          written,         \* history: the lines written, oldest first
          miscounted       \* history: a CAPLogger_Create has counted fewer backups than there are

settings == <<nMaxBackupNum, isCreated>>
vars == <<file, nBackupNum, settings, writer, isLocked, callFailures, written, miscounted>>

Log == -1
MsgLevels == {"NONE", "INFO", "ERROR", "WARN", "DETAIL", "DEBUG"}

\* convertLogMsgLevelToLogLevel
LogLevel(enMsgLevel) == CASE enMsgLevel = "NONE"              -> 0
                          [] enMsgLevel \in {"INFO", "ERROR"} -> 1
                          [] enMsgLevel = "WARN"              -> 2
                          [] enMsgLevel = "DETAIL"            -> 3
                          [] enMsgLevel = "DEBUG"             -> 4

NoWriter == [at |-> "none", nFileNum |-> Log, size |-> 0]

Init == /\ nMaxBackupNum \in MaxBackupNums
        /\ file = [n \in {} |-> <<>>]
        /\ nBackupNum = 0
        /\ isCreated = FALSE /\ isLocked = FALSE
        /\ writer = NoWriter
        /\ callFailures = 0
        /\ written = <<>> /\ miscounted = FALSE

EmptyFile == [lines |-> <<>>, size |-> 0]

\* CAPFile_Open: "a+" keeps what the file has, "w+" does not.
With(f, n, content) == [m \in DOMAIN f \cup {n} |-> IF m = n THEN content ELSE f[m]]
OpenAppend(f) == IF Log \in DOMAIN f THEN f ELSE With(f, Log, EmptyFile)
OpenWrite(f)  == With(f, Log, EmptyFile)

\* Counting stops at the first backup that is missing and at the limit.
CountBackups(f) ==
    LET missing == {n \in 0..nMaxBackupNum : n = nMaxBackupNum \/ n \notin DOMAIN f} IN
    CHOOSE n \in missing : \A m \in missing : n <= m

Create == /\ ~isCreated
          /\ file' = OpenAppend(file)
          /\ nBackupNum' = CountBackups(file)
          /\ isCreated' = TRUE
          /\ miscounted' = (miscounted \/ \E n \in DOMAIN file : n >= CountBackups(file))
          /\ UNCHANGED <<nMaxBackupNum, writer, isLocked, callFailures, written>>

\* Every line has been flushed when it was written.
Destroy == /\ isCreated /\ ~isLocked /\ writer.at = "none"
           /\ isCreated' = FALSE /\ nBackupNum' = 0
           /\ UNCHANGED <<file, nMaxBackupNum, writer, isLocked, callFailures, written, miscounted>>

\* The process ends, whatever its threads are doing; the files stay as they are.
Kill == /\ isCreated
        /\ isCreated' = FALSE /\ isLocked' = FALSE
        /\ writer' = NoWriter /\ nBackupNum' = 0
        /\ UNCHANGED <<file, nMaxBackupNum, callFailures, written, miscounted>>

AppendLine(f, line) ==
    [f EXCEPT ![Log] = [lines |-> Append(@.lines, line), size |-> @.size + line.size]]

NewLine(size) == [id |-> Len(written) + 1, size |-> size]

GetFileSize == file[Log].size

MustRotate(size) == GetFileSize + size > nMaxLogSize

\* A thread has the lock, and the log is open.
MayWrite == isCreated /\ ~isLocked /\ writer.at = "none" /\ Len(written) < MaxLines

\* A line that fits, or one of a level the logger leaves out.
Write(enMsgLevel, size) ==
    \/ LogLevel(enMsgLevel) > enLogLevel /\ UNCHANGED vars
    \/ /\ LogLevel(enMsgLevel) <= enLogLevel
       /\ MayWrite /\ ~MustRotate(size)
       /\ file' = AppendLine(file, NewLine(size))
       /\ written' = Append(written, NewLine(size))
       /\ UNCHANGED <<nBackupNum, settings, writer, isLocked, callFailures, miscounted>>

\* A mutant: the loop leaves out the last backup.
FirstFileNumLow == IF nBackupNum = 0 THEN Log ELSE nBackupNum - 2

\* Where the loop that renames starts; it goes down to the log, -1.
FirstFileNum == nBackupNum - 1

\* A line that does not fit: the log is closed, ...
CloseLog(size) ==
    /\ MayWrite /\ MustRotate(size)
    /\ writer' = [at       |-> IF nMaxBackupNum = 0 THEN "open" ELSE "rename",
                  nFileNum |-> FirstFileNum, size |-> size]
    /\ UNCHANGED <<file, nBackupNum, settings, isLocked, callFailures, written, miscounted>>

\* rename() of file n to n + 1; without file n it fails and nobody looks.
RenameUp(f, n) == IF n \notin DOMAIN f THEN f
                  ELSE [m \in (DOMAIN f \ {n}) \cup {n + 1} |-> IF m = n + 1 THEN f[n] ELSE f[m]]

\* ... one round of the loop renames one file, leaving out the backups at the
\* limit; with the log nBackupNum counts the rotation, past the limit too, ...
RenameNext ==
    LET n == writer.nFileNum IN
    /\ isCreated /\ writer.at = "rename"
    /\ file' = IF n < nMaxBackupNum - 1 THEN RenameUp(file, n) ELSE file
    /\ nBackupNum' = IF n = Log THEN nBackupNum + 1 ELSE nBackupNum
    /\ writer' = IF n = Log THEN [writer EXCEPT !.at = "open"] ELSE [writer EXCEPT !.nFileNum = n - 1]
    /\ UNCHANGED <<settings, isLocked, callFailures, written, miscounted>>

\* ... a new log is opened, ...
OpenLog ==
    /\ isCreated /\ writer.at = "open"
    /\ file' = OpenWrite(file)
    /\ writer' = [writer EXCEPT !.at = "write"]
    /\ UNCHANGED <<nBackupNum, settings, isLocked, callFailures, written, miscounted>>

\* ... and the line is written.
WriteLine ==
    /\ isCreated /\ writer.at = "write"
    /\ file' = AppendLine(file, NewLine(writer.size))
    /\ written' = Append(written, NewLine(writer.size))
    /\ writer' = NoWriter
    /\ UNCHANGED <<nBackupNum, settings, isLocked, callFailures, miscounted>>

\* The size cannot be told, the log not be closed or opened, or there is no memory
\* for a name: the function returns with the lock held, and every later call of
\* any thread waits for it.
CallFails ==
    /\ isCreated /\ ~isLocked /\ writer.at \in {"none", "rename", "open"}
    /\ callFailures < MaxCallFailures
    /\ isLocked' = TRUE
    /\ writer' = NoWriter
    /\ callFailures' = callFailures + 1
    /\ UNCHANGED <<file, nBackupNum, settings, written, miscounted>>

Next == \/ Create \/ Destroy \/ Kill
        \/ RenameNext \/ OpenLog \/ WriteLine \/ CallFails
        \/ \E size \in Sizes : CloseLog(size) \/ \E m \in MsgLevels : Write(m, size)

Spec == Init /\ [][Next]_vars

-----------------------------------------------------------------------------
Lines(n) == file[n].lines
Kept == {id \in DOMAIN written : \E n \in DOMAIN file : \E i \in DOMAIN Lines(n) : Lines(n)[i].id = id}

\* A file holds lines that were written one after the other, the older ones in the
\* files of higher numbers.
FilesInOrder ==
    \A n \in DOMAIN file : \A i \in DOMAIN Lines(n) :
       LET line == Lines(n)[i] IN
       /\ line.id \in DOMAIN written /\ line = written[line.id]
       /\ \A j \in DOMAIN Lines(n) : Lines(n)[j].id = line.id + (j - i)
       /\ \A m \in DOMAIN file : m < n => \A j \in DOMAIN Lines(m) : line.id < Lines(m)[j].id

\* What is kept is what was written last.
NewestAreKept == \A k \in Kept : k..Len(written) \subseteq Kept

\* The log ends with the line written last, unless it is empty.
LogIsNewest == Log \in DOMAIN file /\ Lines(Log) # <<>> => Lines(Log)[Len(Lines(Log))].id = Len(written)

\* No file outgrows the limit unless one line alone does, and there are never
\* more backups than the limit, although nBackupNum counts on.
FilesStayBounded ==
    \A n \in DOMAIN file : /\ n < nMaxBackupNum
                           /\ file[n].size <= nMaxLogSize \/ Len(Lines(n)) = 1

\* A line is given up only when every place but one is in use: the one that a
\* rotation has just emptied.
GivenUpLast ==
    Kept # DOMAIN written => \A m, n \in (Log..(nMaxBackupNum - 1)) \ DOMAIN file : m = n

\* Read from the oldest backup to the log, the files hold lines in the order they
\* were written and stay within their limits, wherever in a rotation a call fails
\* or the process ends; and they hold the newest lines, and give up the oldest only
\* for want of a backup, until a CAPLogger_Create finds a backup missing below
\* another, which a process that ended between two renames leaves behind.
NewestLinesInOrder ==
    /\ FilesInOrder /\ LogIsNewest /\ FilesStayBounded
    /\ miscounted \/ (NewestAreKept /\ GivenUpLast)
=============================================================================
