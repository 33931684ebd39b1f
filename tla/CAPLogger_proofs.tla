-------------------------- MODULE CAPLogger_proofs --------------------------
(***************************************************************************)
(* For any limits, levels and sizes of lines and any number of backups,    *)
(* the log and its backups hold lines in order within their limits, and    *)
(* the newest ones, through rotations, calls that fail and processes that  *)
(* end between any two steps.                                              *)
(***************************************************************************)
EXTENDS CAPLogger, WellFoundedInduction, TLAPS

-----------------------------------------------------------------------------
(* Numbers *)

\* A set of natural numbers has a least element (NatLessThanWellFounded).
LEMMA Least ==
    ASSUME NEW T \in SUBSET Nat, T # {}
    PROVE  \E x \in T : \A y \in T : x <= y
<1>1. \E x \in T : \A y \in T : ~(<<y, x>> \in OpToRel(<, Nat))
  BY NatLessThanWellFounded, WFMin
<1>2. ASSUME NEW x \in T, \A y \in T : ~(<<y, x>> \in OpToRel(<, Nat)) PROVE \A y \in T : x <= y
  <2>1. \A y \in T : ~(y < x)
    BY <1>2 DEF OpToRel
  <2>2. QED  BY <2>1
<1>3. QED  BY <1>1, <1>2

-----------------------------------------------------------------------------
(* Files and the lines written, as values *)

Line == [id : Nat, size : Nat]

File == [lines : Seq(Line), size : Nat]

\* The log and the backups up to the limit.
Places == -1..(nMaxBackupNum - 1)

Typed(f, w) ==
    /\ DOMAIN f \in SUBSET Places /\ f \in [DOMAIN f -> File]
    /\ w \in Seq(Line) /\ \A i \in DOMAIN w : w[i].id = i

Holds(f, n, id) == \E i \in DOMAIN f[n].lines : f[n].lines[i].id = id

KeptIn(f, w) == {id \in DOMAIN w : \E n \in DOMAIN f : Holds(f, n, id)}

\* The conjuncts of NewestLinesInOrder.
AreWritten(f, w) ==
    \A n \in DOMAIN f : \A i \in DOMAIN f[n].lines :
       f[n].lines[i].id \in DOMAIN w /\ f[n].lines[i] = w[f[n].lines[i].id]
Consecutive(f) ==
    \A n \in DOMAIN f : \A i, j \in DOMAIN f[n].lines :
       f[n].lines[j].id = f[n].lines[i].id + (j - i)
OldestHighest(f) ==
    \A m, n \in DOMAIN f : m < n =>
       \A i \in DOMAIN f[n].lines, j \in DOMAIN f[m].lines : f[n].lines[i].id < f[m].lines[j].id
Ends(f, w) ==
    Log \in DOMAIN f /\ f[Log].lines # <<>> => f[Log].lines[Len(f[Log].lines)].id = Len(w)
Bounded(f) ==
    \A n \in DOMAIN f : n < nMaxBackupNum /\ (f[n].size <= nMaxLogSize \/ Len(f[n].lines) = 1)

\* What holds of the files wherever a process has ended ...
Good(f, w) == /\ Typed(f, w) /\ AreWritten(f, w) /\ Consecutive(f) /\ OldestHighest(f)
              /\ Ends(f, w) /\ Bounded(f)

Newest(f, w) == \A k \in KeptIn(f, w) : k..Len(w) \subseteq KeptIn(f, w)
OneFree(f, w) == KeptIn(f, w) # DOMAIN w => \A m, n \in Places \ DOMAIN f : m = n

\* ... and until a backup is missing below another.
Full(f, w) == Newest(f, w) /\ OneFree(f, w)

LEMMA Types ==
    ASSUME NEW f, NEW w, Typed(f, w)
    PROVE  /\ \A n \in DOMAIN f : /\ n \in Int /\ n >= -1 /\ f[n].lines \in Seq(Line) /\ f[n].size \in Nat
                                  /\ Len(f[n].lines) \in Nat /\ DOMAIN f[n].lines = 1..Len(f[n].lines)
                                  /\ \A i \in DOMAIN f[n].lines : f[n].lines[i].id \in Nat
           /\ Len(w) \in Nat /\ DOMAIN w = 1..Len(w)
<1>1. ASSUME NEW n \in DOMAIN f PROVE f[n] \in File /\ n \in Places
  BY DEF Typed
<1>2. ASSUME NEW n \in DOMAIN f PROVE n \in Int /\ n >= -1 /\ f[n].lines \in Seq(Line) /\ f[n].size \in Nat
  BY <1>1 DEF File, Places
<1>3. ASSUME NEW s \in Seq(Line) PROVE Len(s) \in Nat /\ DOMAIN s = 1..Len(s) /\ \A i \in DOMAIN s : s[i].id \in Nat
  <2>1. Len(s) \in Nat /\ DOMAIN s = 1..Len(s) /\ \A i \in 1..Len(s) : s[i] \in Line
    OBVIOUS
  <2>2. \A l \in Line : l.id \in Nat
    BY DEF Line
  <2>3. QED  BY <2>1, <2>2
<1>4. w \in Seq(Line)
  BY DEF Typed
<1>5. QED  BY <1>2, <1>3, <1>4

\* A line that fits, or the first of an empty log, is appended.
LEMMA AppendKeeps ==
    ASSUME NEW f, NEW w, Good(f, w), Log \in DOMAIN f,
           NEW line \in Line, line.id = Len(w) + 1,
           f[Log].size + line.size <= nMaxLogSize \/ f[Log].lines = <<>>
    PROVE  /\ Good(AppendLine(f, line), Append(w, line)) /\ DOMAIN AppendLine(f, line) = DOMAIN f
           /\ Full(f, w) => Full(AppendLine(f, line), Append(w, line))
<1> DEFINE s == f[Log].lines
           g == AppendLine(f, line)
           v == Append(w, line)
<1>1. Typed(f, w)
  BY DEF Good
<1>2. /\ Len(s) \in Nat /\ DOMAIN s = 1..Len(s) /\ Len(w) \in Nat /\ DOMAIN w = 1..Len(w)
      /\ \A i \in DOMAIN s : s[i].id \in Nat
      /\ s \in Seq(Line) /\ f[Log].size \in Nat /\ w \in Seq(Line)
  BY <1>1, Types DEF Typed
<1>3. /\ DOMAIN g = DOMAIN f
      /\ g[Log] = [lines |-> Append(s, line), size |-> f[Log].size + line.size]
      /\ \A n \in DOMAIN f : n # Log => g[n] = f[n]
  BY DEF AppendLine
<1>4. /\ g[Log].lines = Append(s, line) /\ g[Log].size = f[Log].size + line.size
  BY <1>3
<1>5. /\ v \in Seq(Line) /\ Len(v) = Len(w) + 1 /\ DOMAIN v = 1..(Len(w) + 1)
      /\ v[Len(w) + 1] = line /\ \A i \in DOMAIN w : v[i] = w[i]
  BY <1>2
<1>6. /\ Append(s, line) \in Seq(Line) /\ DOMAIN Append(s, line) = 1..(Len(s) + 1)
      /\ Len(Append(s, line)) = Len(s) + 1
      /\ Append(s, line)[Len(s) + 1] = line /\ \A i \in DOMAIN s : Append(s, line)[i] = s[i]
  BY <1>2
<1> HIDE DEF g, v
\* The lines of g are those of f and the new one.
<1>7. ASSUME NEW n \in DOMAIN g, NEW i \in DOMAIN g[n].lines
      PROVE  \/ i \in DOMAIN f[n].lines /\ g[n].lines[i] = f[n].lines[i]
             \/ n = Log /\ i = Len(s) + 1 /\ g[n].lines[i] = line
  <2>1. CASE n = Log
    BY <1>2, <1>4, <1>6, <2>1
  <2>2. CASE n # Log
    BY <1>3, <2>2
  <2>3. QED  BY <2>1, <2>2
<1>8. ASSUME NEW n \in DOMAIN f, NEW i \in DOMAIN f[n].lines
      PROVE  i \in DOMAIN g[n].lines /\ g[n].lines[i] = f[n].lines[i]
  <2>1. CASE n = Log
    BY <1>2, <1>4, <1>6, <2>1
  <2>2. CASE n # Log
    BY <1>3, <2>2
  <2>3. QED  BY <2>1, <2>2
<1>9. Typed(g, v)
  <2>1. ASSUME NEW n \in DOMAIN g PROVE g[n] \in File
    <3>1. CASE n = Log
      <4>1. f[Log].size + line.size \in Nat
        BY <1>2 DEF Line
      <4>2. g[n] = [lines |-> Append(s, line), size |-> f[Log].size + line.size]
        BY <1>3, <3>1
      <4>3. QED  BY <1>6, <4>1, <4>2 DEF File
    <3>2. CASE n # Log
      BY <1>1, <1>3, <3>2 DEF Typed
    <3>3. QED  BY <3>1, <3>2
  <2>2. g \in [DOMAIN g -> File]
    <3>1. g = [n \in DOMAIN g |-> g[n]]
      BY DEF g, AppendLine
    <3>2. QED  BY <2>1, <3>1
  <2>3. \A i \in DOMAIN v : v[i].id = i
    BY <1>1, <1>2, <1>5 DEF Typed
  <2>4. QED  BY <1>1, <1>3, <1>5, <2>2, <2>3 DEF Typed
<1>10. AreWritten(g, v)
  <2> SUFFICES ASSUME NEW n \in DOMAIN g, NEW i \in DOMAIN g[n].lines
               PROVE  g[n].lines[i].id \in DOMAIN v /\ g[n].lines[i] = v[g[n].lines[i].id]
    BY DEF AreWritten
  <2>1. CASE i \in DOMAIN f[n].lines /\ g[n].lines[i] = f[n].lines[i]
    <3>1. f[n].lines[i].id \in DOMAIN w /\ f[n].lines[i] = w[f[n].lines[i].id]
      BY <1>3, <2>1 DEF Good, AreWritten
    <3>2. QED  BY <1>2, <1>5, <2>1, <3>1
  <2>2. CASE g[n].lines[i] = line
    BY <1>2, <1>5, <2>2
  <2>3. QED  BY <1>7, <2>1, <2>2
<1>11. ASSUME NEW i \in DOMAIN s PROVE line.id = s[i].id + (Len(s) + 1 - i)
  <2>1. s[Len(s)].id = Len(w)
    BY <1>2 DEF Good, Ends
  <2>2. s[Len(s)].id = s[i].id + (Len(s) - i)
    <3>1. Len(s) \in DOMAIN s
      BY <1>2
    <3>2. QED  BY <3>1 DEF Good, Consecutive
  <2>3. i \in Nat /\ Len(s) \in Nat /\ s[i].id \in Nat /\ Len(w) \in Nat
    BY <1>2
  <2> DEFINE idOfLine == s[i].id
             idOfLast == s[Len(s)].id
  <2>4. idOfLast = Len(w) /\ idOfLast = idOfLine + (Len(s) - i) /\ idOfLine \in Nat
    BY <2>1, <2>2, <2>3
  <2> HIDE DEF s, idOfLine, idOfLast
  <2>5. line.id = idOfLine + (Len(s) + 1 - i)
    BY <2>3, <2>4
  <2>6. QED  BY <2>5 DEF idOfLine
<1>12. Consecutive(g)
  <2> SUFFICES ASSUME NEW n \in DOMAIN g, NEW i \in DOMAIN g[n].lines, NEW j \in DOMAIN g[n].lines
               PROVE  g[n].lines[j].id = g[n].lines[i].id + (j - i)
    BY DEF Consecutive
  <2>1. CASE i \in DOMAIN f[n].lines /\ g[n].lines[i] = f[n].lines[i] /\ j \in DOMAIN f[n].lines /\ g[n].lines[j] = f[n].lines[j]
    BY <1>3, <2>1 DEF Good, Consecutive
  <2>2. CASE n = Log
    <3>1. i \in 1..(Len(s) + 1) /\ j \in 1..(Len(s) + 1)
      BY <1>4, <1>6, <2>2
    <3>2. CASE i \in DOMAIN s /\ j = Len(s) + 1
      <4>1. g[n].lines[j] = line /\ g[n].lines[i] = s[i]
        BY <1>4, <1>6, <2>2, <3>2
      <4>2. QED  BY <1>11, <3>2, <4>1
    <3>3. CASE j \in DOMAIN s /\ i = Len(s) + 1
      <4>1. g[n].lines[i] = line /\ g[n].lines[j] = s[j]
        BY <1>4, <1>6, <2>2, <3>3
      <4>2. line.id = s[j].id + (Len(s) + 1 - j) /\ s[j].id \in Nat /\ j \in Nat
        BY <1>2, <1>11, <3>3
      <4> DEFINE idOfLine == line.id
                 idOfOther == s[j].id
      <4>3. idOfLine = idOfOther + (i - j) /\ idOfOther \in Nat /\ i \in Nat /\ j \in Nat
        BY <1>2, <3>3, <4>2
      <4> HIDE DEF idOfLine, idOfOther
      <4>4. idOfOther = idOfLine + (j - i)
        BY <4>3
      <4>5. QED  BY <4>1, <4>4 DEF idOfLine, idOfOther
    <3>4. CASE i = Len(s) + 1 /\ j = Len(s) + 1
      BY <1>2, <1>4, <1>6, <2>2, <3>4
    <3>5. CASE i \in DOMAIN s /\ j \in DOMAIN s
      <4>1. s[j].id = s[i].id + (j - i)
        BY <3>5 DEF Good, Consecutive
      <4>2. QED  BY <1>4, <1>6, <2>2, <3>5, <4>1
    <3>6. QED  BY <1>2, <3>1, <3>2, <3>3, <3>4, <3>5
  <2>3. QED  BY <1>7, <2>1, <2>2
<1>13. OldestHighest(g)
  <2> SUFFICES ASSUME NEW m \in DOMAIN g, NEW n \in DOMAIN g, m < n,
                      NEW i \in DOMAIN g[n].lines, NEW j \in DOMAIN g[m].lines
               PROVE  g[n].lines[i].id < g[m].lines[j].id
    BY DEF OldestHighest
  <2>1. n # Log
    BY <1>1, <1>3, Types DEF Log
  <2>2. i \in DOMAIN f[n].lines /\ g[n].lines[i] = f[n].lines[i]
    BY <1>7, <2>1
  <2>3. CASE j \in DOMAIN f[m].lines /\ g[m].lines[j] = f[m].lines[j]
    BY <1>3, <2>2, <2>3 DEF Good, OldestHighest
  <2>4. CASE g[m].lines[j] = line
    <3>1. f[n].lines[i].id \in DOMAIN w
      BY <1>3, <2>2 DEF Good, AreWritten
    <3>2. QED  BY <1>2, <2>2, <2>4, <3>1
  <2>5. QED  BY <1>7, <2>3, <2>4
<1>14. KeptIn(g, v) = KeptIn(f, w) \cup {Len(w) + 1}
  <2>1. ASSUME NEW id \in KeptIn(g, v), id # Len(w) + 1 PROVE id \in KeptIn(f, w)
    <3>1. PICK n \in DOMAIN g : \E i \in DOMAIN g[n].lines : g[n].lines[i].id = id
      BY <2>1 DEF KeptIn, Holds
    <3>2. PICK i \in DOMAIN g[n].lines : g[n].lines[i].id = id
      BY <3>1
    <3>3. i \in DOMAIN f[n].lines /\ f[n].lines[i].id = id
      BY <1>7, <2>1, <3>2
    <3>4. id \in DOMAIN w
      BY <1>2, <1>5, <2>1 DEF KeptIn
    <3>5. QED  BY <1>3, <3>3, <3>4 DEF KeptIn, Holds
  <2>2. ASSUME NEW id \in KeptIn(f, w) PROVE id \in KeptIn(g, v)
    <3>1. PICK n \in DOMAIN f : \E i \in DOMAIN f[n].lines : f[n].lines[i].id = id
      BY <2>2 DEF KeptIn, Holds
    <3>2. PICK i \in DOMAIN f[n].lines : f[n].lines[i].id = id
      BY <3>1
    <3>3. id \in DOMAIN v
      BY <1>2, <1>5, <2>2 DEF KeptIn
    <3>4. QED  BY <1>3, <1>8, <3>2, <3>3 DEF KeptIn, Holds
  <2>3. Len(w) + 1 \in KeptIn(g, v)
    <3>1. Len(s) + 1 \in DOMAIN g[Log].lines /\ g[Log].lines[Len(s) + 1].id = Len(w) + 1
      BY <1>2, <1>4, <1>6
    <3>2. Len(w) + 1 \in DOMAIN v
      BY <1>2, <1>5
    <3>3. QED  BY <1>3, <3>1, <3>2 DEF KeptIn, Holds
  <2>4. QED  BY <2>1, <2>2, <2>3
<1>15. ASSUME Newest(f, w) PROVE Newest(g, v)
  <2> SUFFICES ASSUME NEW k \in KeptIn(g, v), NEW id \in k..Len(v) PROVE id \in KeptIn(g, v)
    BY DEF Newest
  <2>1. CASE k = Len(w) + 1 \/ id = Len(w) + 1
    BY <1>2, <1>5, <1>14, <2>1
  <2>2. CASE k \in KeptIn(f, w) /\ id # Len(w) + 1
    <3>1. k \in Nat
      BY <1>2, <2>2 DEF KeptIn
    <3>2. id \in k..Len(w)
      BY <1>2, <1>5, <2>2, <3>1
    <3>3. QED  BY <1>14, <1>15, <2>2, <3>2 DEF Newest
  <2>3. QED  BY <1>14, <2>1, <2>2
<1>16. Bounded(g)
  <2> SUFFICES ASSUME NEW n \in DOMAIN g
               PROVE  n < nMaxBackupNum /\ (g[n].size <= nMaxLogSize \/ Len(g[n].lines) = 1)
    BY DEF Bounded
  <2>1. CASE n # Log
    BY <1>3, <2>1 DEF Good, Bounded
  <2>2. CASE n = Log
    <3>1. n < nMaxBackupNum
      BY <1>3 DEF Good, Bounded
    <3>2. CASE f[Log].size + line.size <= nMaxLogSize
      BY <1>4, <2>2, <3>1, <3>2
    <3>3. CASE f[Log].lines = <<>>
      BY <1>4, <1>6, <2>2, <3>1, <3>3
    <3>4. QED  BY <3>2, <3>3
  <2>3. QED  BY <2>1, <2>2
<1>17. ASSUME OneFree(f, w) PROVE OneFree(g, v)
  <2>1. DOMAIN v = DOMAIN w \cup {Len(w) + 1}
    BY <1>2, <1>5
  <2>2. QED  BY <1>3, <1>14, <1>17, <2>1 DEF OneFree
<1>18. Ends(g, v)
  BY <1>2, <1>4, <1>5, <1>6 DEF Ends
<1>19. QED
  BY <1>3, <1>9, <1>10, <1>12, <1>13, <1>15, <1>16, <1>17, <1>18 DEF Good, Full, g, v

\* A log is made where there is none, or emptied when no backups are kept.
LEMMA EmptyLogKeeps ==
    ASSUME NEW f, NEW w, Good(f, w), Log \notin DOMAIN f \/ nMaxBackupNum = 0,
           LoggerAssumption, nMaxBackupNum \in Nat
    PROVE  /\ Good(With(f, Log, EmptyFile), w)
           /\ Full(f, w) => Full(With(f, Log, EmptyFile), w)
           /\ DOMAIN With(f, Log, EmptyFile) = DOMAIN f \cup {Log}
           /\ With(f, Log, EmptyFile)[Log] = EmptyFile
<1> DEFINE g == With(f, Log, EmptyFile)
<1>1. Typed(f, w)
  BY DEF Good
<1>2. /\ DOMAIN g = DOMAIN f \cup {Log} /\ g[Log] = EmptyFile
      /\ \A n \in DOMAIN f : n # Log => g[n] = f[n]
  BY DEF With
<1>3. /\ EmptyFile \in File /\ EmptyFile.lines = <<>> /\ EmptyFile.size = 0 /\ DOMAIN EmptyFile.lines = {}
  BY DEF EmptyFile, File
<1>4. Log \in Places
  BY DEF Log, Places
<1>5. g = [n \in DOMAIN g |-> g[n]]
  BY DEF With
<1> HIDE DEF g
\* Only the old files have lines.
<1>6. ASSUME NEW n \in DOMAIN g, NEW i \in DOMAIN g[n].lines
      PROVE  n \in DOMAIN f /\ n # Log /\ g[n] = f[n]
  BY <1>2, <1>3
<1>7. Typed(g, w)
  <2>1. \A n \in DOMAIN g : g[n] \in File
    BY <1>1, <1>2, <1>3 DEF Typed
  <2>2. DOMAIN g \in SUBSET Places
    BY <1>1, <1>2, <1>4 DEF Typed
  <2>3. g \in [DOMAIN g -> File]
    BY <1>5, <2>1
  <2>4. QED  BY <1>1, <2>2, <2>3 DEF Typed
<1>8. AreWritten(g, w)
  BY <1>6 DEF Good, AreWritten
<1>9. Consecutive(g)
  BY <1>6 DEF Good, Consecutive
<1>10. OldestHighest(g)
  BY <1>6 DEF Good, OldestHighest
<1>11. \/ KeptIn(g, w) = {} /\ nMaxBackupNum = 0
       \/ KeptIn(g, w) = KeptIn(f, w)
  <2>1. CASE nMaxBackupNum = 0
    <3>1. \A n \in DOMAIN g : n = Log
      BY <1>7, <2>1 DEF Typed, Places, Log
    <3>2. KeptIn(g, w) = {}
      BY <1>6, <3>1 DEF KeptIn, Holds
    <3>3. QED  BY <2>1, <3>2
  <2>2. CASE Log \notin DOMAIN f
    <3>1. \A n \in DOMAIN f : n \in DOMAIN g /\ g[n] = f[n]
      BY <1>2, <2>2
    <3>2. QED  BY <1>6, <3>1 DEF KeptIn, Holds
  <2>3. QED  BY <2>1, <2>2
<1>12. Newest(f, w) => Newest(g, w)
  BY <1>11 DEF Newest
<1>13. Bounded(g)
  <2>1. Log < nMaxBackupNum
    BY DEF Log
  <2>2. g[Log].size <= nMaxLogSize
    BY <1>2, <1>3 DEF LoggerAssumption
  <2>3. QED  BY <1>2, <2>1, <2>2 DEF Good, Bounded
<1>14. OneFree(f, w) => OneFree(g, w)
  <2>1. CASE nMaxBackupNum = 0
    BY <1>2, <2>1 DEF OneFree, Places, Log
  <2>2. CASE KeptIn(g, w) = KeptIn(f, w)
    BY <1>2, <2>2 DEF OneFree
  <2>3. QED  BY <1>11, <2>1, <2>2
<1>15. Ends(g, w)
  BY <1>2, <1>3 DEF Ends
<1>16. QED
  BY <1>2, <1>7, <1>8, <1>9, <1>10, <1>12, <1>13, <1>14, <1>15 DEF Good, Full, g

\* One rename, wherever the loop stands.
LEMMA RenameKeeps ==
    ASSUME NEW f, NEW w, Good(f, w), nMaxBackupNum \in Nat, NEW n \in Int, n >= -1, n < nMaxBackupNum - 1
    PROVE  /\ Good(RenameUp(f, n), w)
           /\ n \in DOMAIN f => DOMAIN RenameUp(f, n) = (DOMAIN f \ {n}) \cup {n + 1}
           /\ n \notin DOMAIN f => RenameUp(f, n) = f
<1> DEFINE g == RenameUp(f, n)
<1>1. SUFFICES ASSUME n \in DOMAIN f PROVE Good(g, w) /\ DOMAIN g = (DOMAIN f \ {n}) \cup {n + 1}
  BY DEF RenameUp
<1>2. Typed(f, w)
  BY DEF Good
<1>3. /\ DOMAIN g = (DOMAIN f \ {n}) \cup {n + 1} /\ g[n + 1] = f[n]
      /\ \A m \in DOMAIN f : m # n /\ m # n + 1 => g[m] = f[m]
      /\ g = [m \in DOMAIN g |-> g[m]]
  BY <1>1 DEF RenameUp
<1> HIDE DEF g
\* Every file of g is one of f, and the order is the same.
<1>4. ASSUME NEW m \in DOMAIN g
      PROVE  \/ m = n + 1 /\ g[m] = f[n]
             \/ m \in DOMAIN f /\ m # n /\ m # n + 1 /\ g[m] = f[m]
  BY <1>3
<1>5. \A m \in DOMAIN f : m \in Int /\ m >= -1
  BY <1>2, Types
<1>6. Typed(g, w)
  <2>1. \A m \in DOMAIN f : f[m] \in File
    BY <1>2 DEF Typed
  <2>2. \A m \in DOMAIN g : g[m] \in File
    BY <1>1, <1>4, <2>1
  <2>3. g \in [DOMAIN g -> File]
    BY <1>3, <2>2
  <2>4. n + 1 \in Places
    BY DEF Places
  <2>5. DOMAIN g \in SUBSET Places
    BY <1>2, <1>3, <2>4 DEF Typed
  <2>6. QED  BY <1>2, <2>3, <2>5 DEF Typed
<1>7. AreWritten(g, w)
  BY <1>1, <1>4 DEF Good, AreWritten
<1>8. Consecutive(g)
  BY <1>1, <1>4 DEF Good, Consecutive
<1>9. OldestHighest(g)
  <2> SUFFICES ASSUME NEW m \in DOMAIN g, NEW k \in DOMAIN g, m < k,
                      NEW i \in DOMAIN g[k].lines, NEW j \in DOMAIN g[m].lines
               PROVE  g[k].lines[i].id < g[m].lines[j].id
    BY DEF OldestHighest
  <2>1. CASE m = n + 1
    <3>1. k \in DOMAIN f /\ g[k] = f[k] /\ n < k /\ g[m] = f[n]
      BY <1>4, <1>5, <2>1
    <3>2. QED  BY <1>1, <3>1 DEF Good, OldestHighest
  <2>2. CASE k = n + 1
    <3>1. m \in DOMAIN f /\ g[m] = f[m] /\ m < n /\ g[k] = f[n]
      BY <1>4, <1>5, <2>2
    <3>2. QED  BY <1>1, <3>1 DEF Good, OldestHighest
  <2>3. CASE m # n + 1 /\ k # n + 1
    BY <1>4, <2>3 DEF Good, OldestHighest
  <2>4. QED  BY <2>1, <2>2, <2>3
<1>10. Ends(g, w)
  <2>1. ASSUME Log \in DOMAIN g PROVE Log \in DOMAIN f /\ g[Log] = f[Log]
    BY <1>4, <2>1 DEF Log
  <2>2. QED  BY <2>1 DEF Good, Ends
<1>11. Bounded(g)
  BY <1>1, <1>4 DEF Good, Bounded
<1>12. QED  BY <1>3, <1>6, <1>7, <1>8, <1>9, <1>10, <1>11 DEF Good

\* A rename loses no line, or those of the oldest backup when every place is in use.
LEMMA RenameKeepsFull ==
    ASSUME NEW f, NEW w, Good(f, w), Full(f, w), nMaxBackupNum \in Nat,
           NEW n \in DOMAIN f, n < nMaxBackupNum - 1,
           n + 1 \in DOMAIN f => n + 1 = nMaxBackupNum - 1 /\ Places \subseteq DOMAIN f
    PROVE  Full(RenameUp(f, n), w)
<1> DEFINE g == RenameUp(f, n)
<1>1. Typed(f, w)
  BY DEF Good
<1>2. /\ DOMAIN g = (DOMAIN f \ {n}) \cup {n + 1} /\ g[n + 1] = f[n]
      /\ \A m \in DOMAIN f : m # n /\ m # n + 1 => g[m] = f[m]
  BY DEF RenameUp
<1>3. /\ \A m \in DOMAIN f : m \in Int /\ m >= -1 /\ m < nMaxBackupNum
      /\ n \in Int /\ n >= -1 /\ Len(w) \in Nat /\ DOMAIN w = 1..Len(w)
  BY <1>1, Types DEF Good, Bounded
<1> HIDE DEF g
<1>4. KeptIn(g, w) \subseteq KeptIn(f, w)
  <2> SUFFICES ASSUME NEW id \in KeptIn(g, w) PROVE id \in KeptIn(f, w)
    OBVIOUS
  <2>1. PICK m \in DOMAIN g : Holds(g, m, id)
    BY DEF KeptIn
  <2>2. CASE m = n + 1
    BY <1>2, <2>1, <2>2 DEF KeptIn, Holds
  <2>3. CASE m # n + 1
    <3>1. m \in DOMAIN f /\ g[m] = f[m]
      BY <1>2, <2>3
    <3>2. QED  BY <2>1, <3>1 DEF KeptIn, Holds
  <2>4. QED  BY <2>2, <2>3
<1>5. ASSUME NEW id \in KeptIn(f, w), id \notin KeptIn(g, w)
      PROVE  n + 1 \in DOMAIN f /\ Holds(f, n + 1, id)
  <2>1. PICK m \in DOMAIN f : Holds(f, m, id)
    BY <1>5 DEF KeptIn
  <2>2. m # n
    <3>1. SUFFICES ASSUME m = n PROVE FALSE
      OBVIOUS
    <3>2. n + 1 \in DOMAIN g /\ Holds(g, n + 1, id)
      BY <1>2, <2>1, <3>1 DEF Holds
    <3>3. QED  BY <1>5, <3>2 DEF KeptIn
  <2>3. m = n + 1
    <3>1. SUFFICES ASSUME m # n + 1 PROVE FALSE
      OBVIOUS
    <3>2. m \in DOMAIN g /\ Holds(g, m, id)
      BY <1>2, <2>1, <2>2, <3>1 DEF Holds
    <3>3. QED  BY <1>5, <3>2 DEF KeptIn
  <2>4. QED  BY <2>1, <2>3
<1>6. Newest(g, w)
  <2> SUFFICES ASSUME NEW k \in KeptIn(g, w), NEW id \in k..Len(w), id \notin KeptIn(g, w) PROVE FALSE
    BY DEF Newest
  <2>1. id \in KeptIn(f, w)
    BY <1>4 DEF Full, Newest
  <2>2. n + 1 \in DOMAIN f /\ Holds(f, n + 1, id)
    BY <1>5, <2>1
  <2>3. PICK m \in DOMAIN g : Holds(g, m, k)
    BY DEF KeptIn
  <2>4. k \in Nat /\ id \in Nat /\ k <= id
    BY <1>3 DEF KeptIn
  \* The line k is in a file of f below the highest, where lines are newer.
  <2>5. PICK l \in DOMAIN f : l < n + 1 /\ Holds(f, l, k)
    <3>1. CASE m = n + 1
      BY <1>2, <1>3, <2>3, <3>1 DEF Holds
    <3>2. CASE m # n + 1
      <4>1. m \in DOMAIN f /\ m < n + 1 /\ g[m] = f[m]
        BY <1>2, <1>3, <2>2, <3>2
      <4>2. QED  BY <2>3, <4>1 DEF Holds
    <3>3. QED  BY <3>1, <3>2
  <2>6. PICK i \in DOMAIN f[n + 1].lines : f[n + 1].lines[i].id = id
    BY <2>2 DEF Holds
  <2>7. PICK j \in DOMAIN f[l].lines : f[l].lines[j].id = k
    BY <2>5 DEF Holds
  <2>8. id < k
    BY <2>2, <2>5, <2>6, <2>7 DEF Good, OldestHighest
  <2>9. QED  BY <2>4, <2>8
<1>7. OneFree(g, w)
  <2>1. n + 1 \in Places
    BY <1>3 DEF Places
  <2>2. CASE n + 1 \in DOMAIN f
    BY <1>2, <2>2 DEF OneFree
  <2>3. CASE n + 1 \notin DOMAIN f
    <3>1. KeptIn(g, w) = KeptIn(f, w)
      BY <1>4, <1>5, <2>3
    <3>2. ASSUME KeptIn(f, w) # DOMAIN w PROVE \A m \in Places \ DOMAIN g : m = n
      BY <1>2, <2>1, <2>3, <3>2 DEF Full, OneFree
    <3>3. QED  BY <3>1, <3>2 DEF OneFree
  <2>4. QED  BY <2>2, <2>3
<1>8. QED  BY <1>6, <1>7 DEF Full, g

-----------------------------------------------------------------------------
(* The invariant *)

TypeOK ==
    /\ nMaxBackupNum \in Nat /\ nBackupNum \in Nat
    /\ isCreated \in BOOLEAN /\ isLocked \in BOOLEAN /\ miscounted \in BOOLEAN
    /\ writer \in [at : {"none", "rename", "open", "write"}, nFileNum : Int, size : Nat]

\* Where the log is in each step of a rotation.
LogIsThere ==
    /\ writer.at # "none" => isCreated /\ ~isLocked
    /\ isLocked => isCreated
    /\ isCreated /\ ~isLocked => \/ Log \in DOMAIN file
                                 \/ writer.at = "open"
    /\ writer.at = "rename" => nMaxBackupNum # 0 /\ writer.nFileNum >= -1
    /\ writer.at = "open"   => Log \notin DOMAIN file \/ nMaxBackupNum = 0
    /\ writer.at = "write"  => file[Log] = EmptyFile

\* The backups that nBackupNum counts, when count does.
Places0(f, count) == \A n \in Nat : n \in DOMAIN f <=> n < count /\ n < nMaxBackupNum

\* In a rotation the backups above nFileNum have moved up by one, and the oldest
\* may still be where the next but one will go.
Gap(f, count, m) ==
    \A n \in Nat : n \in DOMAIN f <=>
        n < nMaxBackupNum /\ \/ n <= m
                             \/ m + 2 <= n /\ n <= count
                             \/ n = m + 1 /\ n = nMaxBackupNum - 1 /\ n < count

Counted ==
    isCreated /\ ~isLocked =>
       IF writer.at = "rename" THEN writer.nFileNum < nBackupNum /\ Gap(file, nBackupNum, writer.nFileNum)
       ELSE Places0(file, nBackupNum)

IInv == /\ TypeOK /\ Good(file, written) /\ LogIsThere
        /\ miscounted \/ (Full(file, written) /\ Counted)

LEMMA IInvImplies == ASSUME IInv PROVE NewestLinesInOrder
<1>1. Kept = KeptIn(file, written)
  BY DEF Kept, KeptIn, Holds, Lines
<1>2. FilesInOrder
  BY DEF IInv, Good, FilesInOrder, AreWritten, Consecutive, OldestHighest, Lines
<1>3. LogIsNewest /\ FilesStayBounded
  BY DEF IInv, Good, Ends, Bounded, LogIsNewest, FilesStayBounded, Lines
<1>4. Full(file, written) => NewestAreKept /\ GivenUpLast
  BY <1>1 DEF Full, Newest, OneFree, NewestAreKept, GivenUpLast, Places, Log
<1>5. QED
  BY <1>2, <1>3, <1>4 DEF IInv, NewestLinesInOrder

LEMMA InitHolds == ASSUME LoggerAssumption, Init PROVE IInv
<1>1. DOMAIN file = {} /\ file \in [DOMAIN file -> File]
  BY DEF Init
<1>2. written = <<>> /\ DOMAIN written = {} /\ Len(written) = 0 /\ written \in Seq(Line)
  BY DEF Init
<1>3. Good(file, written) /\ Full(file, written)
  BY <1>1, <1>2 DEF Good, Full, Typed, AreWritten, Consecutive, OldestHighest, Ends, Newest, Bounded,
                    OneFree, KeptIn, Holds
<1>4. writer \in [at : {"none", "rename", "open", "write"}, nFileNum : Int, size : Nat] /\ writer.at = "none"
  BY DEF Init, NoWriter, Log
<1>5. nMaxBackupNum \in Nat /\ nBackupNum = 0 /\ isCreated = FALSE /\ isLocked = FALSE /\ miscounted = FALSE
  BY DEF Init, LoggerAssumption
<1>6. TypeOK /\ LogIsThere /\ Counted
  BY <1>4, <1>5 DEF TypeOK, LogIsThere, Counted
<1>7. QED  BY <1>3, <1>6 DEF IInv

\* Good and Full speak of the files, the lines written and the limit alone.
LEMMA GoodNext ==
    ASSUME nMaxBackupNum' = nMaxBackupNum
    PROVE  /\ Good(file', written') => Good(file, written)'
           /\ Full(file', written') => Full(file, written)'
           /\ \A count : Places0(file', count) = Places0(file, count)'
<1>1. (\A n \in DOMAIN file' : n < nMaxBackupNum) <=> (\A n \in DOMAIN file' : n < nMaxBackupNum')
  OBVIOUS
<1>2. QED
BY DEF Good, Full, Typed, AreWritten, Consecutive, OldestHighest, Ends, Newest, Bounded, OneFree,
       KeptIn, Holds, Places, Log, Places0

\* What is the same when the files are.
LEMMA FilesUnchanged ==
    ASSUME IInv, UNCHANGED <<file, nMaxBackupNum, written>>
    PROVE  Good(file, written)' /\ (Full(file, written) => Full(file, written)')
BY GoodNext DEF IInv

\* The count is a number, and unless a backup is beyond it, it finds every one.
LEMMA CountFindsAll ==
    ASSUME IInv
    PROVE  /\ CountBackups(file) \in Nat
           /\ (\A n \in DOMAIN file : ~(n >= CountBackups(file))) => Places0(file, CountBackups(file))
<1> DEFINE missing == {n \in 0..nMaxBackupNum : n = nMaxBackupNum \/ n \notin DOMAIN file}
           count == CHOOSE n \in missing : \A m \in missing : n <= m
<1>1. missing \in SUBSET Nat /\ nMaxBackupNum \in missing /\ nMaxBackupNum \in Nat
  BY DEF IInv, TypeOK
<1>2. \E n \in missing : \A m \in missing : n <= m
  BY <1>1, Least
<1>3. count \in missing /\ \A m \in missing : count <= m
  BY <1>2
<1>4. CountBackups(file) = count
  BY DEF CountBackups
<1> HIDE DEF count
<1>5. ASSUME \A n \in DOMAIN file : ~(n >= count), NEW n \in Nat
      PROVE  n \in DOMAIN file <=> n < count /\ n < nMaxBackupNum
  <2>1. CASE n < count
    <3>1. n \notin missing /\ n < nMaxBackupNum
      BY <1>1, <1>3, <2>1
    <3>2. QED  BY <1>1, <2>1, <3>1
  <2>2. CASE n >= count
    BY <1>1, <1>3, <1>5, <2>2
  <2>3. QED  BY <1>1, <1>3, <2>1, <2>2
<1>6. QED  BY <1>1, <1>3, <1>4, <1>5 DEF Places0

LEMMA CreateKeeps == ASSUME LoggerAssumption, IInv, Create PROVE IInv'
<1>1. nMaxBackupNum \in Nat /\ Good(file, written)
  BY DEF IInv, TypeOK
<1>2. /\ Good(file', written) /\ DOMAIN file' = DOMAIN file \cup {Log}
      /\ Full(file, written) => Full(file', written)
  <2>1. CASE Log \in DOMAIN file
    BY <1>1, <2>1 DEF Create, OpenAppend
  <2>2. CASE Log \notin DOMAIN file
    BY <1>1, <2>2, EmptyLogKeeps DEF Create, OpenAppend
  <2>3. QED  BY <2>1, <2>2
<1>3. /\ nBackupNum' = CountBackups(file) /\ isCreated' = TRUE
      /\ UNCHANGED <<nMaxBackupNum, writer, isLocked, written>>
      /\ miscounted' = (miscounted \/ \E n \in DOMAIN file : n >= CountBackups(file))
  BY DEF Create
<1>4. writer.at = "none" /\ ~isLocked
  BY DEF Create, IInv, LogIsThere, TypeOK
<1>5. Good(file, written)' /\ (Full(file, written) => Full(file, written)')
  BY <1>2, <1>3, GoodNext
<1>6. TypeOK' /\ LogIsThere'
  BY <1>2, <1>3, <1>4, CountFindsAll DEF IInv, TypeOK, LogIsThere
<1>7. ASSUME ~miscounted' PROVE Counted'
  <2>1. Places0(file, CountBackups(file))
    BY <1>3, <1>7, CountFindsAll
  <2>2. \A n \in Nat : n \in DOMAIN file' <=> n \in DOMAIN file
    BY <1>2 DEF Log
  <2>3. Places0(file, nBackupNum)'
    BY <1>3, <2>1, <2>2 DEF Places0
  <2>4. QED  BY <1>3, <1>4, <2>3 DEF Counted
<1>8. QED  BY <1>3, <1>5, <1>6, <1>7 DEF IInv

LEMMA EndKeeps == ASSUME LoggerAssumption, IInv, Destroy \/ Kill PROVE IInv'
<1>1. UNCHANGED <<file, nMaxBackupNum, written, miscounted>> /\ isCreated' = FALSE /\ isLocked' = FALSE
  BY DEF Destroy, Kill, IInv, TypeOK
<1>2. writer' \in [at : {"none"}, nFileNum : Int, size : Nat] /\ nBackupNum' = 0
  BY DEF Destroy, Kill, IInv, TypeOK, NoWriter, Log
<1>3. TypeOK' /\ LogIsThere' /\ Counted'
  BY <1>1, <1>2 DEF IInv, TypeOK, LogIsThere, Counted
<1>4. QED  BY <1>1, <1>3, FilesUnchanged DEF IInv

LEMMA MayWriteImplies ==
    ASSUME IInv, MayWrite
    PROVE  Log \in DOMAIN file /\ (miscounted \/ Places0(file, nBackupNum))
BY DEF MayWrite, IInv, LogIsThere, Counted, TypeOK

LEMMA NewLineIsLine ==
    ASSUME Good(file, written), NEW size \in Nat
    PROVE  NewLine(size) \in Line /\ NewLine(size).id = Len(written) + 1 /\ NewLine(size).size = size
BY Types DEF Good, NewLine, Line

LEMMA WriteKeeps ==
    ASSUME LoggerAssumption, IInv, NEW m \in MsgLevels, NEW size \in Sizes, Write(m, size), ~UNCHANGED vars
    PROVE  IInv'
<1>1. /\ MayWrite /\ ~MustRotate(size)
      /\ file' = AppendLine(file, NewLine(size)) /\ written' = Append(written, NewLine(size))
      /\ UNCHANGED <<nMaxBackupNum, nBackupNum, isCreated, writer, isLocked, miscounted>>
  BY DEF Write, settings
<1>2. Good(file, written) /\ Log \in DOMAIN file /\ (miscounted \/ (Full(file, written) /\ Places0(file, nBackupNum)))
  BY <1>1, MayWriteImplies DEF IInv
<1>3. size \in Nat
  BY DEF LoggerAssumption
<1>4. file[Log].size + size <= nMaxLogSize
  <2>1. file[Log].size \in Nat /\ nMaxLogSize \in Nat
    BY <1>2, Types DEF Good, LoggerAssumption
  <2>2. QED  BY <1>1, <1>3, <2>1 DEF MustRotate, GetFileSize
<1>5. /\ Good(file', written') /\ DOMAIN file' = DOMAIN file
      /\ Full(file, written) => Full(file', written')
  BY <1>1, <1>2, <1>3, <1>4, NewLineIsLine, AppendKeeps
<1>6. Good(file, written)' /\ (Full(file, written) => Full(file, written)')
  BY <1>1, <1>5, GoodNext
<1>7. TypeOK' /\ LogIsThere'
  BY <1>1, <1>2, <1>5 DEF IInv, TypeOK, LogIsThere, MayWrite
<1>8. Places0(file, nBackupNum) => Counted'
  BY <1>1, <1>5 DEF Counted, Places0, MayWrite
<1>9. QED  BY <1>1, <1>2, <1>6, <1>7, <1>8 DEF IInv

LEMMA CloseKeeps ==
    ASSUME LoggerAssumption, IInv, NEW size \in Sizes, CloseLog(size) PROVE IInv'
<1> DEFINE place == IF nMaxBackupNum = 0 THEN "open" ELSE "rename"
<1>1. /\ MayWrite /\ isCreated /\ ~isLocked
      /\ writer' = [at |-> place, nFileNum |-> nBackupNum - 1, size |-> size]
      /\ UNCHANGED <<file, nBackupNum, nMaxBackupNum, isCreated, isLocked, written, miscounted>>
  BY DEF CloseLog, MayWrite, FirstFileNum, settings
<1>2. nMaxBackupNum \in Nat /\ nBackupNum \in Nat /\ size \in Nat /\ nBackupNum - 1 \in Int
  BY DEF IInv, TypeOK, LoggerAssumption
<1>3. writer'.at = place /\ writer'.nFileNum = nBackupNum - 1 /\ place \in {"open", "rename"}
      /\ writer' \in [at : {"none", "rename", "open", "write"}, nFileNum : Int, size : Nat]
  BY <1>1, <1>2
<1>4. TypeOK'
  BY <1>1, <1>3 DEF IInv, TypeOK
<1>5. Log \in DOMAIN file /\ (miscounted \/ Places0(file, nBackupNum))
  BY <1>1, MayWriteImplies
<1>6. LogIsThere'
  BY <1>1, <1>2, <1>3, <1>5 DEF LogIsThere
<1>7. ASSUME Places0(file, nBackupNum) PROVE Counted'
  <2>1. CASE nMaxBackupNum = 0
    <3>1. Places0(file, nBackupNum)'
      BY <1>1, <1>7 DEF Places0
    <3>2. QED  BY <1>3, <2>1, <3>1 DEF Counted
  <2>2. CASE nMaxBackupNum # 0
    <3>1. Gap(file, nBackupNum, nBackupNum - 1)
      BY <1>2, <1>7 DEF Places0, Gap
    <3>2. Gap(file, nBackupNum, writer.nFileNum)'
      BY <1>1, <1>3, <3>1 DEF Gap
    <3>3. nBackupNum - 1 < nBackupNum
      BY <1>2
    <3>4. QED  BY <1>1, <1>3, <2>2, <3>2, <3>3 DEF Counted
  <2>3. QED  BY <2>1, <2>2
<1>8. QED  BY <1>1, <1>4, <1>5, <1>6, <1>7, FilesUnchanged DEF IInv

\* The places after one round, with a gap one below the last.
LEMMA RoundMovesTheGap ==
    ASSUME NEW f, NEW g, NEW count \in Nat, NEW m \in Int, nMaxBackupNum \in Nat \ {0},
           m >= -1, m < count, Gap(f, count, m), m \in DOMAIN f,
           m < nMaxBackupNum - 1 => DOMAIN g = (DOMAIN f \ {m}) \cup {m + 1},
           ~(m < nMaxBackupNum - 1) => g = f
    PROVE  /\ m > -1 => Gap(g, count, m - 1)
           /\ m = -1 => Places0(g, count + 1)
<1>1. CASE m < nMaxBackupNum - 1
  <2>1. \A n \in Nat : n \in DOMAIN g <=> (n \in DOMAIN f /\ n # m) \/ n = m + 1
    BY <1>1
  <2>2. ASSUME NEW n \in Nat
        PROVE  n \in DOMAIN g <=> n < nMaxBackupNum /\ (n < m \/ (m + 1 <= n /\ n <= count))
    BY <1>1, <2>1 DEF Gap
  <2>3. QED  BY <1>1, <2>2 DEF Gap, Places0
<1>2. CASE ~(m < nMaxBackupNum - 1)
  BY <1>2 DEF Gap
<1>3. QED  BY <1>1, <1>2

LEMMA RenameNextKeeps ==
    ASSUME LoggerAssumption, IInv, RenameNext PROVE IInv'
<1> DEFINE m == writer.nFileNum
<1>1. /\ isCreated /\ ~isLocked /\ writer.at = "rename" /\ m \in Int /\ m >= -1
      /\ nMaxBackupNum \in Nat \ {0} /\ nBackupNum \in Nat /\ Log \in DOMAIN file
      /\ Good(file, written)
  BY DEF RenameNext, IInv, TypeOK, LogIsThere
<1>2. /\ file' = IF m < nMaxBackupNum - 1 THEN RenameUp(file, m) ELSE file
      /\ nBackupNum' = IF m = Log THEN nBackupNum + 1 ELSE nBackupNum
      /\ writer' = IF m = Log THEN [writer EXCEPT !.at = "open"] ELSE [writer EXCEPT !.nFileNum = m - 1]
      /\ UNCHANGED <<nMaxBackupNum, isCreated, isLocked, written, miscounted>>
  BY DEF RenameNext, settings
<1>3. /\ m = Log => writer'.at = "open"
      /\ m # Log => writer'.at = "rename" /\ writer'.nFileNum = m - 1
      /\ writer' \in [at : {"none", "rename", "open", "write"}, nFileNum : Int, size : Nat]
  BY <1>1, <1>2 DEF IInv, TypeOK
<1>4. m # Log => m > -1
  BY <1>1 DEF Log
<1> HIDE DEF m
<1>5. TypeOK'
  BY <1>1, <1>2, <1>3 DEF IInv, TypeOK
<1>6. /\ Good(file', written)
      /\ m < nMaxBackupNum - 1 /\ m \in DOMAIN file => DOMAIN file' = (DOMAIN file \ {m}) \cup {m + 1}
      /\ ~(m < nMaxBackupNum - 1) \/ m \notin DOMAIN file => file' = file
  BY <1>1, <1>2, RenameKeeps
<1>7. m = Log => m < nMaxBackupNum - 1 /\ Log \notin DOMAIN file'
  BY <1>1, <1>6 DEF Log
<1>8. m # Log => Log \in DOMAIN file'
  BY <1>1, <1>6 DEF Log
<1>9. LogIsThere'
  BY <1>1, <1>2, <1>3, <1>4, <1>7, <1>8 DEF LogIsThere
<1>10. Good(file, written)'
  BY <1>2, <1>6, GoodNext
<1>11. ASSUME ~miscounted PROVE Full(file, written)' /\ Counted'
  <2>1. Full(file, written) /\ m < nBackupNum /\ Gap(file, nBackupNum, m)
    BY <1>1, <1>11 DEF IInv, Counted, m
  <2>2. CASE ~(m < nMaxBackupNum - 1)
    <3>1. file' = file /\ m # Log
      BY <1>6, <1>7, <2>2
    <3>2. Gap(file, nBackupNum, m - 1)
      BY <1>1, <1>4, <2>1, <2>2, <3>1 DEF Gap
    <3>3. Gap(file, nBackupNum, writer.nFileNum)'
      BY <1>2, <1>3, <3>1, <3>2 DEF Gap
    <3>4. QED  BY <1>1, <1>2, <1>3, <2>1, <3>1, <3>3, GoodNext DEF Counted
  <2>3. CASE m < nMaxBackupNum - 1
    <3>1. m \in DOMAIN file
      BY <1>1, <1>4, <2>1, <2>3 DEF Gap, Log
    <3>2. DOMAIN file' = (DOMAIN file \ {m}) \cup {m + 1} /\ file' = RenameUp(file, m)
      BY <1>2, <1>6, <2>3, <3>1
    <3>3. ASSUME m + 1 \in DOMAIN file PROVE m + 1 = nMaxBackupNum - 1 /\ Places \subseteq DOMAIN file
      <4>1. m + 1 \in Nat
        BY <1>1
      <4>2. m + 1 = nMaxBackupNum - 1
        BY <1>1, <2>1, <3>3, <4>1 DEF Gap
      <4>3. ASSUME NEW n \in Places PROVE n \in DOMAIN file
        <5>1. CASE n = -1
          BY <1>1, <5>1 DEF Log
        <5>2. CASE n # -1
          <6>1. n \in Nat /\ n < nMaxBackupNum
            BY <1>1, <5>2 DEF Places
          <6>2. CASE n <= m
            BY <2>1, <6>1, <6>2 DEF Gap
          <6>3. CASE ~(n <= m)
            BY <1>1, <3>3, <4>2, <6>1, <6>3
          <6>4. QED  BY <6>2, <6>3
        <5>3. QED  BY <5>1, <5>2
      <4>4. QED  BY <4>2, <4>3
    <3>4. Full(file', written)
      BY <1>1, <2>1, <2>3, <3>1, <3>2, <3>3, RenameKeepsFull
    <3>5. Full(file, written)'
      BY <1>2, <3>4, GoodNext
    <3>6. /\ m > -1 => Gap(file', nBackupNum, m - 1)
          /\ m = -1 => Places0(file', nBackupNum + 1)
      BY <1>1, <2>1, <2>3, <3>1, <3>2, RoundMovesTheGap
    <3>7. CASE m = Log
      <4>1. Places0(file, nBackupNum)'
        BY <1>2, <3>6, <3>7 DEF Places0, Log
      <4>2. QED  BY <1>3, <3>5, <3>7, <4>1 DEF Counted
    <3>8. CASE m # Log
      <4>1. Gap(file, nBackupNum, writer.nFileNum)'
        BY <1>2, <1>3, <1>4, <3>6, <3>8 DEF Gap
      <4>2. QED  BY <1>1, <1>2, <1>3, <2>1, <3>5, <3>8, <4>1 DEF Counted
    <3>9. QED  BY <3>7, <3>8
  <2>4. QED  BY <2>2, <2>3
<1>12. QED  BY <1>2, <1>5, <1>9, <1>10, <1>11 DEF IInv

LEMMA OpenKeeps ==
    ASSUME LoggerAssumption, IInv, OpenLog PROVE IInv'
<1>1. /\ isCreated /\ ~isLocked /\ writer.at = "open" /\ nMaxBackupNum \in Nat /\ nBackupNum \in Nat
      /\ Good(file, written) /\ (Log \notin DOMAIN file \/ nMaxBackupNum = 0)
  BY DEF OpenLog, IInv, TypeOK, LogIsThere
<1>2. /\ file' = With(file, Log, EmptyFile) /\ writer' = [writer EXCEPT !.at = "write"]
      /\ UNCHANGED <<nBackupNum, nMaxBackupNum, isCreated, isLocked, written, miscounted>>
  BY DEF OpenLog, OpenWrite, settings
<1>3. writer'.at = "write" /\ writer' \in [at : {"none", "rename", "open", "write"}, nFileNum : Int, size : Nat]
  BY <1>2 DEF IInv, TypeOK
<1>4. /\ Good(file', written) /\ (Full(file, written) => Full(file', written))
      /\ DOMAIN file' = DOMAIN file \cup {Log} /\ file'[Log] = EmptyFile
  BY <1>1, <1>2, EmptyLogKeeps
<1>5. Good(file, written)' /\ (Full(file, written) => Full(file, written)')
  BY <1>2, <1>4, GoodNext
<1>6. file[Log]' = EmptyFile'
  BY <1>4 DEF EmptyFile, Log
<1>7. TypeOK' /\ LogIsThere'
  BY <1>1, <1>2, <1>3, <1>4, <1>6 DEF IInv, TypeOK, LogIsThere, Log
<1>8. ASSUME ~miscounted PROVE Counted'
  <2>1. Places0(file, nBackupNum)
    BY <1>1, <1>8 DEF IInv, Counted
  <2>2. Places0(file, nBackupNum)'
    BY <1>2, <1>4, <2>1 DEF Places0, Log
  <2>3. QED  BY <1>3, <2>2 DEF Counted
<1>9. QED  BY <1>2, <1>5, <1>7, <1>8 DEF IInv

LEMMA WriteLineKeeps ==
    ASSUME LoggerAssumption, IInv, WriteLine PROVE IInv'
<1> DEFINE line == NewLine(writer.size)
<1>1. /\ isCreated /\ ~isLocked /\ writer.at = "write" /\ writer.size \in Nat
      /\ Good(file, written) /\ Log \in DOMAIN file /\ file[Log] = EmptyFile
  BY DEF WriteLine, IInv, TypeOK, LogIsThere
<1>2. /\ file' = AppendLine(file, line) /\ written' = Append(written, line) /\ writer' = NoWriter
      /\ UNCHANGED <<nBackupNum, nMaxBackupNum, isCreated, isLocked, miscounted>>
  BY DEF WriteLine, settings
<1>3. line \in Line /\ line.id = Len(written) + 1
  BY <1>1, NewLineIsLine
<1> HIDE DEF line
<1>4. file[Log].lines = <<>>
  BY <1>1 DEF EmptyFile
<1>5. /\ Good(file', written') /\ DOMAIN file' = DOMAIN file
      /\ Full(file, written) => Full(file', written')
  BY <1>1, <1>2, <1>3, <1>4, AppendKeeps
<1>6. Good(file, written)' /\ (Full(file, written) => Full(file, written)')
  BY <1>2, <1>5, GoodNext
<1>7. writer'.at = "none" /\ writer' \in [at : {"none", "rename", "open", "write"}, nFileNum : Int, size : Nat]
  BY <1>2 DEF NoWriter, Log
<1>8. TypeOK' /\ LogIsThere'
  BY <1>1, <1>2, <1>5, <1>7 DEF IInv, TypeOK, LogIsThere
<1>9. ASSUME ~miscounted PROVE Counted'
  <2>1. Places0(file, nBackupNum)
    BY <1>1, <1>9 DEF IInv, Counted
  <2>2. Places0(file, nBackupNum)'
    BY <1>2, <1>5, <2>1 DEF Places0
  <2>3. QED  BY <1>7, <2>2 DEF Counted
<1>10. QED  BY <1>2, <1>6, <1>8, <1>9 DEF IInv

LEMMA CallFailsKeeps ==
    ASSUME LoggerAssumption, IInv, CallFails PROVE IInv'
<1>1. /\ isCreated /\ isLocked' = TRUE /\ writer' = NoWriter
      /\ UNCHANGED <<file, nBackupNum, nMaxBackupNum, isCreated, written, miscounted>>
  BY DEF CallFails, settings
<1>2. writer' \in [at : {"none"}, nFileNum : Int, size : Nat]
  BY <1>1 DEF NoWriter, Log
<1>3. TypeOK' /\ LogIsThere' /\ Counted'
  BY <1>1, <1>2 DEF IInv, TypeOK, LogIsThere, Counted
<1>4. QED  BY <1>1, <1>3, FilesUnchanged DEF IInv

LEMMA StepKeeps == ASSUME LoggerAssumption, IInv, [Next]_vars PROVE IInv'
<1>1. CASE Create
  BY <1>1, CreateKeeps
<1>2. CASE Destroy \/ Kill
  BY <1>2, EndKeeps
<1>3. CASE RenameNext
  BY <1>3, RenameNextKeeps
<1>4. CASE OpenLog
  BY <1>4, OpenKeeps
<1>5. CASE WriteLine
  BY <1>5, WriteLineKeeps
<1>6. CASE CallFails
  BY <1>6, CallFailsKeeps
<1>7. ASSUME NEW size \in Sizes, CloseLog(size) PROVE IInv'
  BY <1>7, CloseKeeps
<1>8. CASE UNCHANGED vars
  BY <1>8, FilesUnchanged DEF vars, settings, IInv, TypeOK, LogIsThere, EmptyFile, Log, Counted, Places0, Gap
<1>9. ASSUME NEW size \in Sizes, NEW m \in MsgLevels, Write(m, size) PROVE IInv'
  BY <1>8, <1>9, WriteKeeps
<1>10. QED  BY <1>1, <1>2, <1>3, <1>4, <1>5, <1>6, <1>7, <1>8, <1>9 DEF Next

\* Whatever limits the logger is given, whatever lines are written and whatever
\* calls fail, and wherever in a rotation the process ends and starts again: the log
\* and its backups hold lines in order within their limits; and they hold the
\* newest ones, giving up the oldest only for want of a backup, until a start finds
\* a backup missing below another.
THEOREM LogKeepsTheNewest ==
    ASSUME LoggerAssumption PROVE Spec => []NewestLinesInOrder
<1>1. Init => IInv
  BY InitHolds
<1>2. IInv /\ [Next]_vars => IInv'
  BY StepKeeps
<1>3. IInv => NewestLinesInOrder
  BY IInvImplies
<1>4. QED  BY <1>1, <1>2, <1>3, PTL DEF Spec

=============================================================================
