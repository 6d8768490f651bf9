-------------------------- MODULE FileLoggerProofs --------------------------
(***************************************************************************)
(* Theorems about FileLogger, for every set of threads, every bound and    *)
(* every set of faults.                                                    *)
(***************************************************************************)
EXTENDS FileLogger, SequenceTheorems, WellFoundedInduction, TLAPS

-----------------------------------------------------------------------------
(* Lemmas about the bytes of lines and files.                               *)

\* A function on 1..n is a sequence of length n.
LEMMA FunctionIsSequence ==
    ASSUME NEW S, NEW n \in Nat, NEW h \in [1..n -> S]
    PROVE  h \in Seq(S) /\ Len(h) = n
OBVIOUS

\* A function stays in its set when one value is replaced by another of them.
LEMMA UpdateKeepsType ==
    ASSUME NEW S, NEW T, NEW f \in [S -> T], NEW x \in S, NEW y \in T
    PROVE  [f EXCEPT ![x] = y] \in [S -> T]
OBVIOUS

\* A thread that may log once more counts one call more.
LEMMA OneMoreCall ==
    ASSUME TypeOK, NEW t \in Threads, calls[t] < MaxLines
    PROVE  /\ calls[t] + 1 \in 1..MaxLines
           /\ [calls EXCEPT ![t] = calls[t] + 1] \in [Threads -> 0..MaxLines]
<1>1. calls[t] \in 0..MaxLines /\ MaxLines \in Nat
  BY BoundsAreNatural DEF TypeOK
<1>2. calls[t] + 1 \in 1..MaxLines /\ calls[t] + 1 \in 0..MaxLines
  BY <1>1
<1>3. calls \in [Threads -> 0..MaxLines]
  BY DEF TypeOK
<1> QED
  BY <1>2, <1>3, UpdateKeepsType

\* The text of a line is a sequence of bytes, as many as the line is long.
LEMMA TextIsBytes ==
    ASSUME NEW l \in Line
    PROVE  Text(l) \in Seq(Byte)
<1>1. l.len \in Nat
  BY BoundsAreNatural DEF Line
<1>2. \A i \in 1..l.len : [line |-> l, pos |-> i] \in Byte
  BY <1>1 DEF Byte
<1> QED
  BY <1>1, <1>2 DEF Text

\* What vn_rdwr leaves in a file that it writes at an offset not behind the
\* end: the old bytes before the offset, then the new ones.
LEMMA OverwriteBytes ==
    ASSUME NEW S, NEW f \in Seq(S), NEW d \in Seq(S), NEW o \in 0..Len(f)
    PROVE  /\ Overwrite(f, o, d) \in Seq(S)
           /\ Len(Overwrite(f, o, d)) >= o + Len(d)
           /\ Len(Overwrite(f, o, d)) >= Len(f)
           /\ \A i \in 1..o : Overwrite(f, o, d)[i] = f[i]
           /\ \A i \in 1..Len(d) : Overwrite(f, o, d)[o + i] = d[i]
<1> DEFINE n == IF o + Len(d) > Len(f) THEN o + Len(d) ELSE Len(f)
           g == Overwrite(f, o, d)
<1>1. n \in Nat /\ n >= o + Len(d) /\ n >= Len(f) /\ o \in Nat /\ o <= Len(f)
  OBVIOUS
<1>2. g = [i \in 1..n |-> IF o < i /\ i <= o + Len(d) THEN d[i - o] ELSE f[i]]
  BY DEF Overwrite
<1>3. \A i \in 1..n : g[i] \in S
  <2> SUFFICES ASSUME NEW i \in 1..n PROVE g[i] \in S
    OBVIOUS
  <2>1. CASE o < i /\ i <= o + Len(d)
    <3>1. i - o \in 1..Len(d) /\ g[i] = d[i - o]
      BY <1>1, <1>2, <2>1
    <3> QED BY <3>1
  <2>2. CASE ~(o < i /\ i <= o + Len(d))
    <3>1. i \in 1..Len(f) /\ g[i] = f[i]
      BY <1>1, <1>2, <2>2
    <3> QED BY <3>1
  <2> QED BY <2>1, <2>2
<1>4. g \in Seq(S) /\ Len(g) = n
  <2>1. g \in [1..n -> S]
    BY <1>2, <1>3, Zenon
  <2> HIDE DEF g, n
  <2> QED BY <1>1, <2>1, FunctionIsSequence
<1>5. \A i \in 1..o : g[i] = f[i]
  BY <1>1, <1>2
<1>6. \A i \in 1..Len(d) : g[o + i] = d[i]
  BY <1>1, <1>2
<1> QED
  BY <1>1, <1>4, <1>5, <1>6

-----------------------------------------------------------------------------
(* The bytes of several lines.                                              *)

Less == {s \in Nat \X Nat : s[1] < s[2]}

\* A nonempty set of numbers has a least element.
LEMMA LeastNumber ==
    ASSUME NEW S \in SUBSET Nat, S # {}
    PROVE  \E m \in S : \A e \in S : m <= e
<1>1. OpToRel(<, Nat) = Less
  BY DEF OpToRel, Less
<1>2. IsWellFoundedOn(Less, Nat)
  BY <1>1, NatLessThanWellFounded
<1>3. PICK x \in S : \A y \in S : <<y, x>> \notin Less
  BY <1>2, WFMin
<1>4. ASSUME NEW y \in S PROVE x <= y
  <2>1. <<y, x>> \in Nat \X Nat
    OBVIOUS
  <2>2. ~(y < x)
    BY <1>3, <2>1 DEF Less
  <2> QED
    BY <2>2
<1> QED
  BY <1>4

\* The bytes of a sequence of lines.
Texts(ls) == [i \in 1..Len(ls) |-> Text(ls[i])]
Flat(ls) == FlattenSeq(Texts(ls))

\* f joins the first n of the sequences s.
Joins(f, s, n) == f = [i \in 1..n |-> IF i = 1 THEN s[i] ELSE f[i - 1] \o s[i]]

LEMMA JoinStep ==
    ASSUME NEW f, NEW s, NEW n \in Nat, Joins(f, s, n)
    PROVE  \E g : /\ Joins(g, s, n + 1)
                  /\ g[n + 1] = IF n = 0 THEN s[1] ELSE f[n] \o s[n + 1]
<1> DEFINE new == IF n = 0 THEN s[1] ELSE f[n] \o s[n + 1]
           g == [i \in 1..n + 1 |-> IF i = n + 1 THEN new ELSE f[i]]
<1> HIDE DEF new
<1>1. ASSUME NEW i \in 1..n + 1
      PROVE  g[i] = IF i = 1 THEN s[i] ELSE g[i - 1] \o s[i]
  <2>1. CASE i = n + 1
    <3>1. CASE n = 0
      BY <2>1, <3>1 DEF new
    <3>2. CASE n # 0
      <4>1. i # 1 /\ i - 1 = n /\ n \in 1..n + 1 /\ n # n + 1
        BY <2>1, <3>2
      <4>2. g[i - 1] = f[n] /\ g[i] = new
        BY <2>1, <4>1
      <4> QED
        BY <2>1, <3>2, <4>1, <4>2 DEF new
    <3> QED
      BY <3>1, <3>2
  <2>2. CASE i # n + 1
    <3>1. i \in 1..n /\ g[i] = f[i]
      BY <2>2
    <3>2. f[i] = IF i = 1 THEN s[i] ELSE f[i - 1] \o s[i]
      BY <3>1 DEF Joins
    <3>3. i # 1 => i - 1 \in 1..n + 1 /\ i - 1 # n + 1
      BY <3>1
    <3>4. i # 1 => g[i - 1] = f[i - 1]
      BY <3>3
    <3> QED
      BY <3>1, <3>2, <3>4
  <2> QED
    BY <2>1, <2>2
<1>2. g = [i \in 1..n + 1 |-> g[i]] /\ g[n + 1] = new
  OBVIOUS
<1> HIDE DEF g
<1>3. Joins(g, s, n + 1)
  BY <1>1, <1>2 DEF Joins
<1> QED
  BY <1>2, <1>3 DEF new

LEMMA JoinExists ==
    ASSUME NEW s, NEW n \in Nat
    PROVE  \E f : Joins(f, s, n)
<1> DEFINE Bad == {m \in Nat : ~ \E f : Joins(f, s, m)}
<1>1. SUFFICES ASSUME Bad # {} PROVE FALSE
  OBVIOUS
<1>2. PICK m \in Bad : \A e \in Bad : m <= e
  BY <1>1, LeastNumber
<1>3. m # 0
  <2> DEFINE f == [i \in 1..0 |-> 0]
  <2>1. Joins(f, s, 0)
    BY DEF Joins
  <2> QED
    BY <2>1
<1>4. m - 1 \in Nat /\ m - 1 \notin Bad
  BY <1>2, <1>3
<1>5. PICK f : Joins(f, s, m - 1)
  BY <1>4
<1>6. \E g : Joins(g, s, (m - 1) + 1)
  BY <1>4, <1>5, JoinStep
<1>7. (m - 1) + 1 = m
  BY <1>4
<1> QED
  BY <1>6, <1>7

\* Two functions that agree on 1..n.
Agree(f, g, n) == \A i \in 1..n : f[i] = g[i]

\* Two that join sequences with the same beginning agree on it.
LEMMA JoinsAgree ==
    ASSUME NEW n \in Nat, NEW s, NEW t, Agree(s, t, n),
           NEW f, Joins(f, s, n), NEW g, Joins(g, t, n + 1)
    PROVE  Agree(f, g, n)
<1> USE DEF Agree
<1> DEFINE Bad == {i \in 1..n : f[i] # g[i]}
<1>1. SUFFICES ASSUME Bad # {} PROVE FALSE
  OBVIOUS
<1>2. Bad \in SUBSET Nat
  OBVIOUS
<1>3. PICK i \in Bad : \A e \in Bad : i <= e
  BY <1>1, <1>2, LeastNumber
<1>4. i \in 1..n /\ i \in 1..n + 1 /\ f[i] # g[i]
  OBVIOUS
<1>5. /\ f[i] = IF i = 1 THEN s[i] ELSE f[i - 1] \o s[i]
      /\ g[i] = IF i = 1 THEN t[i] ELSE g[i - 1] \o t[i]
  BY <1>4 DEF Joins
<1>6. i # 1
  BY <1>4, <1>5
<1>7. i - 1 \in 1..n /\ i - 1 \notin Bad
  BY <1>3, <1>4, <1>6
<1>8. f[i - 1] = g[i - 1]
  BY <1>7
<1> QED
  BY <1>4, <1>5, <1>6, <1>8

\* What FlattenSeq is: the last of the joins.
LEMMA FlattenJoins ==
    ASSUME NEW s, Len(s) \in Nat
    PROVE  IF Len(s) = 0 THEN FlattenSeq(s) = s
           ELSE \E f : Joins(f, s, Len(s)) /\ FlattenSeq(s) = f[Len(s)]
<1> DEFINE n == Len(s)
           F == CHOOSE f : f = [i \in 1..n |-> IF i = 1 THEN s[i] ELSE f[i - 1] \o s[i]]
<1>1. FlattenSeq(s) = IF n = 0 THEN s ELSE F[n]
  BY DEF FlattenSeq
<1>2. Joins(F, s, n)
  <2>1. \E f : Joins(f, s, n)
    BY JoinExists
  <2> QED
    BY <2>1 DEF Joins
<1> QED
  BY <1>1, <1>2

LEMMA FlatOfNone == Flat(<<>>) = <<>>
<1>1. Len(Texts(<<>>)) = 0 /\ Texts(<<>>) = <<>>
  BY DEF Texts
<1> QED
  BY <1>1, FlattenJoins DEF Flat

\* One line more.
LEMMA FlatAppend ==
    ASSUME NEW ls \in Seq(Line), NEW l \in Line
    PROVE  Flat(Append(ls, l)) = Flat(ls) \o Text(l)
<1> DEFINE n == Len(ls)
           s == Texts(ls)
           t == Texts(Append(ls, l))
<1>1. n \in Nat /\ Len(Append(ls, l)) = n + 1
  OBVIOUS
<1>2. Len(s) = n /\ Len(t) = n + 1
  BY <1>1 DEF Texts
<1>3. (\A i \in 1..n : s[i] = t[i]) /\ t[n + 1] = Text(l)
  BY <1>1 DEF Texts
<1> HIDE DEF s, t
<1>4. PICK g : Joins(g, t, n + 1) /\ FlattenSeq(t) = g[n + 1]
  BY <1>1, <1>2, FlattenJoins
<1>5. g[n + 1] = IF n + 1 = 1 THEN t[n + 1] ELSE g[(n + 1) - 1] \o t[n + 1]
  <2>1. n + 1 \in 1..n + 1
    BY <1>1
  <2> QED
    BY <1>4, <2>1 DEF Joins
<1>6. CASE n = 0
  <2>1. ls = <<>>
    BY <1>6
  <2>2. Flat(ls) = <<>>
    BY <2>1, FlatOfNone
  <2>3. Text(l) = <<>> \o Text(l)
    BY TextIsBytes
  <2>4. FlattenSeq(t) = Text(l)
    BY <1>3, <1>4, <1>5, <1>6
  <2> QED
    BY <2>2, <2>3, <2>4 DEF Flat, t
<1>7. CASE n # 0
  <2>1. PICK f : Joins(f, s, n) /\ FlattenSeq(s) = f[n]
    BY <1>1, <1>2, <1>7, FlattenJoins
  <2>2. n \in 1..n /\ n <= n + 1 /\ n + 1 \in Nat /\ (n + 1) - 1 = n /\ n + 1 # 1
    BY <1>1, <1>7
  <2>3. Agree(f, g, n)
    <3>1. n \in Nat
      BY <1>1
    <3>2. Joins(g, t, n + 1)
      BY <1>4
    <3>3. Joins(f, s, n)
      BY <2>1
    <3>4. Agree(s, t, n)
      BY <1>3 DEF Agree
    <3> HIDE DEF n
    <3> QED
      BY <3>1, <3>2, <3>3, <3>4, JoinsAgree
  <2>4. f[n] = g[n]
    BY <2>2, <2>3 DEF Agree
  <2>5. FlattenSeq(t) = FlattenSeq(s) \o Text(l)
    BY <1>3, <1>4, <1>5, <2>1, <2>2, <2>4
  <2> QED
    BY <2>5 DEF Flat, s, t
<1> QED
  BY <1>6, <1>7

\* A sequence of lines that is not empty is one and a last line.
LEMMA LastLine ==
    ASSUME NEW ls \in Seq(Line), Len(ls) # 0
    PROVE  LET front == SubSeq(ls, 1, Len(ls) - 1)
           IN  /\ front \in Seq(Line) /\ Len(front) = Len(ls) - 1
               /\ ls[Len(ls)] \in Line /\ ls = Append(front, ls[Len(ls)])
<1> DEFINE n == Len(ls)
           front == SubSeq(ls, 1, n - 1)
<1>1. n \in Nat /\ n > 0 /\ \A i \in 1..n : ls[i] \in Line
  OBVIOUS
<1>2. front \in Seq(Line) /\ Len(front) = n - 1 /\ \A i \in 1..n - 1 : front[i] = ls[i]
  <2> HIDE DEF n
  <2>1. 1 \in Int /\ n - 1 \in Int /\ (\A i \in 1..n - 1 : ls[i] \in Line)
    BY <1>1
  <2>2. /\ front \in Seq(Line)
        /\ Len(front) = IF 1 <= n - 1 THEN (n - 1) - 1 + 1 ELSE 0
        /\ \A i \in 1..(n - 1) - 1 + 1 : front[i] = ls[1 + i - 1]
    BY <2>1, SubSeqProperties
  <2> QED
    BY <1>1, <2>2
<1> HIDE DEF front
<1>3. n = Len(ls)
  OBVIOUS
<1> HIDE DEF n
<1> DEFINE t == Append(front, ls[n])
<1>4. ls[n] \in Line
  BY <1>1
<1>5. t \in Seq(Line) /\ Len(t) = n /\ t[n] = ls[n] /\ \A i \in 1..n - 1 : t[i] = front[i]
  BY <1>1, <1>2, <1>4
<1> HIDE DEF t
<1>6. \A i \in 1..n : t[i] = ls[i]
  BY <1>1, <1>2, <1>5
<1>7. t = ls
  BY <1>3, <1>5, <1>6, SeqEqual
<1> QED
  BY <1>2, <1>3, <1>4, <1>7 DEF t, front, n

LEMMA FlatIsBytes ==
    ASSUME NEW ls \in Seq(Line)
    PROVE  Flat(ls) \in Seq(Byte)
<1> DEFINE Bad == {n \in Nat : \E s \in Seq(Line) : Len(s) = n /\ Flat(s) \notin Seq(Byte)}
<1>1. SUFFICES ASSUME Bad # {} PROVE FALSE
  OBVIOUS
<1>2. PICK n \in Bad : \A e \in Bad : n <= e
  BY <1>1, LeastNumber
<1>3. PICK s \in Seq(Line) : Len(s) = n /\ Flat(s) \notin Seq(Byte)
  OBVIOUS
<1>4. n # 0
  <2>1. n = 0 => s = <<>>
    BY <1>3
  <2> QED
    BY <1>3, <2>1, FlatOfNone
<1> DEFINE front == SubSeq(s, 1, n - 1)
<1>5. front \in Seq(Line) /\ Len(front) = n - 1 /\ s[n] \in Line /\ s = Append(front, s[n])
  BY <1>3, <1>4, LastLine
<1>6. n - 1 \in Nat /\ n - 1 \notin Bad
  BY <1>2, <1>4
<1> HIDE DEF front
<1>7. Flat(front) \in Seq(Byte)
  BY <1>5, <1>6
<1>8. Flat(s) = Flat(front) \o Text(s[n]) /\ Text(s[n]) \in Seq(Byte)
  BY <1>5, FlatAppend, TextIsBytes
<1> QED
  BY <1>3, <1>7, <1>8

\* The bytes of one sequence of lines after another.
LEMMA FlatConcat ==
    ASSUME NEW a \in Seq(Line), NEW b \in Seq(Line)
    PROVE  Flat(a \o b) = Flat(a) \o Flat(b)
<1> DEFINE Bad == {n \in Nat : \E s \in Seq(Line) : Len(s) = n /\ Flat(a \o s) # Flat(a) \o Flat(s)}
<1>1. SUFFICES ASSUME Bad # {} PROVE FALSE
  OBVIOUS
<1>2. PICK n \in Bad : \A e \in Bad : n <= e
  BY <1>1, LeastNumber
<1>3. PICK s \in Seq(Line) : Len(s) = n /\ Flat(a \o s) # Flat(a) \o Flat(s)
  OBVIOUS
<1>4. n # 0
  <2> SUFFICES ASSUME n = 0 PROVE FALSE
    OBVIOUS
  <2>1. s = <<>> /\ a \o s = a
    BY <1>3
  <2>2. Flat(a) \o <<>> = Flat(a)
    BY FlatIsBytes
  <2> QED
    BY <1>3, <2>1, <2>2, FlatOfNone
<1> DEFINE front == SubSeq(s, 1, n - 1)
<1>5. front \in Seq(Line) /\ Len(front) = n - 1 /\ s[n] \in Line /\ s = Append(front, s[n])
  BY <1>3, <1>4, LastLine
<1>6. n - 1 \in Nat /\ n - 1 \notin Bad
  BY <1>2, <1>4
<1> HIDE DEF front
<1> DEFINE l == s[n]
<1> HIDE DEF l
<1>7. Flat(a \o front) = Flat(a) \o Flat(front)
  BY <1>5, <1>6
<1>8. a \o front \in Seq(Line) /\ a \o s = Append(a \o front, l) /\ l \in Line
  <2>1. l \in Line /\ s = front \o <<l>> /\ <<l>> \in Seq(Line)
    <3>1. l \in Line /\ s = Append(front, l)
      BY <1>5 DEF l
    <3> QED
      BY <1>5, <3>1, AppendIsConcat
  <2>2. a \o s = (a \o front) \o <<l>>
    <3> DEFINE one == <<l>>
    <3>1. front \in Seq(Line) /\ one \in Seq(Line) /\ s = front \o one
      BY <1>5, <2>1
    <3> HIDE DEF one
    <3>2. (a \o front) \o one = a \o (front \o one)
      BY <3>1, ConcatAssociative, SMTT(30)
    <3>3. a \o s = (a \o front) \o one
      BY <3>1, <3>2
    <3> QED
      BY <3>3 DEF one
  <2>3. a \o front \in Seq(Line)
    BY <1>5
  <2> QED
    BY <2>1, <2>2, <2>3, AppendIsConcat
<1>9. Flat(a \o s) = Flat(a \o front) \o Text(l) /\ Flat(s) = Flat(front) \o Text(l)
  BY <1>5, <1>8, FlatAppend DEF l
<1>10. (Flat(a) \o Flat(front)) \o Text(l) = Flat(a) \o (Flat(front) \o Text(l))
  <2>1. Flat(a) \in Seq(Byte) /\ Flat(front) \in Seq(Byte) /\ Text(l) \in Seq(Byte)
    BY <1>5, <1>8, FlatIsBytes, TextIsBytes
  <2> QED
    BY <2>1
<1> QED
  BY <1>3, <1>7, <1>9, <1>10

-----------------------------------------------------------------------------
(* The inductive invariant.                                                 *)

\* Between lockExclusive and unlockExclusive.
Holding == {"locked", "build", "commit", "failed", "relock"}

\* Who is between them owns the lock.
HolderOwnsLock == \A a \in Actors : pc[a] \in Holding => owner = a

\* No call is under way before make() returned and after the destructor ran.
QuietWhenDown == mode # "up" => \A a \in Actors : pc[a] = "idle"

\* A thread in log() has formatted its line.
CallHasLine == \A t \in Threads : pc[t] # "idle" => cur[t] \in Line

\* The offset never passes the end of the file.
OffsetInFile == offset \in 0..Len(file)

\* After vn_rdwr succeeded the buffer is in the file, behind the offset.
BufferIsWritten ==
    \A a \in Actors : pc[a] = "commit" =>
        /\ offset + Len(buffer[a]) <= Len(file)
        /\ \A i \in 1..Len(buffer[a]) : file[offset + i] = buffer[a][i]

CallsInv == TypeOK /\ HolderOwnsLock /\ QuietWhenDown /\ CallHasLine
FileInv  == OffsetInFile /\ BufferIsWritten /\ SealedInPlace
IInv     == CallsInv /\ FileInv

-----------------------------------------------------------------------------
(* What no file content depends on: types, the lock, who is in a call.       *)

LEMMA CallsInit == Init => CallsInv
  BY ActorsAreDistinct, BoundsAreNatural
  DEF Init, CallsInv, TypeOK, Labels, HolderOwnsLock, Holding, QuietWhenDown,
      CallHasLine, Actors

\* The actions of FileLogger::make, the destructor and a panic.
LEMMA CallsLifecycle ==
    ASSUME CallsInv, OffsetInFile, Lifecycle
    PROVE  CallsInv'
<1> USE ActorsAreDistinct, BoundsAreNatural
    DEF CallsInv, OffsetInFile, TypeOK, Labels, HolderOwnsLock, Holding, QuietWhenDown,
        CallHasLine, ghosts, locals
<1>1. ASSUME Make PROVE CallsInv'
  BY <1>1 DEF Make
<1>2. ASSUME ProbeChunkRead PROVE CallsInv'
  BY <1>2 DEF ProbeChunkRead, ProbeRead
<1>3. ASSUME ProbeEnd PROVE CallsInv'
  BY <1>3 DEF ProbeEnd, ProbeRead
<1>4. ASSUME ProbeFails PROVE CallsInv'
  BY <1>4 DEF ProbeFails
<1>5. ASSUME Unload PROVE CallsInv'
  BY <1>5 DEF Unload, Vanish
<1>6. ASSUME Panic PROVE CallsInv'
  BY <1>6 DEF Panic, Vanish, Actors
<1> QED
  BY <1>1, <1>2, <1>3, <1>4, <1>5, <1>6 DEF Lifecycle

\* The steps of log() outside of tryWriteLines().
LEMMA CallsLog ==
    ASSUME CallsInv, NEW t \in Threads, LogStep(t)
    PROVE  CallsInv'
<1> USE ActorsAreDistinct, BoundsAreNatural
    DEF CallsInv, TypeOK, Labels, HolderOwnsLock, Holding, QuietWhenDown,
        CallHasLine, ghosts, locals, shared, Goto, Unlock, FailWithLOG, Actors
<1>1. ASSUME NEW k \in LineLengths, Log(t, k) PROVE CallsInv'
  <2>1. cur'[t] \in Line /\ cur' \in [Threads -> Line \cup {NoLine}]
    <3>1. [by |-> t, seq |-> calls[t] + 1, len |-> k] \in Line
      BY <1>1, OneMoreCall DEF Log, Line
    <3> QED BY <1>1, <3>1 DEF Log
  <2>2. calls' \in [Threads -> 0..MaxLines]
    BY <1>1, OneMoreCall DEF Log
  <2>3. pc' \in [Actors -> Labels]
    BY <1>1 DEF Log
  <2>4. mode' = "up" /\ HolderOwnsLock'
    BY <1>1 DEF Log
  <2>5. CallHasLine'
    BY <1>1, <2>1 DEF Log
  <2> QED
    BY <1>1, <2>1, <2>2, <2>3, <2>4, <2>5 DEF Log
<1>2. ASSUME NEW k \in LineLengths, LogDiscards(t, k) PROVE CallsInv'
  <2>1. calls' \in [Threads -> 0..MaxLines]
    BY <1>2, OneMoreCall DEF LogDiscards
  <2> QED BY <1>2, <2>1 DEF LogDiscards
<1>3. ASSUME Collect(t) PROVE CallsInv'
  BY <1>3 DEF Collect
<1>4. ASSUME CollectNoMemory(t) PROVE CallsInv'
  BY <1>4 DEF CollectNoMemory
<1>5. ASSUME LogGivesUp(t) PROVE CallsInv'
  <2>1. queue' \in Seq(Line)
    BY <1>5 DEF LogGivesUp, Enqueue
  <2>2. batch' \in [Actors -> Seq(Line)]
    BY <1>5 DEF LogGivesUp
  <2> QED BY <1>5, <2>1, <2>2 DEF LogGivesUp
<1>6. ASSUME LogGivesUpNoMemory(t) PROVE CallsInv'
  BY <1>6 DEF LogGivesUpNoMemory, EnqueueNoMemory
<1>7. ASSUME PrintLine(t) PROVE CallsInv'
  BY <1>7 DEF PrintLine
<1> QED
  BY <1>1, <1>2, <1>3, <1>4, <1>5, <1>6, <1>7 DEF LogStep

\* The steps of flushUnlogged() outside of tryWriteLines().
LEMMA CallsFlush ==
    ASSUME CallsInv, FlushStep
    PROVE  CallsInv'
<1> USE ActorsAreDistinct, BoundsAreNatural
    DEF CallsInv, TypeOK, Labels, HolderOwnsLock, Holding, QuietWhenDown,
        CallHasLine, ghosts, locals, shared, Goto, Unlock, FailWithLOG, Actors, Rewind
<1>1. ASSUME FlushTick PROVE CallsInv'
  BY <1>1 DEF FlushTick
<1>2. ASSUME FlushNothing PROVE CallsInv'
  BY <1>2 DEF FlushNothing
<1>3. ASSUME Take PROVE CallsInv'
  BY <1>3 DEF Take
<1>4. ASSUME FlushRequeues PROVE CallsInv'
  BY <1>4, SMTT(30) DEF FlushRequeues, Enqueue
<1>5. ASSUME FlushRequeuesNoMemory PROVE CallsInv'
  BY <1>5 DEF FlushRequeuesNoMemory, EnqueueNoMemory
<1>6. ASSUME FlushGivesUp PROVE CallsInv'
  BY <1>6 DEF FlushGivesUp
<1> QED
  BY <1>1, <1>2, <1>3, <1>4, <1>5, <1>6 DEF FlushStep

\* Waiting for the lock, and tryWriteLines().
LEMMA CallsWrite ==
    ASSUME CallsInv, OffsetInFile, NEW a \in Actors, WriteStep(a)
    PROVE  CallsInv'
<1> USE ActorsAreDistinct, BoundsAreNatural
    DEF CallsInv, TypeOK, Labels, HolderOwnsLock, Holding, QuietWhenDown,
        CallHasLine, ghosts, locals, shared, Goto, Unlock, FailWithLOG, Actors, Rewind
<1>1. ASSUME Acquire(a) PROVE CallsInv'
  BY <1>1 DEF Acquire
<1>2. ASSUME CopyLine(a) PROVE CallsInv'
  <2>1. batch[a][at[a] + 1] \in Line
    BY <1>2 DEF CopyLine
  <2>2. Text(batch[a][at[a] + 1]) \in Seq(Byte)
    BY <2>1, TextIsBytes
  <2>3. buffer' \in [Actors -> Seq(Byte)]
    BY <1>2, <2>2 DEF CopyLine
  <2>4. at' \in [Actors -> Nat]
    BY <1>2 DEF CopyLine
  <2> QED BY <1>2, <2>3, <2>4 DEF CopyLine
<1>3. ASSUME BufferNoMemory(a) PROVE CallsInv'
  BY <1>3 DEF BufferNoMemory
<1>4. ASSUME WriteAll(a) PROVE CallsInv'
  <2>1. file' \in Seq(Byte)
    BY <1>4, OverwriteBytes DEF WriteAll, OffsetInFile
  <2> QED BY <1>4, <2>1 DEF WriteAll, BufferReady
<1>5. ASSUME NEW n \in 0..Len(buffer[a]), WriteError(a, n) PROVE CallsInv'
  <2>1. SubSeq(buffer[a], 1, n) \in Seq(Byte)
    BY <1>5
  <2>2. file' \in Seq(Byte)
    BY <1>5, <2>1, OverwriteBytes DEF WriteError, OffsetInFile
  <2> QED BY <1>5, <2>2, SMTT(30) DEF WriteError, BufferReady
<1>6. ASSUME NEW n \in 0..Len(buffer[a]), WriteShort(a, n) PROVE CallsInv'
  <2>1. SubSeq(buffer[a], 1, n) \in Seq(Byte)
    BY <1>6
  <2>2. file' \in Seq(Byte)
    BY <1>6, <2>1, OverwriteBytes DEF WriteShort, OffsetInFile
  <2>3. pc' \in [Actors -> Labels] /\ HolderOwnsLock' /\ QuietWhenDown' /\ CallHasLine'
    BY <1>6 DEF WriteShort, BufferReady
  <2>4. at' \in [Actors -> Nat]
    BY <1>6 DEF WriteShort
  <2>5. buffer' \in [Actors -> Seq(Byte)]
    <3>1. <<>> \in Seq(Byte)
      OBVIOUS
    <3> QED BY <1>6, <3>1, UpdateKeepsType DEF WriteShort
  <2> QED BY <1>6, <2>2, <2>3, <2>4, <2>5 DEF WriteShort
<1>7. ASSUME Commit(a) PROVE CallsInv'
  <2>1. sealed' \in Seq(Byte) /\ acked' \in Seq(Line) /\ queue' \in Seq(Line) /\ offset' \in Nat
    BY <1>7 DEF Commit
  <2>2. done' \subseteq Line
    BY <1>7 DEF Commit
  <2>3. cur' \in [Threads -> Line \cup {NoLine}]
    BY <1>7 DEF Commit
  <2>4. batch' \in [Actors -> Seq(Line)] /\ at' \in [Actors -> Nat] /\ buffer' \in [Actors -> Seq(Byte)]
    BY <1>7 DEF Commit
  <2>5. pc' \in [Actors -> Labels] /\ owner' \in Actors \cup {Nobody}
        /\ HolderOwnsLock' /\ QuietWhenDown'
    BY <1>7 DEF Commit
  <2>6. CallHasLine'
    BY <1>7 DEF Commit
  <2> QED BY <1>7, <2>1, <2>2, <2>3, <2>4, <2>5, <2>6 DEF Commit
<1> QED
  BY <1>1, <1>2, <1>3, <1>4, <1>5, <1>6, <1>7 DEF WriteStep

LEMMA CallsStep ==
    ASSUME CallsInv, OffsetInFile, [Next]_vars
    PROVE  CallsInv'
<1>1. CASE UNCHANGED vars
  BY <1>1 DEF CallsInv, TypeOK, HolderOwnsLock, QuietWhenDown, CallHasLine, vars
<1>2. CASE Next
  BY <1>2, CallsLifecycle, CallsLog, CallsFlush, CallsWrite DEF Next
<1> QED
  BY <1>1, <1>2

-----------------------------------------------------------------------------
(* The file: what was acknowledged stays, and a commit acknowledges what the *)
(* file holds.                                                              *)

LEMMA FileInit == Init => FileInv
  BY DEF Init, FileInv, OffsetInFile, BufferIsWritten, SealedInPlace, Actors

\* Most steps touch neither the file nor the offset, and bring nobody to the
\* commit of a write.
LEMMA FileUntouched ==
    ASSUME CallsInv, FileInv, UNCHANGED <<file, mode, offset, sealed>>,
           \A a \in Actors : pc'[a] = "commit" => pc[a] = "commit" /\ buffer'[a] = buffer[a]
    PROVE  FileInv'
  BY DEF FileInv, OffsetInFile, BufferIsWritten, SealedInPlace

\* A write leaves the bytes before the offset, that is the acknowledged ones.
LEMMA FileOverwritten ==
    ASSUME CallsInv, FileInv, NEW d \in Seq(Byte),
           mode = "up", file' = Overwrite(file, offset, d),
           UNCHANGED <<mode, offset, sealed>>
    PROVE  /\ OffsetInFile' /\ SealedInPlace'
           /\ offset + Len(d) <= Len(file')
           /\ \A i \in 1..Len(d) : file'[offset + i] = d[i]
<1>1. file \in Seq(Byte) /\ sealed \in Seq(Byte) /\ offset \in 0..Len(file)
      /\ offset = Len(sealed) /\ \A i \in 1..Len(sealed) : file[i] = sealed[i]
  BY DEF CallsInv, TypeOK, FileInv, OffsetInFile, SealedInPlace
<1>2. /\ file' \in Seq(Byte)
      /\ Len(file') >= offset + Len(d)
      /\ Len(file') >= Len(file)
      /\ \A i \in 1..offset : file'[i] = file[i]
      /\ \A i \in 1..Len(d) : file'[offset + i] = d[i]
  BY <1>1, OverwriteBytes
<1> QED
  BY <1>1, <1>2 DEF OffsetInFile, SealedInPlace

LEMMA FileLifecycle ==
    ASSUME CallsInv, FileInv, Lifecycle
    PROVE  FileInv'
<1> USE DEF ghosts, locals
<1>1. ASSUME Make PROVE FileInv'
  BY <1>1 DEF Make, FileInv, OffsetInFile, BufferIsWritten, SealedInPlace, CallsInv,
              TypeOK, QuietWhenDown
<1>2. ASSUME ProbeChunkRead PROVE FileInv'
  BY <1>2, BoundsAreNatural
  DEF ProbeChunkRead, ProbeRead, FileInv, OffsetInFile, BufferIsWritten, SealedInPlace,
      CallsInv, TypeOK, QuietWhenDown
<1>3. ASSUME ProbeEnd PROVE FileInv'
  <2>1. offset' = Len(file)
    BY <1>3, BoundsAreNatural
    DEF ProbeEnd, ProbeRead, FileInv, OffsetInFile, CallsInv, TypeOK
  <2> QED
    BY <1>3, <2>1
    DEF ProbeEnd, FileInv, OffsetInFile, BufferIsWritten, SealedInPlace, CallsInv,
        TypeOK, QuietWhenDown
<1>4. ASSUME ProbeFails PROVE FileInv'
  BY <1>4 DEF ProbeFails, FileInv, OffsetInFile, BufferIsWritten, SealedInPlace, CallsInv,
              TypeOK, QuietWhenDown
<1>5. ASSUME Unload PROVE FileInv'
  BY <1>5 DEF Unload, Vanish, FileInv, OffsetInFile, BufferIsWritten, SealedInPlace,
              CallsInv, TypeOK
<1>6. ASSUME Panic PROVE FileInv'
  BY <1>6 DEF Panic, Vanish, FileInv, OffsetInFile, BufferIsWritten, SealedInPlace,
              CallsInv, TypeOK
<1> QED
  BY <1>1, <1>2, <1>3, <1>4, <1>5, <1>6 DEF Lifecycle

LEMMA FileLog ==
    ASSUME CallsInv, FileInv, NEW t \in Threads, LogStep(t)
    PROVE  FileInv'
<1>1. UNCHANGED <<file, mode, offset, sealed>>
  BY DEF LogStep, Log, LogDiscards, Collect, CollectNoMemory, LogGivesUp,
         LogGivesUpNoMemory, PrintLine, shared, ghosts
<1>2. \A a \in Actors : pc'[a] = "commit" => pc[a] = "commit"
  BY DEF LogStep, Log, LogDiscards, Collect, CollectNoMemory, LogGivesUp,
         LogGivesUpNoMemory, PrintLine, Goto, Unlock, FailWithLOG, CallsInv, TypeOK
<1>3. buffer' = buffer
  BY DEF LogStep, Log, LogDiscards, Collect, CollectNoMemory, LogGivesUp,
         LogGivesUpNoMemory, PrintLine, locals
<1> QED
  BY <1>1, <1>2, <1>3, FileUntouched

LEMMA FileFlush ==
    ASSUME CallsInv, FileInv, FlushStep
    PROVE  FileInv'
<1>1. UNCHANGED <<file, mode, offset, sealed>>
  BY DEF FlushStep, FlushTick, FlushNothing, Take, FlushRequeues,
         FlushRequeuesNoMemory, FlushGivesUp, shared, ghosts
<1>2. \A a \in Actors : pc'[a] = "commit" => pc[a] = "commit" /\ a # Flusher
  BY DEF FlushStep, FlushTick, FlushNothing, Take, FlushRequeues, FlushRequeuesNoMemory,
         FlushGivesUp, Goto, Unlock, FailWithLOG, CallsInv, TypeOK
<1>3. \A a \in Actors : a # Flusher => buffer'[a] = buffer[a]
  BY DEF FlushStep, FlushTick, FlushNothing, Take, FlushRequeues, FlushRequeuesNoMemory,
         FlushGivesUp, locals, Rewind, CallsInv, TypeOK
<1> QED
  BY <1>1, <1>2, <1>3, FileUntouched

\* Whoever is in tryWriteLines() is alone there, and the logger is up.
LEMMA WriterIsAlone ==
    ASSUME CallsInv, NEW a \in Actors, pc[a] \in Holding
    PROVE  mode = "up" /\ \A b \in Actors : pc[b] \in Holding => b = a
  BY DEF CallsInv, HolderOwnsLock, QuietWhenDown, Holding

LEMMA FileWrite ==
    ASSUME CallsInv, FileInv, NEW a \in Actors, WriteStep(a)
    PROVE  FileInv'
<1>1. ASSUME Acquire(a) \/ CopyLine(a) \/ BufferNoMemory(a)
      PROVE  FileInv'
  <2>1. UNCHANGED <<file, mode, offset, sealed>>
    BY <1>1 DEF Acquire, CopyLine, BufferNoMemory, shared
  <2>2. \A b \in Actors : pc'[b] = "commit" => pc[b] = "commit" /\ buffer'[b] = buffer[b]
    BY <1>1 DEF Acquire, CopyLine, BufferNoMemory, locals, Goto, FailWithLOG, CallsInv, TypeOK
  <2> QED
    BY <2>1, <2>2, FileUntouched
<1>2. ASSUME WriteAll(a) PROVE FileInv'
  <2>1. /\ pc[a] = "build" /\ file' = Overwrite(file, offset, buffer[a])
        /\ UNCHANGED <<mode, offset, sealed, buffer>>
        /\ \A b \in Actors : b # a => pc'[b] = pc[b]
    BY <1>2 DEF WriteAll, BufferReady, Goto, locals, ghosts, CallsInv, TypeOK
  <2>2. mode = "up" /\ \A b \in Actors : pc[b] = "commit" => b = a
    BY <2>1, WriterIsAlone DEF Holding
  <2>3. buffer[a] \in Seq(Byte)
    BY DEF CallsInv, TypeOK
  <2>4. /\ OffsetInFile' /\ SealedInPlace'
        /\ offset + Len(buffer[a]) <= Len(file')
        /\ \A i \in 1..Len(buffer[a]) : file'[offset + i] = buffer[a][i]
    BY <2>1, <2>2, <2>3, FileOverwritten
  <2>5. \A b \in Actors : pc'[b] = "commit" => b = a
    BY <2>1, <2>2
  <2>6. BufferIsWritten'
    BY <2>1, <2>4, <2>5 DEF BufferIsWritten
  <2> QED
    BY <2>4, <2>6 DEF FileInv
<1>3. ASSUME NEW n \in 0..Len(buffer[a]), WriteError(a, n) \/ WriteShort(a, n)
      PROVE  FileInv'
  <2> DEFINE d == SubSeq(buffer[a], 1, n)
  <2>1. /\ pc[a] = "build" /\ file' = Overwrite(file, offset, d)
        /\ UNCHANGED <<mode, offset, sealed>>
    BY <1>3 DEF WriteError, WriteShort, BufferReady, ghosts
  <2>2. \A b \in Actors : pc'[b] = "commit" => pc[b] = "commit"
    BY <1>3 DEF WriteError, WriteShort, Goto, FailWithLOG, CallsInv, TypeOK
  <2>3. mode = "up" /\ \A b \in Actors : pc[b] # "commit"
    BY <2>1, WriterIsAlone DEF Holding
  <2>4. d \in Seq(Byte)
    BY DEF CallsInv, TypeOK
  <2>5. OffsetInFile' /\ SealedInPlace'
    BY <2>1, <2>3, <2>4, FileOverwritten
  <2>6. BufferIsWritten'
    BY <2>2, <2>3 DEF BufferIsWritten
  <2> QED
    BY <2>5, <2>6 DEF FileInv
<1>4. ASSUME Commit(a) PROVE FileInv'
  <2>1. /\ pc[a] = "commit" /\ UNCHANGED <<file, mode>>
        /\ offset' = offset + Len(buffer[a])
        /\ sealed' = sealed \o buffer[a]
    BY <1>4 DEF Commit
  <2>2. mode = "up" /\ \A b \in Actors : pc[b] = "commit" => b = a
    BY <2>1, WriterIsAlone DEF Holding
  <2>3. \A b \in Actors : pc'[b] # "commit"
    BY <1>4, <2>2 DEF Commit, Unlock, Goto, CallsInv, TypeOK
  <2>4. /\ file \in Seq(Byte) /\ sealed \in Seq(Byte) /\ buffer[a] \in Seq(Byte)
        /\ offset = Len(sealed) /\ Len(sealed) <= Len(file)
        /\ \A i \in 1..Len(sealed) : file[i] = sealed[i]
    BY <2>2 DEF CallsInv, TypeOK, FileInv, SealedInPlace
  <2>5. /\ offset + Len(buffer[a]) <= Len(file)
        /\ \A i \in 1..Len(buffer[a]) : file[offset + i] = buffer[a][i]
    BY <2>1 DEF FileInv, BufferIsWritten
  <2>6. Len(sealed') = Len(sealed) + Len(buffer[a])
    BY <2>1, <2>4
  <2>7. ASSUME NEW i \in 1..Len(sealed') PROVE file[i] = sealed'[i]
    <3>1. CASE i <= Len(sealed)
      BY <2>1, <2>4, <2>6, <3>1
    <3>2. CASE i > Len(sealed)
      <4>1. i - Len(sealed) \in 1..Len(buffer[a])
        BY <2>4, <2>6, <3>2
      <4>2. file[offset + (i - Len(sealed))] = buffer[a][i - Len(sealed)]
        BY <2>5, <4>1
      <4>3. offset + (i - Len(sealed)) = i
        BY <2>4
      <4>4. sealed'[i] = buffer[a][i - Len(sealed)]
        BY <2>1, <2>4, <2>6, <3>2
      <4> QED BY <4>2, <4>3, <4>4
    <3> QED BY <2>4, <3>1, <3>2
  <2>8. SealedInPlace'
    BY <2>1, <2>4, <2>5, <2>6, <2>7 DEF SealedInPlace
  <2>9. OffsetInFile'
    BY <2>1, <2>4, <2>5 DEF OffsetInFile
  <2> QED
    BY <2>3, <2>8, <2>9 DEF FileInv, BufferIsWritten
<1> QED
  BY <1>1, <1>2, <1>3, <1>4 DEF WriteStep

LEMMA FileStep ==
    ASSUME CallsInv, FileInv, [Next]_vars
    PROVE  FileInv'
<1>1. CASE UNCHANGED vars
  BY <1>1 DEF FileInv, OffsetInFile, BufferIsWritten, SealedInPlace, vars
<1>2. CASE Next
  BY <1>2, FileLifecycle, FileLog, FileFlush, FileWrite DEF Next
<1> QED
  BY <1>1, <1>2

-----------------------------------------------------------------------------
(* What each actor works on.                                                *)

\* A thread in log() works on the last line it formatted.
CurIsCall == \A t \in Threads : pc[t] # "idle" => cur[t].by = t /\ cur[t].seq = calls[t]

\* log() writes what waits, and its own line behind it; flushUnlogged() has
\* moved out what waits.
BatchIsWaiting ==
    /\ \A t \in Threads : pc[t] \in {"build", "commit", "failed"} => batch[t] = Append(queue, cur[t])
    /\ pc[Flusher] \in {"build", "commit"} => queue = <<>>
    /\ pc[Flusher] \notin {"build", "commit", "failed", "relock"} => batch[Flusher] = <<>>

\* The buffer has the bytes of the lines before the index, and is forgotten when
\* tryWriteLines returns; then flushUnlogged() counts what it puts back.
BufferOf(a) ==
    IF pc[a] \in {"build", "commit"}
    THEN /\ at[a] \in 0..Len(batch[a])
         /\ buffer[a] = Flat(SubSeq(batch[a], 1, at[a]))
         /\ pc[a] = "commit" => at[a] = Len(batch[a])
    ELSE /\ buffer[a] = <<>>
         /\ IF a = Flusher /\ pc[a] \in {"failed", "relock"}
            THEN at[a] \in 0..Len(batch[a]) ELSE at[a] = 0
BufferIsBatch == \A a \in Actors : BufferOf(a)

\* A new logger has acknowledged nothing.
NothingYet == mode # "up" => acked = <<>>

WorkInv == CurIsCall /\ BatchIsWaiting /\ BufferIsBatch /\ NothingYet

LEMMA WorkInit == Init => WorkInv
BY ActorsAreDistinct
DEF Init, WorkInv, CurIsCall, BatchIsWaiting, BufferIsBatch, BufferOf, NothingYet, Actors

LEMMA WorkLifecycle ==
    ASSUME CallsInv, WorkInv, Lifecycle PROVE WorkInv'
<1> USE ActorsAreDistinct
    DEF CallsInv, WorkInv, CurIsCall, BatchIsWaiting, BufferIsBatch, BufferOf, NothingYet, Actors,
        ghosts, locals, QuietWhenDown
<1>1. ASSUME Make \/ ProbeChunkRead \/ ProbeEnd \/ ProbeFails PROVE WorkInv'
  BY <1>1 DEF Make, ProbeChunkRead, ProbeEnd, ProbeFails
<1>2. ASSUME Unload PROVE WorkInv'
  BY <1>2 DEF Unload, Vanish
<1>3. ASSUME Panic PROVE WorkInv'
  BY <1>3 DEF Panic, Vanish
<1> QED
  BY <1>1, <1>2, <1>3 DEF Lifecycle

\* Another actor's part is not touched by a step of a.
LEMMA OthersWork ==
    ASSUME CallsInv, WorkInv, NEW a \in Actors, pc[a] \in Holding \/ queue' = queue,
           \A b \in Actors \ {a} :
               pc'[b] = pc[b] /\ batch'[b] = batch[b] /\ at'[b] = at[b] /\ buffer'[b] = buffer[b],
           \A t \in Threads \ {a} : cur'[t] = cur[t] /\ calls'[t] = calls[t]
    PROVE  /\ \A t \in Threads \ {a} :
                  /\ pc'[t] # "idle" => cur'[t].by = t /\ cur'[t].seq = calls'[t]
                  /\ pc'[t] \in {"build", "commit", "failed"} => batch'[t] = Append(queue', cur'[t])
           /\ a # Flusher =>
                  /\ pc'[Flusher] \in {"build", "commit"} => queue' = <<>>
                  /\ pc'[Flusher] \notin {"build", "commit", "failed", "relock"} => batch'[Flusher] = <<>>
           /\ \A b \in Actors \ {a} : BufferOf(b)'
<1>1. ASSUME NEW b \in Actors \ {a}, queue' # queue PROVE pc[b] \notin Holding
  BY <1>1, WriterIsAlone
<1>2. Flusher \in Actors /\ Threads \subseteq Actors
  BY DEF Actors
<1>3. \A b \in Actors \ {a} : BufferOf(b)'
  BY DEF WorkInv, BufferIsBatch, BufferOf
<1> QED
  BY <1>1, <1>2, <1>3 DEF WorkInv, CurIsCall, BatchIsWaiting, Holding

\* It is all that a step has to keep when it leaves what a logger acknowledged
\* alone, but for its own part.
LEMMA OwnWork ==
    ASSUME CallsInv, WorkInv, NEW a \in Actors, pc[a] \in Holding \/ queue' = queue,
           \A b \in Actors \ {a} :
               pc'[b] = pc[b] /\ batch'[b] = batch[b] /\ at'[b] = at[b] /\ buffer'[b] = buffer[b],
           \A t \in Threads \ {a} : cur'[t] = cur[t] /\ calls'[t] = calls[t],
           mode' = mode, acked' = acked \/ mode = "up",
           a \in Threads =>
               /\ pc'[a] # "idle" => cur'[a].by = a /\ cur'[a].seq = calls'[a]
               /\ pc'[a] \in {"build", "commit", "failed"} => batch'[a] = Append(queue', cur'[a]),
           a = Flusher =>
               /\ pc'[a] \in {"build", "commit"} => queue' = <<>>
               /\ pc'[a] \notin {"build", "commit", "failed", "relock"} => batch'[a] = <<>>,
           BufferOf(a)'
    PROVE  WorkInv'
<1>1. /\ \A t \in Threads \ {a} :
             /\ pc'[t] # "idle" => cur'[t].by = t /\ cur'[t].seq = calls'[t]
             /\ pc'[t] \in {"build", "commit", "failed"} => batch'[t] = Append(queue', cur'[t])
      /\ a # Flusher =>
             /\ pc'[Flusher] \in {"build", "commit"} => queue' = <<>>
             /\ pc'[Flusher] \notin {"build", "commit", "failed", "relock"} => batch'[Flusher] = <<>>
      /\ \A b \in Actors \ {a} : BufferOf(b)'
  BY OthersWork
<1>2. CurIsCall' /\ BatchIsWaiting'
  BY <1>1 DEF CurIsCall, BatchIsWaiting
<1>3. BufferIsBatch'
  BY <1>1 DEF BufferIsBatch
<1>4. NothingYet'
  BY DEF WorkInv, NothingYet
<1> QED
  BY <1>2, <1>3, <1>4 DEF WorkInv

LEMMA WorkLog ==
    ASSUME CallsInv, WorkInv, NEW t \in Threads, LogStep(t) PROVE WorkInv'
<1>1. t \in Actors /\ t # Flusher /\ BufferOf(t) /\ (pc[t] # "idle" => cur[t].by = t /\ cur[t].seq = calls[t])
  BY ActorsAreDistinct DEF Actors, WorkInv, BufferIsBatch, CurIsCall
<1>2. mode' = mode /\ acked' = acked
  BY DEF LogStep, Log, LogDiscards, Collect, CollectNoMemory, LogGivesUp,
         LogGivesUpNoMemory, PrintLine, shared, ghosts
<1>3. /\ \A b \in Actors \ {t} :
             pc'[b] = pc[b] /\ batch'[b] = batch[b] /\ at'[b] = at[b] /\ buffer'[b] = buffer[b]
      /\ \A u \in Threads \ {t} : cur'[u] = cur[u] /\ calls'[u] = calls[u]
  BY DEF LogStep, Log, LogDiscards, Collect, CollectNoMemory, LogGivesUp,
         LogGivesUpNoMemory, PrintLine, shared, locals, Goto, Unlock, FailWithLOG,
         CallsInv, TypeOK, Actors
<1>4. pc[t] \in Holding \/ queue' = queue
  BY DEF LogStep, Log, LogDiscards, Collect, CollectNoMemory, LogGivesUp,
         LogGivesUpNoMemory, EnqueueNoMemory, PrintLine, shared, Holding
<1>5. /\ pc'[t] # "idle" => cur'[t].by = t /\ cur'[t].seq = calls'[t]
      /\ pc'[t] \in {"build", "commit", "failed"} => batch'[t] = Append(queue', cur'[t])
      /\ BufferOf(t)'
  <2> USE DEF Goto, Unlock, FailWithLOG, CallsInv, TypeOK, shared, locals, Actors
  <2>1. ASSUME NEW k \in LineLengths, Log(t, k)
        PROVE  /\ cur'[t].by = t /\ cur'[t].seq = calls'[t] /\ pc'[t] = "acquire" /\ BufferOf(t)'
    BY <1>1, <2>1 DEF Log, BufferOf
  <2>2. ASSUME NEW k \in LineLengths, LogDiscards(t, k)
        PROVE  pc'[t] = "idle" /\ BufferOf(t)'
    BY <1>1, <2>2 DEF LogDiscards, BufferOf
  <2>3. ASSUME Collect(t)
        PROVE  /\ UNCHANGED <<cur, calls>> /\ pc[t] # "idle" /\ pc'[t] = "build"
               /\ batch'[t] = Append(queue', cur'[t]) /\ BufferOf(t)'
    <3>1. /\ UNCHANGED <<queue, cur, calls, at, buffer>> /\ pc[t] = "locked" /\ pc'[t] = "build"
          /\ batch'[t] = Append(queue, cur[t])
      BY <2>3 DEF Collect
    <3>2. at[t] = 0 /\ buffer[t] = <<>>
      BY <1>1, <3>1 DEF BufferOf
    <3>3. batch'[t] \in Seq(Line)
      BY <3>1 DEF CallHasLine
    <3>4. SubSeq(batch'[t], 1, 0) = <<>> /\ 0 \in 0..Len(batch'[t])
      BY <3>3
    <3>5. BufferOf(t)'
      BY <3>1, <3>2, <3>4, FlatOfNone DEF BufferOf
    <3> QED
      BY <3>1, <3>5
  <2>4. ASSUME CollectNoMemory(t) \/ LogGivesUp(t) \/ LogGivesUpNoMemory(t)
        PROVE  /\ UNCHANGED <<cur, calls>> /\ pc[t] # "idle" /\ pc'[t] \in {"print", "relock"}
               /\ BufferOf(t)'
    BY <1>1, <2>4 DEF CollectNoMemory, LogGivesUp, LogGivesUpNoMemory, BufferOf
  <2>5. ASSUME PrintLine(t) PROVE pc'[t] = "idle" /\ BufferOf(t)'
    BY <1>1, <2>5 DEF PrintLine, BufferOf
  <2> QED
    BY <1>1, <2>1, <2>2, <2>3, <2>4, <2>5 DEF LogStep
<1> QED
  BY <1>1, <1>2, <1>3, <1>4, <1>5, OwnWork

LEMMA WorkFlush ==
    ASSUME CallsInv, WorkInv, FlushStep PROVE WorkInv'
<1>1. Flusher \in Actors /\ Flusher \notin Threads /\ BufferOf(Flusher)
  BY ActorsAreDistinct DEF Actors, WorkInv, BufferIsBatch
<1>2. mode' = mode /\ acked' = acked /\ UNCHANGED <<cur, calls>>
  BY DEF FlushStep, FlushTick, FlushNothing, Take, FlushRequeues, FlushRequeuesNoMemory,
         FlushGivesUp, shared, ghosts
<1>3. \A b \in Actors \ {Flusher} :
          pc'[b] = pc[b] /\ batch'[b] = batch[b] /\ at'[b] = at[b] /\ buffer'[b] = buffer[b]
  BY DEF FlushStep, FlushTick, FlushNothing, Take, FlushRequeues, FlushRequeuesNoMemory,
         FlushGivesUp, shared, locals, Goto, Unlock, FailWithLOG, Rewind, CallsInv, TypeOK, Actors
<1>4. pc[Flusher] \in Holding \/ queue' = queue
  BY DEF FlushStep, FlushTick, FlushNothing, Take, FlushRequeues, FlushRequeuesNoMemory,
         FlushGivesUp, shared, Holding
<1>5. /\ pc'[Flusher] \in {"build", "commit"} => queue' = <<>>
      /\ pc'[Flusher] \notin {"build", "commit", "failed", "relock"} => batch'[Flusher] = <<>>
      /\ BufferOf(Flusher)'
  <2> USE <1>1 DEF Goto, Unlock, FailWithLOG, CallsInv, TypeOK, shared, locals, WorkInv, BatchIsWaiting
  <2>1. ASSUME FlushTick \/ FlushNothing
        PROVE  /\ batch'[Flusher] = <<>> /\ BufferOf(Flusher)'
               /\ pc'[Flusher] \in {"acquire", "idle"}
    BY <2>1 DEF FlushTick, FlushNothing, BufferOf
  <2>2. ASSUME Take
        PROVE  pc'[Flusher] = "build" /\ queue' = <<>> /\ BufferOf(Flusher)'
    <3>1. /\ pc[Flusher] = "locked" /\ pc'[Flusher] = "build" /\ queue' = <<>>
          /\ batch'[Flusher] = queue /\ UNCHANGED <<at, buffer>>
      BY <2>2 DEF Take
    <3>2. at[Flusher] = 0 /\ buffer[Flusher] = <<>>
      BY <3>1 DEF BufferOf
    <3>3. SubSeq(queue, 1, 0) = <<>> /\ 0 \in 0..Len(queue)
      OBVIOUS
    <3>4. BufferOf(Flusher)'
      BY <3>1, <3>2, <3>3, FlatOfNone DEF BufferOf
    <3> QED
      BY <3>1, <3>4
  <2>3. ASSUME FlushRequeues \/ FlushRequeuesNoMemory
        PROVE  pc'[Flusher] \in {"failed", "relock"} /\ BufferOf(Flusher)'
    BY <2>3 DEF FlushRequeues, FlushRequeuesNoMemory, BufferOf
  <2>4. ASSUME FlushGivesUp
        PROVE  pc'[Flusher] = "idle" /\ batch'[Flusher] = <<>> /\ BufferOf(Flusher)'
    BY <2>4 DEF FlushGivesUp, BufferOf, Rewind
  <2> QED
    BY <2>1, <2>2, <2>3, <2>4 DEF FlushStep
<1> QED
  BY <1>1, <1>2, <1>3, <1>4, <1>5, OwnWork

\* A prefix of a batch with the next line is a longer prefix.
LEMMA FlatPrefix ==
    ASSUME NEW b \in Seq(Line), NEW i \in 0..Len(b) - 1
    PROVE  Flat(SubSeq(b, 1, i + 1)) = Flat(SubSeq(b, 1, i)) \o Text(b[i + 1])
<1> DEFINE p == SubSeq(b, 1, i + 1)
           l == b[i + 1]
<1>1. i + 1 \in 1..Len(b) /\ l \in Line /\ i \in Nat
  OBVIOUS
<1>2. p \in Seq(Line) /\ Len(p) = i + 1 /\ p[i + 1] = l
  BY <1>1
<1>3. SubSeq(p, 1, i) = SubSeq(b, 1, i)
  BY <1>1, <1>2
<1>4. p = Append(SubSeq(p, 1, i), l) /\ SubSeq(p, 1, i) \in Seq(Line)
  <2> HIDE DEF p, l
  <2>1. Len(p) # 0 /\ Len(p) - 1 = i
    BY <1>1, <1>2
  <2> QED
    BY <1>2, <2>1, LastLine
<1> HIDE DEF l
<1> QED
  BY <1>1, <1>3, <1>4, FlatAppend DEF l

LEMMA WorkWrite ==
    ASSUME CallsInv, WorkInv, NEW a \in Actors, WriteStep(a) PROVE WorkInv'
<1>1. /\ BufferOf(a) /\ Flusher \notin Threads
      /\ a \in Threads => (pc[a] # "idle" => cur[a].by = a /\ cur[a].seq = calls[a])
  BY ActorsAreDistinct DEF Actors, WorkInv, BufferIsBatch, CurIsCall
<1>2. mode' = mode /\ (acked' = acked \/ mode = "up") /\ calls' = calls
  <2>1. ASSUME Commit(a) PROVE mode' = mode /\ mode = "up" /\ calls' = calls
    BY <2>1, WriterIsAlone DEF Commit, Holding
  <2> QED
    BY <2>1 DEF WriteStep, Acquire, CopyLine, BufferNoMemory, WriteAll, WriteError, WriteShort,
                shared, ghosts
<1>3. /\ \A b \in Actors \ {a} :
             pc'[b] = pc[b] /\ batch'[b] = batch[b] /\ at'[b] = at[b] /\ buffer'[b] = buffer[b]
      /\ \A u \in Threads \ {a} : cur'[u] = cur[u] /\ calls'[u] = calls[u]
  BY <1>2 DEF WriteStep, Acquire, CopyLine, BufferNoMemory, WriteAll, WriteError, WriteShort, Commit,
         shared, locals, Goto, Unlock, FailWithLOG, Rewind, CallsInv, TypeOK, Actors
<1>4. pc[a] \in Holding \/ queue' = queue
  BY DEF WriteStep, Acquire, CopyLine, BufferNoMemory, WriteAll, WriteError, WriteShort, Commit,
         shared, Holding
<1>5. /\ BufferOf(a)'
      /\ a \in Threads =>
             /\ pc'[a] # "idle" => cur'[a].by = a /\ cur'[a].seq = calls'[a]
             /\ pc'[a] \in {"build", "commit", "failed"} => batch'[a] = Append(queue', cur'[a])
      /\ a = Flusher =>
             /\ pc'[a] \in {"build", "commit"} => queue' = <<>>
             /\ pc'[a] \notin {"build", "commit", "failed", "relock"} => batch'[a] = <<>>
  <2> USE <1>1 DEF Goto, Unlock, FailWithLOG, CallsInv, TypeOK, shared, locals, ghosts,
                   WorkInv, BatchIsWaiting, Actors
  <2>1. CASE Acquire(a)
    BY <2>1 DEF Acquire, BufferOf
  <2>2. CASE CopyLine(a)
    <3>1. /\ pc[a] = "build" /\ at[a] < Len(batch[a]) /\ at'[a] = at[a] + 1
          /\ buffer'[a] = buffer[a] \o Text(batch[a][at[a] + 1])
          /\ UNCHANGED <<pc, batch, queue, cur, calls>>
      BY <2>2 DEF CopyLine
    <3>2. batch[a] \in Seq(Line) /\ at[a] \in 0..Len(batch[a]) - 1
      BY <3>1
    <3>3. buffer'[a] = Flat(SubSeq(batch[a], 1, at[a] + 1))
      BY <3>1, <3>2, FlatPrefix, ZenonT(30) DEF BufferOf
    <3>4. BufferOf(a)'
      BY <3>1, <3>2, <3>3, SMTT(30) DEF BufferOf
    <3> QED
      BY <3>1, <3>4
  <2>3. CASE BufferNoMemory(a)
    <3>1. /\ pc[a] = "build" /\ at[a] = 0 /\ pc'[a] \in {"failed", "relock"}
          /\ UNCHANGED <<batch, queue, cur, calls, at, buffer>>
      BY <2>3 DEF BufferNoMemory
    <3>2. batch[a] \in Seq(Line) /\ SubSeq(batch[a], 1, 0) = <<>> /\ 0 \in 0..Len(batch[a])
      OBVIOUS
    <3>3. buffer[a] = <<>>
      BY <3>1, <3>2, FlatOfNone DEF BufferOf
    <3>4. BufferOf(a)'
      BY <3>1, <3>2, <3>3 DEF BufferOf
    <3> QED
      BY <3>1, <3>4
  <2>4. CASE WriteAll(a)
    BY <2>4 DEF WriteAll, BufferReady, BufferOf
  <2>5. ASSUME NEW n \in 0..Len(buffer[a]), WriteError(a, n) \/ WriteShort(a, n)
        PROVE  /\ pc[a] = "build" /\ pc'[a] \in {"failed", "relock"} /\ BufferOf(a)'
               /\ UNCHANGED <<batch, queue, cur, calls>>
    <3>1. /\ pc[a] = "build" /\ pc'[a] \in {"failed", "relock"} /\ at'[a] = 0 /\ buffer'[a] = <<>>
          /\ UNCHANGED <<batch, queue, cur, calls>>
      BY <2>5 DEF WriteError, WriteShort, BufferReady, Rewind
    <3>2. 0 \in 0..Len(batch[a])
      OBVIOUS
    <3> QED
      BY <3>1, <3>2 DEF BufferOf
  <2>6. CASE Commit(a)
    BY <2>6 DEF Commit, Rewind, BufferOf
  <2> QED
    BY <2>1, <2>2, <2>3, <2>4, <2>5, <2>6 DEF WriteStep
<1> QED
  BY <1>1, <1>2, <1>3, <1>4, <1>5, OwnWork

LEMMA WorkStep ==
    ASSUME CallsInv, WorkInv, [Next]_vars PROVE WorkInv'
<1>1. CASE UNCHANGED vars
  BY <1>1 DEF vars, WorkInv, CurIsCall, BatchIsWaiting, BufferIsBatch, BufferOf, NothingYet
<1>2. CASE Next
  BY <1>2, WorkLifecycle, WorkLog, WorkFlush, WorkWrite DEF Next
<1> QED
  BY <1>1, <1>2

-----------------------------------------------------------------------------
(* What a step does to the lines.                                           *)

\* A sequence without one of its elements.
Without(s, i) == SubSeq(s, 1, i - 1) \o SubSeq(s, i + 1, Len(s))

LEMMA WithoutElements ==
    ASSUME NEW s \in Seq(Line), NEW i \in 1..Len(s)
    PROVE  /\ Without(s, i) \in Seq(Line) /\ Len(Without(s, i)) = Len(s) - 1
           /\ \A k \in 1..Len(s) - 1 : Without(s, i)[k] = IF k < i THEN s[k] ELSE s[k + 1]
<1> DEFINE x == SubSeq(s, 1, i - 1)
           y == SubSeq(s, i + 1, Len(s))
<1>1. i \in Nat /\ Len(s) \in Nat /\ 1 <= i /\ i <= Len(s)
  OBVIOUS
<1>2. x \in Seq(Line) /\ Len(x) = i - 1 /\ \A k \in 1..i - 1 : x[k] = s[k]
  BY <1>1
<1>3. y \in Seq(Line) /\ Len(y) = Len(s) - i /\ \A k \in 1..Len(s) - i : y[k] = s[i + k]
  BY <1>1
<1>4. Without(s, i) = x \o y
  BY DEF Without
<1> HIDE DEF x, y
<1>5. x \o y \in Seq(Line) /\ Len(x \o y) = Len(x) + Len(y)
  BY <1>2, <1>3, ConcatProperties
<1>6. ASSUME NEW k \in 1..Len(s) - 1 PROVE (x \o y)[k] = IF k < i THEN s[k] ELSE s[k + 1]
  <2>1. CASE k < i
    BY <1>1, <1>2, <1>3, <2>1
  <2>2. CASE ~(k < i)
    <3>1. k - (i - 1) \in 1..Len(s) - i /\ i + (k - (i - 1)) = k + 1
      BY <1>1, <2>2
    <3>2. (x \o y)[k] = y[k - (i - 1)]
      BY <1>1, <1>2, <1>3, <2>2
    <3>3. y[k - (i - 1)] = s[i + (k - (i - 1))]
      BY <1>3, <3>1
    <3> QED
      BY <2>2, <3>1, <3>2, <3>3
  <2> QED
    BY <2>1, <2>2
<1>7. Len(x) + Len(y) = Len(s) - 1
  BY <1>1, <1>2, <1>3
<1> QED
  BY <1>4, <1>5, <1>6, <1>7

\* Leaving a line out of the second of two sequences.
LEMMA WithoutBehind ==
    ASSUME NEW a \in Seq(Line), NEW w \in Seq(Line), NEW i \in 1..Len(w)
    PROVE  /\ Len(a) + i \in 1..Len(a \o w) /\ (a \o w)[Len(a) + i] = w[i]
           /\ a \o Without(w, i) = Without(a \o w, Len(a) + i)
<1> DEFINE v == Without(w, i)
           c == a \o w
           n == Len(a) + i
           d == Without(c, n)
<1>1. Len(a) \in Nat /\ Len(w) \in Nat /\ i \in Nat /\ 1 <= i /\ i <= Len(w)
  OBVIOUS
<1>2. v \in Seq(Line) /\ Len(v) = Len(w) - 1 /\ \A k \in 1..Len(w) - 1 : v[k] = IF k < i THEN w[k] ELSE w[k + 1]
  BY WithoutElements
<1>3. c \in Seq(Line) /\ Len(c) = Len(a) + Len(w)
  BY ConcatProperties
<1>4. \A k \in 1..Len(a) : c[k] = a[k]
  BY <1>1
<1>5. \A k \in 1..Len(w) : c[Len(a) + k] = w[k]
  BY <1>1
<1> HIDE DEF v, c
<1>6. n \in 1..Len(c) /\ c[n] = w[i]
  BY <1>1, <1>3, <1>5
<1>7. d \in Seq(Line) /\ Len(d) = Len(c) - 1 /\ \A k \in 1..Len(c) - 1 : d[k] = IF k < n THEN c[k] ELSE c[k + 1]
  <2> HIDE DEF n
  <2> QED
    BY <1>3, <1>6, WithoutElements
<1> HIDE DEF d
<1>8. a \o v \in Seq(Line) /\ Len(a \o v) = Len(a) + Len(v)
  BY <1>2, ConcatProperties
<1>9. Len(a \o v) = Len(d)
  BY <1>1, <1>2, <1>3, <1>7, <1>8
<1>10. ASSUME NEW k \in 1..Len(d) PROVE (a \o v)[k] = d[k]
  <2>1. k \in 1..Len(c) - 1 /\ d[k] = IF k < n THEN c[k] ELSE c[k + 1]
    BY <1>7
  <2>2. CASE k <= Len(a)
    <3>1. k < n /\ c[k] = a[k]
      BY <1>1, <1>4, <2>2
    <3>2. (a \o v)[k] = a[k]
      BY <1>1, <1>2, <2>2
    <3> QED
      BY <2>1, <3>1, <3>2
  <2>3. CASE ~(k <= Len(a))
    <3> DEFINE j == k - Len(a)
    <3>1. /\ j \in 1..Len(w) - 1 /\ k = Len(a) + j /\ k + 1 = Len(a) + (j + 1)
          /\ j \in 1..Len(w) /\ j + 1 \in 1..Len(w) /\ (k < n <=> j < i)
      BY <1>1, <1>3, <2>1, <2>3, SMTT(30)
    <3>2. (a \o v)[k] = v[j]
      BY <1>1, <1>2, <1>8, <1>9, <2>3
    <3> HIDE DEF j
    <3>3. v[j] = IF j < i THEN w[j] ELSE w[j + 1]
      BY <1>2, <3>1
    <3>4. c[Len(a) + j] = w[j] /\ c[Len(a) + (j + 1)] = w[j + 1]
      BY <1>5, <3>1
    <3> QED
      BY <2>1, <3>1, <3>2, <3>3, <3>4
  <2> QED
    BY <2>2, <2>3
<1>11. a \o v = d
  BY <1>7, <1>8, <1>9, <1>10, SeqEqual
<1> QED
  BY <1>6, <1>11 DEF c, d, v

\* The first of some lines may be put behind others, ...
LEMMA MoveFirst ==
    ASSUME NEW q \in Seq(Line), NEW b \in Seq(Line), NEW i \in 0..Len(b) - 1
    PROVE  /\ b[i + 1] \in Line
           /\ Append(q, b[i + 1]) \o SubSeq(b, i + 2, Len(b)) = q \o SubSeq(b, i + 1, Len(b))
<1> DEFINE r == SubSeq(b, i + 1, Len(b))
           s == SubSeq(b, i + 2, Len(b))
           p == Append(q, b[i + 1])
<1>1. /\ i \in Nat /\ Len(b) \in Nat /\ Len(q) \in Nat /\ i + 1 \in 1..Len(b)
      /\ b[i + 1] \in Line
  OBVIOUS
<1>2. r \in Seq(Line) /\ Len(r) = Len(b) - i /\ \A k \in 1..Len(b) - i : r[k] = b[i + k]
  BY <1>1
<1>3. s \in Seq(Line) /\ Len(s) = Len(b) - i - 1 /\ \A k \in 1..Len(b) - i - 1 : s[k] = b[i + 1 + k]
  BY <1>1
<1>4. p \in Seq(Line) /\ Len(p) = Len(q) + 1 /\ p[Len(q) + 1] = b[i + 1] /\ \A k \in 1..Len(q) : p[k] = q[k]
  BY <1>1
<1> HIDE DEF r, s, p
<1>5. p \o s \in Seq(Line) /\ q \o r \in Seq(Line) /\ Len(p \o s) = Len(q \o r)
      /\ Len(q \o r) = Len(q) + Len(b) - i
  <2>1. p \o s \in Seq(Line) /\ Len(p \o s) = Len(p) + Len(s)
    BY <1>3, <1>4, ConcatProperties
  <2>2. q \o r \in Seq(Line) /\ Len(q \o r) = Len(q) + Len(r)
    BY <1>2, ConcatProperties
  <2> QED
    BY <1>1, <1>2, <1>3, <1>4, <2>1, <2>2
<1>6. ASSUME NEW k \in 1..Len(q \o r) PROVE (p \o s)[k] = (q \o r)[k]
  <2>1. CASE k <= Len(q)
    BY <1>1, <1>2, <1>3, <1>4, <1>5, <2>1
  <2>2. CASE k = Len(q) + 1
    <3>1. (p \o s)[k] = b[i + 1]
      BY <1>1, <1>3, <1>4, <1>5, <2>2
    <3>2. (q \o r)[k] = r[1]
      BY <1>1, <1>2, <1>5, <2>2
    <3>3. r[1] = b[i + 1]
      BY <1>1, <1>2
    <3> QED
      BY <3>1, <3>2, <3>3
  <2>3. CASE k > Len(q) + 1
    <3> DEFINE j == k - Len(q) - 1
    <3>1. j \in 1..Len(b) - i - 1 /\ j + 1 \in 1..Len(b) - i
      BY <1>1, <1>5, <2>3
    <3>2. (p \o s)[k] = s[j]
      BY <1>1, <1>3, <1>4, <1>5, <2>3, SMTT(30)
    <3>3. (q \o r)[k] = r[j + 1]
      BY <1>1, <1>2, <1>5, <2>3
    <3> HIDE DEF j
    <3>4. s[j] = b[i + 1 + j] /\ r[j + 1] = b[i + (j + 1)] /\ i + 1 + j = i + (j + 1)
      <4>1. s[j] = b[i + 1 + j]
        BY <1>3, <3>1
      <4>2. r[j + 1] = b[i + (j + 1)]
        BY <1>2, <3>1
      <4> QED
        BY <1>1, <3>1, <4>1, <4>2
    <3> QED
      BY <3>2, <3>3, <3>4
  <2> QED
    BY <1>1, <1>5, <2>1, <2>2, <2>3, SMTT(30)
<1>7. p \o s = q \o r
  BY <1>5, <1>6, SeqEqual
<1> QED
  BY <1>1, <1>7 DEF p, s, r

\* ... or left out.
LEMMA DropFirst ==
    ASSUME NEW q \in Seq(Line), NEW b \in Seq(Line), NEW i \in 0..Len(b) - 1
    PROVE  LET w == q \o SubSeq(b, i + 1, Len(b))
           IN  /\ Len(q) + 1 \in 1..Len(w) /\ w[Len(q) + 1] = b[i + 1]
               /\ q \o SubSeq(b, i + 2, Len(b)) = Without(w, Len(q) + 1)
<1> DEFINE r == SubSeq(b, i + 1, Len(b))
           s == SubSeq(b, i + 2, Len(b))
           w == q \o r
<1>1. i \in Nat /\ Len(b) \in Nat /\ Len(q) \in Nat /\ i + 1 \in 1..Len(b)
  OBVIOUS
<1>2. r \in Seq(Line) /\ Len(r) = Len(b) - i /\ \A k \in 1..Len(b) - i : r[k] = b[i + k]
  BY <1>1
<1>3. s \in Seq(Line) /\ Len(s) = Len(b) - i - 1 /\ \A k \in 1..Len(b) - i - 1 : s[k] = b[i + 1 + k]
  BY <1>1
<1> HIDE DEF r, s
<1>4. /\ w \in Seq(Line) /\ Len(w) = Len(q) + Len(b) - i /\ \A k \in 1..Len(q) : w[k] = q[k]
      /\ \A k \in 1..Len(b) - i : w[Len(q) + k] = r[k]
  <2>1. w \in Seq(Line) /\ Len(w) = Len(q) + Len(r)
    BY <1>2, ConcatProperties
  <2>2. \A k \in 1..Len(q) : w[k] = q[k]
    BY <1>1, <1>2
  <2>3. \A k \in 1..Len(r) : w[Len(q) + k] = r[k]
    BY <1>1, <1>2
  <2> QED
    BY <1>1, <1>2, <2>1, <2>2, <2>3
<1> DEFINE x == SubSeq(w, 1, (Len(q) + 1) - 1)
           y == SubSeq(w, (Len(q) + 1) + 1, Len(w))
<1> HIDE DEF w
<1>5. /\ x \in Seq(Line) /\ Len(x) = Len(q) /\ \A k \in 1..Len(q) : x[k] = w[k]
  BY <1>1, <1>4
<1>6. /\ y \in Seq(Line) /\ Len(y) = Len(s) /\ \A k \in 1..Len(s) : y[k] = w[Len(q) + 1 + k]
  BY <1>1, <1>3, <1>4
<1>7. Without(w, Len(q) + 1) = x \o y
  BY DEF Without
<1> HIDE DEF x, y
<1>8. x = q
  BY <1>1, <1>4, <1>5, SeqEqual
<1>9. y = s
  <2>1. ASSUME NEW k \in 1..Len(s) PROVE y[k] = s[k]
    <3>1. k \in 1..Len(b) - i - 1 /\ k + 1 \in 1..Len(b) - i /\ Len(q) + 1 + k = Len(q) + (k + 1)
          /\ i + (k + 1) = i + 1 + k
      BY <1>1, <1>3
    <3>2. y[k] = w[Len(q) + (k + 1)]
      BY <1>6, <3>1
    <3>3. w[Len(q) + (k + 1)] = r[k + 1] /\ r[k + 1] = b[i + (k + 1)] /\ s[k] = b[i + 1 + k]
      BY <1>2, <1>3, <1>4, <3>1
    <3> QED
      BY <3>1, <3>2, <3>3
  <2> QED
    BY <1>3, <1>6, <2>1, SeqEqual
<1>10. Len(q) + 1 \in 1..Len(w)
  BY <1>1, <1>4
<1>11. w[Len(q) + 1] = b[i + 1]
  BY <1>1, <1>2, <1>4
<1> QED
  BY <1>7, <1>8, <1>9, <1>10, <1>11 DEF w, s, r

\* What waits is a sequence of lines: the queue, or what the flusher took.
LEMMA WaitingIsLines ==
    ASSUME CallsInv, WorkInv
    PROVE  /\ queue \in Seq(Line) /\ acked \in Seq(Line)
           /\ Taken \in Seq(Line) /\ Waiting \in Seq(Line)
           /\ pc[Flusher] \notin {"build", "commit", "failed", "relock"}
                => batch[Flusher] = <<>> /\ at[Flusher] = 0 /\ Taken = <<>> /\ Waiting = queue
           /\ pc[Flusher] \in {"build", "commit"} => queue = <<>> /\ Waiting = batch[Flusher]
           /\ pc[Flusher] \in {"failed", "relock"} => at[Flusher] \in 0..Len(batch[Flusher])
<1>1. /\ queue \in Seq(Line) /\ acked \in Seq(Line) /\ batch[Flusher] \in Seq(Line)
      /\ at[Flusher] \in Nat /\ Flusher \in Actors
  BY DEF CallsInv, TypeOK, Actors
<1>2. BufferOf(Flusher)
  BY <1>1 DEF WorkInv, BufferIsBatch
<1>3. CASE pc[Flusher] \in {"build", "commit"}
  <2>1. Taken = batch[Flusher] /\ queue = <<>>
    BY <1>3 DEF Taken, WorkInv, BatchIsWaiting
  <2>2. <<>> \o batch[Flusher] = batch[Flusher]
    BY <1>1
  <2> QED
    BY <1>1, <1>3, <2>1, <2>2 DEF Waiting
<1>4. CASE pc[Flusher] \in {"failed", "relock"}
  <2>1. at[Flusher] \in 0..Len(batch[Flusher])
    BY <1>2, <1>4 DEF BufferOf
  <2>2. Taken = SubSeq(batch[Flusher], at[Flusher] + 1, Len(batch[Flusher]))
    BY <1>4 DEF Taken
  <2>3. Taken \in Seq(Line)
    BY <1>1, <2>1, <2>2
  <2> QED
    BY <1>1, <1>4, <2>1, <2>3 DEF Waiting
<1>5. CASE pc[Flusher] \notin {"build", "commit", "failed", "relock"}
  <2>1. at[Flusher] = 0 /\ batch[Flusher] = <<>>
    BY <1>2, <1>5 DEF BufferOf, WorkInv, BatchIsWaiting
  <2>2. Taken = <<>>
    BY <1>5, <2>1 DEF Taken
  <2>3. queue \o <<>> = queue
    BY <1>1
  <2> QED
    BY <1>1, <1>5, <2>1, <2>2, <2>3 DEF Waiting
<1> QED
  BY <1>3, <1>4, <1>5

\* While a thread holds the lock the flusher has taken nothing.
LEMMA ThreadHolds ==
    ASSUME CallsInv, WorkInv, NEW t \in Threads, pc[t] \in Holding
    PROVE  Taken = <<>> /\ Waiting = queue /\ mode = "up" /\ pc[Flusher] \notin Holding
<1>1. t \in Actors /\ Flusher \in Actors /\ t # Flusher
  BY ActorsAreDistinct DEF Actors
<1>2. pc[Flusher] \notin Holding /\ mode = "up"
  BY <1>1, WriterIsAlone
<1> QED
  BY <1>2, WaitingIsLines DEF Holding

\* The lines are left alone.
Quiet == UNCHANGED <<acked, Waiting, printed, done>>

\* The limit counts the lines the flusher has taken.
AtMostMax == Len(Waiting) <= MaxUnlogged

\* The logger is gone.
Ended == /\ mode' = "down" /\ acked' = <<>> /\ Waiting' = <<>> /\ done' = {}
         /\ base' = <<>> /\ sealed' = <<>>

LEMMA PanicEnds ==
    ASSUME Panic PROVE Ended
<1>1. pc'[Flusher] = "idle" /\ batch'[Flusher] = <<>> /\ at'[Flusher] = 0 /\ queue' = <<>>
  BY DEF Panic, Vanish, Actors
<1>2. Waiting' = <<>>
  BY <1>1 DEF Waiting, Taken
<1> QED
  BY <1>2 DEF Ended, Panic, Vanish

LEMMA LifecycleEffect ==
    ASSUME CallsInv, WorkInv, Lifecycle
    PROVE  (Quiet /\ mode # "up") \/ Ended
<1>1. ASSUME Make \/ ProbeChunkRead \/ ProbeEnd \/ ProbeFails PROVE Quiet /\ mode # "up"
  BY <1>1 DEF Make, ProbeChunkRead, ProbeEnd, ProbeFails, Quiet, Waiting, Taken, ghosts, locals
<1>2. ASSUME Unload PROVE Ended
  <2>1. pc[Flusher] = "idle" /\ UNCHANGED <<pc, batch, at>> /\ queue' = <<>>
    BY <1>2 DEF Unload, Vanish, locals, Actors
  <2>2. batch[Flusher] = <<>> /\ at[Flusher] = 0
    BY <2>1, WaitingIsLines
  <2>3. Waiting' = <<>>
    BY <2>1, <2>2 DEF Waiting, Taken
  <2> QED
    BY <1>2, <2>3 DEF Ended, Unload, Vanish
<1>3. ASSUME Panic PROVE Ended
  BY <1>3, PanicEnds
<1> QED
  BY <1>1, <1>2, <1>3 DEF Lifecycle

\* log() keeps the line of t in the queue, or prints it.
KeepLine(t) == /\ LogGivesUp(t) /\ Len(Waiting) < MaxUnlogged
               /\ Waiting' = Append(Waiting, cur[t])
               /\ UNCHANGED <<acked, printed, done>>

LEMMA LogEffect ==
    ASSUME CallsInv, WorkInv, NEW t \in Threads, LogStep(t)
    PROVE  Quiet \/ (PrintLine(t) /\ UNCHANGED <<acked, Waiting>>) \/ KeepLine(t)
<1>1. t # Flusher /\ t \in Actors /\ Flusher \in Actors
  BY ActorsAreDistinct DEF Actors
<1>2. Taken' = Taken
  <2>1. pc'[Flusher] = pc[Flusher]
    BY <1>1 DEF LogStep, Log, LogDiscards, Collect, CollectNoMemory, LogGivesUp,
         LogGivesUpNoMemory, PrintLine, Goto, Unlock, FailWithLOG, CallsInv, TypeOK
  <2>2. batch'[Flusher] = batch[Flusher] /\ at' = at
    BY <1>1 DEF LogStep, Log, LogDiscards, Collect, CollectNoMemory, LogGivesUp,
         LogGivesUpNoMemory, PrintLine, locals, CallsInv, TypeOK
  <2> QED
    BY <2>1, <2>2 DEF Taken
<1>3. ASSUME LogGivesUp(t) PROVE Quiet \/ KeepLine(t)
  <2>1. /\ pc[t] = "failed" /\ UNCHANGED <<acked, printed, done>>
        /\ queue' = IF Len(queue) < MaxUnlogged THEN Append(queue, cur[t]) ELSE queue
    BY <1>3 DEF LogGivesUp, ghosts, Enqueue
  <2>2. Taken = <<>> /\ Waiting = queue
    BY <2>1, ThreadHolds DEF Holding
  <2>3. queue \in Seq(Line) /\ cur[t] \in Line
    BY <2>1 DEF CallsInv, TypeOK, CallHasLine
  <2>4. Waiting' = queue'
    <3>1. queue' \in Seq(Line)
      BY <2>1, <2>3
    <3>2. queue' \o <<>> = queue'
      BY <3>1
    <3> QED
      BY <1>2, <2>2, <3>2 DEF Waiting
  <2> QED
    BY <1>3, <2>1, <2>2, <2>4 DEF Quiet, KeepLine
<1>4. ASSUME queue' = queue PROVE Waiting' = Waiting
  BY <1>2, <1>4 DEF Waiting
<1>5. ASSUME PrintLine(t) PROVE UNCHANGED <<acked, Waiting>>
  BY <1>4, <1>5 DEF PrintLine, shared
<1>6. CASE \/ \E k \in LineLengths : Log(t, k) \/ LogDiscards(t, k)
           \/ Collect(t) \/ CollectNoMemory(t) \/ LogGivesUpNoMemory(t)
  <2>1. UNCHANGED <<queue, acked, printed, done>>
    BY <1>6 DEF Log, LogDiscards, Collect, CollectNoMemory, LogGivesUpNoMemory, EnqueueNoMemory,
                shared, ghosts
  <2> QED
    BY <1>4, <2>1 DEF Quiet
<1> QED
  BY <1>3, <1>5, <1>6 DEF LogStep

\* The flusher finds no memory to put a line back.
LoseLine == /\ FlushRequeuesNoMemory
            /\ Len(queue) + 1 \in 1..Len(Waiting)
            /\ Waiting' = Without(Waiting, Len(queue) + 1)
            /\ UNCHANGED <<acked, printed, done>>

LEMMA FlushEffect ==
    ASSUME CallsInv, WorkInv, AtMostMax, FlushStep
    PROVE  Quiet \/ LoseLine
<1> DEFINE b == batch[Flusher]
           i == at[Flusher]
<1>1. /\ Flusher \in Actors /\ queue \in Seq(Line) /\ b \in Seq(Line) /\ i \in Nat /\ BufferOf(Flusher)
      /\ pc \in [Actors -> Labels] /\ batch \in [Actors -> Seq(Line)] /\ at \in [Actors -> Nat]
  BY DEF Actors, CallsInv, TypeOK, WorkInv, BufferIsBatch
<1>2. UNCHANGED <<acked, printed, done>>
  BY DEF FlushStep, FlushTick, FlushNothing, Take, FlushRequeues, FlushRequeuesNoMemory,
         FlushGivesUp, shared, ghosts
<1>3. ASSUME FlushTick \/ FlushNothing PROVE Waiting' = Waiting
  <2>1. /\ pc[Flusher] \in {"idle", "locked"} /\ pc'[Flusher] \in {"idle", "acquire"}
        /\ UNCHANGED <<queue, batch, at>>
    BY <1>1, <1>3 DEF FlushTick, FlushNothing, Goto, Unlock, shared, locals
  <2> QED
    BY <2>1 DEF Waiting, Taken
<1>4. ASSUME Take PROVE Waiting' = Waiting
  <2>1. pc[Flusher] = "locked" /\ pc'[Flusher] = "build" /\ queue' = <<>> /\ batch'[Flusher] = queue
    BY <1>1, <1>4 DEF Take, Goto
  <2>2. Waiting = queue
    BY <2>1, WaitingIsLines
  <2>3. <<>> \o queue = queue
    BY <1>1
  <2>4. Taken' = queue
    BY <2>1 DEF Taken
  <2> QED
    BY <2>1, <2>2, <2>3, <2>4 DEF Waiting
<1>5. ASSUME FlushRequeues PROVE Waiting' = Waiting
  <2>1. /\ pc[Flusher] = "failed" /\ pc' = pc /\ batch' = batch /\ i < Len(b) /\ at'[Flusher] = i + 1
        /\ queue' = IF Len(queue) < MaxUnlogged THEN Append(queue, b[i + 1]) ELSE queue
    BY <1>1, <1>5 DEF FlushRequeues, Enqueue
  <2>2. i \in 0..Len(b) - 1 /\ (i + 1) + 1 = i + 2
    BY <1>1, <2>1
  <2>3. Taken = SubSeq(b, i + 1, Len(b)) /\ Taken' = SubSeq(b, i + 2, Len(b))
    BY <2>1, <2>2 DEF Taken
  <2>4. Len(queue) < MaxUnlogged
    <3>1. Len(queue) + 1 \in 1..Len(Waiting)
      BY <1>1, <2>2, <2>3, DropFirst DEF Waiting
    <3> QED
      BY <1>1, <3>1, WaitingIsLines, BoundsAreNatural DEF AtMostMax
  <2> HIDE DEF b, i
  <2>5. Append(queue, b[i + 1]) \o SubSeq(b, i + 2, Len(b)) = queue \o SubSeq(b, i + 1, Len(b))
    BY <1>1, <2>2, MoveFirst
  <2> QED
    BY <2>1, <2>3, <2>4, <2>5 DEF Waiting
<1>6. ASSUME FlushRequeuesNoMemory PROVE LoseLine
  <2>1. /\ pc[Flusher] = "failed" /\ pc'[Flusher] \in {"failed", "relock"}
        /\ batch' = batch /\ queue' = queue /\ i < Len(b) /\ at'[Flusher] = i + 1
    BY <1>1, <1>6 DEF FlushRequeuesNoMemory, EnqueueNoMemory, FailWithLOG, Goto
  <2>2. i \in 0..Len(b) - 1 /\ (i + 1) + 1 = i + 2
    BY <1>1, <2>1
  <2>3. Taken = SubSeq(b, i + 1, Len(b)) /\ Taken' = SubSeq(b, i + 2, Len(b))
    BY <2>1, <2>2 DEF Taken
  <2> HIDE DEF b, i
  <2> DEFINE w == queue \o SubSeq(b, i + 1, Len(b))
  <2>4. Len(queue) + 1 \in 1..Len(w) /\ queue \o SubSeq(b, i + 2, Len(b)) = Without(w, Len(queue) + 1)
    BY <1>1, <2>2, DropFirst
  <2>5. Waiting = w /\ Waiting' = queue \o SubSeq(b, i + 2, Len(b))
    BY <2>1, <2>3 DEF Waiting
  <2> QED
    BY <1>2, <1>6, <2>4, <2>5 DEF LoseLine
<1>7. ASSUME FlushGivesUp PROVE Waiting' = Waiting
  <2>1. /\ pc[Flusher] = "failed" /\ pc'[Flusher] = "idle" /\ queue' = queue
        /\ batch'[Flusher] = <<>> /\ at'[Flusher] = 0 /\ i = Len(b)
    BY <1>1, <1>7 DEF FlushGivesUp, Rewind, Unlock, Goto
  <2>2. Taken = <<>> /\ Taken' = <<>>
    BY <1>1, <2>1 DEF Taken
  <2> QED
    BY <2>1, <2>2 DEF Waiting
<1> QED
  BY <1>2, <1>3, <1>4, <1>5, <1>6, <1>7 DEF FlushStep, Quiet

\* A write of what waits was acknowledged, with the line of a thread behind it
\* or without.
CommitLine(a) == /\ a \in Threads /\ Commit(a)
                 /\ acked' = acked \o Append(Waiting, cur[a])
                 /\ Waiting' = <<>>
CommitWaiting == /\ Commit(Flusher)
                 /\ acked' = acked \o Waiting
                 /\ Waiting' = <<>>

LEMMA CommitEffect ==
    ASSUME CallsInv, WorkInv, NEW a \in Actors, Commit(a)
    PROVE  CommitLine(a) \/ (a = Flusher /\ CommitWaiting)
<1>1. /\ Flusher \in Actors /\ queue \in Seq(Line) /\ Flusher \notin Threads /\ BufferOf(Flusher)
      /\ pc \in [Actors -> Labels] /\ batch \in [Actors -> Seq(Line)] /\ at \in [Actors -> Nat]
  BY ActorsAreDistinct DEF Actors, CallsInv, TypeOK, WorkInv, BufferIsBatch
<1>2. /\ pc[a] = "commit" /\ acked' = acked \o batch[a] /\ pc'[a] = "idle" /\ batch'[a] = <<>> /\ at'[a] = 0
      /\ queue' = IF a = Flusher THEN queue ELSE <<>>
      /\ a # Flusher => pc'[Flusher] = pc[Flusher] /\ batch'[Flusher] = batch[Flusher] /\ at'[Flusher] = at[Flusher]
  BY <1>1 DEF Commit, Unlock, Goto, Rewind
<1>3. CASE a = Flusher
  <2>1. queue = <<>> /\ Waiting = batch[Flusher]
    BY <1>2, <1>3, WaitingIsLines
  <2>2. Taken' = <<>>
    BY <1>2, <1>3 DEF Taken
  <2>3. Waiting' = <<>>
    BY <1>2, <1>3, <2>1, <2>2 DEF Waiting
  <2> QED
    BY <1>2, <1>3, <2>1, <2>3 DEF CommitWaiting
<1>4. CASE a # Flusher
  <2>1. a \in Threads
    BY <1>4 DEF Actors
  <2>2. Taken = <<>> /\ Waiting = queue
    BY <1>2, <2>1, ThreadHolds DEF Holding
  <2>3. batch[a] = Append(queue, cur[a])
    BY <1>2, <2>1 DEF WorkInv, BatchIsWaiting
  <2>4. Taken' = Taken
    BY <1>2, <1>4 DEF Taken
  <2>5. Waiting' = <<>>
    BY <1>2, <1>4, <2>2, <2>4 DEF Waiting
  <2> QED
    BY <1>2, <2>1, <2>2, <2>3, <2>5 DEF CommitLine
<1> QED
  BY <1>3, <1>4

LEMMA WriteEffect ==
    ASSUME CallsInv, WorkInv, NEW a \in Actors, WriteStep(a)
    PROVE  Quiet \/ CommitLine(a) \/ (a = Flusher /\ CommitWaiting)
<1>1. /\ Flusher \in Actors /\ queue \in Seq(Line) /\ Flusher \notin Threads /\ BufferOf(Flusher)
      /\ pc \in [Actors -> Labels] /\ batch \in [Actors -> Seq(Line)] /\ at \in [Actors -> Nat]
  BY ActorsAreDistinct DEF Actors, CallsInv, TypeOK, WorkInv, BufferIsBatch
<1>2. ASSUME Commit(a) PROVE CommitLine(a) \/ (a = Flusher /\ CommitWaiting)
  BY <1>2, CommitEffect
<1>3. ASSUME Acquire(a) PROVE Quiet
  <2>1. pc[a] = "acquire" /\ pc'[a] = "locked" /\ \A b \in Actors \ {a} : pc'[b] = pc[b]
    BY <1>1, <1>3 DEF Acquire, Goto
  <2>2. UNCHANGED <<queue, batch, at, acked, printed, done>>
    BY <1>3 DEF Acquire, shared, locals
  <2> QED
    BY <1>1, <2>1, <2>2 DEF Quiet, Waiting, Taken
<1>4. ASSUME CopyLine(a) \/ BufferNoMemory(a) \/ WriteAll(a)
             \/ (\E n \in 0..Len(buffer[a]) : WriteError(a, n) \/ WriteShort(a, n))
      PROVE  Quiet
  <2>1. /\ UNCHANGED <<queue, batch, acked, printed, done>> /\ pc[a] = "build"
        /\ \A b \in Actors \ {a} : pc'[b] = pc[b] /\ at'[b] = at[b]
        /\ pc'[a] \in {"build", "commit"} \/ (pc'[a] \in {"failed", "relock"} /\ at'[a] = 0)
    BY <1>1, <1>4 DEF CopyLine, BufferNoMemory, WriteAll, WriteError, WriteShort, BufferReady, Rewind,
                      Goto, FailWithLOG, shared, locals, ghosts
  <2>2. CASE a # Flusher
    BY <1>1, <2>1, <2>2 DEF Quiet, Waiting, Taken
  <2>3. CASE a = Flusher
    <3>1. Taken = batch[Flusher]
      BY <2>1, <2>3 DEF Taken
    <3>2. SubSeq(batch[Flusher], 1, Len(batch[Flusher])) = batch[Flusher]
      BY <1>1, SubSeqFull
    <3>3. Taken' = batch[Flusher]
      <4>1. CASE pc'[a] \in {"build", "commit"}
        BY <2>1, <2>3, <4>1 DEF Taken
      <4>2. CASE pc'[a] \in {"failed", "relock"} /\ at'[a] = 0
        <5>1. pc'[Flusher] \notin {"build", "commit"} /\ at'[Flusher] + 1 = 1 /\ batch'[Flusher] = batch[Flusher]
          BY <2>1, <2>3, <4>2
        <5> QED
          BY <3>2, <5>1 DEF Taken
      <4> QED
        BY <2>1, <4>1, <4>2
    <3> QED
      BY <2>1, <3>1, <3>3 DEF Quiet, Waiting
  <2> QED
    BY <2>2, <2>3
<1> QED
  BY <1>2, <1>3, <1>4 DEF WriteStep

-----------------------------------------------------------------------------
(* The lines that are in the file or wait for it.                           *)

\* The latest line of a thread that may have got there, and the latest whose
\* call returned.
Accepted == [t \in Threads |-> IF pc[t] \in {"idle", "print"} THEN calls[t] ELSE calls[t] - 1]
Returned == [t \in Threads |-> IF pc[t] = "idle" THEN calls[t] ELSE calls[t] - 1]

AllLines == acked \o Waiting

LinesAreOld == /\ \A i \in 1..Len(AllLines) : AllLines[i].seq <= Accepted[AllLines[i].by]
               /\ \A l \in done : l.seq <= Returned[l.by]

InOrder(s) == \A i, j \in 1..Len(s) : i < j /\ s[i].by = s[j].by => s[i].seq < s[j].seq

\* A line that waits was printed, or its call is about to print it.
AtPrint(l) == pc[l.by] = "print" /\ cur[l.by] = l
WaitingIsSeen == \A l \in ToSet(Waiting) : (l \in printed /\ l \in done) \/ AtPrint(l)

\* Every line of a returned call was printed or is in the file.
DoneIsSeen == \A l \in done : l \in printed \/ l \in ToSet(acked)

OrderInv == LinesAreOld /\ InOrder(AllLines) /\ AtMostMax
TraceInv == WaitingIsSeen /\ DoneIsSeen

\* Calls only grow older; a panic ends them.
LEMMA CallsAge ==
    ASSUME CallsInv, WorkInv, Next
    PROVE  /\ \A t \in Threads : /\ Accepted[t] \in Int /\ Accepted'[t] \in Int /\ Accepted'[t] >= Accepted[t]
                                 /\ Returned[t] \in Int /\ Returned'[t] \in Int /\ Returned'[t] >= Returned[t]
           /\ Ended \/
                 \A t \in Threads : pc[t] = "print" =>
                     PrintLine(t) \/ (pc'[t] = "print" /\ cur'[t] = cur[t])
<1>1. /\ pc \in [Actors -> Labels] /\ cur \in [Threads -> Line \cup {NoLine}]
      /\ calls \in [Threads -> 0..MaxLines] /\ MaxLines \in Nat /\ Flusher \in Actors /\ Threads \subseteq Actors
      /\ Flusher \notin Threads
  BY ActorsAreDistinct, BoundsAreNatural DEF CallsInv, TypeOK, Actors
<1>2. ASSUME Lifecycle
      PROVE  /\ calls' = calls
             /\ \A t \in Threads : (pc'[t] = pc[t] /\ cur'[t] = cur[t]) \/ (pc'[t] = "idle" /\ Ended)
  <2>1. CASE Make \/ ProbeChunkRead \/ ProbeEnd \/ ProbeFails \/ Unload
    BY <2>1 DEF Make, ProbeChunkRead, ProbeEnd, ProbeFails, Unload
  <2>2. CASE Panic
    <3>1. mode # "down" /\ mode' = "down" /\ calls' = calls /\ \A t \in Threads : pc'[t] = "idle"
      BY <1>1, <2>2 DEF Panic, Vanish
    <3>2. Ended
      BY <2>2, PanicEnds
    <3> QED
      BY <3>1, <3>2
  <2> QED
    BY <1>2, <2>1, <2>2 DEF Lifecycle
<1>3. ASSUME NEW t \in Threads, LogStep(t)
      PROVE  /\ \A u \in Threads \ {t} : pc'[u] = pc[u] /\ cur'[u] = cur[u] /\ calls'[u] = calls[u]
             /\ \/ pc[t] = "idle" /\ calls'[t] = calls[t] + 1 /\ pc'[t] \in {"idle", "acquire"}
                \/ pc[t] \notin {"idle", "print"} /\ calls'[t] = calls[t]
                \/ pc[t] = "print" /\ PrintLine(t) /\ pc'[t] = "idle" /\ calls'[t] = calls[t]
  BY <1>1, <1>3 DEF LogStep, Log, LogDiscards, Collect, CollectNoMemory, LogGivesUp, LogGivesUpNoMemory,
                    PrintLine, Goto, Unlock, FailWithLOG, shared, locals
<1>4. ASSUME FlushStep PROVE cur' = cur /\ calls' = calls /\ \A t \in Threads : pc'[t] = pc[t]
  BY <1>1, <1>4 DEF FlushStep, FlushTick, FlushNothing, Take, FlushRequeues, FlushRequeuesNoMemory,
                    FlushGivesUp, Goto, Unlock, FailWithLOG, shared, locals, ghosts
<1>5. ASSUME NEW a \in Actors, WriteStep(a)
      PROVE  /\ calls' = calls /\ pc[a] \notin {"idle", "print"}
             /\ \A u \in Threads \ {a} : pc'[u] = pc[u] /\ cur'[u] = cur[u]
  BY <1>1, <1>5 DEF WriteStep, Acquire, CopyLine, BufferNoMemory, WriteAll, WriteError, WriteShort, Commit,
                    BufferReady, Goto, Unlock, FailWithLOG, shared, locals, ghosts
<1>6. ASSUME NEW t \in Threads
      PROVE  \/ pc'[t] = pc[t] /\ cur'[t] = cur[t] /\ calls'[t] = calls[t]
             \/ pc'[t] = "idle" /\ Ended /\ calls'[t] = calls[t]
             \/ pc[t] = "idle" /\ calls'[t] = calls[t] + 1 /\ pc'[t] \in {"idle", "acquire"}
             \/ pc[t] \notin {"idle", "print"} /\ calls'[t] = calls[t]
             \/ pc[t] = "print" /\ PrintLine(t) /\ pc'[t] = "idle" /\ calls'[t] = calls[t]
  <2>1. CASE Lifecycle
    BY <1>2, <2>1
  <2>2. CASE \E u \in Threads : LogStep(u)
    BY <1>3, <2>2
  <2>3. CASE FlushStep
    BY <1>4, <2>3
  <2>4. CASE \E a \in Actors : WriteStep(a)
    BY <1>5, <2>4
  <2> QED
    BY <2>1, <2>2, <2>3, <2>4 DEF Next
<1>7. ASSUME NEW t \in Threads
      PROVE  /\ Accepted[t] \in Int /\ Accepted'[t] \in Int /\ Accepted'[t] >= Accepted[t]
             /\ Returned[t] \in Int /\ Returned'[t] \in Int /\ Returned'[t] >= Returned[t]
  <2>1. calls[t] \in Int /\ calls'[t] \in Int
    BY <1>1, <1>6
  <2> QED
    BY <1>6, <2>1 DEF Accepted, Returned
<1> QED
  BY <1>6, <1>7

\* What a step does to all lines together.
LEMMA AllLinesStep ==
    ASSUME CallsInv, WorkInv, AtMostMax, Next
    PROVE  \/ AllLines' = AllLines \/ AllLines' = <<>>
           \/ \E t \in Threads : /\ AllLines' = Append(AllLines, cur[t])
                                 /\ pc[t] \notin {"idle", "print"} /\ pc'[t] \in {"idle", "print"}
                                 /\ calls'[t] = calls[t]
           \/ \E i \in 1..Len(AllLines) : AllLines' = Without(AllLines, i)
<1>1. acked \in Seq(Line) /\ Waiting \in Seq(Line) /\ pc \in [Actors -> Labels] /\ Threads \subseteq Actors
  BY WaitingIsLines DEF CallsInv, TypeOK, Actors
<1>2. ASSUME Quiet PROVE AllLines' = AllLines
  BY <1>2 DEF Quiet, AllLines
<1>3. ASSUME Ended PROVE AllLines' = <<>>
  BY <1>3 DEF Ended, AllLines
<1>4. ASSUME NEW l \in Line PROVE acked \o Append(Waiting, l) = Append(AllLines, l)
  <2>1. <<l>> \in Seq(Line) /\ acked \o Waiting \in Seq(Line)
    BY <1>1
  <2>2. acked \o (Waiting \o <<l>>) = (acked \o Waiting) \o <<l>>
    BY <1>1, <2>1, ConcatAssociative
  <2> QED
    BY <1>1, <2>1, <2>2, AppendIsConcat DEF AllLines
<1>5. ASSUME NEW t \in Threads, KeepLine(t)
      PROVE  /\ AllLines' = Append(AllLines, cur[t]) /\ calls'[t] = calls[t]
             /\ pc[t] \notin {"idle", "print"} /\ pc'[t] \in {"idle", "print"}
  <2>1. pc[t] = "failed" /\ pc'[t] = "print" /\ calls' = calls
    BY <1>1, <1>5 DEF KeepLine, LogGivesUp, Unlock, Goto
  <2>2. cur[t] \in Line
    BY <2>1 DEF CallsInv, CallHasLine
  <2>3. AllLines' = acked \o Append(Waiting, cur[t])
    BY <1>5 DEF KeepLine, AllLines
  <2> QED
    BY <1>4, <2>1, <2>2, <2>3
<1>6. ASSUME NEW t \in Threads, CommitLine(t)
      PROVE  /\ AllLines' = Append(AllLines, cur[t]) /\ calls'[t] = calls[t]
             /\ pc[t] \notin {"idle", "print"} /\ pc'[t] \in {"idle", "print"}
  <2>1. pc[t] = "commit" /\ pc'[t] = "idle" /\ calls' = calls
    BY <1>1, <1>6 DEF CommitLine, Commit, Unlock, Goto
  <2>2. cur[t] \in Line
    BY <2>1 DEF CallsInv, CallHasLine
  <2>3. AllLines' = (acked \o Append(Waiting, cur[t])) \o <<>>
    BY <1>6 DEF CommitLine, AllLines
  <2>4. AllLines' = acked \o Append(Waiting, cur[t])
    BY <1>1, <2>2, <2>3
  <2> QED
    BY <1>4, <2>1, <2>2, <2>4
<1>7. ASSUME CommitWaiting PROVE AllLines' = AllLines
  <2>1. AllLines' = (acked \o Waiting) \o <<>>
    BY <1>7 DEF CommitWaiting, AllLines
  <2> QED
    BY <1>1, <2>1 DEF AllLines
<1>8. ASSUME LoseLine PROVE \E i \in 1..Len(AllLines) : AllLines' = Without(AllLines, i)
  <2> DEFINE i == Len(queue) + 1
  <2>1. i \in 1..Len(Waiting) /\ Waiting' = Without(Waiting, i) /\ acked' = acked
    BY <1>8 DEF LoseLine
  <2> HIDE DEF i
  <2>2. /\ Len(acked) + i \in 1..Len(AllLines)
        /\ acked \o Without(Waiting, i) = Without(AllLines, Len(acked) + i)
    BY <1>1, <2>1, WithoutBehind DEF AllLines
  <2> QED
    BY <2>1, <2>2 DEF AllLines
<1> QED
  <2>1. CASE Lifecycle
    BY <1>2, <1>3, <2>1, LifecycleEffect
  <2>2. CASE \E t \in Threads : LogStep(t)
    <3>1. PICK t \in Threads : LogStep(t)
      BY <2>2
    <3>2. CASE PrintLine(t) /\ UNCHANGED <<acked, Waiting>>
      BY <3>2 DEF AllLines
    <3> QED
      BY <1>2, <1>5, <3>1, <3>2, LogEffect
  <2>3. CASE FlushStep
    BY <1>2, <1>8, <2>3, FlushEffect
  <2>4. CASE \E a \in Actors : WriteStep(a)
    <3>1. PICK a \in Actors : WriteStep(a)
      BY <2>4
    <3>2. ASSUME CommitLine(a) PROVE a \in Threads
      BY <3>2 DEF CommitLine
    <3> QED
      BY <1>2, <1>6, <1>7, <3>1, <3>2, WriteEffect
  <2> QED
    BY <2>1, <2>2, <2>3, <2>4 DEF Next

\* A call that returns is the last of its thread.
LEMMA DoneStep ==
    ASSUME CallsInv, Next
    PROVE  \/ done' \subseteq done
           \/ \E t \in Threads : /\ done' = done \cup {cur[t]}
                                 /\ pc[t] # "idle" /\ pc'[t] = "idle" /\ calls'[t] = calls[t]
<1>1. pc \in [Actors -> Labels] /\ Threads \subseteq Actors
  BY DEF CallsInv, TypeOK, Actors
<1>2. CASE Lifecycle
  BY <1>2 DEF Lifecycle, Make, ProbeChunkRead, ProbeEnd, ProbeFails, Unload, Panic, Vanish, ghosts
<1>3. ASSUME NEW t \in Threads, LogStep(t)
      PROVE  \/ done' = done
             \/ /\ done' = done \cup {cur[t]}
                /\ pc[t] # "idle" /\ pc'[t] = "idle" /\ calls'[t] = calls[t]
  BY <1>1, <1>3 DEF LogStep, Log, LogDiscards, Collect, CollectNoMemory, LogGivesUp, LogGivesUpNoMemory,
                    PrintLine, Goto, ghosts
<1>4. CASE FlushStep
  BY <1>4 DEF FlushStep, FlushTick, FlushNothing, Take, FlushRequeues, FlushRequeuesNoMemory,
              FlushGivesUp, ghosts
<1>5. ASSUME NEW a \in Actors, WriteStep(a)
      PROVE  \/ done' = done
             \/ /\ a \in Threads /\ done' = done \cup {cur[a]}
                /\ pc[a] # "idle" /\ pc'[a] = "idle" /\ calls'[a] = calls[a]
  BY <1>1, <1>5 DEF WriteStep, Acquire, CopyLine, BufferNoMemory, WriteAll, WriteError, WriteShort, Commit,
                    Unlock, Goto, ghosts, Actors
<1> QED
  BY <1>2, <1>3, <1>4, <1>5 DEF Next

LEMMA OrderStep ==
    ASSUME CallsInv, WorkInv, OrderInv, Next PROVE OrderInv'
<1> DEFINE s == AllLines
<1>1. /\ s \in Seq(Line) /\ Waiting \in Seq(Line) /\ acked \in Seq(Line) /\ done \subseteq Line
      /\ MaxUnlogged \in Nat
  <2>1. Waiting \in Seq(Line) /\ acked \in Seq(Line)
    BY WaitingIsLines
  <2> QED
    BY <2>1, BoundsAreNatural DEF CallsInv, TypeOK, AllLines
<1>2. /\ \A i \in 1..Len(s) : s[i] \in Line /\ s[i].by \in Threads /\ s[i].seq \in Int
      /\ \A l \in Line : l.by \in Threads /\ l.seq \in Int
  <2>1. \A l \in Line : l.by \in Threads /\ l.seq \in Int
    BY DEF Line
  <2> HIDE DEF s
  <2>2. \A i \in 1..Len(s) : s[i] \in Line
    BY <1>1
  <2> QED
    BY <2>1, <2>2
<1>3. \A t \in Threads : /\ Accepted[t] \in Int /\ Accepted'[t] \in Int /\ Accepted'[t] >= Accepted[t]
                         /\ Returned[t] \in Int /\ Returned'[t] \in Int /\ Returned'[t] >= Returned[t]
  BY CallsAge
<1>4. (\A i \in 1..Len(s) : s[i].seq <= Accepted[s[i].by]) /\ InOrder(s)
  BY DEF OrderInv, LinesAreOld
<1>5. \A i \in 1..Len(s) : s[i].seq <= Accepted'[s[i].by]
  BY <1>2, <1>3, <1>4
<1> DEFINE Good(q) == (\A i \in 1..Len(q) : q[i].seq <= Accepted'[q[i].by]) /\ InOrder(q)
<1>6. Good(s')
  <2> HIDE DEF s
  <2>1. CASE s' = s
    BY <1>4, <1>5, <2>1 DEF InOrder
  <2>2. CASE s' = <<>>
    BY <2>2 DEF InOrder
  <2>3. ASSUME NEW t \in Threads, s' = Append(s, cur[t]), calls'[t] = calls[t],
               pc[t] \notin {"idle", "print"}, pc'[t] \in {"idle", "print"}
        PROVE  Good(s')
    <3>1. cur[t] \in Line /\ cur[t].by = t /\ cur[t].seq = calls[t]
      BY <2>3 DEF CallsInv, CallHasLine, WorkInv, CurIsCall
    <3>2. Accepted[t] = calls[t] - 1 /\ Accepted'[t] = calls[t] /\ calls[t] \in Int
      <4>1. calls[t] \in Int
        BY <1>2, <3>1
      <4> QED
        BY <2>3, <4>1 DEF Accepted
    <3>3. /\ Len(s') = Len(s) + 1 /\ s'[Len(s) + 1] = cur[t] /\ \A i \in 1..Len(s) : s'[i] = s[i]
          /\ Len(s) \in Nat
      BY <1>1, <2>3, <3>1
    <3>4. ASSUME NEW i \in 1..Len(s') PROVE s'[i].seq <= Accepted'[s'[i].by]
      <4>1. CASE i = Len(s) + 1
        BY <3>1, <3>2, <3>3, <4>1
      <4>2. CASE i # Len(s) + 1
        <5>1. i \in 1..Len(s) /\ s'[i] = s[i]
          BY <3>3, <4>2
        <5> QED
          BY <1>5, <5>1
      <4> QED
        BY <4>1, <4>2
    <3>5. ASSUME NEW i \in 1..Len(s'), NEW j \in 1..Len(s'), i < j, s'[i].by = s'[j].by
          PROVE  s'[i].seq < s'[j].seq
      <4>1. i \in 1..Len(s) /\ s'[i] = s[i]
        BY <3>3, <3>5
      <4>2. CASE j = Len(s) + 1
        <5>1. s'[j] = cur[t] /\ s[i].by = t
          BY <3>1, <3>3, <3>5, <4>1, <4>2
        <5>2. s[i].seq <= calls[t] - 1 /\ s[i].seq \in Int
          BY <1>2, <1>4, <3>2, <4>1, <5>1
        <5> QED
          BY <3>1, <3>2, <4>1, <5>1, <5>2
      <4>3. CASE j # Len(s) + 1
        <5>1. j \in 1..Len(s) /\ s'[j] = s[j]
          BY <3>3, <4>3
        <5> QED
          BY <1>4, <3>5, <4>1, <5>1 DEF InOrder
      <4> QED
        BY <4>2, <4>3
    <3> QED
      BY <3>4, <3>5 DEF InOrder
  <2>4. ASSUME NEW n \in 1..Len(s), s' = Without(s, n) PROVE Good(s')
    <3>1. /\ Len(s') = Len(s) - 1 /\ Len(s) \in Nat
          /\ \A k \in 1..Len(s) - 1 : s'[k] = IF k < n THEN s[k] ELSE s[k + 1]
      <4> DEFINE w == Without(s, n)
      <4>1. s \in Seq(Line) /\ Len(s) \in Nat
        BY <1>1
      <4>2. Len(w) = Len(s) - 1 /\ \A k \in 1..Len(s) - 1 : w[k] = IF k < n THEN s[k] ELSE s[k + 1]
        BY <4>1, WithoutElements
      <4>3. s' = w
        BY <2>4
      <4> HIDE DEF w
      <4> QED
        BY <4>1, <4>2, <4>3
    <3> DEFINE f(k) == IF k < n THEN k ELSE k + 1
    <3>2. ASSUME NEW k \in 1..Len(s') PROVE f(k) \in 1..Len(s) /\ s'[k] = s[f(k)]
      BY <3>1
    <3>3. ASSUME NEW i \in 1..Len(s'), NEW j \in 1..Len(s'), i < j PROVE f(i) < f(j)
      BY <3>3
    <3> HIDE DEF f
    <3>4. \A i \in 1..Len(s') : s'[i].seq <= Accepted'[s'[i].by]
      BY <1>5, <3>2
    <3>5. InOrder(s')
      BY <1>4, <3>2, <3>3 DEF InOrder
    <3> QED
      BY <3>4, <3>5
  <2> HIDE DEF Good
  <2>5. AtMostMax
    BY DEF OrderInv
  <2> QED
    BY <2>1, <2>2, <2>3, <2>4, <2>5, AllLinesStep DEF s
<1>7. \A l \in done' : l.seq <= Returned'[l.by]
  <2>1. \A l \in done : l.seq <= Returned'[l.by]
    <3>1. \A l \in done : l.seq <= Returned[l.by] /\ l.by \in Threads /\ l.seq \in Int
      BY <1>1, <1>2 DEF OrderInv, LinesAreOld
    <3> QED
      BY <1>3, <3>1
  <2>2. CASE done' \subseteq done
    BY <2>1, <2>2
  <2>3. ASSUME NEW t \in Threads, done' = done \cup {cur[t]}, pc[t] # "idle", pc'[t] = "idle",
               calls'[t] = calls[t]
        PROVE  \A l \in done' : l.seq <= Returned'[l.by]
    <3>1. cur[t] \in Line /\ cur[t].by = t /\ cur[t].seq = calls[t]
      BY <2>3 DEF CallsInv, CallHasLine, WorkInv, CurIsCall
    <3>2. Returned'[t] = calls[t] /\ calls[t] \in Int
      BY <1>2, <2>3, <3>1 DEF Returned
    <3> QED
      BY <2>1, <2>3, <3>1, <3>2
  <2> QED
    BY <2>2, <2>3, DoneStep
<1>8. AtMostMax'
  <2>1. AtMostMax
    BY DEF OrderInv
  <2>2. ASSUME Waiting' = Waiting \/ Waiting' = <<>> PROVE AtMostMax'
    BY <1>1, <2>1, <2>2 DEF AtMostMax
  <2>3. ASSUME NEW t \in Threads, KeepLine(t) PROVE AtMostMax'
    <3>1. Len(Waiting) < MaxUnlogged /\ Waiting' = Append(Waiting, cur[t]) /\ pc[t] = "failed"
      BY <2>3 DEF KeepLine, LogGivesUp
    <3>2. cur[t] \in Line
      BY <3>1 DEF CallsInv, CallHasLine
    <3>3. Len(Waiting') = Len(Waiting) + 1
      BY <1>1, <3>1, <3>2
    <3> QED
      BY <1>1, <3>1, <3>3 DEF AtMostMax
  <2>4. ASSUME LoseLine PROVE AtMostMax'
    <3>1. Len(Waiting') = Len(Waiting) - 1
      BY <1>1, <2>4, WithoutElements DEF LoseLine
    <3> QED
      BY <1>1, <2>1, <3>1 DEF AtMostMax
  <2> QED
    BY <2>1, <2>2, <2>3, <2>4, LifecycleEffect, LogEffect, FlushEffect, WriteEffect
    DEF Next, Quiet, Ended, CommitLine, CommitWaiting
<1>9. LinesAreOld' /\ InOrder(AllLines)'
  BY <1>6, <1>7 DEF LinesAreOld, InOrder
<1> QED
  BY <1>8, <1>9 DEF OrderInv

\* The lines of a sequence are those that occur in it.
LEMMA LinesOf ==
    ASSUME NEW s \in Seq(Line), NEW l \in Line
    PROVE  /\ ToSet(s) \subseteq Line /\ ToSet(<<>>) = {}
           /\ ToSet(Append(s, l)) = ToSet(s) \cup {l}
<1>1. ToSet(s) \subseteq Line /\ ToSet(<<>>) = {}
  BY DEF ToSet
<1>2. ToSet(Append(s, l)) = ToSet(s) \cup {l}
  <2>1. /\ Len(Append(s, l)) = Len(s) + 1 /\ Append(s, l)[Len(s) + 1] = l
        /\ \A i \in 1..Len(s) : Append(s, l)[i] = s[i]
    OBVIOUS
  <2> QED
    BY <2>1 DEF ToSet
<1> QED
  BY <1>1, <1>2

LEMMA ConcatLines ==
    ASSUME NEW s \in Seq(Line), NEW r \in Seq(Line)
    PROVE  ToSet(s \o r) = ToSet(s) \cup ToSet(r)
<1>1. /\ Len(s \o r) = Len(s) + Len(r) /\ Len(s) \in Nat /\ Len(r) \in Nat
      /\ \A i \in 1..Len(s) : (s \o r)[i] = s[i]
      /\ \A i \in 1..Len(r) : (s \o r)[Len(s) + i] = r[i]
  BY ConcatProperties
<1>2. ASSUME NEW x \in ToSet(s \o r) PROVE x \in ToSet(s) \cup ToSet(r)
  <2>1. PICK i \in 1..Len(s \o r) : x = (s \o r)[i]
    BY DEF ToSet
  <2>2. CASE i <= Len(s)
    BY <1>1, <2>1, <2>2 DEF ToSet
  <2>3. CASE ~(i <= Len(s))
    <3>1. i - Len(s) \in 1..Len(r) /\ Len(s) + (i - Len(s)) = i
      BY <1>1, <2>3
    <3>2. x = r[i - Len(s)]
      BY <1>1, <2>1, <3>1
    <3> QED
      BY <3>1, <3>2 DEF ToSet
  <2> QED
    BY <2>2, <2>3
<1>3. ToSet(s) \subseteq ToSet(s \o r)
  BY <1>1 DEF ToSet
<1>4. ASSUME NEW x \in ToSet(r) PROVE x \in ToSet(s \o r)
  <2>1. PICK i \in 1..Len(r) : x = r[i]
    BY DEF ToSet
  <2>2. Len(s) + i \in 1..Len(s \o r) /\ (s \o r)[Len(s) + i] = x
    BY <1>1, <2>1
  <2> QED
    BY <2>2 DEF ToSet
<1> QED
  BY <1>2, <1>3, <1>4

LEMMA WithoutIsPart ==
    ASSUME NEW s \in Seq(Line), NEW i \in 1..Len(s)
    PROVE  /\ ToSet(Without(s, i)) \subseteq ToSet(s)
           /\ ToSet(s) \subseteq ToSet(Without(s, i)) \cup {s[i]}
<1> DEFINE w == Without(s, i)
<1>1. /\ Len(w) = Len(s) - 1 /\ Len(s) \in Nat
      /\ \A k \in 1..Len(s) - 1 : w[k] = IF k < i THEN s[k] ELSE s[k + 1]
  BY WithoutElements
<1> HIDE DEF w
<1>2. ASSUME NEW k \in 1..Len(w) PROVE w[k] \in ToSet(s)
  <2>1. k \in 1..Len(s) /\ k + 1 \in 1..Len(s) /\ (w[k] = s[k] \/ w[k] = s[k + 1])
    BY <1>1
  <2> QED
    BY <2>1 DEF ToSet
<1>3. ASSUME NEW k \in 1..Len(s), k # i PROVE s[k] \in ToSet(w)
  <2>1. CASE k < i
    <3>1. k \in 1..Len(w) /\ w[k] = s[k]
      BY <1>1, <2>1
    <3> QED
      BY <3>1 DEF ToSet
  <2>2. CASE k > i
    <3>1. k - 1 \in 1..Len(w) /\ w[k - 1] = s[k]
      BY <1>1, <2>2
    <3>2. \E j \in 1..Len(w) : w[j] = s[k]
      BY <3>1
    <3> QED
      BY <3>2 DEF ToSet
  <2> QED
    BY <1>3, <2>1, <2>2
<1>4. ToSet(w) \subseteq ToSet(s)
  BY <1>2 DEF ToSet
<1>5. ToSet(s) \subseteq ToSet(w) \cup {s[i]}
  BY <1>3 DEF ToSet
<1> QED
  BY <1>4, <1>5 DEF w

LEMMA TraceStep ==
    ASSUME CallsInv, WorkInv, OrderInv, TraceInv, Next PROVE TraceInv'
<1>1. Waiting \in Seq(Line) /\ acked \in Seq(Line) /\ AtMostMax /\ \A l \in Line : l.by \in Threads
  BY WaitingIsLines DEF OrderInv, Line
<1>2. \A l \in ToSet(Waiting) : l \in Line
  <2> HIDE DEF Waiting
  <2> QED
    BY <1>1 DEF ToSet
<1>3. Ended \/
          \A t \in Threads : pc[t] = "print" => PrintLine(t) \/ (pc'[t] = "print" /\ cur'[t] = cur[t])
  BY CallsAge
<1>4. ASSUME Quiet, ~Ended PROVE TraceInv'
  <2>1. ASSUME NEW t \in Threads, PrintLine(t) PROVE cur[t] \in printed
    <3>1. printed' = printed \cup {cur[t]}
      BY <2>1 DEF PrintLine
    <3> QED
      BY <1>4, <3>1 DEF Quiet
  <2>2. ASSUME NEW t \in Threads, PrintLine(t) PROVE cur[t] \in done
    <3>1. done' = done \cup {cur[t]}
      BY <2>2 DEF PrintLine
    <3> QED
      BY <1>4, <3>1 DEF Quiet
  <2>3. ASSUME NEW l \in ToSet(Waiting) PROVE (l \in printed /\ l \in done) \/ AtPrint(l)'
    <3>1. (l \in printed /\ l \in done) \/ (pc[l.by] = "print" /\ cur[l.by] = l)
      BY DEF TraceInv, WaitingIsSeen, AtPrint
    <3>2. l.by \in Threads
      BY <1>1, <1>2
    <3> QED
      BY <1>3, <1>4, <2>1, <2>2, <3>1, <3>2 DEF AtPrint
  <2>4. WaitingIsSeen'
    BY <1>4, <2>3 DEF WaitingIsSeen, Quiet
  <2>5. DoneIsSeen'
    BY <1>4 DEF Quiet, DoneIsSeen, TraceInv
  <2> QED
    BY <2>4, <2>5 DEF TraceInv
<1>5. ASSUME Ended PROVE TraceInv'
  <2>1. Waiting' = <<>> /\ done' = {}
    BY <1>5 DEF Ended
  <2>2. ToSet(Waiting') = {}
    BY <2>1 DEF ToSet
  <2> QED
    BY <2>1, <2>2 DEF TraceInv, WaitingIsSeen, DoneIsSeen
<1>6. ASSUME NEW t \in Threads, PrintLine(t), UNCHANGED <<acked, Waiting>> PROVE TraceInv'
  <2>1. /\ printed' = printed \cup {cur[t]} /\ done' = done \cup {cur[t]}
        /\ \A u \in Threads \ {t} : pc'[u] = pc[u] /\ cur'[u] = cur[u]
    BY <1>6 DEF PrintLine, Goto, CallsInv, TypeOK, Actors
  <2>2. ASSUME NEW l \in ToSet(Waiting) PROVE (l \in printed' /\ l \in done') \/ AtPrint(l)'
    <3>1. (l \in printed /\ l \in done) \/ (pc[l.by] = "print" /\ cur[l.by] = l)
      BY DEF TraceInv, WaitingIsSeen, AtPrint
    <3>2. l.by \in Threads
      BY <1>1, <1>2
    <3> QED
      BY <2>1, <3>1, <3>2 DEF AtPrint
  <2>3. WaitingIsSeen'
    BY <1>6, <2>2 DEF WaitingIsSeen
  <2>4. DoneIsSeen'
    BY <1>6, <2>1 DEF DoneIsSeen, TraceInv
  <2> QED
    BY <2>3, <2>4 DEF TraceInv
<1>7. ASSUME NEW t \in Threads, KeepLine(t) PROVE TraceInv'
  <2>1. /\ pc[t] = "failed" /\ pc'[t] = "print" /\ cur' = cur /\ UNCHANGED <<acked, printed, done>>
        /\ \A u \in Threads \ {t} : pc'[u] = pc[u]
        /\ Waiting' = Append(Waiting, cur[t])
    BY <1>7 DEF KeepLine, LogGivesUp, Unlock, Goto, CallsInv, TypeOK, Actors
  <2>2. cur[t] \in Line /\ cur[t].by = t
    BY <2>1 DEF CallsInv, CallHasLine, WorkInv, CurIsCall
  <2>3. ToSet(Waiting') = ToSet(Waiting) \cup {cur[t]}
    BY <1>1, <2>1, <2>2, LinesOf
  <2>4. ASSUME NEW l \in ToSet(Waiting) PROVE (l \in printed /\ l \in done) \/ AtPrint(l)'
    <3>1. (l \in printed /\ l \in done) \/ (pc[l.by] = "print" /\ cur[l.by] = l)
      BY DEF TraceInv, WaitingIsSeen, AtPrint
    <3>2. l.by \in Threads
      BY <1>1, <1>2
    <3> QED
      BY <2>1, <3>1, <3>2 DEF AtPrint
  <2>5. AtPrint(cur[t])'
    BY <2>1, <2>2 DEF AtPrint
  <2>6. WaitingIsSeen'
    BY <2>1, <2>3, <2>4, <2>5 DEF WaitingIsSeen
  <2>7. DoneIsSeen'
    BY <2>1 DEF DoneIsSeen, TraceInv
  <2> QED
    BY <2>6, <2>7 DEF TraceInv
<1>8. ASSUME LoseLine PROVE TraceInv'
  <2>1. ToSet(Waiting') \subseteq ToSet(Waiting)
    <3> DEFINE i == Len(queue) + 1
    <3>1. i \in 1..Len(Waiting) /\ Waiting' = Without(Waiting, i)
      BY <1>8 DEF LoseLine
    <3> HIDE DEF i
    <3> QED
      BY <1>1, <3>1, WithoutIsPart
  <2>2. /\ UNCHANGED <<acked, printed, done, cur>> /\ pc[Flusher] = "failed"
        /\ \A t \in Threads : pc'[t] = pc[t]
    BY <1>8, ActorsAreDistinct
    DEF LoseLine, FlushRequeuesNoMemory, FailWithLOG, Goto, CallsInv, TypeOK, Actors
  <2>3. ASSUME NEW l \in ToSet(Waiting) PROVE (l \in printed /\ l \in done) \/ AtPrint(l)'
    <3>1. (l \in printed /\ l \in done) \/ (pc[l.by] = "print" /\ cur[l.by] = l)
      BY DEF TraceInv, WaitingIsSeen, AtPrint
    <3>2. l.by \in Threads
      BY <1>1, <1>2
    <3> QED
      BY <2>2, <3>1, <3>2 DEF AtPrint
  <2>4. WaitingIsSeen'
    BY <2>1, <2>2, <2>3 DEF WaitingIsSeen
  <2>5. DoneIsSeen'
    BY <2>2 DEF DoneIsSeen, TraceInv
  <2> QED
    BY <2>4, <2>5 DEF TraceInv
<1>9. ASSUME NEW a \in Actors, CommitLine(a) \/ CommitWaiting PROVE TraceInv'
  <2>1. /\ Waiting' = <<>> /\ printed' = printed
        /\ \/ acked' = acked \o Waiting /\ done' = done
           \/ /\ a \in Threads /\ pc[a] = "commit"
              /\ acked' = acked \o Append(Waiting, cur[a]) /\ done' = done \cup {cur[a]}
    BY <1>9, ActorsAreDistinct DEF CommitLine, CommitWaiting, Commit
  <2>2. WaitingIsSeen'
    <3>1. ToSet(Waiting') = {}
      BY <2>1 DEF ToSet
    <3> QED
      BY <3>1 DEF WaitingIsSeen
  <2>3. \A l \in done' : l \in done \/ l \in ToSet(acked')
    <3>1. ASSUME a \in Threads, pc[a] = "commit", acked' = acked \o Append(Waiting, cur[a])
          PROVE  cur[a] \in ToSet(acked')
      <4>1. cur[a] \in Line
        BY <3>1 DEF CallsInv, CallHasLine
      <4>2. Append(Waiting, cur[a]) \in Seq(Line) /\ cur[a] \in ToSet(Append(Waiting, cur[a]))
        BY <1>1, <4>1, LinesOf
      <4> QED
        BY <1>1, <3>1, <4>1, <4>2, ConcatLines
    <3> QED
      BY <2>1, <3>1
  <2>4. ToSet(acked) \subseteq ToSet(acked')
    <3>1. ASSUME NEW r \in Seq(Line) PROVE ToSet(acked) \subseteq ToSet(acked \o r)
      BY <1>1, <3>1, ConcatLines
    <3>2. (a \in Threads /\ pc[a] = "commit") => Append(Waiting, cur[a]) \in Seq(Line)
      BY <1>1 DEF CallsInv, CallHasLine
    <3> QED
      BY <1>1, <2>1, <3>1, <3>2
  <2>5. DoneIsSeen'
    BY <2>1, <2>3, <2>4 DEF DoneIsSeen, TraceInv
  <2> QED
    BY <2>2, <2>5 DEF TraceInv
<1> QED
  BY <1>1, <1>4, <1>5, <1>6, <1>7, <1>8, <1>9, LifecycleEffect, LogEffect, FlushEffect, WriteEffect DEF Next

-----------------------------------------------------------------------------
(* The bytes of the lines.                                                  *)

LEMMA WholeLinesStep ==
    ASSUME CallsInv, FileInv, WorkInv, WholeLines, Next PROVE WholeLines'
<1>1. acked \in Seq(Line) /\ Waiting \in Seq(Line)
  BY WaitingIsLines
<1>2. WholeLines <=> sealed = base \o Flat(acked)
  BY DEF WholeLines, Flat, Texts
<1>3. WholeLines' <=> sealed' = base' \o Flat(acked')
  BY DEF WholeLines, Flat, Texts
<1>4. ASSUME UNCHANGED <<sealed, base, acked>> PROVE WholeLines'
  BY <1>2, <1>3, <1>4
<1>5. ASSUME NEW a \in Actors, Commit(a) PROVE WholeLines'
  <2>1. /\ pc[a] = "commit" /\ base' = base
        /\ sealed' = sealed \o buffer[a] /\ acked' = acked \o batch[a]
    BY <1>5 DEF Commit
  <2>2. batch[a] \in Seq(Line) /\ base \in Seq(Byte)
    BY DEF CallsInv, TypeOK
  <2>3. buffer[a] = Flat(batch[a])
    <3>1. buffer[a] = Flat(SubSeq(batch[a], 1, Len(batch[a])))
      BY <2>1 DEF WorkInv, BufferIsBatch, BufferOf
    <3> QED
      BY <2>2, <3>1, SubSeqFull
  <2>4. Flat(acked') = Flat(acked) \o Flat(batch[a])
    BY <1>1, <2>1, <2>2, FlatConcat
  <2>5. Flat(acked) \in Seq(Byte) /\ Flat(batch[a]) \in Seq(Byte)
    BY <1>1, <2>2, FlatIsBytes
  <2>6. (base \o Flat(acked)) \o Flat(batch[a]) = base \o (Flat(acked) \o Flat(batch[a]))
    BY <2>2, <2>5, ConcatAssociative
  <2> QED
    BY <1>2, <1>3, <2>1, <2>3, <2>4, <2>6
<1>6. CASE Lifecycle
  <2>1. CASE Make \/ ProbeChunkRead \/ ProbeFails
    BY <1>4, <2>1 DEF Make, ProbeChunkRead, ProbeFails, ghosts
  <2>2. ASSUME NEW f \in Seq(Byte), base' = f, sealed' = f, acked' = <<>> PROVE WholeLines'
    <3>1. f \o <<>> = f
      OBVIOUS
    <3> QED
      BY <1>3, <2>2, <3>1, FlatOfNone
  <2>3. CASE ProbeEnd
    <3>1. base' = file /\ sealed' = file /\ acked' = acked /\ mode # "up"
      BY <2>3 DEF ProbeEnd
    <3>2. acked = <<>> /\ file \in Seq(Byte)
      BY <3>1 DEF WorkInv, NothingYet, CallsInv, TypeOK
    <3> QED
      BY <2>2, <3>1, <3>2
  <2>4. CASE Unload \/ Panic
    <3>1. base' = <<>> /\ sealed' = <<>> /\ acked' = <<>> /\ <<>> \in Seq(Byte)
      BY <2>4 DEF Unload, Panic, Vanish
    <3> QED
      BY <2>2, <3>1
  <2> QED
    BY <1>6, <2>1, <2>3, <2>4 DEF Lifecycle
<1>7. CASE \E t \in Threads : LogStep(t)
  BY <1>4, <1>7 DEF LogStep, Log, LogDiscards, Collect, CollectNoMemory, LogGivesUp, LogGivesUpNoMemory,
                    PrintLine, shared, ghosts
<1>8. CASE FlushStep
  BY <1>4, <1>8 DEF FlushStep, FlushTick, FlushNothing, Take, FlushRequeues, FlushRequeuesNoMemory,
                    FlushGivesUp, shared, ghosts
<1>9. CASE \E a \in Actors : WriteStep(a)
  BY <1>4, <1>5, <1>9 DEF WriteStep, Acquire, CopyLine, BufferNoMemory, WriteAll, WriteError, WriteShort,
                    shared, ghosts
<1> QED
  BY <1>6, <1>7, <1>8, <1>9 DEF Next

-----------------------------------------------------------------------------
(* What lies behind the offset.                                             *)

\* A line was given up: its call stopped trying to write it, and it is neither
\* in the file nor waiting.
GivenUp(l) == /\ l \in done \/ \E t \in Threads : pc[t] = "print" /\ cur[t] = l
              /\ l \notin ToSet(AllLines)
Lost == \E l \in Line : GivenUp(l)

\* The bytes behind the offset are no more than those of the lines to write.
TailOf(ls) == Len(file) <= offset + Len(Flat(ls))

\* A thread writes its own line with those that wait.
Writing(t) == pc[t] \in {"build", "commit", "failed"}
Pending == /\ \A t \in Threads : Writing(t) => TailOf(batch[t])
           /\ (\A t \in Threads : ~Writing(t)) => TailOf(Waiting)
Stuck == \E a \in Actors : pc[a] = "relock"
TailIsPending == mode = "up" /\ ~Stuck /\ ~Lost => Pending

\* Nobody leaves a lock it waits for and holds.
LEMMA StuckStays ==
    ASSUME CallsInv, Next, Stuck PROVE Stuck' \/ Ended
<1>1. PICK a \in Actors : pc[a] = "relock"
  BY DEF Stuck
<1>2. CASE Lifecycle
  <2>1. CASE Make \/ ProbeChunkRead \/ ProbeEnd \/ ProbeFails
    BY <1>1, <2>1 DEF Make, ProbeChunkRead, ProbeEnd, ProbeFails, Stuck
  <2>2. ~Unload
    BY <1>1 DEF Unload
  <2>3. CASE Panic
    BY <2>3, PanicEnds
  <2> QED
    BY <1>2, <2>1, <2>2, <2>3 DEF Lifecycle
<1>3. CASE ~Lifecycle
  <2>1. pc'[a] = "relock"
    BY <1>1, <1>3, ActorsAreDistinct, ZenonT(30)
    DEF Next, LogStep, Log, LogDiscards, Collect, CollectNoMemory, LogGivesUp, LogGivesUpNoMemory, PrintLine,
        FlushStep, FlushTick, FlushNothing, Take, FlushRequeues, FlushRequeuesNoMemory, FlushGivesUp,
        WriteStep, Acquire, CopyLine, BufferNoMemory, WriteAll, WriteError, WriteShort, Commit, BufferReady,
        Goto, Unlock, FailWithLOG, CallsInv, TypeOK, Actors
  <2> QED
    BY <1>1, <2>1 DEF Stuck
<1> QED
  BY <1>2, <1>3

\* A line whose call is not yet at its end was not given up.
LEMMA ActiveIsNotGivenUp ==
    ASSUME CallsInv, WorkInv, OrderInv, NEW t \in Threads, pc[t] \notin {"idle", "print"},
           NEW l \in Line, GivenUp(l)
    PROVE  l # cur[t]
<1>1. cur[t] \in Line /\ cur[t].by = t /\ cur[t].seq = calls[t] /\ calls[t] \in Int
  <2>1. cur[t] \in Line /\ cur[t].by = t /\ cur[t].seq = calls[t]
    BY DEF CallsInv, CallHasLine, WorkInv, CurIsCall
  <2>2. calls[t] \in 0..MaxLines /\ MaxLines \in Nat
    BY BoundsAreNatural DEF CallsInv, TypeOK
  <2> QED
    BY <2>1, <2>2
<1>2. CASE l \in done
  <2>1. l.seq <= Returned[l.by]
    BY <1>2 DEF OrderInv, LinesAreOld
  <2>2. Returned[t] = calls[t] - 1
    BY DEF Returned
  <2> QED
    BY <1>1, <2>1, <2>2
<1>3. ASSUME NEW u \in Threads, pc[u] = "print", cur[u] = l PROVE l # cur[t]
  BY <1>1, <1>3 DEF WorkInv, CurIsCall
<1> QED
  BY <1>2, <1>3 DEF GivenUp

LEMMA DoneStays ==
    ASSUME CallsInv, WorkInv, OrderInv, Next PROVE done \subseteq done' \/ Ended
<1>1. AtMostMax
  BY DEF OrderInv
<1> QED
  BY <1>1, LifecycleEffect, LogEffect, FlushEffect, WriteEffect
  DEF Next, Quiet, KeepLine, PrintLine, LoseLine, CommitLine, CommitWaiting, Commit

LEMMA LostStays ==
    ASSUME CallsInv, WorkInv, OrderInv, Next, Lost PROVE Lost' \/ Ended
<1> SUFFICES ASSUME ~Ended PROVE Lost'
  OBVIOUS
<1>1. PICK l \in Line : GivenUp(l)
  BY DEF Lost
<1>2. l \in done' \/ \E t \in Threads : pc'[t] = "print" /\ cur'[t] = l
  <2>1. CASE l \in done
    BY <2>1, DoneStays
  <2>2. ASSUME NEW t \in Threads, pc[t] = "print", cur[t] = l
        PROVE  l \in done' \/ \E u \in Threads : pc'[u] = "print" /\ cur'[u] = l
    <3>1. PrintLine(t) \/ (pc'[t] = "print" /\ cur'[t] = cur[t])
      BY <2>2, CallsAge
    <3>2. ASSUME PrintLine(t) PROVE l \in done'
      BY <2>2, <3>2 DEF PrintLine
    <3> QED
      BY <2>2, <3>1, <3>2
  <2> QED
    BY <1>1, <2>1, <2>2 DEF GivenUp
<1>3. l \notin ToSet(AllLines')
  <2>1. AllLines \in Seq(Line) /\ AtMostMax
    BY WaitingIsLines DEF AllLines, OrderInv
  <2>2. l \notin ToSet(AllLines)
    BY <1>1 DEF GivenUp
  <2>3. CASE AllLines' = AllLines
    BY <2>2, <2>3
  <2>4. CASE AllLines' = <<>>
    BY <2>4 DEF ToSet
  <2>5. ASSUME NEW t \in Threads, AllLines' = Append(AllLines, cur[t]), pc[t] \notin {"idle", "print"}
        PROVE  l \notin ToSet(AllLines')
    <3>1. cur[t] \in Line
      BY <2>5 DEF CallsInv, CallHasLine
    <3>2. ToSet(AllLines') = ToSet(AllLines) \cup {cur[t]}
      BY <2>1, <2>5, <3>1, LinesOf
    <3> QED
      BY <1>1, <2>2, <2>5, <3>2, ActiveIsNotGivenUp
  <2>6. ASSUME NEW i \in 1..Len(AllLines), AllLines' = Without(AllLines, i)
        PROVE  l \notin ToSet(AllLines')
    BY <2>1, <2>2, <2>6, WithoutIsPart
  <2> QED
    BY <2>1, <2>3, <2>4, <2>5, <2>6, AllLinesStep
<1> QED
  BY <1>1, <1>2, <1>3 DEF Lost, GivenUp

\* A call that stops trying without its line in the file or the queue gives
\* the line up.
LEMMA NowLost ==
    ASSUME CallsInv, WorkInv, OrderInv, NEW t \in Threads, pc[t] \notin {"idle", "print"},
           pc'[t] = "print", cur' = cur, acked' = acked, Waiting' = Waiting
    PROVE  Lost'
<1>1. cur[t] \in Line /\ cur[t].by = t /\ cur[t].seq = calls[t] /\ calls[t] \in Int
  <2>1. cur[t] \in Line /\ cur[t].by = t /\ cur[t].seq = calls[t]
    BY DEF CallsInv, CallHasLine, WorkInv, CurIsCall
  <2>2. calls[t] \in 0..MaxLines /\ MaxLines \in Nat
    BY BoundsAreNatural DEF CallsInv, TypeOK
  <2> QED
    BY <2>1, <2>2
<1>2. AllLines' = AllLines
  BY DEF AllLines
<1>3. cur[t] \notin ToSet(AllLines)
  <2> SUFFICES ASSUME NEW i \in 1..Len(AllLines), AllLines[i] = cur[t] PROVE FALSE
    <3>1. AllLines \in Seq(Line)
      BY WaitingIsLines DEF AllLines
    <3> QED
      BY <3>1 DEF ToSet
  <2>1. AllLines[i].seq <= Accepted[AllLines[i].by]
    BY DEF OrderInv, LinesAreOld
  <2>2. Accepted[t] = calls[t] - 1
    BY DEF Accepted
  <2> QED
    BY <1>1, <2>1, <2>2
<1>4. cur'[t] = cur[t]
  OBVIOUS
<1> QED
  BY <1>1, <1>2, <1>3, <1>4 DEF Lost, GivenUp

\* A line that the flusher loses is given up.
LEMMA NowLostByFlusher ==
    ASSUME CallsInv, WorkInv, OrderInv, TraceInv, LoseLine
    PROVE  Lost'
<1> DEFINE i == Len(queue) + 1
           n == Len(acked) + i
           l == Waiting[i]
<1>1. acked \in Seq(Line) /\ Waiting \in Seq(Line) /\ AllLines \in Seq(Line)
  BY WaitingIsLines DEF AllLines
<1>2. /\ i \in 1..Len(Waiting) /\ Waiting' = Without(Waiting, i) /\ UNCHANGED <<acked, printed, done, cur>>
      /\ \A t \in Threads : pc'[t] = pc[t]
  BY ActorsAreDistinct DEF LoseLine, FlushRequeuesNoMemory, FailWithLOG, Goto, CallsInv, TypeOK, Actors
<1> HIDE DEF i
<1>3. n \in 1..Len(AllLines) /\ AllLines[n] = l /\ AllLines' = Without(AllLines, n)
  BY <1>1, <1>2, WithoutBehind DEF AllLines
<1>4. l \in Line /\ l \in ToSet(Waiting)
  <2> HIDE DEF Waiting
  <2> QED
    BY <1>1, <1>2 DEF ToSet
<1> HIDE DEF n
<1>5. l \notin ToSet(Without(AllLines, n))
  <2> HIDE DEF l
  <2> DEFINE w == Without(AllLines, n)
  <2>1. /\ w \in Seq(Line) /\ Len(w) = Len(AllLines) - 1 /\ Len(AllLines) \in Nat
        /\ \A k \in 1..Len(AllLines) - 1 : w[k] = IF k < n THEN AllLines[k] ELSE AllLines[k + 1]
    <3>1. AllLines \in Seq(Line) /\ n \in 1..Len(AllLines)
      BY <1>1, <1>3
    <3>2. Len(AllLines) \in Nat
      BY <3>1
    <3>3. /\ w \in Seq(Line) /\ Len(w) = Len(AllLines) - 1
          /\ \A k \in 1..Len(AllLines) - 1 : w[k] = IF k < n THEN AllLines[k] ELSE AllLines[k + 1]
      BY <3>1, WithoutElements
    <3> QED
      BY <3>2, <3>3
  <2> HIDE DEF w
  <2>2. ASSUME NEW k \in 1..Len(AllLines), k # n PROVE AllLines[k] # l
    <3>1. InOrder(AllLines)
      BY DEF OrderInv
    <3>2. l.seq \in Int
      BY <1>4 DEF Line
    <3>3. k < n \/ n < k
      BY <1>3, <2>2
    <3> QED
      BY <1>3, <2>2, <3>1, <3>2, <3>3 DEF InOrder
  <2>3. ASSUME NEW k \in 1..Len(w) PROVE w[k] # l
    <3>1. CASE k < n
      <4>1. k \in 1..Len(AllLines) /\ k # n /\ w[k] = AllLines[k]
        BY <1>3, <2>1, <3>1
      <4> QED
        BY <2>2, <4>1
    <3>2. CASE ~(k < n)
      <4>1. k + 1 \in 1..Len(AllLines) /\ k + 1 # n /\ w[k] = AllLines[k + 1]
        BY <1>3, <2>1, <3>2
      <4> QED
        BY <2>2, <4>1
    <3> QED
      BY <3>1, <3>2
  <2> QED
    BY <2>3 DEF ToSet, w
<1>6. l \in done \/ (pc[l.by] = "print" /\ cur[l.by] = l)
  BY <1>4 DEF TraceInv, WaitingIsSeen, AtPrint
<1>7. l.by \in Threads
  BY <1>4 DEF Line
<1>8. l \in done' \/ \E t \in Threads : pc'[t] = "print" /\ cur'[t] = l
  BY <1>2, <1>6, <1>7
<1> HIDE DEF l
<1> QED
  BY <1>3, <1>4, <1>5, <1>8 DEF Lost, GivenUp

\* Steps that write nothing and leave what is pending alone.
LEMMA PendingStays ==
    ASSUME CallsInv, WorkInv, Pending, UNCHANGED <<file, offset, Waiting>>,
           \A t \in Threads : Writing(t)' = Writing(t) /\ (Writing(t) => batch'[t] = batch[t])
    PROVE  Pending'
BY DEF Pending, TailOf

\* While a thread has the lock no other writes, and nobody does while the
\* flusher has it.
LEMMA OneWrites ==
    ASSUME CallsInv, NEW a \in Actors, pc[a] \in Holding
    PROVE  \A t \in Threads \ {a} : ~Writing(t)
<1>1. Threads \subseteq Actors
  BY DEF Actors
<1> QED
  BY <1>1, WriterIsAlone DEF Writing, Holding

\* A batch with one line more is no shorter.
LEMMA LongerFlat ==
    ASSUME NEW ls \in Seq(Line), NEW l \in Line
    PROVE  /\ Len(Flat(ls)) \in Nat /\ Len(Flat(Append(ls, l))) \in Nat
           /\ Len(Flat(ls)) <= Len(Flat(Append(ls, l)))
<1>1. Flat(ls) \in Seq(Byte) /\ Text(l) \in Seq(Byte)
  BY FlatIsBytes, TextIsBytes
<1>2. Flat(Append(ls, l)) = Flat(ls) \o Text(l)
  BY FlatAppend
<1>3. Len(Flat(ls) \o Text(l)) = Len(Flat(ls)) + Len(Text(l)) /\ Len(Flat(ls)) \in Nat /\ Len(Text(l)) \in Nat
  BY <1>1, ConcatProperties
<1> QED
  BY <1>2, <1>3

\* How long vn_rdwr makes a file.
LEMMA OverwriteLength ==
    ASSUME NEW S, NEW f \in Seq(S), NEW d \in Seq(S), NEW o \in 0..Len(f)
    PROVE  Len(Overwrite(f, o, d)) = IF o + Len(d) > Len(f) THEN o + Len(d) ELSE Len(f)
<1> DEFINE n == IF o + Len(d) > Len(f) THEN o + Len(d) ELSE Len(f)
<1>1. n \in Nat
  OBVIOUS
<1>2. Overwrite(f, o, d) = [i \in 1..n |-> IF o < i /\ i <= o + Len(d) THEN d[i - o] ELSE f[i]]
  BY DEF Overwrite
<1> HIDE DEF n
<1>3. Len(Overwrite(f, o, d)) = n
  BY <1>1, <1>2
<1> QED
  BY <1>3 DEF n

LEMMA TailLog ==
    ASSUME CallsInv, FileInv, WorkInv, OrderInv, TraceInv, mode = "up", Pending,
           NEW t \in Threads, LogStep(t), ~Stuck', ~Lost'
    PROVE  Pending'
<1>1. /\ t \in Actors /\ t # Flusher /\ Threads \subseteq Actors /\ Flusher \in Actors
      /\ pc \in [Actors -> Labels] /\ batch \in [Actors -> Seq(Line)] /\ queue \in Seq(Line)
  BY ActorsAreDistinct DEF Actors, CallsInv, TypeOK
<1>2. /\ UNCHANGED <<file, offset>>
      /\ \A u \in Threads \ {t} : pc'[u] = pc[u] /\ batch'[u] = batch[u]
  BY <1>1 DEF LogStep, Log, LogDiscards, Collect, CollectNoMemory, LogGivesUp, LogGivesUpNoMemory,
              PrintLine, Goto, Unlock, FailWithLOG, shared, locals
<1>3. Quiet \/ (PrintLine(t) /\ UNCHANGED <<acked, Waiting>>) \/ KeepLine(t)
  BY LogEffect
<1>4. ASSUME UNCHANGED <<acked, Waiting, cur>>, pc[t] \notin {"idle", "print"}, pc'[t] \in {"print", "relock"}
      PROVE  FALSE
  <2>1. pc'[t] # "relock"
    BY <1>1 DEF Stuck
  <2> QED
    BY <1>4, <2>1, NowLost
<1>5. ASSUME Waiting' = Waiting, ~Writing(t), ~Writing(t)' PROVE Pending'
  BY <1>2, <1>5, PendingStays DEF Writing
<1>6. CASE \/ \E k \in LineLengths : Log(t, k) \/ LogDiscards(t, k)
           \/ PrintLine(t)
  <2>1. ~Writing(t) /\ ~Writing(t)'
    BY <1>1, <1>6 DEF Log, LogDiscards, PrintLine, Goto, Writing
  <2>2. ~KeepLine(t)
    BY <1>6 DEF Log, LogDiscards, PrintLine, KeepLine, LogGivesUp
  <2> QED
    BY <1>3, <1>5, <2>1, <2>2 DEF Quiet
<1>7. CASE CollectNoMemory(t) \/ LogGivesUpNoMemory(t)
  <2>1. /\ pc[t] \notin {"idle", "print"} /\ pc'[t] \in {"print", "relock"}
        /\ UNCHANGED <<queue, acked, cur, at>>
    BY <1>1, <1>7 DEF CollectNoMemory, LogGivesUpNoMemory, EnqueueNoMemory, FailWithLOG, Goto, shared, locals, ghosts
  <2>2. pc'[Flusher] = pc[Flusher] /\ batch'[Flusher] = batch[Flusher]
    BY <1>1, <1>7 DEF CollectNoMemory, LogGivesUpNoMemory, FailWithLOG, Goto, shared, locals, ghosts
  <2>3. Waiting' = Waiting
    BY <2>1, <2>2 DEF Waiting, Taken
  <2> QED
    BY <1>4, <2>1, <2>3
<1>8. CASE Collect(t)
  <2>1. /\ pc[t] = "locked" /\ pc'[t] = "build" /\ batch'[t] = Append(queue, cur[t])
        /\ ~KeepLine(t) /\ ~PrintLine(t)
    BY <1>1, <1>8 DEF Collect, Goto, KeepLine, LogGivesUp, PrintLine
  <2>2. Waiting = queue /\ \A u \in Threads : ~Writing(u)
    BY <1>1, <2>1, ThreadHolds, OneWrites DEF Holding, Writing
  <2>3. TailOf(queue)
    BY <2>2 DEF Pending
  <2>4. cur[t] \in Line
    BY <2>1 DEF CallsInv, CallHasLine
  <2>5. /\ Len(Flat(queue)) \in Nat /\ Len(Flat(batch'[t])) \in Nat
        /\ Len(Flat(queue)) <= Len(Flat(batch'[t]))
    BY <1>1, <2>1, <2>4, LongerFlat
  <2>6. Len(file) <= offset + Len(Flat(batch'[t]))
    <3>1. Len(file) \in Nat /\ offset \in Nat /\ Len(file) <= offset + Len(Flat(queue))
      BY <2>3 DEF TailOf, CallsInv, TypeOK
    <3> QED
      BY <2>5, <3>1
  <2>7. Writing(t)' /\ \A u \in Threads \ {t} : ~Writing(u)'
    BY <1>2, <2>1, <2>2 DEF Writing
  <2> QED
    BY <1>2, <2>6, <2>7 DEF Pending, TailOf
<1>9. CASE LogGivesUp(t)
  <2>1. pc[t] = "failed" /\ pc'[t] = "print" /\ UNCHANGED <<acked, cur>>
    BY <1>1, <1>9 DEF LogGivesUp, Unlock, Goto, ghosts
  <2>2. Waiting' = Append(Waiting, cur[t])
    BY <1>3, <1>4, <2>1 DEF Quiet, KeepLine
  <2>3. Waiting = queue /\ batch[t] = Append(queue, cur[t])
    BY <2>1, ThreadHolds DEF Holding, WorkInv, BatchIsWaiting
  <2>4. TailOf(batch[t])
    BY <2>1 DEF Pending, Writing
  <2>5. \A u \in Threads : ~Writing(u)'
    BY <1>1, <1>2, <2>1, OneWrites DEF Holding, Writing
  <2>6. Len(file') <= offset' + Len(Flat(Waiting'))
    BY <1>2, <2>2, <2>3, <2>4 DEF TailOf
  <2> QED
    BY <2>5, <2>6 DEF Pending, TailOf
<1> QED
  BY <1>6, <1>7, <1>8, <1>9 DEF LogStep

LEMMA TailFlush ==
    ASSUME CallsInv, FileInv, WorkInv, OrderInv, TraceInv, mode = "up", Pending,
           FlushStep, ~Lost'
    PROVE  Pending'
<1>1. /\ Flusher \in Actors /\ Threads \subseteq Actors /\ Flusher \notin Threads
      /\ pc \in [Actors -> Labels] /\ batch \in [Actors -> Seq(Line)]
  BY ActorsAreDistinct DEF Actors, CallsInv, TypeOK
<1>2. /\ UNCHANGED <<file, offset>>
      /\ \A u \in Threads : pc'[u] = pc[u] /\ batch'[u] = batch[u]
  BY <1>1 DEF FlushStep, FlushTick, FlushNothing, Take, FlushRequeues, FlushRequeuesNoMemory, FlushGivesUp,
              Goto, Unlock, FailWithLOG, shared, locals
<1>3. Waiting' = Waiting
  <2>1. AtMostMax
    BY DEF OrderInv
  <2> QED
    BY <2>1, FlushEffect, NowLostByFlusher DEF Quiet
<1> QED
  BY <1>2, <1>3, PendingStays DEF Writing

LEMMA TailWrite ==
    ASSUME CallsInv, FileInv, WorkInv, mode = "up", Pending, NEW a \in Actors, WriteStep(a), ~Stuck'
    PROVE  Pending'
<1>1. /\ Threads \subseteq Actors /\ Flusher \notin Threads /\ (a \in Threads \/ a = Flusher)
      /\ pc \in [Actors -> Labels] /\ batch \in [Actors -> Seq(Line)] /\ buffer \in [Actors -> Seq(Byte)]
      /\ file \in Seq(Byte) /\ offset \in 0..Len(file)
  BY ActorsAreDistinct DEF Actors, CallsInv, TypeOK, FileInv, OffsetInFile
<1>2. ASSUME ~Commit(a) PROVE Waiting' = Waiting
  BY <1>2, WriteEffect DEF Quiet, CommitLine, CommitWaiting
<1>3. pc'[a] # "relock"
  BY DEF Stuck
<1>4. ASSUME pc[a] = "build" \/ pc[a] = "commit"
      PROVE  /\ \A t \in Threads \ {a} : ~Writing(t)
             /\ TailOf(batch[a]) /\ (a = Flusher => Waiting = batch[a])
  <2>1. \A t \in Threads \ {a} : ~Writing(t)
    BY <1>4, OneWrites DEF Holding
  <2>2. a = Flusher => Waiting = batch[a]
    BY <1>4, WaitingIsLines
  <2> QED
    BY <1>1, <1>4, <2>1, <2>2 DEF Pending, Writing
<1>5. CASE Acquire(a)
  <2>1. UNCHANGED <<file, offset, batch>> /\ ~Commit(a) /\ \A t \in Threads : Writing(t)' = Writing(t)
    BY <1>1, <1>5 DEF Acquire, Commit, Goto, shared, locals, Writing
  <2> QED
    BY <1>2, <2>1, PendingStays
<1>6. CASE CopyLine(a) \/ BufferNoMemory(a)
  <2>1. /\ UNCHANGED <<file, offset, batch>> /\ ~Commit(a) /\ pc[a] = "build"
        /\ pc'[a] \in {"build", "failed", "relock"} /\ \A t \in Actors \ {a} : pc'[t] = pc[t]
    BY <1>1, <1>6 DEF CopyLine, BufferNoMemory, Commit, Goto, FailWithLOG, shared, locals
  <2>2. \A t \in Threads : Writing(t)' = Writing(t)
    BY <1>1, <1>3, <2>1 DEF Writing
  <2> QED
    BY <1>2, <2>1, <2>2, PendingStays
<1>7. ASSUME NEW d \in Seq(Byte), Len(d) <= Len(buffer[a]), BufferReady(a),
             file' = Overwrite(file, offset, d), UNCHANGED <<offset, batch>>,
             pc'[a] \in {"commit", "failed"}, \A t \in Actors \ {a} : pc'[t] = pc[t]
      PROVE  Pending'
  <2>1. /\ pc[a] = "build" /\ ~Commit(a) /\ batch[a] \in Seq(Line)
        /\ buffer[a] = Flat(batch[a])
    <3>1. pc[a] = "build" /\ at[a] = Len(batch[a])
      BY <1>7 DEF BufferReady
    <3>2. buffer[a] = Flat(SubSeq(batch[a], 1, Len(batch[a]))) /\ batch[a] \in Seq(Line)
      BY <1>1, <3>1 DEF WorkInv, BufferIsBatch, BufferOf
    <3>3. ~Commit(a)
      BY <3>1 DEF Commit
    <3> QED
      BY <3>1, <3>2, <3>3, SubSeqFull
  <2>2. Len(file') = IF offset + Len(d) > Len(file) THEN offset + Len(d) ELSE Len(file)
    BY <1>1, <1>7, OverwriteLength
  <2>3. Len(file') <= offset + Len(Flat(batch[a]))
    <3>1. Len(file) <= offset + Len(Flat(batch[a]))
      BY <1>4, <2>1 DEF TailOf
    <3>2. Len(d) \in Nat /\ Len(file) \in Nat /\ offset \in Nat /\ Len(buffer[a]) \in Nat
      BY <1>1
    <3> QED
      BY <1>7, <2>1, <2>2, <3>1, <3>2
  <2>4. \A t \in Threads \ {a} : ~Writing(t)'
    BY <1>1, <1>4, <1>7, <2>1 DEF Writing
  <2>5. a \in Threads => Writing(a)'
    BY <1>7 DEF Writing
  <2>6. a = Flusher => Waiting' = batch[a]
    BY <1>2, <1>4, <2>1
  <2> QED
    BY <1>1, <1>7, <2>3, <2>4, <2>5, <2>6 DEF Pending, TailOf
<1>8. CASE WriteAll(a)
  <2>1. /\ BufferReady(a) /\ file' = Overwrite(file, offset, buffer[a]) /\ UNCHANGED <<offset, batch>>
        /\ pc'[a] = "commit" /\ \A t \in Actors \ {a} : pc'[t] = pc[t]
    BY <1>1, <1>8 DEF WriteAll, Goto, locals
  <2>2. buffer[a] \in Seq(Byte) /\ Len(buffer[a]) <= Len(buffer[a])
    BY <1>1
  <2> QED
    BY <1>7, <2>1, <2>2
<1>9. ASSUME NEW n \in 0..Len(buffer[a]), WriteError(a, n) \/ WriteShort(a, n) PROVE Pending'
  <2> DEFINE d == SubSeq(buffer[a], 1, n)
  <2>1. /\ BufferReady(a) /\ file' = Overwrite(file, offset, d) /\ UNCHANGED <<offset, batch>>
        /\ pc'[a] \in {"failed", "relock"} /\ \A t \in Actors \ {a} : pc'[t] = pc[t]
    BY <1>1, <1>9 DEF WriteError, WriteShort, Goto, FailWithLOG, locals
  <2>2. d \in Seq(Byte) /\ Len(d) <= Len(buffer[a])
    <3>1. buffer[a] \in Seq(Byte)
      BY <1>1
    <3> QED
      BY <3>1
  <2> HIDE DEF d
  <2> QED
    BY <1>3, <1>7, <2>1, <2>2
<1>10. CASE Commit(a)
  <2>1. /\ pc[a] = "commit" /\ offset' = offset + Len(buffer[a]) /\ file' = file
        /\ pc'[a] = "idle" /\ \A t \in Actors \ {a} : pc'[t] = pc[t]
    BY <1>1, <1>10 DEF Commit, Unlock, Goto
  <2>2. buffer[a] = Flat(batch[a])
    <3>1. buffer[a] = Flat(SubSeq(batch[a], 1, Len(batch[a]))) /\ batch[a] \in Seq(Line)
      BY <1>1, <2>1 DEF WorkInv, BufferIsBatch, BufferOf
    <3> QED
      BY <3>1, SubSeqFull
  <2>3. Len(file') <= offset'
    BY <1>4, <2>1, <2>2 DEF TailOf
  <2>4. Waiting' = <<>>
    BY <1>10, CommitEffect DEF CommitLine, CommitWaiting
  <2>5. Len(Flat(<<>>)) = 0
    BY FlatOfNone
  <2>6. \A t \in Threads : ~Writing(t)'
    BY <1>1, <1>4, <2>1 DEF Writing
  <2>7. Len(file') <= offset' + Len(Flat(Waiting'))
    <3>1. offset' \in Nat
      BY <1>1, <2>1
    <3> QED
      BY <2>3, <2>4, <2>5, <3>1
  <2> QED
    BY <2>6, <2>7 DEF Pending, TailOf
<1> QED
  BY <1>5, <1>6, <1>8, <1>9, <1>10 DEF WriteStep

LEMMA TailStep ==
    ASSUME CallsInv, FileInv, WorkInv, OrderInv, TraceInv, TailIsPending, Next
    PROVE  TailIsPending'
<1> SUFFICES ASSUME mode' = "up", ~Stuck', ~Lost' PROVE Pending'
  BY DEF TailIsPending
<1>1. ~Ended /\ ~Stuck /\ ~Lost
  BY StuckStays, LostStays DEF Ended
<1>2. CASE mode = "up"
  <2>1. Pending
    BY <1>1, <1>2 DEF TailIsPending
  <2>2. ~Lifecycle
    BY <1>1, <1>2, LifecycleEffect
  <2> QED
    BY <1>2, <2>1, <2>2, TailLog, TailFlush, TailWrite DEF Next
<1>3. CASE mode # "up"
  <2>1. \A a \in Actors : pc[a] = "idle"
    BY <1>3 DEF CallsInv, QuietWhenDown
  <2>2. mode' # mode
    BY <1>3
  <2>3. ProbeEnd
    <3>1. Lifecycle
      BY <2>2 DEF Next, LogStep, Log, LogDiscards, Collect, CollectNoMemory, LogGivesUp,
        LogGivesUpNoMemory, PrintLine, FlushStep, FlushTick, FlushNothing, Take, FlushRequeues,
        FlushRequeuesNoMemory, FlushGivesUp, WriteStep, Acquire, CopyLine, BufferNoMemory, WriteAll,
        WriteError, WriteShort, Commit, shared
    <3> QED
      BY <1>3, <3>1 DEF Lifecycle, Make, ProbeChunkRead, ProbeFails, Unload, Panic, Vanish
  <2>4. offset' = Len(file) /\ file' = file /\ pc' = pc
    BY <2>3, BoundsAreNatural
    DEF ProbeEnd, ProbeRead, FileInv, OffsetInFile, CallsInv, TypeOK
  <2>5. \A t \in Threads : ~Writing(t)'
    BY <2>1, <2>4 DEF Writing, Actors
  <2>6. Waiting' = Waiting /\ Waiting \in Seq(Line)
    BY <1>1, <2>3, LifecycleEffect, WaitingIsLines DEF Lifecycle, Quiet
  <2>7. Flat(Waiting) \in Seq(Byte) /\ file \in Seq(Byte)
    BY <2>6, FlatIsBytes DEF CallsInv, TypeOK
  <2>8. Len(file') <= offset' + Len(Flat(Waiting'))
    <3>1. Len(Flat(Waiting)) \in Nat /\ Len(file) \in Nat
      BY <2>7
    <3> QED
      BY <2>4, <2>6, <3>1
  <2> QED
    BY <2>5, <2>8 DEF Pending, TailOf
<1> QED
  BY <1>2, <1>3

-----------------------------------------------------------------------------
(* The theorems.                                                            *)

\* The inductive invariant holds in every reachable state.
THEOREM Invariant == Spec => []IInv
<1>1. Init => IInv
  BY CallsInit, FileInit DEF IInv
<1>2. IInv /\ [Next]_vars => IInv'
  BY CallsStep, FileStep DEF IInv, FileInv
<1> QED
  BY <1>1, <1>2, PTL DEF Spec

\* Every variable of the logger keeps its type.
THEOREM TypeCorrect == Spec => []TypeOK
<1>1. IInv => TypeOK
  BY DEF IInv, CallsInv
<1> QED
  BY <1>1, Invariant, PTL

\* Bytes the logger acknowledged, and those it found, stay where they are
\* whatever fails later, and the next write goes exactly behind them.
THEOREM AcknowledgedBytesStay == Spec => []SealedInPlace
<1>1. IInv => SealedInPlace
  BY DEF IInv, FileInv
<1> QED
  BY <1>1, Invariant, PTL

-----------------------------------------------------------------------------
(* The theorems about lines.                                                *)

\* IInv is about bytes and says nothing of the lines they belong to.
LinesIInv == IInv /\ WorkInv /\ OrderInv /\ TraceInv /\ WholeLines /\ TailIsPending

LEMMA LinesInit == Init => LinesIInv
<1> SUFFICES ASSUME Init PROVE LinesIInv
  OBVIOUS
<1>1. IInv /\ WorkInv
  BY CallsInit, FileInit, WorkInit DEF IInv
<1>2. acked = <<>> /\ done = {} /\ sealed = <<>> /\ base = <<>> /\ Waiting = <<>>
  <2>1. /\ queue = <<>> /\ pc[Flusher] = "idle" /\ batch[Flusher] = <<>> /\ at[Flusher] = 0
        /\ acked = <<>> /\ done = {} /\ sealed = <<>> /\ base = <<>>
    BY DEF Init, Actors
  <2>2. Taken = <<>>
    BY <2>1 DEF Taken
  <2> QED
    BY <2>1, <2>2 DEF Waiting
<1>3. AllLines = <<>> /\ ToSet(Waiting) = {}
  BY <1>2 DEF AllLines, ToSet
<1>4. OrderInv
  BY <1>2, <1>3, BoundsAreNatural DEF OrderInv, LinesAreOld, InOrder, AtMostMax
<1>5. TraceInv
  BY <1>2, <1>3 DEF TraceInv, WaitingIsSeen, DoneIsSeen
<1>6. WholeLines
  <2>1. sealed = base \o Flat(acked)
    BY <1>2, FlatOfNone
  <2> QED
    BY <2>1 DEF WholeLines, Flat, Texts
<1>7. TailIsPending
  BY DEF Init, TailIsPending
<1> QED
  BY <1>1, <1>4, <1>5, <1>6, <1>7 DEF LinesIInv

LEMMA LinesStep == LinesIInv /\ [Next]_vars => LinesIInv'
<1> SUFFICES ASSUME LinesIInv, [Next]_vars PROVE LinesIInv'
  OBVIOUS
<1>1. CASE Next
  <2>1. IInv' /\ WorkInv'
    BY CallsStep, FileStep, WorkStep DEF LinesIInv, IInv, FileInv
  <2> QED
    BY <1>1, <2>1, OrderStep, TraceStep, WholeLinesStep, TailStep DEF LinesIInv, IInv
<1>2. CASE UNCHANGED vars
  <2>1. IInv' /\ WorkInv'
    BY CallsStep, FileStep, WorkStep DEF LinesIInv, IInv, FileInv
  <2>2. Waiting' = Waiting /\ AllLines' = AllLines /\ Accepted' = Accepted /\ Returned' = Returned
    BY <1>2 DEF vars, Waiting, Taken, AllLines, Accepted, Returned
  <2>3. OrderInv'
    BY <1>2, <2>2 DEF vars, LinesIInv, OrderInv, LinesAreOld, InOrder, AtMostMax
  <2>4. TraceInv'
    BY <1>2, <2>2 DEF vars, LinesIInv, TraceInv, WaitingIsSeen, DoneIsSeen, AtPrint
  <2>5. WholeLines'
    BY <1>2 DEF vars, LinesIInv, WholeLines
  <2>6. TailIsPending'
    BY <1>2, <2>2 DEF vars, LinesIInv, TailIsPending, Stuck, Lost, GivenUp, Pending, Writing, TailOf
  <2> QED
    BY <2>1, <2>3, <2>4, <2>5, <2>6 DEF LinesIInv
<1> QED
  BY <1>1, <1>2

\* The inductive invariant of the lines holds in every reachable state.
THEOREM LinesInvariant == Spec => []LinesIInv
BY LinesInit, LinesStep, PTL DEF Spec

\* What was acknowledged is whole lines: no retry tears one, and no two are
\* mixed.
THEOREM OnlyWholeLines == Spec => []WholeLines
<1>1. LinesIInv => WholeLines
  BY DEF LinesIInv
<1> QED
  BY <1>1, LinesInvariant, PTL

\* The lines of a thread are in the file, and wait for it, in the order of its
\* calls.
THEOREM ThreadsStayInOrder == Spec => []PerThreadOrder
<1>1. LinesIInv => PerThreadOrder
  BY DEF LinesIInv, OrderInv, InOrder, AllLines, PerThreadOrder
<1> QED
  BY <1>1, LinesInvariant, PTL

\* A log() that returned left its line in the file or on the console.
THEOREM LinesLeaveATrace == Spec => []NoLineWithoutTrace
<1>1. LinesIInv => NoLineWithoutTrace
  BY DEF LinesIInv, TraceInv, WaitingIsSeen, DoneIsSeen, AtPrint, NoLineWithoutTrace
<1> QED
  BY <1>1, LinesInvariant, PTL

\* Bytes behind the offset belong to lines that wait or were given up.
THEOREM TornTailsAreExplained == Spec => []TornTailIsExplained
<1>1. LinesIInv => TornTailIsExplained
  <2> SUFFICES ASSUME LinesIInv, mode = "up", \A a \in Actors : pc[a] = "idle", Len(file) > offset,
                      Waiting = <<>>, \A l \in done : l \in ToSet(acked)
               PROVE  FALSE
    BY DEF TornTailIsExplained
  <2>1. Threads \subseteq Actors /\ file \in Seq(Byte) /\ offset \in Nat /\ acked \in Seq(Line)
    BY DEF Actors, LinesIInv, IInv, CallsInv, TypeOK
  <2>2. AllLines = acked
    BY <2>1 DEF AllLines
  <2>3. ~Lost
    BY <2>1, <2>2 DEF Lost, GivenUp
  <2>4. ~Stuck
    BY DEF Stuck
  <2>5. TailOf(<<>>)
    BY <2>1, <2>3, <2>4 DEF LinesIInv, TailIsPending, Pending, Writing
  <2>6. Len(Flat(<<>>)) = 0
    BY FlatOfNone
  <2> QED
    BY <2>1, <2>5, <2>6 DEF TailOf
<1> QED
  BY <1>1, LinesInvariant, PTL

\* While memory lasts no waiting line is lost: not by a failed flush, and not
\* by the limit.
THEOREM NothingWaitingIsLost == Spec => WaitingIsKept
<1> DEFINE Kept == mode' # "down" /\ "nomem" \notin Faults =>
                       \A l \in ToSet(Waiting) : l \in ToSet(Waiting') \/ l \in ToSet(acked')
<1>1. LinesIInv /\ [Next]_vars => [Kept]_vars
  <2> SUFFICES ASSUME LinesIInv, Next, mode' # "down", "nomem" \notin Faults, NEW l \in ToSet(Waiting)
               PROVE  l \in ToSet(Waiting') \/ l \in ToSet(acked')
    OBVIOUS
  <2>1. CallsInv /\ WorkInv /\ AtMostMax
    BY DEF LinesIInv, IInv, OrderInv
  <2>2. acked \in Seq(Line) /\ Waiting \in Seq(Line)
    BY <2>1, WaitingIsLines
  <2>3. CASE Waiting' = Waiting
    BY <2>3
  <2>4. ASSUME NEW t \in Threads, KeepLine(t) PROVE l \in ToSet(Waiting')
    <3>1. pc[t] = "failed" /\ Waiting' = Append(Waiting, cur[t])
      BY <2>4 DEF KeepLine, LogGivesUp
    <3>2. cur[t] \in Line
      BY <2>1, <3>1 DEF CallsInv, CallHasLine
    <3> QED
      BY <2>2, <3>1, <3>2, LinesOf
  <2>5. ASSUME NEW t \in Threads, CommitLine(t) PROVE l \in ToSet(acked')
    <3>1. pc[t] = "commit" /\ acked' = acked \o Append(Waiting, cur[t])
      BY <2>5 DEF CommitLine, Commit
    <3>2. cur[t] \in Line
      BY <2>1, <3>1 DEF CallsInv, CallHasLine
    <3>3. Append(Waiting, cur[t]) \in Seq(Line) /\ l \in ToSet(Append(Waiting, cur[t]))
      BY <2>2, <3>2, LinesOf
    <3> QED
      BY <2>2, <3>1, <3>3, ConcatLines
  <2>6. ASSUME CommitWaiting PROVE l \in ToSet(acked')
    BY <2>2, <2>6, ConcatLines DEF CommitWaiting
  <2>7. ~LoseLine
    BY DEF LoseLine, FlushRequeuesNoMemory, EnqueueNoMemory
  <2>8. ~Ended
    BY DEF Ended
  <2>9. CASE Quiet
    BY <2>3, <2>9 DEF Quiet
  <2>10. CASE \E a \in Actors : WriteStep(a)
    BY <2>1, <2>5, <2>6, <2>9, <2>10, WriteEffect DEF CommitLine
  <2>11. CASE \E t \in Threads : LogStep(t)
    BY <2>1, <2>3, <2>4, <2>9, <2>11, LogEffect
  <2> QED
    BY <2>1, <2>7, <2>8, <2>9, <2>10, <2>11, LifecycleEffect, FlushEffect DEF Next
<1>2. Spec => [][Kept]_vars
  BY <1>1, LinesInvariant, PTL DEF Spec
<1> QED
  BY <1>2 DEF WaitingIsKept

\* The line a thread is logging is nowhere yet.
LEMMA LineIsNew ==
    ASSUME LinesIInv, NEW t \in Threads, pc[t] \notin {"idle", "print"}
    PROVE  cur[t] \in Line /\ Promise!IsNew(cur[t])
<1>1. acked \in Seq(Line) /\ Waiting \in Seq(Line) /\ AllLines = acked \o Waiting
  BY WaitingIsLines DEF LinesIInv, IInv, AllLines
<1>2. /\ Len(AllLines) = Len(acked) + Len(Waiting) /\ Len(acked) \in Nat /\ Len(Waiting) \in Nat
      /\ \A i \in 1..Len(acked) : AllLines[i] = acked[i]
      /\ \A i \in 1..Len(Waiting) : AllLines[Len(acked) + i] = Waiting[i]
  <2> HIDE DEF Waiting
  <2> QED
    BY <1>1, ConcatProperties
<1>3. cur[t] \in Line /\ cur[t].by = t /\ cur[t].seq = calls[t] /\ calls[t] \in Int
  <2>1. cur[t] \in Line /\ cur[t].by = t /\ cur[t].seq = calls[t]
    BY DEF LinesIInv, IInv, CallsInv, CallHasLine, WorkInv, CurIsCall
  <2>2. calls[t] \in 0..MaxLines /\ MaxLines \in Nat
    BY BoundsAreNatural DEF LinesIInv, IInv, CallsInv, TypeOK
  <2> QED
    BY <2>1, <2>2
<1>4. \A i \in 1..Len(AllLines) : AllLines[i] # cur[t]
  <2> SUFFICES ASSUME NEW i \in 1..Len(AllLines), AllLines[i] = cur[t] PROVE FALSE
    OBVIOUS
  <2>1. AllLines[i].seq <= Accepted[AllLines[i].by]
    BY DEF LinesIInv, OrderInv, LinesAreOld
  <2>2. Accepted[t] = calls[t] - 1
    BY DEF Accepted
  <2> QED
    BY <1>3, <2>1, <2>2
<1>5. ~Promise!Occurs(cur[t], acked)
  <2>1. \A i \in 1..Len(acked) : i \in 1..Len(AllLines)
    BY <1>2
  <2> QED
    BY <1>2, <1>4, <2>1 DEF Promise!Occurs
<1>6. ~Promise!Occurs(cur[t], Waiting)
  <2>1. \A i \in 1..Len(Waiting) : Len(acked) + i \in 1..Len(AllLines)
    BY <1>2
  <2> QED
    BY <1>2, <1>4, <2>1 DEF Promise!Occurs
<1> QED
  BY <1>3, <1>5, <1>6 DEF Promise!IsNew

\* The logger implements LogPromise: whatever its threads, its lock and the
\* file do, its lines only wait, get written in order, and are forgotten for
\* want of memory.
THEOREM LoggerKeepsPromise == Spec => KeepsPromise
<1>1. Init => Promise!Init
  <2> SUFFICES ASSUME Init PROVE Promise!Init
    OBVIOUS
  <2>1. /\ queue = <<>> /\ pc[Flusher] = "idle" /\ batch[Flusher] = <<>> /\ at[Flusher] = 0
        /\ acked = <<>>
    BY DEF Init, Actors
  <2>2. Taken = <<>>
    BY <2>1 DEF Taken
  <2> QED
    BY <2>1, <2>2 DEF Waiting, Promise!Init
<1>2. LinesIInv /\ [Next]_vars => [Promise!Next]_(Promise!vars)
  <2> SUFFICES ASSUME LinesIInv, [Next]_vars PROVE Promise!Next \/ UNCHANGED Promise!vars
    OBVIOUS
  <2>1. CallsInv /\ WorkInv /\ AtMostMax
    BY DEF LinesIInv, IInv, OrderInv
  <2>2. ASSUME acked' = acked, Waiting' = Waiting PROVE UNCHANGED Promise!vars
    BY <2>2 DEF Promise!vars
  <2>3. ASSUME UNCHANGED vars PROVE UNCHANGED Promise!vars
    BY <2>2, <2>3 DEF vars, Waiting, Taken
  <2>4. ASSUME Quiet PROVE UNCHANGED Promise!vars
    BY <2>2, <2>4 DEF Quiet
  <2>5. ASSUME Ended PROVE Promise!Next
    BY <2>5 DEF Ended, Promise!Next, Promise!Restart
  <2>6. ASSUME NEW t \in Threads, KeepLine(t) PROVE Promise!Next
    <3>1. pc[t] = "failed"
      BY <2>6 DEF KeepLine, LogGivesUp
    <3>2. Promise!Keep(cur[t]) /\ cur[t] \in Line
      BY <2>6, <3>1, LineIsNew DEF KeepLine, Promise!Keep
    <3> QED
      BY <3>2 DEF Promise!Next
  <2>7. ASSUME NEW t \in Threads, CommitLine(t) PROVE Promise!Next
    <3>1. pc[t] = "commit"
      BY <2>7 DEF CommitLine, Commit
    <3>2. Promise!WriteLine(cur[t]) /\ cur[t] \in Line
      BY <2>7, <3>1, LineIsNew DEF CommitLine, Promise!WriteLine
    <3> QED
      BY <3>2 DEF Promise!Next
  <2>8. ASSUME CommitWaiting PROVE Promise!Next
    BY <2>8 DEF CommitWaiting, Promise!Next, Promise!WriteWaiting
  <2>9. ASSUME LoseLine PROVE Promise!Next
    <3>1. "nomem" \in Faults /\ Promise!Forget(Len(queue) + 1) /\ Len(queue) + 1 \in 1..Len(Waiting)
      BY <2>9 DEF LoseLine, FlushRequeuesNoMemory, EnqueueNoMemory, Promise!Forget, Without
    <3> QED
      BY <3>1 DEF Promise!Next
  <2>10. CASE \E t \in Threads : LogStep(t)
    BY <2>1, <2>2, <2>4, <2>6, <2>10, LogEffect
  <2>11. CASE \E a \in Actors : WriteStep(a)
    BY <2>1, <2>4, <2>7, <2>8, <2>11, WriteEffect DEF CommitLine
  <2>12. CASE Lifecycle \/ FlushStep
    BY <2>1, <2>4, <2>5, <2>9, <2>12, LifecycleEffect, FlushEffect
  <2> QED
    BY <2>3, <2>10, <2>11, <2>12 DEF Next
<1>3. Spec => Promise!Spec
  BY <1>1, <1>2, LinesInvariant, PTL DEF Spec, Promise!Spec
<1> QED
  BY <1>3 DEF KeepsPromise
=============================================================================
