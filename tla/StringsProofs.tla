---------------------------- MODULE StringsProofs ----------------------------
(***************************************************************************)
(* Theorems about Strings: the counters count, Strings are independent     *)
(* texts, and what they answer depends on what they read only.             *)
(***************************************************************************)
EXTENDS Strings, FiniteSetTheorems, SequenceTheorems, WellFoundedInduction, TLAPS

\* The calls a thread may be in.
LettingGo == {"delete", "copy", "take", "drop", "install"}
ResetPcs == LettingGo \cup {"release"}
ResetCalls == [pc : ResetPcs, next : {"copy", "take", "drop", "install"},
               n : Names, m : Names, b : Blocks \cup {NoBlock}]
WriteCalls == [pc : {"write"}, n : Names, sure : BOOLEAN]
DetachCalls == [pc : {"detach"}, n : Names]
JoinCalls == [pc : {"join", "second"}, n : Names, m : Names, into : Names,
              size : 0..MaxCapacity, first : Seq(Chars \cup {Nul})]
Calls == {Idle, Astray} \cup ResetCalls \cup WriteCalls \cup DetachCalls \cup JoinCalls

\* A buffer is a sequence that ends with a Nul and is not too long.
Bytes == Chars \cup {Nul}
IsBuffer(s) == /\ s \in Seq(Bytes) /\ Len(s) \in 1..MaxCapacity + 1
               /\ s[Len(s)] = Nul

Types ==
    /\ owner \in [Names -> Threads]
    /\ data \in [Names -> Blocks \cup {NoBlock}]
    /\ block \in [Blocks -> [count : Nat, chars : Seq(Bytes)]]
    /\ \A b \in Blocks : block[b] = NoData \/ IsBuffer(block[b].chars)
    /\ call \in [Threads -> Calls]
    /\ unsure \in BOOLEAN

\* What a call is about belongs to its thread, and is there to be worked on.
CallIsOwn(t) ==
    LET c == call[t]
    IN  /\ c.pc \in ResetPcs =>
            /\ owner[c.n] = t /\ owner[c.m] = t
            /\ c.next \in {"copy", "take"} => c.n # c.m
            /\ c.next = "copy" => data[c.m] # NoBlock
            /\ c.next # "install" => c.b = NoBlock
            /\ c.next = "install" => c.b # NoBlock
            /\ c.pc \in {"release", "delete"} => data[c.n] # NoBlock
            /\ c.pc \notin {"release", "delete"} => c.next = c.pc
        /\ c.pc \in {"write", "detach"} => owner[c.n] = t /\ data[c.n] # NoBlock
        /\ c.pc \in {"join", "second"} =>
            /\ owner[c.n] = t /\ owner[c.m] = t /\ owner[c.into] = t
            /\ data[c.n] # NoBlock /\ data[c.m] # NoBlock /\ data[c.into] = NoBlock

CallsAreOwn == \A t \in Threads : CallIsOwn(t)

\* The Strings that refer to b, and the copies of c_str() that are b.
NameRefs(b) == {n \in Names : data[n] = b /\ ~LetGo(n)}
CallRefs(b) == {t \in Threads : /\ call[t].pc \in {"release", "delete", "install"}
                                /\ call[t].b = b}

Counted == \A b \in Blocks : block[b].count = Cardinality(NameRefs(b)) + Cardinality(CallRefs(b))

\* Whoever is about to delete a block is alone with it.
Deletes(t, b) == call[t].pc = "delete" /\ data[call[t].n] = b
DeletersAlone ==
    \A b \in Blocks, t \in Threads : Deletes(t, b) =>
        /\ block[b] # NoData /\ block[b].count = 0
        /\ \A u \in Threads : Deletes(u, b) => u = t
DeadAreDeleted ==
    \A b \in Blocks : block[b] # NoData /\ block[b].count = 0 =>
        \E t \in Threads : Deletes(t, b)

\* A thread that knows its String to be unique is right, and so is its copy.
SureIsUnique ==
    \A t \in Threads :
        /\ call[t].pc = "write" /\ call[t].sure => block[data[call[t].n]].count = 1
        /\ call[t].pc \in ResetPcs /\ call[t].next = "install" => block[call[t].b].count = 1

IInv == /\ Types /\ CallsAreOwn /\ Counted /\ DeletersAlone /\ DeadAreDeleted /\ SureIsUnique

-----------------------------------------------------------------------------
(* Calls.                                                                   *)

\* Which record a call is, by its label.
LEMMA CallKinds ==
    ASSUME Types, NEW t \in Threads
    PROVE  /\ call[t] \in Calls
           /\ call[t].pc = "idle" <=> call[t] = Idle
           /\ call[t].pc \in ResetPcs => call[t] \in ResetCalls
           /\ call[t].pc = "write" => call[t] \in WriteCalls
           /\ call[t].pc = "detach" => call[t] \in DetachCalls
           /\ call[t].pc \in {"join", "second"} => call[t] \in JoinCalls
<1>1. call[t] \in Calls
  BY DEF Types
<1>2. Idle.pc = "idle" /\ Astray.pc = "astray"
  BY DEF Idle, Astray
<1>3. \A c \in ResetCalls : c.pc \in ResetPcs
  BY DEF ResetCalls
<1>4. \A c \in WriteCalls : c.pc = "write"
  BY DEF WriteCalls
<1>5. \A c \in DetachCalls : c.pc = "detach"
  BY DEF DetachCalls
<1>6. \A c \in JoinCalls : c.pc \in {"join", "second"}
  BY DEF JoinCalls
<1> QED
  BY <1>1, <1>2, <1>3, <1>4, <1>5, <1>6 DEF Calls, ResetPcs, LettingGo

\* The fields of a call.
LEMMA CallFields ==
    ASSUME Types, NEW t \in Threads
    PROVE  /\ call[t].pc \in ResetPcs =>
               /\ call[t].next \in {"copy", "take", "drop", "install"}
               /\ call[t].n \in Names /\ call[t].m \in Names
               /\ call[t].b \in Blocks \cup {NoBlock}
           /\ call[t].pc = "write" => call[t].n \in Names /\ call[t].sure \in BOOLEAN
           /\ call[t].pc = "detach" => call[t].n \in Names
           /\ call[t].pc \in {"join", "second"} =>
               /\ call[t].n \in Names /\ call[t].m \in Names /\ call[t].into \in Names
               /\ call[t].size \in 0..MaxCapacity /\ call[t].first \in Seq(Bytes)
           /\ call[t].pc \in ResetPcs
                   \cup {"idle", "write", "detach", "join", "second", "astray"}
<1>1. \A c \in ResetCalls : /\ c.next \in {"copy", "take", "drop", "install"}
                            /\ c.n \in Names /\ c.m \in Names /\ c.b \in Blocks \cup {NoBlock}
                            /\ c.pc \in ResetPcs
  BY DEF ResetCalls
<1>2. \A c \in WriteCalls : c.n \in Names /\ c.sure \in BOOLEAN /\ c.pc = "write"
  BY DEF WriteCalls
<1>3. \A c \in DetachCalls : c.n \in Names /\ c.pc = "detach"
  BY DEF DetachCalls
<1>4. \A c \in JoinCalls : /\ c.n \in Names /\ c.m \in Names /\ c.into \in Names
                           /\ c.size \in 0..MaxCapacity /\ c.pc \in {"join", "second"}
                           /\ c.first \in Seq(Bytes)
  BY DEF JoinCalls, Bytes
<1>5. Idle.pc = "idle" /\ Astray.pc = "astray"
  BY DEF Idle, Astray
<1> QED
  BY <1>1, <1>2, <1>3, <1>4, <1>5, CallKinds DEF Calls

\* What the constructors of calls make.
LEMMA NewCalls ==
    /\ Idle \in Calls /\ Idle.pc = "idle" /\ Astray \in Calls /\ Astray.pc = "astray"
    /\ \A next \in {"copy", "take", "drop", "install"}, n \in Names, m \in Names,
          b \in Blocks \cup {NoBlock} :
          LET c == Resets(next, n, m, b)
          IN  /\ c \in Calls /\ c.pc = "release" /\ c.next = next
              /\ c.n = n /\ c.m = m /\ c.b = b
    /\ \A n \in Names, sure \in BOOLEAN :
          LET c == Writes(n, sure)
          IN  c \in Calls /\ c.pc = "write" /\ c.n = n /\ c.sure = sure
    /\ \A n \in Names : LET c == Detaches(n)
                        IN  c \in Calls /\ c.pc = "detach" /\ c.n = n
<1>1. Idle \in Calls /\ Idle.pc = "idle" /\ Astray \in Calls /\ Astray.pc = "astray"
  BY DEF Calls, Idle, Astray
<1>2. \A next \in {"copy", "take", "drop", "install"}, n \in Names, m \in Names,
          b \in Blocks \cup {NoBlock} :
          LET c == Resets(next, n, m, b)
          IN  /\ c \in ResetCalls /\ c.pc = "release" /\ c.next = next
              /\ c.n = n /\ c.m = m /\ c.b = b
  BY DEF Resets, ResetCalls, ResetPcs
<1>3. \A n \in Names, sure \in BOOLEAN :
          LET c == Writes(n, sure)
          IN  c \in WriteCalls /\ c.pc = "write" /\ c.n = n /\ c.sure = sure
  BY DEF Writes, WriteCalls
<1>4. \A n \in Names : LET c == Detaches(n)
                       IN  c \in DetachCalls /\ c.pc = "detach" /\ c.n = n
  BY DEF Detaches, DetachCalls
<1> QED
  BY <1>1, <1>2, <1>3, <1>4 DEF Calls

\* A call goes on with another label.
LEMMA GotoKeeps ==
    ASSUME Types, NEW t \in Threads, NEW l \in ResetPcs,
           call[t].pc \in ResetPcs, Goto(t, l)
    PROVE  /\ call' \in [Threads -> Calls]
           /\ call'[t].pc = l /\ call'[t].next = call[t].next /\ call'[t].n = call[t].n
           /\ call'[t].m = call[t].m /\ call'[t].b = call[t].b
           /\ \A u \in Threads : u # t => call'[u] = call[u]
<1> DEFINE d == [call[t] EXCEPT !.pc = l]
<1>1. call[t] \in ResetCalls /\ call \in [Threads -> Calls]
  BY CallKinds DEF Types
<1>2. /\ d \in ResetCalls /\ d.pc = l /\ d.next = call[t].next /\ d.n = call[t].n
      /\ d.m = call[t].m /\ d.b = call[t].b
  BY <1>1 DEF ResetCalls
<1>3. call' = [call EXCEPT ![t] = d]
  BY DEF Goto
<1> HIDE DEF d
<1> QED
  BY <1>1, <1>2, <1>3 DEF Calls

\* A call becomes another.
LEMMA GoesKeeps ==
    ASSUME Types, NEW t \in Threads, NEW c \in Calls, Goes(t, c)
    PROVE  /\ call' \in [Threads -> Calls] /\ call'[t] = c
           /\ \A u \in Threads : u # t => call'[u] = call[u]
BY DEF Types, Goes

-----------------------------------------------------------------------------
(* A step of one thread, as the others see it.                              *)

\* It changes its own call, and what its own Strings refer to.
OwnStep(t) == /\ UNCHANGED owner
              /\ \A u \in Threads : u # t => call'[u] = call[u]
              /\ \A n \in Names : owner[n] # t => data'[n] = data[n]

\* A String is let go of by its own thread.
LEMMA LetGoByOwner ==
    ASSUME Types, CallsAreOwn, NEW n \in Names
    PROVE  LetGo(n) <=> call[owner[n]].pc \in LettingGo /\ call[owner[n]].n = n
<1>1. owner[n] \in Threads
  BY DEF Types
<1>2. \A t \in Threads : call[t].pc \in LettingGo => owner[call[t].n] = t
  BY DEF CallsAreOwn, CallIsOwn, ResetPcs
<1> QED
  BY <1>1, <1>2 DEF LetGo, LettingGo

\* The calls of the other threads stay what they are, and work on the same.
LEMMA OthersKeep ==
    ASSUME Types, CallsAreOwn, NEW t \in Threads, OwnStep(t), CallIsOwn(t)'
    PROVE  CallsAreOwn'
<1> SUFFICES ASSUME NEW u \in Threads, u # t PROVE CallIsOwn(u)'
  BY DEF CallsAreOwn
<1>1. call'[u] = call[u] /\ owner' = owner /\ CallIsOwn(u)
  BY DEF OwnStep, CallsAreOwn
<1>2. \A n \in Names : owner[n] = u => data'[n] = data[n]
  BY DEF OwnStep
<1>3. CASE call[u].pc \in ResetPcs
  <2>1. /\ call[u].n \in Names /\ call[u].m \in Names /\ owner[call[u].n] = u /\ owner[call[u].m] = u
    BY <1>1, <1>3, CallFields DEF CallIsOwn
  <2>2. call[u].pc \notin {"write", "detach", "join", "second", "astray"}
    BY <1>3 DEF ResetPcs, LettingGo
  <2> QED
    BY <1>1, <1>2, <2>1, <2>2 DEF CallIsOwn
<1>4. CASE call[u].pc \in {"write", "detach"}
  <2>1. call[u].n \in Names /\ owner[call[u].n] = u
    BY <1>1, <1>4, CallFields DEF CallIsOwn
  <2>2. call[u].pc \notin ResetPcs \cup {"join", "second", "astray"}
    BY <1>4 DEF ResetPcs, LettingGo
  <2> QED
    BY <1>1, <1>2, <2>1, <2>2 DEF CallIsOwn
<1>5. CASE call[u].pc \in {"join", "second"}
  <2>1. /\ call[u].n \in Names /\ call[u].m \in Names /\ call[u].into \in Names
        /\ owner[call[u].n] = u /\ owner[call[u].m] = u /\ owner[call[u].into] = u
    BY <1>1, <1>5, CallFields DEF CallIsOwn
  <2>2. call[u].pc \notin ResetPcs \cup {"write", "detach"}
    BY <1>5 DEF ResetPcs, LettingGo
  <2> QED
    BY <1>1, <1>2, <2>1, <2>2 DEF CallIsOwn
<1> QED
  BY <1>1, <1>3, <1>4, <1>5 DEF CallIsOwn

\* What the others let go of, delete and copy is what it was.
LEMMA Frame ==
    ASSUME Types, CallsAreOwn, NEW t \in Threads, OwnStep(t), CallIsOwn(t)'
    PROVE  /\ \A n \in Names : owner[n] # t => (LetGo(n)' <=> LetGo(n))
           /\ \A n \in Names : owner[n] = t =>
                 /\ LetGo(n) <=> call[t].pc \in LettingGo /\ call[t].n = n
                 /\ LetGo(n)' <=> call'[t].pc \in LettingGo /\ call'[t].n = n
           /\ \A u \in Threads, b \in Blocks : u # t =>
                 /\ Deletes(u, b)' <=> Deletes(u, b)
                 /\ u \in CallRefs(b)' <=> u \in CallRefs(b)
<1>1. \A u \in Threads : call[u].pc \in LettingGo => owner[call[u].n] = u /\ call[u].n \in Names
  BY CallFields DEF CallsAreOwn, CallIsOwn, ResetPcs
<1>2. call'[t].pc \in LettingGo => owner[call'[t].n] = t
  BY DEF CallIsOwn, ResetPcs, OwnStep
<1>3. \A u \in Threads : u # t => call'[u] = call[u]
  BY DEF OwnStep
<1>4. \A n \in Names : owner[n] # t => (LetGo(n)' <=> LetGo(n))
  BY <1>1, <1>2, <1>3 DEF LetGo, LettingGo
<1>5. \A n \in Names : owner[n] = t =>
                 /\ LetGo(n) <=> call[t].pc \in LettingGo /\ call[t].n = n
                 /\ LetGo(n)' <=> call'[t].pc \in LettingGo /\ call'[t].n = n
  BY <1>1, <1>2, <1>3 DEF LetGo, LettingGo
<1>6. \A u \in Threads, b \in Blocks : u # t => (Deletes(u, b)' <=> Deletes(u, b))
  BY <1>1, <1>3 DEF Deletes, LettingGo, OwnStep
<1>7. \A u \in Threads, b \in Blocks : u # t => (u \in CallRefs(b)' <=> u \in CallRefs(b))
  BY <1>3 DEF CallRefs
<1> QED
  BY <1>4, <1>5, <1>6, <1>7

-----------------------------------------------------------------------------
(* Counting.                                                                *)

\* Subsets of a finite set that differ in one element.
LEMMA CountOneMore ==
    ASSUME NEW U, IsFiniteSet(U), NEW S \in SUBSET U, NEW T \in SUBSET U, NEW x \in U,
           x \notin S, x \in T, \A y \in U : y # x => (y \in T <=> y \in S)
    PROVE  Cardinality(T) = Cardinality(S) + 1 /\ Cardinality(S) \in Nat
<1>1. T = S \cup {x}
  OBVIOUS
<1>2. IsFiniteSet(S)
  BY FS_Subset
<1> QED
  BY <1>1, <1>2, FS_AddElement, FS_CardinalityType

\* Two elements.
LEMMA CountSwapped ==
    ASSUME NEW U, IsFiniteSet(U), NEW S \in SUBSET U, NEW T \in SUBSET U,
           NEW x \in U, NEW z \in U, x \in S, x \notin T, z \notin S, z \in T,
           \A y \in U : y \notin {x, z} => (y \in T <=> y \in S)
    PROVE  Cardinality(T) = Cardinality(S)
<1> DEFINE R == S \ {x}
<1>1. R \in SUBSET U /\ x \notin R /\ z \notin R
  OBVIOUS
<1>2. Cardinality(S) = Cardinality(R) + 1
  <2>1. \A y \in U : y # x => (y \in S <=> y \in R)
    OBVIOUS
  <2> QED
    BY <1>1, <2>1, CountOneMore
<1>3. Cardinality(T) = Cardinality(R) + 1
  <2>1. \A y \in U : y # z => (y \in T <=> y \in R)
    OBVIOUS
  <2> HIDE DEF R
  <2> QED
    BY <1>1, <2>1, CountOneMore
<1> QED
  BY <1>2, <1>3

\* There are finitely many references, before and after a step.
LEMMA RefsAreSubsets ==
    \A b \in Blocks : /\ NameRefs(b) \in SUBSET Names /\ CallRefs(b) \in SUBSET Threads
                      /\ NameRefs(b)' \in SUBSET Names /\ CallRefs(b)' \in SUBSET Threads
BY DEF NameRefs, CallRefs

\* Their numbers are numbers.
LEMMA RefsAreCounted ==
    ASSUME NEW b \in Blocks
    PROVE  /\ IsFiniteSet(NameRefs(b)) /\ IsFiniteSet(CallRefs(b))
           /\ Cardinality(NameRefs(b)) \in Nat /\ Cardinality(CallRefs(b)) \in Nat
<1>1. IsFiniteSet(NameRefs(b)) /\ IsFiniteSet(CallRefs(b))
  BY RefsAreSubsets, FS_Subset, FinitelyMany
<1> QED
  BY <1>1, FS_CardinalityType

\* What is referred to is counted, and there.
LEMMA Referenced ==
    ASSUME Types, Counted, NEW b \in Blocks, NameRefs(b) # {} \/ CallRefs(b) # {}
    PROVE  block[b].count >= 1 /\ block[b] # NoData
<1>1. Cardinality(NameRefs(b)) # 0 \/ Cardinality(CallRefs(b)) # 0
  BY RefsAreCounted, FS_EmptySet
<1>2. block[b].count >= 1
  BY <1>1, RefsAreCounted DEF Counted
<1> QED
  BY <1>2 DEF NoData

\* A block used once has one reference.
LEMMA OnceIsOne ==
    ASSUME Types, Counted, NEW b \in Blocks, block[b].count = 1
    PROVE  /\ \A n \in NameRefs(b) : NameRefs(b) = {n} /\ CallRefs(b) = {}
           /\ \A t \in CallRefs(b) : NameRefs(b) = {} /\ CallRefs(b) = {t}
<1> DEFINE S == NameRefs(b)
           T == CallRefs(b)
<1>1. /\ IsFiniteSet(S) /\ IsFiniteSet(T) /\ Cardinality(S) \in Nat /\ Cardinality(T) \in Nat
      /\ Cardinality(S) + Cardinality(T) = 1
  BY RefsAreCounted DEF Counted
<1> HIDE DEF S, T
<1>2. (Cardinality(S) = 0 /\ Cardinality(T) = 1) \/ (Cardinality(S) = 1 /\ Cardinality(T) = 0)
  BY <1>1
<1>3. (S = {} /\ \E x : T = {x}) \/ (T = {} /\ \E x : S = {x})
  BY <1>1, <1>2, FS_EmptySet, FS_Singleton
<1> QED
  BY <1>3 DEF S, T

-----------------------------------------------------------------------------
(* Buffers.                                                                 *)

Less == {s \in Nat \X Nat : s[1] < s[2]}

\* A nonempty set of numbers has a least element, which Min is.
LEMMA MinIsLeast ==
    ASSUME NEW S \in SUBSET Nat, S # {}
    PROVE  Min(S) \in S /\ \A e \in S : Min(S) <= e
<1>1. OpToRel(<, Nat) = Less
  BY DEF OpToRel, Less
<1>2. IsWellFoundedOn(Less, Nat)
  BY <1>1, NatLessThanWellFounded
<1>3. PICK x \in S : \A y \in S : <<y, x>> \notin Less
  BY <1>2, WFMin
<1>4. ASSUME NEW y \in S PROVE x <= y
  <2>1. <<y, x>> \in Nat \X Nat
    OBVIOUS
  <2>2. ~(y < x)
    BY <1>3, <2>1 DEF Less
  <2> QED
    BY <2>2
<1> QED
  BY <1>4 DEF Min

\* strlen() of a buffer is the place of its first Nul.
LEMMA LengthOfBuffer ==
    ASSUME NEW s, IsBuffer(s)
    PROVE  /\ Length(s) \in 0..Len(s) - 1 /\ s[Length(s) + 1] = Nul
           /\ \A i \in 1..Length(s) : s[i] # Nul
<1> DEFINE I == {i \in 1..Len(s) : s[i] = Nul}
<1>1. Len(s) \in Nat /\ Len(s) \in I
  BY DEF IsBuffer
<1>2. Length(s) = (IF I # {} THEN Min(I) ELSE 0) - 1
  BY DEF Length, SelectInSeq
<1>3. I \in SUBSET Nat
  OBVIOUS
<1>4. Min(I) \in I /\ \A e \in I : Min(I) <= e
  <2> HIDE DEF I
  <2> QED
    BY <1>1, <1>3, MinIsLeast
<1>5. Length(s) = Min(I) - 1
  BY <1>1, <1>2
<1>6. Length(s) \in Nat /\ Length(s) + 1 = Min(I)
  BY <1>3, <1>4, <1>5
<1>7. ASSUME NEW i \in 1..Length(s) PROVE s[i] # Nul
  <2>1. i \in 1..Len(s) /\ ~(Min(I) <= i)
    BY <1>1, <1>4, <1>6
  <2> QED
    BY <2>1, <1>4
<1> QED
  BY <1>1, <1>4, <1>6, <1>7

\* The text of a buffer.
LEMMA TextOfBuffer ==
    ASSUME NEW s, IsBuffer(s)
    PROVE  /\ Text(s) \in Seq(Bytes) /\ Len(Text(s)) = Length(s) /\ Length(s) \in 0..Len(s) - 1
           /\ \A i \in 1..Length(s) : Text(s)[i] = s[i] /\ s[i] # Nul
<1>1. /\ s \in Seq(Bytes) /\ Len(s) \in Nat /\ Length(s) \in 0..Len(s) - 1
      /\ \A i \in 1..Length(s) : s[i] # Nul
  BY LengthOfBuffer DEF IsBuffer
<1> DEFINE k == Length(s)
<1>2. k \in Nat /\ k <= Len(s)
  BY <1>1
<1> HIDE DEF k
<1>3. /\ SubSeq(s, 1, k) \in Seq(Bytes) /\ Len(SubSeq(s, 1, k)) = k
      /\ \A i \in 1..k : SubSeq(s, 1, k)[i] = s[i]
  BY <1>1, <1>2
<1> QED
  BY <1>1, <1>3 DEF Text, k

\* The buffers that make() fills are buffers.
LEMMA BuffersAreBuffers ==
    ASSUME NEW k \in 0..MaxCapacity, NEW s \in Buffers(k)
    PROVE  IsBuffer(s) /\ Len(s) = k + 1
<1>1. PICK r \in [1..k -> Bytes] : s = Append(r, Nul)
  BY DEF Buffers, Bytes
<1>2. r \in Seq(Bytes) /\ Len(r) = k
  BY CapacityIsNatural
<1>3. Nul \in Bytes
  BY DEF Bytes
<1>4. s \in Seq(Bytes) /\ Len(s) = k + 1 /\ s[k + 1] = Nul
  BY <1>1, <1>2, <1>3
<1> QED
  BY <1>4, CapacityIsNatural DEF IsBuffer

\* A char written before the last Nul leaves a buffer.
LEMMA WriteKeepsBuffer ==
    ASSUME NEW s, IsBuffer(s), NEW i \in 1..Capacity(s), NEW c \in Bytes
    PROVE  IsBuffer([s EXCEPT ![i] = c]) /\ Len([s EXCEPT ![i] = c]) = Len(s)
BY DEF IsBuffer, Capacity

-----------------------------------------------------------------------------
(* What the operations do to the blocks.                                    *)

BlockTypes == /\ block \in [Blocks -> [count : Nat, chars : Seq(Bytes)]]
              /\ \A b \in Blocks : block[b] = NoData \/ IsBuffer(block[b].chars)

\* One block is given the record e.
BlockBecomes(b, e) ==
    /\ BlockTypes' /\ block'[b] = e
    /\ \A a \in Blocks : a # b => block'[a] = block[a]

\* A buffer is not what a free block has.
LEMMA BufferIsData ==
    ASSUME NEW e, IsBuffer(e.chars)
    PROVE  e # NoData
BY DEF IsBuffer, NoData

\* The record that one block is given leaves the blocks well typed.
LEMMA BlockChanges ==
    ASSUME BlockTypes, NEW b \in Blocks, NEW e \in [count : Nat, chars : Seq(Bytes)],
           e = NoData \/ IsBuffer(e.chars),
           block' = [block EXCEPT ![b] = e]
    PROVE  BlockBecomes(b, e)
BY DEF BlockTypes, BlockBecomes

\* The counter of a block that is there is set.
LEMMA CountChanges ==
    ASSUME BlockTypes, NEW b \in Blocks, block[b] # NoData, NEW k \in Nat,
           block' = [block EXCEPT ![b].count = k]
    PROVE  /\ BlockTypes' /\ block'[b].count = k /\ block'[b].chars = block[b].chars
           /\ block'[b] # NoData
           /\ \A a \in Blocks : a # b => block'[a] = block[a]
<1> DEFINE e == [block[b] EXCEPT !.count = k]
<1>1. block[b] \in [count : Nat, chars : Seq(Bytes)] /\ IsBuffer(block[b].chars)
  BY DEF BlockTypes
<1>2. e \in [count : Nat, chars : Seq(Bytes)] /\ e.count = k /\ e.chars = block[b].chars
  BY <1>1
<1>3. block' = [block EXCEPT ![b] = e]
  OBVIOUS
<1> HIDE DEF e
<1>4. BlockBecomes(b, e)
  BY <1>1, <1>2, <1>3, BlockChanges
<1>5. e # NoData
  BY <1>1, <1>2, BufferIsData
<1> QED
  BY <1>2, <1>4, <1>5 DEF BlockBecomes

\* A new block is filled, with its counter at one.
LEMMA BlockIsMade ==
    ASSUME BlockTypes, NEW b \in Blocks, NEW s, IsBuffer(s),
           block' = [block EXCEPT ![b] = [count |-> 1, chars |-> s]]
    PROVE  /\ BlockTypes' /\ block'[b].count = 1 /\ block'[b].chars = s /\ block'[b] # NoData
           /\ \A a \in Blocks : a # b => block'[a] = block[a]
<1> DEFINE e == [count |-> 1, chars |-> s]
<1>1. e \in [count : Nat, chars : Seq(Bytes)] /\ e.count = 1 /\ e.chars = s
  BY DEF IsBuffer
<1> HIDE DEF e
<1>2. block' = [block EXCEPT ![b] = e]
  BY DEF e
<1>3. BlockBecomes(b, e)
  BY <1>1, <1>2, BlockChanges
<1>4. e # NoData
  BY <1>1, BufferIsData
<1> QED
  BY <1>1, <1>3, <1>4 DEF BlockBecomes

\* A block is freed.
LEMMA BlockIsFreed ==
    ASSUME BlockTypes, NEW b \in Blocks, block' = [block EXCEPT ![b] = NoData]
    PROVE  /\ BlockTypes' /\ block'[b] = NoData
           /\ \A a \in Blocks : a # b => block'[a] = block[a]
<1>1. NoData \in [count : Nat, chars : Seq(Bytes)]
  BY DEF NoData
<1>2. BlockBecomes(b, NoData)
  BY <1>1, BlockChanges
<1> QED
  BY <1>2 DEF BlockBecomes

\* A char is written.
LEMMA BlockIsWritten ==
    ASSUME BlockTypes, NEW b \in Blocks, block[b] # NoData,
           NEW i \in 1..Capacity(block[b].chars), NEW c \in Bytes,
           block' = [block EXCEPT ![b].chars[i] = c]
    PROVE  /\ BlockTypes' /\ block'[b].count = block[b].count /\ block'[b] # NoData
           /\ block'[b].chars = [block[b].chars EXCEPT ![i] = c]
           /\ \A a \in Blocks : a # b => block'[a] = block[a]
<1> DEFINE s == [block[b].chars EXCEPT ![i] = c]
           e == [block[b] EXCEPT !.chars = s]
<1>1. block[b] \in [count : Nat, chars : Seq(Bytes)] /\ IsBuffer(block[b].chars)
  BY DEF BlockTypes
<1>2. IsBuffer(s)
  BY <1>1, WriteKeepsBuffer
<1>3. block' = [block EXCEPT ![b] = e]
  OBVIOUS
<1> HIDE DEF s
<1>4. s \in Seq(Bytes)
  BY <1>2 DEF IsBuffer
<1>5. e \in [count : Nat, chars : Seq(Bytes)] /\ e.count = block[b].count /\ e.chars = s
  BY <1>1, <1>4
<1> HIDE DEF e
<1>6. BlockBecomes(b, e) /\ e # NoData
  BY <1>2, <1>3, <1>5, BlockChanges, BufferIsData
<1> QED
  BY <1>5, <1>6 DEF BlockBecomes, s

-----------------------------------------------------------------------------
(* Every step keeps the invariant.                                          *)

\* The part of a thread in SureIsUnique.
Sure(t) ==
    /\ call[t].pc = "write" /\ call[t].sure => block[data[call[t].n]].count = 1
    /\ call[t].pc \in ResetPcs /\ call[t].next = "install" => block[call[t].b].count = 1

Dead(b) == block[b] # NoData /\ block[b].count = 0

\* A step changes the counter of a block that is used once only for the thread
\* that has that one reference.
CountsOwn(t) ==
    \A b \in Blocks : block[b].count = 1 /\ block'[b].count # 1
                          => \E n \in NameRefs(b) : owner[n] = t

\* So the others remain sure of theirs.
LEMMA OthersSure ==
    ASSUME IInv, NEW t \in Threads, OwnStep(t), CountsOwn(t), Sure(t)'
    PROVE  SureIsUnique'
<1> SUFFICES ASSUME NEW u \in Threads, u # t PROVE Sure(u)'
  BY DEF SureIsUnique, Sure
<1>1. Types /\ CallIsOwn(u) /\ Counted /\ Sure(u) /\ CallsAreOwn
  BY DEF IInv, CallsAreOwn, SureIsUnique, Sure
<1>2. call'[u] = call[u] /\ \A n \in Names : owner[n] = u => data'[n] = data[n]
  BY DEF OwnStep
<1>3. ASSUME call[u].pc = "write", call[u].sure
      PROVE  block'[data'[call[u].n]].count = 1
  <2> DEFINE n == call[u].n
             b == data[n]
  <2>1. n \in Names /\ owner[n] = u /\ b # NoBlock
    BY <1>1, <1>3, CallFields DEF CallIsOwn
  <2>2. b \in Blocks /\ data'[n] = b
    BY <1>1, <1>2, <2>1 DEF Types
  <2>3. ~LetGo(n)
    BY <1>1, <1>3, <2>1, LetGoByOwner DEF LettingGo
  <2>4. n \in NameRefs(b)
    BY <2>1, <2>3 DEF NameRefs
  <2>5. block[b].count = 1
    BY <1>1, <1>3 DEF Sure
  <2>6. NameRefs(b) = {n}
    BY <1>1, <2>2, <2>4, <2>5, OnceIsOne
  <2> HIDE DEF n, b
  <2>7. block'[b].count = 1
    BY <2>1, <2>2, <2>5, <2>6 DEF CountsOwn
  <2> QED
    BY <2>2, <2>7 DEF n, b
<1>4. ASSUME call[u].pc \in ResetPcs, call[u].next = "install"
      PROVE  block'[call[u].b].count = 1
  <2> DEFINE b == call[u].b
  <2>1. b \in Blocks
    BY <1>1, <1>4, CallFields DEF CallIsOwn
  <2>2. call[u].pc \in {"release", "delete", "install"}
    BY <1>1, <1>4 DEF CallIsOwn, ResetPcs, LettingGo
  <2>3. u \in CallRefs(b)
    BY <2>2 DEF CallRefs
  <2>4. block[b].count = 1
    BY <1>1, <1>4 DEF Sure
  <2>5. NameRefs(b) = {}
    BY <1>1, <2>1, <2>3, <2>4, OnceIsOne
  <2> QED
    BY <2>1, <2>4, <2>5 DEF CountsOwn
<1> QED
  BY <1>2, <1>3, <1>4 DEF Sure

\* A step that neither begins nor ends a deletion.
LEMMA QuietStep ==
    ASSUME IInv, NEW t \in Threads, Types', OwnStep(t), CallIsOwn(t)', Sure(t)',
           CountsOwn(t), Counted', \A b \in Blocks : Dead(b)' <=> Dead(b),
           call[t].pc # "delete", call'[t].pc # "delete"
    PROVE  IInv'
<1>1. Types /\ CallsAreOwn /\ DeletersAlone /\ DeadAreDeleted
  BY DEF IInv
<1>2. CallsAreOwn'
  BY <1>1, OthersKeep
<1>3. \A u \in Threads, b \in Blocks : Deletes(u, b)' <=> Deletes(u, b)
  <2>1. \A b \in Blocks : ~Deletes(t, b) /\ ~Deletes(t, b)'
    BY DEF Deletes
  <2>2. \A u \in Threads, b \in Blocks : u # t => (Deletes(u, b)' <=> Deletes(u, b))
    BY <1>1, Frame
  <2> QED
    BY <2>1, <2>2
<1>4. \A b \in Blocks : Dead(b)' <=> Dead(b)
  OBVIOUS
<1>5. DeletersAlone'
  <2>1. \A b \in Blocks, u \in Threads :
           Deletes(u, b) => Dead(b) /\ \A v \in Threads : Deletes(v, b) => v = u
    BY <1>1 DEF DeletersAlone, Dead
  <2>2. \A b \in Blocks, u \in Threads :
           Deletes(u, b)' => Dead(b)' /\ \A v \in Threads : Deletes(v, b)' => v = u
    BY <1>3, <1>4, <2>1
  <2> QED
    BY <2>2 DEF DeletersAlone, Dead
<1>6. DeadAreDeleted'
  <2>1. \A b \in Blocks : Dead(b) => \E u \in Threads : Deletes(u, b)
    BY <1>1 DEF DeadAreDeleted, Dead
  <2>2. \A b \in Blocks : Dead(b)' => \E u \in Threads : Deletes(u, b)'
    BY <1>3, <1>4, <2>1
  <2> QED
    BY <2>2 DEF DeadAreDeleted, Dead
<1>7. SureIsUnique'
  BY OthersSure
<1> QED
  BY <1>2, <1>5, <1>6, <1>7 DEF IInv

\* Which names of its own, and which copy, the thread's references are.
LEMMA NameRefsOf ==
    ASSUME IInv, NEW t \in Threads, OwnStep(t), CallIsOwn(t)', NEW b \in Blocks
    PROVE  /\ \A n \in Names : owner[n] # t => (n \in NameRefs(b)' <=> n \in NameRefs(b))
           /\ \A n \in Names : owner[n] = t =>
                 /\ n \in NameRefs(b) <=>
                        data[n] = b /\ ~(call[t].pc \in LettingGo /\ call[t].n = n)
                 /\ n \in NameRefs(b)' <=>
                        data'[n] = b /\ ~(call'[t].pc \in LettingGo /\ call'[t].n = n)
           /\ \A u \in Threads : u # t => (u \in CallRefs(b)' <=> u \in CallRefs(b))
<1>1. Types /\ CallsAreOwn
  BY DEF IInv
<1>2. /\ \A n \in Names : owner[n] # t => (LetGo(n)' <=> LetGo(n))
      /\ \A n \in Names : owner[n] = t =>
            /\ LetGo(n) <=> call[t].pc \in LettingGo /\ call[t].n = n
            /\ LetGo(n)' <=> call'[t].pc \in LettingGo /\ call'[t].n = n
      /\ \A u \in Threads : u # t => (u \in CallRefs(b)' <=> u \in CallRefs(b))
  BY <1>1, Frame
<1>3. \A n \in Names : owner[n] # t => data'[n] = data[n]
  BY DEF OwnStep
<1> QED
  BY <1>2, <1>3 DEF NameRefs

\* References that did not change are still counted.
RefsKept(b) == NameRefs(b)' = NameRefs(b) /\ CallRefs(b)' = CallRefs(b)

\* A thread begins a call that lets go of nothing yet, or ends one of those.
LEMMA OnlyCallMoves ==
    ASSUME IInv, NEW t \in Threads, UNCHANGED <<owner, data, block>>, unsure' \in BOOLEAN,
           NEW c \in Calls, Goes(t, c), c.pc \notin LettingGo, c.pc = "release" => c.b = NoBlock,
           call[t].pc \notin ResetPcs, CallIsOwn(t)', Sure(t)'
    PROVE  IInv'
<1>1. Types
  BY DEF IInv
<1>2. /\ call' \in [Threads -> Calls] /\ call'[t] = c
      /\ \A u \in Threads : u # t => call'[u] = call[u]
  BY <1>1, GoesKeeps
<1>3. Types' /\ OwnStep(t)
  BY <1>1, <1>2 DEF Types, OwnStep
<1>4. \A b \in Blocks : RefsKept(b)
  <2> SUFFICES ASSUME NEW b \in Blocks PROVE RefsKept(b)
    OBVIOUS
  <2>1. \A n \in Names : n \in NameRefs(b)' <=> n \in NameRefs(b)
    BY <1>2, <1>3, NameRefsOf DEF ResetPcs
  <2>2. t \notin CallRefs(b) /\ t \notin CallRefs(b)'
    <3>1. call[t].pc \notin {"release", "delete", "install"}
      BY DEF ResetPcs, LettingGo
    <3>2. c.pc \notin {"delete", "install"} /\ (c.pc = "release" => c.b # b)
      BY NullIsNoBlock DEF LettingGo
    <3> QED
      BY <1>2, <3>1, <3>2 DEF CallRefs
  <2>3. \A u \in Threads : u \in CallRefs(b)' <=> u \in CallRefs(b)
    BY <1>3, <2>2, NameRefsOf
  <2> QED
    BY <2>1, <2>3, RefsAreSubsets DEF RefsKept
<1>5. Counted'
  BY <1>4 DEF IInv, Counted, RefsKept
<1>6. CountsOwn(t) /\ \A b \in Blocks : Dead(b)' <=> Dead(b)
  BY DEF CountsOwn, Dead
<1>7. call[t].pc # "delete" /\ call'[t].pc # "delete"
  BY <1>2 DEF ResetPcs, LettingGo
<1> QED
  BY <1>3, <1>5, <1>6, <1>7, QuietStep

\* Idle is none of the other labels.
LEMMA IdleCall ==
    ASSUME Types, NEW t \in Threads, call[t] = Idle
    PROVE  /\ call[t].pc = "idle"
           /\ call[t].pc \notin ResetPcs \cup {"write", "detach", "join", "second", "astray"}
BY CallKinds DEF ResetPcs, LettingGo

\* Calls that reset a String begin.
LEMMA BeginResetInv ==
    ASSUME IInv, NEW t \in Threads, NEW n \in Names, NEW m \in Names,
           Assign(t, n, m) \/ MoveAssign(t, n, m) \/ Destroy(t, n)
    PROVE  IInv'
<1>1. PICK next \in {"copy", "take", "drop"}, k \in Names :
        /\ owner[n] = t /\ owner[k] = t /\ data[n] # NoBlock /\ call[t] = Idle
        /\ next \in {"copy", "take"} => n # k
        /\ next = "copy" => data[k] # NoBlock
        /\ Goes(t, Resets(next, n, k, NoBlock))
        /\ unsure' = FALSE /\ UNCHANGED <<owner, data, block>>
  <2>1. CASE Assign(t, n, m)
    BY <2>1 DEF Assign, Uses
  <2>2. CASE MoveAssign(t, n, m)
    BY <2>2 DEF MoveAssign, Uses
  <2>3. CASE Destroy(t, n)
    BY <2>3 DEF Destroy, Uses
  <2> QED
    BY <2>1, <2>2, <2>3
<1> DEFINE c == Resets(next, n, k, NoBlock)
<1>2. /\ c \in Calls /\ c.pc = "release" /\ c.next = next /\ c.n = n /\ c.m = k /\ c.b = NoBlock
      /\ Goes(t, c)
  BY <1>1, NewCalls
<1> HIDE DEF c
<1>3. call'[t] = c
  BY <1>2, GoesKeeps DEF IInv
<1>4. CallIsOwn(t)'
  BY <1>1, <1>2, <1>3 DEF CallIsOwn
<1>5. Sure(t)'
  BY <1>1, <1>2, <1>3 DEF Sure
<1>6. call[t].pc \notin ResetPcs
  BY <1>1, IdleCall DEF IInv
<1> QED
  BY <1>1, <1>2, <1>4, <1>5, <1>6, OnlyCallMoves DEF LettingGo

\* c_str() asks whether its String is unique: it is referred to once at least.
LEMMA BeginWriteInv ==
    ASSUME IInv, NEW t \in Threads, NEW n \in Names, BeginWrite(t, n)
    PROVE  IInv'
<1>1. /\ owner[n] = t /\ call[t] = Idle /\ data[n] # NoBlock
      /\ unsure' = FALSE /\ UNCHANGED <<owner, data, block>>
      /\ Types /\ CallsAreOwn /\ Counted
  BY DEF BeginWrite, Uses, IInv
<1>2. data[n] \in Blocks
  BY <1>1 DEF Types
<1>3. block[data[n]].count >= 1 /\ block[data[n]].count \in Nat
  <2>1. n \in NameRefs(data[n])
    <3>1. ~LetGo(n)
      BY <1>1, IdleCall, LetGoByOwner DEF ResetPcs
    <3> QED
      BY <3>1 DEF NameRefs
  <2> QED
    BY <1>1, <1>2, <2>1, Referenced DEF Types
<1>4. PICK c \in Calls :
        /\ Goes(t, c) /\ c.pc \in {"write", "detach"} /\ c.n = n
        /\ c.pc = "write" => block[data[n]].count <= 1
  <2>1. CASE block[data[n]].count <= 1
    BY <2>1, NewCalls, ZenonT(30) DEF BeginWrite
  <2>2. CASE ~(block[data[n]].count <= 1)
    BY <2>2, NewCalls DEF BeginWrite
  <2> QED
    BY <2>1, <2>2
<1>5. call'[t] = c
  BY <1>1, <1>4, GoesKeeps
<1>6. c.pc \notin ResetPcs \cup {"join", "second", "astray"}
  BY <1>4 DEF ResetPcs, LettingGo
<1>7. CallIsOwn(t)'
  BY <1>1, <1>4, <1>5, <1>6 DEF CallIsOwn
<1>8. Sure(t)'
  BY <1>1, <1>3, <1>4, <1>5, <1>6 DEF Sure
<1>9. call[t].pc \notin ResetPcs
  BY <1>1, IdleCall
<1> QED
  BY <1>1, <1>4, <1>6, <1>7, <1>8, <1>9, OnlyCallMoves DEF ResetPcs

\* Without memory c_str() goes on, and is not sure.
LEMMA DetachFailsInv ==
    ASSUME IInv, NEW t \in Threads, DetachFails(t)
    PROVE  IInv'
<1> DEFINE n == call[t].n
           c == Writes(n, FALSE)
<1>1. /\ call[t].pc = "detach" /\ Goes(t, c)
      /\ unsure' = FALSE /\ UNCHANGED <<owner, data, block>>
      /\ Types /\ CallsAreOwn
  BY DEF DetachFails, IInv
<1>2. n \in Names /\ owner[n] = t /\ data[n] # NoBlock
  BY <1>1, CallFields DEF CallsAreOwn, CallIsOwn
<1>3. c \in Calls /\ c.pc = "write" /\ c.n = n /\ c.sure = FALSE
  BY <1>2, NewCalls
<1> HIDE DEF c, n
<1>4. call'[t] = c
  BY <1>1, <1>3, GoesKeeps
<1>5. c.pc \notin ResetPcs \cup {"join", "second", "astray"} /\ call[t].pc \notin ResetPcs
  BY <1>1, <1>3 DEF ResetPcs, LettingGo
<1>6. CallIsOwn(t)'
  BY <1>1, <1>2, <1>3, <1>4, <1>5 DEF CallIsOwn
<1>7. Sure(t)'
  BY <1>3, <1>4, <1>5 DEF Sure
<1> QED
  BY <1>1, <1>3, <1>5, <1>6, <1>7, OnlyCallMoves DEF ResetPcs

\* A String that has a block has a buffer.
LEMMA HasBuffer ==
    ASSUME IInv, NEW n \in Names, data[n] # NoBlock, ~LetGo(n)
    PROVE  /\ data[n] \in Blocks /\ n \in NameRefs(data[n]) /\ IsBuffer(Buffer(n))
           /\ block[data[n]] # NoData /\ block[data[n]].count >= 1
<1>1. data[n] \in Blocks /\ n \in NameRefs(data[n])
  BY DEF IInv, Types, NameRefs
<1>2. block[data[n]].count >= 1 /\ block[data[n]] # NoData
  BY <1>1, Referenced DEF IInv
<1> QED
  BY <1>1, <1>2 DEF IInv, Types, Buffer

\* In the thread of an idle call nothing is let go of.
LEMMA UsedIsNotLetGo ==
    ASSUME IInv, NEW n \in Names, call[owner[n]].pc \notin LettingGo
    PROVE  ~LetGo(n)
BY LetGoByOwner DEF IInv

\* operator+ measures its texts.
LEMMA BeginJoinInv ==
    ASSUME IInv, NEW t \in Threads, NEW k \in Names, NEW n \in Names, NEW m \in Names,
           BeginJoin(t, k, n, m)
    PROVE  IInv'
<1> DEFINE size == Length(Buffer(n)) + Length(Buffer(m))
           c == [pc |-> "join", n |-> n, m |-> m, into |-> k, size |-> size, first |-> <<>>]
<1>1. /\ call[t] = Idle /\ owner[k] = t /\ owner[n] = t /\ owner[m] = t
      /\ data[k] = NoBlock /\ data[n] # NoBlock /\ data[m] # NoBlock /\ size <= MaxCapacity
      /\ Goes(t, c) /\ unsure' = FALSE /\ UNCHANGED <<owner, data, block>>
      /\ Types
  BY DEF BeginJoin, Uses, IInv
<1>2. call[t].pc \notin ResetPcs
  BY <1>1, IdleCall
<1>3. size \in 0..MaxCapacity
  <2>1. IsBuffer(Buffer(n)) /\ IsBuffer(Buffer(m))
    BY <1>1, <1>2, HasBuffer, UsedIsNotLetGo DEF ResetPcs
  <2>2. Length(Buffer(n)) \in Nat /\ Length(Buffer(m)) \in Nat
    <3>1. Length(Buffer(n)) \in 0..Len(Buffer(n)) - 1 /\ Length(Buffer(m)) \in 0..Len(Buffer(m)) - 1
      BY <2>1, LengthOfBuffer
    <3> QED
      BY <3>1
  <2> QED
    BY <1>1, <2>2, CapacityIsNatural
<1> HIDE DEF size
<1>4. c \in Calls /\ c.pc = "join" /\ c.n = n /\ c.m = m /\ c.into = k
  <2>1. c \in JoinCalls
    BY <1>3 DEF JoinCalls
  <2> QED
    BY <2>1 DEF Calls
<1> HIDE DEF c
<1>5. call'[t] = c
  BY <1>1, <1>4, GoesKeeps
<1>6. c.pc \notin ResetPcs \cup {"write", "detach"}
  BY <1>4 DEF ResetPcs, LettingGo
<1>7. CallIsOwn(t)'
  BY <1>1, <1>4, <1>5, <1>6 DEF CallIsOwn
<1>8. Sure(t)'
  BY <1>4, <1>5, <1>6 DEF Sure
<1> QED
  BY <1>1, <1>2, <1>4, <1>6, <1>7, <1>8, OnlyCallMoves DEF ResetPcs

\* Without memory operator+ returns an error.
LEMMA JoinFailsInv ==
    ASSUME IInv, NEW t \in Threads, JoinFails(t)
    PROVE  IInv'
<1>1. /\ call[t].pc \in {"join", "second"} /\ Goes(t, Idle)
      /\ unsure' = FALSE /\ UNCHANGED <<owner, data, block>> /\ Types
  BY DEF JoinFails, IInv
<1>2. call'[t] = Idle /\ Idle \in Calls /\ Idle.pc = "idle"
  BY <1>1, GoesKeeps, NewCalls
<1>3. /\ Idle.pc \notin ResetPcs \cup {"write", "detach", "join", "second", "astray"}
      /\ call[t].pc \notin ResetPcs
  BY <1>1, <1>2 DEF ResetPcs, LettingGo
<1>4. CallIsOwn(t)' /\ Sure(t)'
  BY <1>2, <1>3 DEF CallIsOwn, Sure
<1> QED
  BY <1>1, <1>2, <1>3, <1>4, OnlyCallMoves DEF ResetPcs

\* A call that ends behind the end of a buffer.
LEMMA AstrayInv ==
    ASSUME IInv, NEW t \in Threads, call[t].pc \in {"join", "second"}, Goes(t, Astray),
           unsure' = FALSE, UNCHANGED <<owner, data, block>>
    PROVE  IInv'
<1>1. call'[t] = Astray /\ Astray \in Calls /\ Astray.pc = "astray"
  BY GoesKeeps, NewCalls DEF IInv
<1>2. /\ Astray.pc \notin ResetPcs \cup {"write", "detach", "join", "second"}
      /\ call[t].pc \notin ResetPcs
  BY <1>1 DEF ResetPcs, LettingGo
<1>3. CallIsOwn(t)' /\ Sure(t)'
  BY <1>1, <1>2 DEF CallIsOwn, Sure
<1> QED
  BY <1>1, <1>2, <1>3, OnlyCallMoves DEF ResetPcs

\* operator+ copies its first text, or more than there is room for.
LEMMA CopyFirstInv ==
    ASSUME IInv, NEW t \in Threads, CopyFirst(t)
    PROVE  IInv'
<1> DEFINE first == Text(Buffer(call[t].n))
           c == [call[t] EXCEPT !.pc = "second", !.first = first]
<1>1. /\ call[t].pc = "join" /\ (Goes(t, c) \/ Goes(t, Astray))
      /\ unsure' = FALSE /\ UNCHANGED <<owner, data, block>> /\ Types /\ CallIsOwn(t)
  BY DEF CopyFirst, IInv, CallsAreOwn
<1>2. call[t] \in JoinCalls /\ call[t].pc \notin ResetPcs
  BY <1>1, CallKinds DEF ResetPcs, LettingGo
<1>3. first \in Seq(Bytes)
  <2>1. PICK n \in Names : n = call[t].n /\ owner[n] = t /\ data[n] # NoBlock
    BY <1>1, CallFields DEF CallIsOwn
  <2>2. IsBuffer(Buffer(n))
    BY <1>2, <2>1, HasBuffer, UsedIsNotLetGo DEF ResetPcs
  <2> QED
    BY <2>1, <2>2, TextOfBuffer
<1> HIDE DEF first
<1>4. /\ c \in JoinCalls /\ c.pc = "second" /\ c.n = call[t].n /\ c.m = call[t].m
      /\ c.into = call[t].into
  BY <1>2, <1>3 DEF JoinCalls, Bytes
<1> HIDE DEF c
<1>5. c \in Calls
  BY <1>4 DEF Calls
<1>6. CASE Goes(t, c)
  <2>1. call'[t] = c
    BY <1>1, <1>5, <1>6, GoesKeeps
  <2>2. c.pc \notin ResetPcs \cup {"write", "detach"}
    BY <1>4 DEF ResetPcs, LettingGo
  <2>3. CallIsOwn(t)'
    BY <1>1, <1>4, <2>1, <2>2 DEF CallIsOwn
  <2>4. Sure(t)'
    BY <2>1, <2>2 DEF Sure
  <2> QED
    BY <1>1, <1>2, <1>5, <1>6, <2>2, <2>3, <2>4, OnlyCallMoves DEF ResetPcs
<1> QED
  BY <1>1, <1>6, AstrayInv

-----------------------------------------------------------------------------
(* Steps that change what refers to a block, and its counter with it.       *)

RefSum(b) == Cardinality(NameRefs(b)) + Cardinality(CallRefs(b))

\* One String more refers to b.
LEMMA NameAdded ==
    ASSUME NEW b \in Blocks, NEW n \in Names, n \notin NameRefs(b), n \in NameRefs(b)',
           \A x \in Names : x # n => (x \in NameRefs(b)' <=> x \in NameRefs(b)),
           CallRefs(b)' = CallRefs(b)
    PROVE  RefSum(b)' = RefSum(b) + 1
<1>1. Cardinality(NameRefs(b)') = Cardinality(NameRefs(b)) + 1
  BY CountOneMore, RefsAreSubsets, FinitelyMany
<1> QED
  BY <1>1, RefsAreCounted DEF RefSum

\* One less.
LEMMA NameRemoved ==
    ASSUME NEW b \in Blocks, NEW n \in Names, n \in NameRefs(b), n \notin NameRefs(b)',
           \A x \in Names : x # n => (x \in NameRefs(b)' <=> x \in NameRefs(b)),
           CallRefs(b)' = CallRefs(b)
    PROVE  RefSum(b) = RefSum(b)' + 1 /\ RefSum(b)' \in Nat
<1>1. Cardinality(NameRefs(b)) = Cardinality(NameRefs(b)') + 1 /\ Cardinality(NameRefs(b)') \in Nat
  <2> DEFINE S == NameRefs(b)'
             T == NameRefs(b)
  <2>1. S \in SUBSET Names /\ T \in SUBSET Names
    BY RefsAreSubsets
  <2>2. n \notin S /\ n \in T /\ \A x \in Names : x # n => (x \in T <=> x \in S)
    OBVIOUS
  <2> HIDE DEF S, T
  <2>3. Cardinality(T) = Cardinality(S) + 1 /\ Cardinality(S) \in Nat
    BY <2>1, <2>2, CountOneMore, FinitelyMany
  <2> QED
    BY <2>3 DEF S, T
<1> QED
  BY <1>1, RefsAreCounted DEF RefSum

\* One instead of another.
LEMMA NameSwapped ==
    ASSUME NEW b \in Blocks, NEW n \in Names, NEW m \in Names,
           m \in NameRefs(b), m \notin NameRefs(b)', n \notin NameRefs(b), n \in NameRefs(b)',
           \A x \in Names : x \notin {m, n} => (x \in NameRefs(b)' <=> x \in NameRefs(b)),
           CallRefs(b)' = CallRefs(b)
    PROVE  RefSum(b)' = RefSum(b)
<1>1. Cardinality(NameRefs(b)') = Cardinality(NameRefs(b))
  BY CountSwapped, RefsAreSubsets, FinitelyMany
<1> QED
  BY <1>1 DEF RefSum

\* Nobody else's references, nor those to other blocks.
LEMMA RefsKeptIf ==
    ASSUME NEW b \in Blocks,
           \A n \in Names : n \in NameRefs(b)' <=> n \in NameRefs(b),
           \A t \in Threads : t \in CallRefs(b)' <=> t \in CallRefs(b)
    PROVE  RefsKept(b) /\ RefSum(b)' = RefSum(b)
<1>1. NameRefs(b)' = NameRefs(b)
  BY RefsAreSubsets
<1>2. CallRefs(b)' = CallRefs(b)
  BY RefsAreSubsets
<1> QED
  BY <1>1, <1>2 DEF RefsKept, RefSum

\* What a step of thread t leaves as it should be, its own call included.
Orderly(t) == /\ OwnStep(t) /\ CallIsOwn(t)' /\ Sure(t)'
              /\ owner' \in [Names -> Threads] /\ data' \in [Names -> Blocks \cup {NoBlock}]
              /\ call' \in [Threads -> Calls] /\ unsure' \in BOOLEAN

\* A free block gets its first reference.
LEMMA FirstReference ==
    ASSUME IInv, NEW t \in Threads, Orderly(t), NEW b \in Blocks, block[b] = NoData,
           NEW s, IsBuffer(s), block' = [block EXCEPT ![b] = [count |-> 1, chars |-> s]],
           \A a \in Blocks : a # b => RefSum(a)' = RefSum(a),
           RefSum(b)' = RefSum(b) + 1,
           call[t].pc # "delete", call'[t].pc # "delete"
    PROVE  IInv'
<1>1. Types /\ BlockTypes /\ Counted
  BY DEF IInv, Types, BlockTypes
<1>2. /\ BlockTypes' /\ block'[b].count = 1 /\ block'[b].chars = s /\ block'[b] # NoData
      /\ \A a \in Blocks : a # b => block'[a] = block[a]
  BY <1>1, BlockIsMade
<1>3. Types'
  BY <1>2 DEF Types, BlockTypes, Orderly
<1>4. Counted'
  <2>1. block[b].count = 0
    BY DEF NoData
  <2>2. \A a \in Blocks : block[a].count = RefSum(a)
    BY <1>1 DEF Counted, RefSum
  <2>3. \A a \in Blocks : block'[a].count = RefSum(a)'
    BY <1>2, <2>1, <2>2
  <2> QED
    BY <2>3 DEF Counted, RefSum
<1>5. CountsOwn(t)
  BY <1>2 DEF CountsOwn, NoData
<1>6. \A a \in Blocks : Dead(a)' <=> Dead(a)
  BY <1>2 DEF Dead
<1> QED
  BY <1>3, <1>4, <1>5, <1>6, QuietStep DEF Orderly

\* A block gets another reference, beside one of the same thread.
LEMMA OneMoreReference ==
    ASSUME IInv, NEW t \in Threads, Orderly(t), NEW b \in Blocks,
           NEW m \in NameRefs(b), owner[m] = t,
           block' = [block EXCEPT ![b].count = @ + 1],
           \A a \in Blocks : a # b => RefSum(a)' = RefSum(a),
           RefSum(b)' = RefSum(b) + 1,
           call[t].pc # "delete", call'[t].pc # "delete"
    PROVE  IInv'
<1>1. Types /\ BlockTypes /\ Counted
  BY DEF IInv, Types, BlockTypes
<1>2. block[b].count \in Nat /\ block[b].count >= 1 /\ block[b] # NoData
  BY <1>1, Referenced DEF BlockTypes
<1>3. /\ BlockTypes' /\ block'[b].count = block[b].count + 1 /\ block'[b] # NoData
      /\ \A a \in Blocks : a # b => block'[a] = block[a]
  <2> DEFINE k == block[b].count + 1
  <2>1. k \in Nat /\ block' = [block EXCEPT ![b].count = k]
    BY <1>2
  <2> HIDE DEF k
  <2>2. /\ BlockTypes' /\ block'[b].count = k /\ block'[b] # NoData
        /\ \A a \in Blocks : a # b => block'[a] = block[a]
    BY <1>1, <1>2, <2>1, CountChanges, ZenonT(30)
  <2> QED
    BY <2>2 DEF k
<1>4. Types'
  BY <1>3 DEF Types, BlockTypes, Orderly
<1>5. Counted'
  <2>1. \A a \in Blocks : block[a].count = RefSum(a)
    BY <1>1 DEF Counted, RefSum
  <2>2. \A a \in Blocks : block'[a].count = RefSum(a)'
    BY <1>3, <2>1
  <2> QED
    BY <2>2 DEF Counted, RefSum
<1>6. CountsOwn(t)
  BY <1>3 DEF CountsOwn
<1>7. \A a \in Blocks : Dead(a)' <=> Dead(a)
  BY <1>2, <1>3 DEF Dead
<1> QED
  BY <1>4, <1>5, <1>6, <1>7, QuietStep DEF Orderly

\* The counters stay, and so does the number of references.
LEMMA SameCounts ==
    ASSUME IInv, NEW t \in Threads, Orderly(t), BlockTypes',
           \A a \in Blocks : /\ block'[a].count = block[a].count
                             /\ block'[a] = NoData <=> block[a] = NoData
                             /\ RefSum(a)' = RefSum(a),
           call[t].pc # "delete", call'[t].pc # "delete"
    PROVE  IInv'
<1>1. Types'
  BY DEF Types, BlockTypes, Orderly
<1>2. Counted'
  <2>1. \A a \in Blocks : block[a].count = RefSum(a)
    BY DEF IInv, Counted, RefSum
  <2>2. \A a \in Blocks : block'[a].count = RefSum(a)'
    BY <2>1
  <2> QED
    BY <2>2 DEF Counted, RefSum
<1>3. CountsOwn(t) /\ \A a \in Blocks : Dead(a)' <=> Dead(a)
  BY DEF CountsOwn, Dead
<1> QED
  BY <1>1, <1>2, <1>3, QuietStep DEF Orderly

\* A call about nothing else, idle before and after.
LEMMA IdleIsOrderly ==
    ASSUME IInv, NEW t \in Threads, OwnStep(t), call' \in [Threads -> Calls],
           call'[t] = Idle, data' \in [Names -> Blocks \cup {NoBlock}], unsure' \in BOOLEAN
    PROVE  /\ Orderly(t) /\ call'[t].pc # "delete" /\ call'[t].pc \notin LettingGo
           /\ \A b \in Blocks : t \notin CallRefs(b)'
<1>1. call'[t].pc = "idle" /\ Types
  BY NewCalls DEF IInv
<1>2. "idle" \notin ResetPcs \cup {"write", "detach", "join", "second", "astray"}
  BY DEF ResetPcs, LettingGo
<1>3. CallIsOwn(t)' /\ Sure(t)'
  BY <1>1, <1>2 DEF CallIsOwn, Sure
<1> QED
  BY <1>1, <1>2, <1>3 DEF Orderly, OwnStep, Types, ResetPcs, LettingGo, CallRefs

\* The three make().
LEMMA MakeInv ==
    ASSUME IInv, NEW t \in Threads, NEW n \in Names, Make(t, n)
    PROVE  IInv'
<1>1. PICK b \in Blocks, k \in 0..MaxCapacity : \E s \in Buffers(k) :
         /\ block[b] = NoData
         /\ block' = [block EXCEPT ![b] = [count |-> 1, chars |-> s]]
         /\ data' = [data EXCEPT ![n] = b]
  BY DEF Make
<1>2. PICK s \in Buffers(k) :
         /\ block[b] = NoData
         /\ block' = [block EXCEPT ![b] = [count |-> 1, chars |-> s]]
         /\ data' = [data EXCEPT ![n] = b]
  BY <1>1
<1>3. IsBuffer(s)
  BY BuffersAreBuffers
<1>4. /\ owner[n] = t /\ call[t] = Idle /\ data[n] = NoBlock /\ UNCHANGED <<owner, call>>
      /\ unsure' = FALSE /\ Types
  BY DEF Make, Uses, IInv
<1>5. data'[n] = b /\ \A x \in Names : x # n => data'[x] = data[x]
  BY <1>2, <1>4 DEF Types
<1>6. /\ OwnStep(t) /\ data' \in [Names -> Blocks \cup {NoBlock}] /\ call' \in [Threads -> Calls]
      /\ call'[t] = Idle
  BY <1>2, <1>4, <1>5 DEF OwnStep, Types
<1>7. Orderly(t) /\ call[t].pc = "idle" /\ call'[t].pc = "idle"
  BY <1>4, <1>6, IdleIsOrderly, IdleCall
<1>8. ASSUME NEW a \in Blocks
      PROVE  /\ CallRefs(a)' = CallRefs(a)
             /\ \A x \in Names : x # n => (x \in NameRefs(a)' <=> x \in NameRefs(a))
             /\ n \notin NameRefs(a) /\ (n \in NameRefs(a)' <=> a = b)
  <2>1. CallRefs(a)' = CallRefs(a)
    BY <1>4 DEF CallRefs
  <2>2. LetGo(n)' = LetGo(n) /\ \A x \in Names : LetGo(x)' = LetGo(x)
    BY <1>4 DEF LetGo
  <2>3. ~LetGo(n)
    BY <1>4, <1>7, UsedIsNotLetGo DEF LettingGo
  <2> QED
    BY <1>4, <1>5, <2>1, <2>2, <2>3, NullIsNoBlock DEF NameRefs
<1>9. \A a \in Blocks : a # b => RefSum(a)' = RefSum(a)
  BY <1>8, RefsKeptIf
<1>10. RefSum(b)' = RefSum(b) + 1
  BY <1>8, NameAdded
<1> QED
  BY <1>2, <1>3, <1>7, <1>9, <1>10, FirstReference

\* The copy constructor.
LEMMA CopyInv ==
    ASSUME IInv, NEW t \in Threads, NEW n \in Names, NEW m \in Names, Copy(t, n, m)
    PROVE  IInv'
<1>0. PICK b \in Blocks : b = data[m]
  BY DEF Copy, IInv, Types
<1>1. /\ owner[n] = t /\ owner[m] = t /\ call[t] = Idle /\ data[n] = NoBlock
      /\ UNCHANGED <<owner, call>> /\ unsure' = FALSE /\ Types
      /\ block' = [block EXCEPT ![b].count = @ + 1] /\ data' = [data EXCEPT ![n] = b]
  BY <1>0 DEF Copy, Uses, IInv
<1>2. data'[n] = b /\ \A x \in Names : x # n => data'[x] = data[x]
  BY <1>1 DEF Types
<1>3. /\ OwnStep(t) /\ data' \in [Names -> Blocks \cup {NoBlock}] /\ call' \in [Threads -> Calls]
      /\ call'[t] = Idle
  BY <1>1, <1>2 DEF OwnStep, Types
<1>4. Orderly(t) /\ call[t].pc = "idle" /\ call'[t].pc = "idle"
  BY <1>1, <1>3, IdleIsOrderly, IdleCall
<1>5. ~LetGo(n) /\ ~LetGo(m)
  BY <1>1, <1>4, UsedIsNotLetGo DEF LettingGo
<1>6. m \in NameRefs(b)
  BY <1>0, <1>5 DEF NameRefs
<1>7. ASSUME NEW a \in Blocks
      PROVE  /\ CallRefs(a)' = CallRefs(a)
             /\ \A x \in Names : x # n => (x \in NameRefs(a)' <=> x \in NameRefs(a))
             /\ n \notin NameRefs(a) /\ (n \in NameRefs(a)' <=> a = b)
  <2>1. CallRefs(a)' = CallRefs(a)
    BY <1>1 DEF CallRefs
  <2>2. \A x \in Names : LetGo(x)' = LetGo(x)
    BY <1>1 DEF LetGo
  <2> QED
    BY <1>1, <1>2, <1>5, <2>1, <2>2, NullIsNoBlock DEF NameRefs
<1>8. \A a \in Blocks : a # b => RefSum(a)' = RefSum(a)
  BY <1>7, RefsKeptIf
<1>9. RefSum(b)' = RefSum(b) + 1
  BY <1>7, NameAdded
<1> QED
  BY <1>1, <1>4, <1>6, <1>8, <1>9, OneMoreReference

\* A reference goes from one String to another of the same thread, which
\* refers to nothing.
LEMMA ReferenceMoves ==
    ASSUME IInv, NEW t \in Threads, NEW n \in Names, NEW m \in Names, n # m,
           owner[n] = t, owner[m] = t, UNCHANGED <<owner, block>>, unsure' = FALSE,
           data[n] = NoBlock \/ call[t].pc \in LettingGo,
           call[t].pc \in LettingGo => call[t].n = n,
           data' = [data EXCEPT ![n] = data[m], ![m] = NoBlock],
           call' \in [Threads -> Calls], call'[t] = Idle,
           \A u \in Threads : u # t => call'[u] = call[u],
           call[t].pc # "delete", \A b \in Blocks : t \notin CallRefs(b)
    PROVE  IInv'
<1>1. Types /\ BlockTypes'
  BY DEF IInv, Types, BlockTypes
<1>2. /\ data'[n] = data[m] /\ data'[m] = NoBlock
      /\ \A x \in Names : x \notin {n, m} => data'[x] = data[x]
      /\ data' \in [Names -> Blocks \cup {NoBlock}]
  BY <1>1 DEF Types
<1>3. OwnStep(t)
  BY <1>2 DEF OwnStep
<1>4. /\ Orderly(t) /\ call'[t].pc # "delete" /\ call'[t].pc \notin LettingGo
      /\ \A b \in Blocks : t \notin CallRefs(b)'
  BY <1>2, <1>3, IdleIsOrderly
<1>5. ASSUME NEW b \in Blocks PROVE RefSum(b)' = RefSum(b)
  <2>1. /\ \A x \in Names : owner[x] # t => (x \in NameRefs(b)' <=> x \in NameRefs(b))
        /\ \A x \in Names : owner[x] = t =>
              /\ x \in NameRefs(b) <=> data[x] = b /\ ~(call[t].pc \in LettingGo /\ call[t].n = x)
              /\ x \in NameRefs(b)' <=> data'[x] = b
        /\ \A u \in Threads : u # t => (u \in CallRefs(b)' <=> u \in CallRefs(b))
    BY <1>4, NameRefsOf DEF Orderly
  <2>2. \A x \in Names : x \notin {n, m} => (x \in NameRefs(b)' <=> x \in NameRefs(b))
    BY <1>2, <2>1
  <2>3. n \notin NameRefs(b) /\ m \notin NameRefs(b)'
    BY <1>2, <2>1, NullIsNoBlock
  <2>4. (m \in NameRefs(b) <=> data[m] = b) /\ (n \in NameRefs(b)' <=> data[m] = b)
    BY <1>2, <2>1
  <2>5. CallRefs(b)' = CallRefs(b)
    <3>1. \A u \in Threads : u \in CallRefs(b)' <=> u \in CallRefs(b)
      BY <1>4, <2>1
    <3> QED
      BY <3>1, RefsAreSubsets
  <2>6. CASE data[m] = b
    BY <2>2, <2>3, <2>4, <2>5, <2>6, NameSwapped
  <2>7. CASE data[m] # b
    <3>1. \A x \in Names : x \in NameRefs(b)' <=> x \in NameRefs(b)
      BY <2>2, <2>3, <2>4, <2>7
    <3>2. \A u \in Threads : u \in CallRefs(b)' <=> u \in CallRefs(b)
      BY <2>5
    <3> QED
      BY <3>1, <3>2, RefsKeptIf
  <2> QED
    BY <2>6, <2>7
<1> QED
  BY <1>1, <1>4, <1>5, SameCounts

\* The move constructor.
LEMMA MoveInv ==
    ASSUME IInv, NEW t \in Threads, NEW n \in Names, NEW m \in Names, Move(t, n, m)
    PROVE  IInv'
<1>1. /\ owner[n] = t /\ owner[m] = t /\ call[t] = Idle /\ n # m /\ data[n] = NoBlock
      /\ data' = [data EXCEPT ![n] = data[m], ![m] = NoBlock]
      /\ UNCHANGED <<owner, block, call>> /\ unsure' = FALSE /\ Types
  BY DEF Move, Uses, IInv
<1>2. call[t].pc = "idle" /\ call' \in [Threads -> Calls]
  BY <1>1, IdleCall DEF Types
<1>3. call[t].pc \notin LettingGo /\ \A b \in Blocks : t \notin CallRefs(b)
  BY <1>2 DEF LettingGo, CallRefs
<1> QED
  BY <1>1, <1>2, <1>3, ReferenceMoves

\* The end of a move assignment.
LEMMA TakeInv ==
    ASSUME IInv, NEW t \in Threads, Take(t)
    PROVE  IInv'
<1> DEFINE n == call[t].n
           m == call[t].m
<1>1. /\ call[t].pc = "take" /\ data' = [data EXCEPT ![n] = data[m], ![m] = NoBlock]
      /\ Goes(t, Idle) /\ unsure' = FALSE /\ UNCHANGED <<owner, block>> /\ Types
      /\ CallIsOwn(t)
  BY DEF Take, IInv, CallsAreOwn
<1>2. call[t].pc \in LettingGo /\ call[t].pc \in ResetPcs
  BY <1>1 DEF LettingGo, ResetPcs
<1>3. n \in Names /\ m \in Names /\ owner[n] = t /\ owner[m] = t /\ n # m
  BY <1>1, <1>2, CallFields DEF CallIsOwn
<1>4. /\ call' \in [Threads -> Calls] /\ call'[t] = Idle
      /\ \A u \in Threads : u # t => call'[u] = call[u]
  BY <1>1, GoesKeeps, NewCalls
<1>5. \A b \in Blocks : t \notin CallRefs(b)
  BY <1>1 DEF CallRefs
<1> HIDE DEF n, m
<1> QED
  BY <1>1, <1>2, <1>3, <1>4, <1>5, ReferenceMoves DEF n

\* The end of an assignment.
LEMMA CopyOverInv ==
    ASSUME IInv, NEW t \in Threads, CopyOver(t)
    PROVE  IInv'
<1>1. /\ call[t].pc = "copy" /\ Goes(t, Idle) /\ unsure' = FALSE /\ UNCHANGED owner
      /\ Types /\ CallIsOwn(t)
  BY DEF CopyOver, IInv, CallsAreOwn
<1>2. call[t].pc \in LettingGo /\ call[t].pc \in ResetPcs
  BY <1>1 DEF LettingGo, ResetPcs
<1>3. PICK n \in Names, m \in Names : n = call[t].n /\ m = call[t].m
  BY <1>1, <1>2, CallFields
<1>4. owner[n] = t /\ owner[m] = t /\ n # m /\ data[m] # NoBlock
  BY <1>1, <1>2, <1>3 DEF CallIsOwn
<1>5. PICK b \in Blocks : b = data[m]
  BY <1>1, <1>4 DEF Types
<1>6. block' = [block EXCEPT ![b].count = @ + 1] /\ data' = [data EXCEPT ![n] = b]
  BY <1>3, <1>5 DEF CopyOver
<1>7. data'[n] = b /\ \A x \in Names : x # n => data'[x] = data[x]
  BY <1>1, <1>6 DEF Types
<1>8. /\ call' \in [Threads -> Calls] /\ call'[t] = Idle
      /\ \A u \in Threads : u # t => call'[u] = call[u]
  BY <1>1, GoesKeeps, NewCalls
<1>9. OwnStep(t) /\ data' \in [Names -> Blocks \cup {NoBlock}]
  BY <1>1, <1>4, <1>6, <1>7, <1>8 DEF OwnStep, Types
<1>10. /\ Orderly(t) /\ call'[t].pc # "delete" /\ call'[t].pc \notin LettingGo
       /\ \A a \in Blocks : t \notin CallRefs(a)'
  BY <1>1, <1>8, <1>9, IdleIsOrderly
<1>11. ASSUME NEW a \in Blocks
       PROVE  /\ \A u \in Threads : u \in CallRefs(a)' <=> u \in CallRefs(a)
              /\ \A x \in Names : x # n => (x \in NameRefs(a)' <=> x \in NameRefs(a))
              /\ n \notin NameRefs(a) /\ (n \in NameRefs(a)' <=> a = b)
              /\ m \in NameRefs(a) <=> a = b
  <2>1. /\ \A x \in Names : owner[x] # t => (x \in NameRefs(a)' <=> x \in NameRefs(a))
        /\ \A x \in Names : owner[x] = t =>
              /\ x \in NameRefs(a) <=> data[x] = a /\ x # n
              /\ x \in NameRefs(a)' <=> data'[x] = a
        /\ \A u \in Threads : u # t => (u \in CallRefs(a)' <=> u \in CallRefs(a))
    BY <1>2, <1>3, <1>10, NameRefsOf DEF Orderly
  <2>2. t \notin CallRefs(a)
    BY <1>1 DEF CallRefs
  <2> QED
    BY <1>4, <1>5, <1>7, <1>10, <2>1, <2>2
<1>12. \A a \in Blocks : a # b => RefSum(a)' = RefSum(a)
  BY <1>11, RefsKeptIf
<1>13. RefSum(b)' = RefSum(b) + 1
  <2>1. CallRefs(b)' = CallRefs(b)
    BY <1>11, RefsAreSubsets
  <2> QED
    BY <1>11, <2>1, NameAdded
<1>14. m \in NameRefs(b) /\ call[t].pc # "delete"
  BY <1>1, <1>11
<1> QED
  BY <1>4, <1>6, <1>10, <1>12, <1>13, <1>14, OneMoreReference

\* The end of a destruction.
LEMMA DroppedInv ==
    ASSUME IInv, NEW t \in Threads, Dropped(t)
    PROVE  IInv'
<1>1. /\ call[t].pc = "drop" /\ Goes(t, Idle) /\ unsure' = FALSE /\ UNCHANGED <<owner, block>>
      /\ Types /\ CallIsOwn(t) /\ data' = [data EXCEPT ![call[t].n] = NoBlock]
  BY DEF Dropped, IInv, CallsAreOwn
<1>2. call[t].pc \in LettingGo /\ call[t].pc \in ResetPcs
  BY <1>1 DEF LettingGo, ResetPcs
<1>3. PICK n \in Names : n = call[t].n
  BY <1>1, <1>2, CallFields
<1>4. owner[n] = t
  BY <1>1, <1>2, <1>3 DEF CallIsOwn
<1>5. data'[n] = NoBlock /\ \A x \in Names : x # n => data'[x] = data[x]
  BY <1>1, <1>3 DEF Types
<1>6. /\ call' \in [Threads -> Calls] /\ call'[t] = Idle
      /\ \A u \in Threads : u # t => call'[u] = call[u]
  BY <1>1, GoesKeeps, NewCalls
<1>7. OwnStep(t) /\ data' \in [Names -> Blocks \cup {NoBlock}]
  BY <1>1, <1>4, <1>5, <1>6 DEF OwnStep, Types
<1>8. /\ Orderly(t) /\ call'[t].pc # "delete" /\ call'[t].pc \notin LettingGo
      /\ \A a \in Blocks : t \notin CallRefs(a)'
  BY <1>1, <1>6, <1>7, IdleIsOrderly
<1>9. ASSUME NEW a \in Blocks PROVE RefSum(a)' = RefSum(a)
  <2>1. /\ \A x \in Names : owner[x] # t => (x \in NameRefs(a)' <=> x \in NameRefs(a))
        /\ \A x \in Names : owner[x] = t =>
              /\ x \in NameRefs(a) <=> data[x] = a /\ x # n
              /\ x \in NameRefs(a)' <=> data'[x] = a
        /\ \A u \in Threads : u # t => (u \in CallRefs(a)' <=> u \in CallRefs(a))
    BY <1>2, <1>3, <1>8, NameRefsOf DEF Orderly
  <2>2. t \notin CallRefs(a)
    BY <1>1 DEF CallRefs
  <2>3. \A x \in Names : x \in NameRefs(a)' <=> x \in NameRefs(a)
    BY <1>5, <2>1, NullIsNoBlock
  <2>4. \A u \in Threads : u \in CallRefs(a)' <=> u \in CallRefs(a)
    BY <1>8, <2>1, <2>2
  <2> QED
    BY <2>3, <2>4, RefsKeptIf
<1>10. BlockTypes' /\ call[t].pc # "delete"
  BY <1>1 DEF Types, BlockTypes
<1> QED
  BY <1>1, <1>8, <1>9, <1>10, SameCounts

\* The caller writes, or does not.
LEMMA WriteInv ==
    ASSUME IInv, NEW t \in Threads, Write(t)
    PROVE  IInv'
<1>1. /\ call[t].pc = "write" /\ Goes(t, Idle) /\ UNCHANGED <<owner, data>>
      /\ Types /\ CallIsOwn(t) /\ BlockTypes /\ CallsAreOwn
  BY DEF Write, IInv, CallsAreOwn, Types, BlockTypes
<1>2. PICK n \in Names : n = call[t].n
  BY <1>1, CallFields
<1>3. owner[n] = t /\ data[n] # NoBlock
  BY <1>1, <1>2 DEF CallIsOwn
<1>4. PICK b \in Blocks : b = data[n]
  BY <1>1, <1>3 DEF Types
<1>5. block[b] # NoData
  <2>1. ~LetGo(n)
    BY <1>1, <1>2, <1>3, UsedIsNotLetGo DEF LettingGo
  <2> QED
    BY <1>3, <1>4, <2>1, HasBuffer
<1>6. unsure' \in BOOLEAN /\ BlockTypes'
      /\ \A a \in Blocks : /\ block'[a].count = block[a].count
                           /\ block'[a] = NoData <=> block[a] = NoData
  <2>1. CASE unsure' = FALSE /\ UNCHANGED block
    BY <1>1, <2>1 DEF BlockTypes
  <2>2. CASE \E i \in 1..Capacity(block[b].chars), c \in Chars \cup {Nul} :
                /\ block' = [block EXCEPT ![b].chars[i] = c]
                /\ unsure' = ~call[t].sure
    <3>1. PICK i \in 1..Capacity(block[b].chars), c \in Bytes :
                /\ block' = [block EXCEPT ![b].chars[i] = c]
                /\ unsure' = ~call[t].sure
      BY <2>2 DEF Bytes
    <3>2. /\ BlockTypes' /\ block'[b].count = block[b].count /\ block'[b] # NoData
          /\ \A a \in Blocks : a # b => block'[a] = block[a]
      BY <1>1, <1>5, <3>1, BlockIsWritten
    <3> QED
      BY <1>5, <3>1, <3>2
  <2> QED
    BY <1>2, <1>4, <2>1, <2>2 DEF Write, Buffer
<1>7. /\ call' \in [Threads -> Calls] /\ call'[t] = Idle
      /\ \A u \in Threads : u # t => call'[u] = call[u]
  BY <1>1, GoesKeeps, NewCalls
<1>8. OwnStep(t) /\ data' \in [Names -> Blocks \cup {NoBlock}]
  BY <1>1, <1>7 DEF OwnStep, Types
<1>9. /\ Orderly(t) /\ call'[t].pc # "delete" /\ call'[t].pc \notin LettingGo
      /\ \A a \in Blocks : t \notin CallRefs(a)'
  BY <1>6, <1>7, <1>8, IdleIsOrderly
<1>10. call[t].pc \notin LettingGo \cup {"delete"}
  BY <1>1 DEF LettingGo
<1>11. ASSUME NEW a \in Blocks PROVE RefSum(a)' = RefSum(a)
  <2>1. /\ \A x \in Names : x \in NameRefs(a)' <=> x \in NameRefs(a)
        /\ \A u \in Threads : u # t => (u \in CallRefs(a)' <=> u \in CallRefs(a))
    BY <1>1, <1>9, <1>10, NameRefsOf DEF Orderly
  <2>2. t \notin CallRefs(a)
    BY <1>1 DEF CallRefs
  <2>3. \A u \in Threads : u \in CallRefs(a)' <=> u \in CallRefs(a)
    BY <1>9, <2>1, <2>2
  <2> QED
    BY <2>1, <2>3, RefsKeptIf
<1> QED
  BY <1>6, <1>9, <1>10, <1>11, SameCounts

\* A String is handed over: its thread is in no call, so no call is about it.
LEMMA HandInv ==
    ASSUME IInv, NEW t \in Threads, NEW n \in Names, NEW u \in Threads, Hand(t, n, u)
    PROVE  IInv'
<1>1. /\ owner[n] = t /\ call[t] = Idle /\ owner' = [owner EXCEPT ![n] = u]
      /\ unsure' = FALSE /\ UNCHANGED <<data, block, call>>
      /\ Types /\ CallsAreOwn /\ Counted /\ DeletersAlone /\ DeadAreDeleted /\ SureIsUnique
  BY DEF Hand, Uses, IInv
<1>2. Types'
  BY <1>1 DEF Types
<1>3. \A x \in Names : x # n => owner'[x] = owner[x]
  BY <1>1 DEF Types
<1>4. CallsAreOwn'
  <2> SUFFICES ASSUME NEW v \in Threads PROVE CallIsOwn(v)'
    BY DEF CallsAreOwn
  <2>1. call'[v] = call[v] /\ data' = data /\ CallIsOwn(v)
    BY <1>1 DEF CallsAreOwn
  <2>2. CASE v = t
    <3>1. call[v].pc \notin ResetPcs \cup {"write", "detach", "join", "second", "astray"}
      BY <1>1, <2>2, IdleCall
    <3> QED
      BY <2>1, <3>1 DEF CallIsOwn
  <2>3. CASE v # t
    <3>1. \A x \in Names : owner[x] = v => owner'[x] = v
      BY <1>1, <1>3, <2>3
    <3>2. call[v].pc \in ResetPcs => call[v].n \in Names /\ call[v].m \in Names
      BY <1>1, CallFields
    <3>3. call[v].pc \in {"write", "detach"} => call[v].n \in Names
      BY <1>1, CallFields
    <3>4. call[v].pc \in {"join", "second"} =>
             call[v].n \in Names /\ call[v].m \in Names /\ call[v].into \in Names
      BY <1>1, CallFields
    <3> QED
      BY <2>1, <3>1, <3>2, <3>3, <3>4 DEF CallIsOwn
  <2> QED
    BY <2>2, <2>3
<1>5. \A b \in Blocks : NameRefs(b)' = NameRefs(b) /\ CallRefs(b)' = CallRefs(b)
  BY <1>1 DEF NameRefs, CallRefs, LetGo
<1>6. Counted'
  BY <1>1, <1>5 DEF Counted
<1>7. DeletersAlone' /\ DeadAreDeleted' /\ SureIsUnique'
  BY <1>1 DEF DeletersAlone, DeadAreDeleted, SureIsUnique, Deletes
<1> QED
  BY <1>2, <1>4, <1>6, <1>7 DEF IInv

\* One copy more is b.
LEMMA CallAdded ==
    ASSUME NEW b \in Blocks, NEW t \in Threads, t \notin CallRefs(b), t \in CallRefs(b)',
           \A u \in Threads : u # t => (u \in CallRefs(b)' <=> u \in CallRefs(b)),
           NameRefs(b)' = NameRefs(b)
    PROVE  RefSum(b)' = RefSum(b) + 1
<1>1. Cardinality(CallRefs(b)') = Cardinality(CallRefs(b)) + 1
  BY CountOneMore, RefsAreSubsets, FinitelyMany
<1> QED
  BY <1>1, RefsAreCounted DEF RefSum

\* A copy becomes what a String refers to.
LEMMA CallBecomesName ==
    ASSUME NEW b \in Blocks, NEW t \in Threads, NEW n \in Names,
           t \in CallRefs(b), t \notin CallRefs(b)',
           \A u \in Threads : u # t => (u \in CallRefs(b)' <=> u \in CallRefs(b)),
           n \notin NameRefs(b), n \in NameRefs(b)',
           \A x \in Names : x # n => (x \in NameRefs(b)' <=> x \in NameRefs(b))
    PROVE  RefSum(b)' = RefSum(b)
<1>1. Cardinality(NameRefs(b)') = Cardinality(NameRefs(b)) + 1
  BY CountOneMore, RefsAreSubsets, FinitelyMany
<1>2. Cardinality(CallRefs(b)) = Cardinality(CallRefs(b)') + 1 /\ Cardinality(CallRefs(b)') \in Nat
  <2> DEFINE S == CallRefs(b)'
             T == CallRefs(b)
  <2>1. S \in SUBSET Threads /\ T \in SUBSET Threads
    BY RefsAreSubsets
  <2>2. t \notin S /\ t \in T /\ \A u \in Threads : u # t => (u \in T <=> u \in S)
    OBVIOUS
  <2> HIDE DEF S, T
  <2>3. Cardinality(T) = Cardinality(S) + 1 /\ Cardinality(S) \in Nat
    BY <2>1, <2>2, CountOneMore, FinitelyMany
  <2> QED
    BY <2>3 DEF S, T
<1> QED
  BY <1>1, <1>2, RefsAreCounted DEF RefSum

\* c_str() copies the buffer of its String into a block of its own.
LEMMA DetachInv ==
    ASSUME IInv, NEW t \in Threads, Detach(t)
    PROVE  IInv'
<1>1. /\ call[t].pc = "detach" /\ unsure' = FALSE /\ UNCHANGED <<owner, data>>
      /\ Types /\ CallIsOwn(t)
  BY DEF Detach, IInv, CallsAreOwn
<1>2. PICK n \in Names : n = call[t].n
  BY <1>1, CallFields
<1>3. owner[n] = t /\ data[n] # NoBlock
  BY <1>1, <1>2 DEF CallIsOwn
<1>4. PICK s : s = Buffer(n)
  OBVIOUS
<1>5. PICK b \in Blocks :
        /\ block[b] = NoData
        /\ block' = [block EXCEPT ![b] = [count |-> 1, chars |-> s]]
        /\ Goes(t, Resets("install", n, n, b))
  BY <1>2, <1>4 DEF Detach
<1> DEFINE c == Resets("install", n, n, b)
<1>6. /\ c \in Calls /\ c.pc = "release" /\ c.next = "install" /\ c.n = n /\ c.m = n /\ c.b = b
      /\ Goes(t, c)
  BY <1>5, NewCalls
<1> HIDE DEF c
<1>7. /\ call' \in [Threads -> Calls] /\ call'[t] = c
      /\ \A u \in Threads : u # t => call'[u] = call[u]
  BY <1>1, <1>6, GoesKeeps
<1>8. /\ call[t].pc \notin LettingGo
      /\ c.pc \notin LettingGo \cup {"write", "detach", "join", "second", "astray"}
  BY <1>1, <1>6 DEF LettingGo
<1>9. IsBuffer(s)
  <2>1. ~LetGo(n)
    BY <1>3, <1>8, UsedIsNotLetGo
  <2> QED
    BY <1>3, <1>4, <2>1, HasBuffer
<1>10. block'[b].count = 1
  BY <1>1, <1>5, <1>9, BlockIsMade DEF Types, BlockTypes
<1>11. OwnStep(t) /\ Orderly(t)
  <2>1. CallIsOwn(t)'
    BY <1>1, <1>3, <1>6, <1>7, <1>8, NullIsNoBlock DEF CallIsOwn
  <2>2. Sure(t)'
    BY <1>6, <1>7, <1>8, <1>10 DEF Sure
  <2>3. OwnStep(t)
    BY <1>1, <1>7 DEF OwnStep
  <2> QED
    BY <1>1, <1>7, <2>1, <2>2, <2>3 DEF Orderly, Types
<1>12. ASSUME NEW a \in Blocks
       PROVE  /\ NameRefs(a)' = NameRefs(a) /\ t \notin CallRefs(a) /\ (t \in CallRefs(a)' <=> a = b)
              /\ \A u \in Threads : u # t => (u \in CallRefs(a)' <=> u \in CallRefs(a))
  <2>1. /\ \A x \in Names : x \in NameRefs(a)' <=> x \in NameRefs(a)
        /\ \A u \in Threads : u # t => (u \in CallRefs(a)' <=> u \in CallRefs(a))
    BY <1>1, <1>7, <1>8, <1>11, NameRefsOf DEF Orderly
  <2>2. NameRefs(a)' = NameRefs(a)
    BY <2>1, RefsAreSubsets
  <2>3. t \notin CallRefs(a) /\ (t \in CallRefs(a)' <=> a = b)
    BY <1>1, <1>6, <1>7 DEF CallRefs
  <2> QED
    BY <2>1, <2>2, <2>3
<1>13. \A a \in Blocks : a # b => RefSum(a)' = RefSum(a)
  BY <1>12, RefsKeptIf
<1>14. RefSum(b)' = RefSum(b) + 1
  BY <1>12, CallAdded
<1>15. call[t].pc # "delete" /\ call'[t].pc # "delete"
  BY <1>1, <1>6, <1>7
<1> QED
  BY <1>5, <1>9, <1>11, <1>13, <1>14, <1>15, FirstReference

\* The copy is installed.
LEMMA InstallInv ==
    ASSUME IInv, NEW t \in Threads, Install(t)
    PROVE  IInv'
<1>1. /\ call[t].pc = "install" /\ unsure' = FALSE /\ UNCHANGED <<owner, block>>
      /\ Types /\ CallIsOwn(t) /\ Sure(t)
  BY DEF Install, IInv, CallsAreOwn, SureIsUnique, Sure
<1>2. call[t].pc \in LettingGo /\ call[t].pc \in ResetPcs
  BY <1>1 DEF LettingGo, ResetPcs
<1>3. call[t].next = "install" /\ call[t].b # NoBlock
  BY <1>1, <1>2 DEF CallIsOwn
<1>4. PICK n \in Names, b \in Blocks : n = call[t].n /\ b = call[t].b
  BY <1>1, <1>2, <1>3, CallFields
<1>5. owner[n] = t /\ block[b].count = 1
  BY <1>1, <1>2, <1>3, <1>4 DEF CallIsOwn, Sure
<1>6. data' = [data EXCEPT ![n] = b] /\ Goes(t, Writes(n, TRUE))
  BY <1>4 DEF Install
<1>7. data'[n] = b /\ \A x \in Names : x # n => data'[x] = data[x]
  BY <1>1, <1>6 DEF Types
<1> DEFINE c == Writes(n, TRUE)
<1>8. c \in Calls /\ c.pc = "write" /\ c.n = n /\ c.sure = TRUE /\ Goes(t, c)
  BY <1>6, NewCalls
<1> HIDE DEF c
<1>9. /\ call' \in [Threads -> Calls] /\ call'[t] = c
      /\ \A u \in Threads : u # t => call'[u] = call[u]
  BY <1>1, <1>8, GoesKeeps
<1>10. c.pc \notin ResetPcs /\ c.pc \notin {"join", "second", "delete"}
  BY <1>8 DEF LettingGo, ResetPcs
<1>11. Orderly(t) /\ OwnStep(t)
  <2>1. CallIsOwn(t)'
    BY <1>1, <1>5, <1>7, <1>8, <1>9, <1>10, NullIsNoBlock DEF CallIsOwn
  <2>2. Sure(t)'
    BY <1>1, <1>5, <1>7, <1>8, <1>9, <1>10 DEF Sure
  <2>3. OwnStep(t)
    BY <1>1, <1>5, <1>7, <1>9 DEF OwnStep
  <2>4. owner' \in [Names -> Threads] /\ data' \in [Names -> Blocks \cup {NoBlock}]
    BY <1>1, <1>6 DEF Types
  <2> QED
    BY <1>1, <1>9, <2>1, <2>2, <2>3, <2>4 DEF Orderly
<1>12. ASSUME NEW a \in Blocks
       PROVE  /\ \A u \in Threads : u # t => (u \in CallRefs(a)' <=> u \in CallRefs(a))
              /\ (t \in CallRefs(a) <=> a = b) /\ t \notin CallRefs(a)'
              /\ \A x \in Names : x # n => (x \in NameRefs(a)' <=> x \in NameRefs(a))
              /\ n \notin NameRefs(a) /\ (n \in NameRefs(a)' <=> a = b)
  <2>1. /\ \A x \in Names : owner[x] # t => (x \in NameRefs(a)' <=> x \in NameRefs(a))
        /\ \A x \in Names : owner[x] = t =>
              /\ x \in NameRefs(a) <=> data[x] = a /\ x # n
              /\ x \in NameRefs(a)' <=> data'[x] = a
        /\ \A u \in Threads : u # t => (u \in CallRefs(a)' <=> u \in CallRefs(a))
    BY <1>2, <1>4, <1>9, <1>10, <1>11, NameRefsOf DEF Orderly, ResetPcs
  <2>2. (t \in CallRefs(a) <=> a = b) /\ t \notin CallRefs(a)'
    BY <1>1, <1>4, <1>8, <1>9 DEF CallRefs
  <2> QED
    BY <1>5, <1>7, <2>1, <2>2
<1>13. ASSUME NEW a \in Blocks PROVE RefSum(a)' = RefSum(a)
  <2>1. CASE a = b
    BY <1>12, <2>1, CallBecomesName
  <2>2. CASE a # b
    <3>1. /\ \A x \in Names : x \in NameRefs(a)' <=> x \in NameRefs(a)
          /\ \A u \in Threads : u \in CallRefs(a)' <=> u \in CallRefs(a)
      BY <1>12, <2>2
    <3> QED
      BY <3>1, RefsKeptIf
  <2> QED
    BY <2>1, <2>2
<1>14. BlockTypes' /\ call[t].pc # "delete" /\ call'[t].pc # "delete"
  BY <1>1, <1>9, <1>10 DEF Types, BlockTypes
<1> QED
  BY <1>1, <1>11, <1>13, <1>14, SameCounts

\* Letting go of a block does not touch the copy that waits to be installed.
LEMMA CopyWaits ==
    ASSUME IInv, NEW t \in Threads, OwnStep(t), CallIsOwn(t),
           call[t].pc \in {"release", "delete"},
           call'[t].pc \in {call[t].next, "delete"},
           call'[t].next = call[t].next, call'[t].b = call[t].b
    PROVE  \A a \in Blocks : \A u \in Threads : u \in CallRefs(a)' <=> u \in CallRefs(a)
<1>1. /\ \A u \in Threads : u # t => call'[u] = call[u]
      /\ call[t].next # "install" => call[t].b = NoBlock
  BY DEF OwnStep, CallIsOwn, ResetPcs, LettingGo
<1>2. \A a \in Blocks : t \in CallRefs(a) <=> call[t].b = a
  BY DEF CallRefs
<1>3. \A a \in Blocks : t \in CallRefs(a)' <=> call[t].b = a
  BY <1>1, NullIsNoBlock DEF CallRefs
<1>4. \A a \in Blocks : \A u \in Threads : u # t => (u \in CallRefs(a)' <=> u \in CallRefs(a))
  BY <1>1 DEF CallRefs
<1> QED
  BY <1>2, <1>3, <1>4

\* A thread lets go of a block, and is to delete it if it was the last.
LEMMA ReleaseInv ==
    ASSUME IInv, NEW t \in Threads, Release(t)
    PROVE  IInv'
<1>1. /\ call[t].pc = "release" /\ unsure' = FALSE /\ UNCHANGED <<owner, data>>
      /\ Types /\ CallIsOwn(t) /\ BlockTypes /\ Counted /\ CallsAreOwn /\ Sure(t)
      /\ DeletersAlone /\ DeadAreDeleted
  BY DEF Release, IInv, CallsAreOwn, Types, BlockTypes, SureIsUnique, Sure
<1>2. call[t].pc \in ResetPcs /\ call[t].pc \notin LettingGo
  BY <1>1 DEF ResetPcs, LettingGo
<1>3. PICK n \in Names, next \in {"copy", "take", "drop", "install"} :
         n = call[t].n /\ next = call[t].next
  BY <1>1, <1>2, CallFields
<1>4. owner[n] = t /\ data[n] # NoBlock
  BY <1>1, <1>2, <1>3 DEF CallIsOwn
<1>5. PICK b \in Blocks : b = data[n]
  BY <1>1, <1>4 DEF Types
<1>6. n \in NameRefs(b) /\ block[b] # NoData /\ block[b].count >= 1 /\ block[b].count \in Nat
  <2>1. ~LetGo(n)
    BY <1>2, <1>4, UsedIsNotLetGo
  <2> QED
    BY <1>1, <1>4, <1>5, <2>1, HasBuffer DEF BlockTypes
<1>7. PICK left \in Nat : left = block[b].count - 1
  BY <1>6
<1>8. PICK l \in LettingGo : l = IF left > 0 THEN next ELSE "delete"
  BY DEF LettingGo
<1>9. block' = [block EXCEPT ![b].count = left] /\ Goto(t, l)
  BY <1>3, <1>5, <1>7, <1>8 DEF Release
<1>10. /\ BlockTypes' /\ block'[b].count = left /\ block'[b] # NoData
       /\ \A a \in Blocks : a # b => block'[a] = block[a]
  BY <1>1, <1>6, <1>9, CountChanges
<1>11. /\ call' \in [Threads -> Calls]
       /\ call'[t].pc = l /\ call'[t].next = next /\ call'[t].n = n
       /\ call'[t].m = call[t].m /\ call'[t].b = call[t].b
       /\ \A u \in Threads : u # t => call'[u] = call[u]
  BY <1>1, <1>2, <1>3, <1>9, GotoKeeps DEF ResetPcs
<1>12. OwnStep(t)
  BY <1>1, <1>11 DEF OwnStep
<1>13. /\ l \in ResetPcs /\ l \in {next, "delete"}
       /\ l \notin {"release", "write", "detach", "join", "second", "astray"}
  BY <1>8 DEF ResetPcs, LettingGo
<1>14. CallIsOwn(t)'
  BY <1>1, <1>2, <1>3, <1>11, <1>13 DEF CallIsOwn
<1>15. Types'
  BY <1>1, <1>10, <1>11 DEF Types, BlockTypes
<1>16. Sure(t)'
  <2> SUFFICES ASSUME next = "install" PROVE block'[call[t].b].count = 1
    BY <1>11, <1>13 DEF Sure
  <2>1. call[t].b \in Blocks
    BY <1>1, <1>2, <1>3, CallFields DEF CallIsOwn
  <2>2. block[call[t].b].count = 1 /\ t \in CallRefs(call[t].b)
    BY <1>1, <1>2, <1>3 DEF Sure, CallRefs
  <2>3. NameRefs(call[t].b) = {}
    BY <1>1, <2>1, <2>2, OnceIsOne
  <2> QED
    BY <1>6, <1>10, <2>1, <2>2, <2>3
<1>17. CountsOwn(t)
  BY <1>4, <1>6, <1>10 DEF CountsOwn
<1>18. ASSUME NEW a \in Blocks
       PROVE  /\ \A x \in Names : x # n => (x \in NameRefs(a)' <=> x \in NameRefs(a))
              /\ n \notin NameRefs(a)' /\ (n \in NameRefs(a) <=> a = b)
              /\ \A u \in Threads : u \in CallRefs(a)' <=> u \in CallRefs(a)
  <2>1. /\ \A x \in Names : owner[x] # t => (x \in NameRefs(a)' <=> x \in NameRefs(a))
        /\ \A x \in Names : owner[x] = t =>
              /\ x \in NameRefs(a) <=> data[x] = a
              /\ x \in NameRefs(a)' <=> data'[x] = a /\ x # n
    BY <1>2, <1>11, <1>12, <1>14, NameRefsOf
  <2>2. \A u \in Threads : u \in CallRefs(a)' <=> u \in CallRefs(a)
    BY <1>1, <1>3, <1>11, <1>12, <1>13, CopyWaits
  <2> QED
    BY <1>1, <1>4, <1>5, <2>1, <2>2
<1>19. \A a \in Blocks : a # b => RefSum(a)' = RefSum(a)
  BY <1>18, RefsKeptIf
<1>20. RefSum(b) = RefSum(b)' + 1 /\ RefSum(b)' \in Nat
  <2>1. CallRefs(b)' = CallRefs(b)
    BY <1>18, RefsAreSubsets
  <2> QED
    BY <1>18, <2>1, NameRemoved
<1>21. Counted'
  <2>1. \A a \in Blocks : block[a].count = RefSum(a)
    BY <1>1 DEF Counted, RefSum
  <2>2. \A a \in Blocks : block'[a].count = RefSum(a)'
    BY <1>7, <1>10, <1>19, <1>20, <2>1
  <2> QED
    BY <2>2 DEF Counted, RefSum
<1>22. CASE left > 0
  <2>1. \A a \in Blocks : Dead(a)' <=> Dead(a)
    BY <1>7, <1>10, <1>22 DEF Dead
  <2>2. call[t].pc # "delete" /\ call'[t].pc # "delete"
    BY <1>1, <1>8, <1>11, <1>22
  <2> QED
    BY <1>12, <1>14, <1>15, <1>16, <1>17, <1>21, <2>1, <2>2, QuietStep
<1>23. CASE left = 0
  <2>1. /\ \A u \in Threads, a \in Blocks : u # t => (Deletes(u, a)' <=> Deletes(u, a))
        /\ \A a \in Blocks : Deletes(t, a)' <=> a = b
        /\ \A a \in Blocks : ~Deletes(t, a)
    <3>1. \A u \in Threads, a \in Blocks : u # t => (Deletes(u, a)' <=> Deletes(u, a))
      BY <1>1, <1>12, <1>14, Frame
    <3>2. l = "delete"
      BY <1>8, <1>23
    <3>3. call'[t].pc = "delete" /\ data'[call'[t].n] = b /\ call[t].pc # "delete"
      BY <1>1, <1>5, <1>11, <3>2
    <3> QED
      BY <3>1, <3>3 DEF Deletes
  <2>2. /\ \A a \in Blocks : Dead(a)' <=> Dead(a) \/ a = b
        /\ ~Dead(b)
    BY <1>6, <1>10, <1>23 DEF Dead
  <2>3. /\ \A a \in Blocks, u \in Threads :
              Deletes(u, a) => Dead(a) /\ \A v \in Threads : Deletes(v, a) => v = u
        /\ \A a \in Blocks : Dead(a) => \E u \in Threads : Deletes(u, a)
    BY <1>1 DEF DeletersAlone, DeadAreDeleted, Dead
  <2>4. /\ \A a \in Blocks, u \in Threads :
              Deletes(u, a)' => Dead(a)' /\ \A v \in Threads : Deletes(v, a)' => v = u
        /\ \A a \in Blocks : Dead(a)' => \E u \in Threads : Deletes(u, a)'
    BY <2>1, <2>2, <2>3
  <2>5. DeletersAlone' /\ DeadAreDeleted'
    BY <2>4 DEF DeletersAlone, DeadAreDeleted, Dead
  <2>6. CallsAreOwn' /\ SureIsUnique'
    BY <1>1, <1>12, <1>14, <1>16, <1>17, OthersKeep, OthersSure
  <2> QED
    BY <1>15, <1>21, <2>5, <2>6 DEF IInv
<1> QED
  BY <1>22, <1>23

\* The block is freed by the one thread that is to delete it.
LEMMA DeleteInv ==
    ASSUME IInv, NEW t \in Threads, Delete(t)
    PROVE  IInv'
<1>1. /\ call[t].pc = "delete" /\ unsure' = FALSE /\ UNCHANGED owner
      /\ Types /\ CallIsOwn(t) /\ BlockTypes /\ Counted /\ CallsAreOwn /\ Sure(t)
      /\ DeletersAlone /\ DeadAreDeleted
  BY DEF Delete, IInv, CallsAreOwn, Types, BlockTypes, SureIsUnique, Sure
<1>2. call[t].pc \in ResetPcs /\ call[t].pc \in LettingGo
  BY <1>1 DEF ResetPcs, LettingGo
<1>3. PICK n \in Names, next \in {"copy", "take", "drop", "install"} :
         n = call[t].n /\ next = call[t].next
  BY <1>1, <1>2, CallFields
<1>4. owner[n] = t /\ data[n] # NoBlock
  BY <1>1, <1>2, <1>3 DEF CallIsOwn
<1>5. PICK b \in Blocks : b = data[n]
  BY <1>1, <1>4 DEF Types
<1>6. /\ Deletes(t, b) /\ block[b] # NoData /\ block[b].count = 0
      /\ \A u \in Threads : Deletes(u, b) => u = t
  BY <1>1, <1>3, <1>5 DEF Deletes, DeletersAlone
<1>7. /\ block' = [block EXCEPT ![b] = NoData] /\ data' = [data EXCEPT ![n] = NoBlock]
      /\ Goto(t, next)
  BY <1>3, <1>5 DEF Delete
<1>8. /\ BlockTypes' /\ block'[b] = NoData
      /\ \A a \in Blocks : a # b => block'[a] = block[a]
  BY <1>1, <1>7, BlockIsFreed
<1>9. data'[n] = NoBlock /\ \A x \in Names : x # n => data'[x] = data[x]
  BY <1>1, <1>7 DEF Types
<1>10. /\ next \in LettingGo /\ next \in ResetPcs
       /\ next \notin {"release", "delete", "write", "detach", "join", "second", "astray"}
  BY DEF ResetPcs, LettingGo
<1>11. /\ call' \in [Threads -> Calls]
       /\ call'[t].pc = next /\ call'[t].next = next /\ call'[t].n = n
       /\ call'[t].m = call[t].m /\ call'[t].b = call[t].b
       /\ \A u \in Threads : u # t => call'[u] = call[u]
  BY <1>1, <1>2, <1>3, <1>7, <1>10, GotoKeeps
<1>12. OwnStep(t)
  BY <1>1, <1>4, <1>9, <1>11 DEF OwnStep
<1>13. CallIsOwn(t)'
  <2>1. call[t].m \in Names /\ (next = "copy" => data'[call[t].m] # NoBlock)
    BY <1>1, <1>2, <1>3, <1>9, CallFields DEF CallIsOwn
  <2> QED
    BY <1>1, <1>2, <1>3, <1>10, <1>11, <2>1 DEF CallIsOwn
<1>14. Types'
  BY <1>1, <1>7, <1>8, <1>11 DEF Types, BlockTypes
<1>15. \A a \in Blocks : block'[a].count = block[a].count
  BY <1>6, <1>8 DEF NoData
<1>16. Sure(t)'
  <2>1. next = "install" => call[t].b \in Blocks
    BY <1>1, <1>2, <1>3, CallFields DEF CallIsOwn
  <2> QED
    BY <1>1, <1>2, <1>3, <1>10, <1>11, <1>15, <2>1 DEF Sure
<1>17. CountsOwn(t)
  BY <1>15 DEF CountsOwn
<1>18. ASSUME NEW a \in Blocks PROVE RefSum(a)' = RefSum(a)
  <2>1. /\ \A x \in Names : owner[x] # t => (x \in NameRefs(a)' <=> x \in NameRefs(a))
        /\ \A x \in Names : owner[x] = t =>
              /\ x \in NameRefs(a) <=> data[x] = a /\ x # n
              /\ x \in NameRefs(a)' <=> data'[x] = a /\ x # n
    BY <1>2, <1>3, <1>10, <1>11, <1>12, <1>13, NameRefsOf
  <2>2. \A u \in Threads : u \in CallRefs(a)' <=> u \in CallRefs(a)
    BY <1>1, <1>3, <1>11, <1>12, CopyWaits
  <2>3. \A x \in Names : x \in NameRefs(a)' <=> x \in NameRefs(a)
    BY <1>9, <2>1
  <2> QED
    BY <2>2, <2>3, RefsKeptIf
<1>19. Counted'
  <2>1. \A a \in Blocks : block[a].count = RefSum(a)
    BY <1>1 DEF Counted, RefSum
  <2>2. \A a \in Blocks : block'[a].count = RefSum(a)'
    BY <1>15, <1>18, <2>1
  <2> QED
    BY <2>2 DEF Counted, RefSum
<1>20. DeletersAlone' /\ DeadAreDeleted'
  <2>1. /\ \A u \in Threads, a \in Blocks : u # t => (Deletes(u, a)' <=> Deletes(u, a))
        /\ \A a \in Blocks : ~Deletes(t, a)'
        /\ \A a \in Blocks : Deletes(t, a) <=> a = b
    <3>1. \A u \in Threads, a \in Blocks : u # t => (Deletes(u, a)' <=> Deletes(u, a))
      BY <1>1, <1>12, <1>13, Frame
    <3> QED
      BY <1>1, <1>3, <1>5, <1>10, <1>11, <3>1 DEF Deletes
  <2>2. \A a \in Blocks : Dead(a)' <=> Dead(a) /\ a # b
    BY <1>8 DEF Dead
  <2>3. /\ \A a \in Blocks, u \in Threads :
              Deletes(u, a) => Dead(a) /\ \A v \in Threads : Deletes(v, a) => v = u
        /\ \A a \in Blocks : Dead(a) => \E u \in Threads : Deletes(u, a)
    BY <1>1 DEF DeletersAlone, DeadAreDeleted, Dead
  <2>4. /\ \A a \in Blocks, u \in Threads :
              Deletes(u, a)' => Dead(a)' /\ \A v \in Threads : Deletes(v, a)' => v = u
        /\ \A a \in Blocks : Dead(a)' => \E u \in Threads : Deletes(u, a)'
    BY <1>6, <2>1, <2>2, <2>3
  <2> QED
    BY <2>4 DEF DeletersAlone, DeadAreDeleted, Dead
<1>21. CallsAreOwn' /\ SureIsUnique'
  BY <1>1, <1>12, <1>13, <1>16, <1>17, OthersKeep, OthersSure
<1> QED
  BY <1>14, <1>19, <1>20, <1>21 DEF IInv

-----------------------------------------------------------------------------
(* Concatenation.                                                           *)

\* Chars are inserted in place.
LEMMA InsertedKeeps ==
    ASSUME NEW s \in Seq(Bytes), NEW k \in Nat, NEW part \in Seq(Bytes)
    PROVE  /\ Inserted(s, k, part) \in Seq(Bytes) /\ Len(Inserted(s, k, part)) = Len(s)
           /\ \A i \in 1..Len(s) :
                 Inserted(s, k, part)[i] =
                     IF i \in k + 1..k + Len(part) THEN part[i - k] ELSE s[i]
<1> DEFINE r == Inserted(s, k, part)
<1>1. DOMAIN s = 1..Len(s) /\ Len(s) \in Nat
  OBVIOUS
<1>2. r = [i \in 1..Len(s) |-> IF i \in k + 1..k + Len(part) THEN part[i - k] ELSE s[i]]
  BY <1>1 DEF Inserted
<1>3. ASSUME NEW i \in 1..Len(s)
      PROVE  (IF i \in k + 1..k + Len(part) THEN part[i - k] ELSE s[i]) \in Bytes
  <2>1. CASE i \in k + 1..k + Len(part)
    <3>1. i - k \in 1..Len(part)
      BY <2>1
    <3> QED
      BY <2>1, <3>1
  <2>2. CASE i \notin k + 1..k + Len(part)
    BY <2>2
  <2> QED
    BY <2>1, <2>2
<1> HIDE DEF r
<1>4. r \in [1..Len(s) -> Bytes]
  BY <1>2, <1>3
<1>5. r \in Seq(Bytes) /\ Len(r) = Len(s)
  BY <1>1, <1>4
<1> QED
  BY <1>2, <1>5 DEF r

\* Two texts that are inserted, the second behind offset chars, and a Nul at the
\* end, whatever was there.
Joined(raw, size, first, offset, second) ==
    [Inserted(Inserted(raw, 0, first), offset, second) EXCEPT ![size + 1] = Nul]

\* They make a buffer, and if the second begins where the first ends and both
\* fit it they are all of its text.
LEMMA JoinedIsBuffer ==
    ASSUME NEW size \in 0..MaxCapacity, NEW raw \in Buffers(size),
           NEW first \in Seq(Bytes), NEW offset \in Nat, NEW second \in Seq(Bytes)
    PROVE  /\ IsBuffer(Joined(raw, size, first, offset, second))
           /\ offset = Len(first) /\ Len(first \o second) = size =>
                  Joined(raw, size, first, offset, second) = Append(first \o second, Nul)
<1>1. IsBuffer(raw) /\ raw \in Seq(Bytes) /\ Len(raw) = size + 1 /\ size \in Nat
      /\ Len(first) \in Nat /\ Len(second) \in Nat
  BY BuffersAreBuffers, CapacityIsNatural DEF IsBuffer
<1> DEFINE one == Inserted(raw, 0, first)
           two == Inserted(one, offset, second)
           all == [two EXCEPT ![size + 1] = Nul]
<1>2. /\ one \in Seq(Bytes) /\ Len(one) = size + 1
      /\ \A i \in 1..size + 1 : one[i] = IF i \in 1..Len(first) THEN first[i] ELSE raw[i]
  <2>1. 0 \in Nat
    OBVIOUS
  <2>2. /\ one \in Seq(Bytes) /\ Len(one) = Len(raw)
        /\ \A i \in 1..Len(raw) : one[i] = IF i \in 0 + 1..0 + Len(first) THEN first[i - 0] ELSE raw[i]
    BY <1>1, <2>1, InsertedKeeps, SMTT(30)
  <2> HIDE DEF one
  <2> QED
    BY <1>1, <2>2
<1> HIDE DEF one
<1>3. /\ two \in Seq(Bytes) /\ Len(two) = size + 1
      /\ \A i \in 1..size + 1 : two[i] =
            IF i \in offset + 1..offset + Len(second) THEN second[i - offset] ELSE one[i]
  <2>1. /\ two \in Seq(Bytes) /\ Len(two) = Len(one)
        /\ \A i \in 1..Len(one) : two[i] =
               IF i \in offset + 1..offset + Len(second) THEN second[i - offset] ELSE one[i]
    BY <1>2, InsertedKeeps
  <2> HIDE DEF two
  <2> QED
    BY <1>2, <2>1
<1> HIDE DEF two
<1>4. Nul \in Bytes
  BY DEF Bytes
<1>5. /\ all \in Seq(Bytes) /\ Len(all) = size + 1 /\ all[size + 1] = Nul
      /\ \A i \in 1..size : all[i] = two[i]
  BY <1>1, <1>3, <1>4
<1>6. Joined(raw, size, first, offset, second) = all
  BY DEF Joined, one, two
<1> HIDE DEF all
<1>7. IsBuffer(all)
  BY <1>1, <1>5, CapacityIsNatural DEF IsBuffer
<1>8. ASSUME offset = Len(first), Len(first \o second) = size
      PROVE  all = Append(first \o second, Nul)
  <2> DEFINE both == first \o second
             out == Append(both, Nul)
  <2>1. both \in Seq(Bytes) /\ Len(first) + Len(second) = size /\ Len(both) = size
        /\ \A i \in 1..size : both[i] = IF i <= Len(first) THEN first[i] ELSE second[i - Len(first)]
    BY <1>1, <1>8
  <2> HIDE DEF both
  <2>2. out \in Seq(Bytes) /\ Len(out) = size + 1 /\ out[size + 1] = Nul
        /\ \A i \in 1..size : out[i] = both[i]
    BY <1>1, <1>4, <2>1
  <2> HIDE DEF out
  <2>3. ASSUME NEW i \in 1..size + 1 PROVE all[i] = out[i]
    <3>1. CASE i = size + 1
      BY <3>1, <1>5, <2>2
    <3>2. CASE i \in 1..Len(first)
      <4>1. i \in 1..size /\ i \notin offset + 1..offset + Len(second) /\ i \in 1..size + 1
        BY <1>1, <1>8, <2>1, <3>2
      <4>2. all[i] = one[i]
        BY <1>3, <1>5, <4>1
      <4>3. one[i] = first[i]
        BY <1>2, <3>2, <4>1
      <4>4. i <= Len(first)
        BY <1>1, <3>2
      <4> QED
        BY <2>1, <2>2, <4>1, <4>2, <4>3, <4>4
    <3>3. CASE i \in Len(first) + 1..size
      <4>1. i \in 1..size /\ i \in offset + 1..offset + Len(second) /\ ~(i <= Len(first))
        BY <1>1, <1>8, <2>1, <3>3
      <4> QED
        BY <1>3, <1>5, <1>8, <2>1, <2>2, <4>1
    <3> QED
      BY <1>1, <2>1, <3>1, <3>2, <3>3
  <2>4. all = out
    <3>1. \A i \in 1..Len(all) : all[i] = out[i]
      BY <1>5, <2>3
    <3> QED
      BY <1>5, <2>2, <3>1, SeqEqual
  <2> QED
    BY <2>4 DEF out, both
<1> QED
  BY <1>6, <1>7, <1>8

\* The second text does not fit any more, or does where the first ends.
JoinsAstray(t) ==
    /\ call[t].pc = "second" /\ Goes(t, Astray)
    /\ ~Fits(Length(Buffer(call[t].n)), Text(Buffer(call[t].m)), call[t].size)
    /\ unsure' = FALSE /\ UNCHANGED <<owner, data, block>>

\* The buffer s in block b, where n and m are joined into k by thread t.
MakesJoin(t, n, m, k, size, b, s) ==
    /\ n = call[t].n /\ m = call[t].m /\ k = call[t].into /\ size = call[t].size
    /\ owner[k] = t /\ data[k] = NoBlock /\ block[b] = NoData /\ IsBuffer(s)
    /\ block' = [block EXCEPT ![b] = [count |-> 1, chars |-> s]]
    /\ data' = [data EXCEPT ![k] = b]
    /\ Goes(t, Idle)
    /\ LET first == call[t].first
           second == Text(Buffer(m))
       IN  Length(Buffer(n)) = Len(first) /\ Len(first \o second) = size =>
               s = Append(first \o second, Nul)

\* The Strings that operator+ reads have texts.
LEMMA JoinedTexts ==
    ASSUME IInv, NEW t \in Threads, call[t].pc \in {"join", "second"}
    PROVE  /\ IsBuffer(Buffer(call[t].n)) /\ IsBuffer(Buffer(call[t].m))
           /\ Length(Buffer(call[t].n)) \in Nat /\ Length(Buffer(call[t].m)) \in Nat
           /\ Text(Buffer(call[t].n)) \in Seq(Bytes) /\ Text(Buffer(call[t].m)) \in Seq(Bytes)
           /\ Len(Text(Buffer(call[t].n))) = Length(Buffer(call[t].n))
           /\ Len(Text(Buffer(call[t].m))) = Length(Buffer(call[t].m))
<1>1. PICK n \in Names, m \in Names :
         /\ n = call[t].n /\ m = call[t].m /\ owner[n] = t /\ owner[m] = t
         /\ data[n] # NoBlock /\ data[m] # NoBlock
  BY CallFields DEF IInv, CallsAreOwn, CallIsOwn
<1>2. IsBuffer(Buffer(n)) /\ IsBuffer(Buffer(m))
  <2>1. ~LetGo(n) /\ ~LetGo(m)
    BY <1>1, UsedIsNotLetGo DEF LettingGo
  <2> QED
    BY <1>1, <2>1, HasBuffer
<1>3. ASSUME NEW s, IsBuffer(s)
      PROVE  Length(s) \in Nat /\ Text(s) \in Seq(Bytes) /\ Len(Text(s)) = Length(s)
  <2>1. Text(s) \in Seq(Bytes) /\ Len(Text(s)) = Length(s)
    BY <1>3, TextOfBuffer
  <2> QED
    BY <2>1
<1> QED
  BY <1>1, <1>2, <1>3

\* What operator+ makes, and where it puts it.
LEMMA JoinMakes ==
    ASSUME IInv, NEW t \in Threads, Join(t), ~JoinsAstray(t)
    PROVE  \E n \in Names, m \in Names, k \in Names, size \in 0..MaxCapacity, b \in Blocks :
              \E s : MakesJoin(t, n, m, k, size, b, s)
<1>1. /\ call[t].pc = "second" /\ Types /\ CallIsOwn(t)
  BY DEF Join, IInv, CallsAreOwn
<1>2. PICK n \in Names, m \in Names, k \in Names, size \in 0..MaxCapacity :
         n = call[t].n /\ m = call[t].m /\ k = call[t].into /\ size = call[t].size
  BY <1>1, CallFields
<1>3. owner[k] = t /\ data[k] = NoBlock
  BY <1>1, <1>2 DEF CallIsOwn
<1> DEFINE first == call[t].first
           offset == Length(Buffer(n))
           second == Text(Buffer(m))
<1>4. first \in Seq(Bytes) /\ offset \in Nat /\ second \in Seq(Bytes)
  BY <1>1, <1>2, CallFields, JoinedTexts
<1>5. PICK b \in Blocks, raw \in Buffers(size) :
         /\ block[b] = NoData
         /\ block' = [block EXCEPT ![b] =
                [count |-> 1, chars |-> Joined(raw, size, first, offset, second)]]
         /\ data' = [data EXCEPT ![k] = b]
         /\ Goes(t, Idle)
  BY <1>2 DEF Join, Joined, JoinsAstray
<1> HIDE DEF first, offset, second
<1>6. PICK s : s = Joined(raw, size, first, offset, second)
  OBVIOUS
<1>7. /\ IsBuffer(s)
      /\ offset = Len(first) /\ Len(first \o second) = size => s = Append(first \o second, Nul)
  BY <1>4, <1>6, JoinedIsBuffer
<1>8. MakesJoin(t, n, m, k, size, b, s)
  BY <1>2, <1>3, <1>5, <1>6, <1>7 DEF first, offset, second, MakesJoin
<1> QED
  BY <1>8

\* operator+ gives its String a first reference, or goes astray.
LEMMA JoinInv ==
    ASSUME IInv, NEW t \in Threads, Join(t)
    PROVE  IInv'
<1>0. CASE JoinsAstray(t)
  BY <1>0, AstrayInv DEF JoinsAstray
<1> SUFFICES ASSUME ~JoinsAstray(t) PROVE IInv'
  BY <1>0
<1>1. /\ call[t].pc = "second" /\ Goes(t, Idle) /\ unsure' = FALSE /\ UNCHANGED owner
      /\ Types /\ CallIsOwn(t)
  BY JoinMakes DEF Join, IInv, CallsAreOwn, MakesJoin
<1>2. PICK k \in Names, b \in Blocks : \E s :
         /\ owner[k] = t /\ data[k] = NoBlock /\ block[b] = NoData /\ IsBuffer(s)
         /\ block' = [block EXCEPT ![b] = [count |-> 1, chars |-> s]]
         /\ data' = [data EXCEPT ![k] = b]
  BY JoinMakes DEF MakesJoin
<1>20. PICK s : /\ IsBuffer(s)
               /\ block' = [block EXCEPT ![b] = [count |-> 1, chars |-> s]]
  BY <1>2
<1>3. data'[k] = b /\ \A x \in Names : x # k => data'[x] = data[x]
  BY <1>1, <1>2 DEF Types
<1>4. /\ call' \in [Threads -> Calls] /\ call'[t] = Idle
      /\ \A u \in Threads : u # t => call'[u] = call[u]
  BY <1>1, GoesKeeps, NewCalls
<1>5. OwnStep(t) /\ data' \in [Names -> Blocks \cup {NoBlock}]
  BY <1>1, <1>2, <1>3, <1>4 DEF OwnStep, Types
<1>6. /\ Orderly(t) /\ call'[t].pc # "delete" /\ call'[t].pc \notin LettingGo
      /\ \A a \in Blocks : t \notin CallRefs(a)'
  BY <1>1, <1>4, <1>5, IdleIsOrderly
<1>7. call[t].pc \notin LettingGo \cup {"delete"}
  BY <1>1 DEF LettingGo
<1>8. ASSUME NEW a \in Blocks
      PROVE  /\ \A u \in Threads : u \in CallRefs(a)' <=> u \in CallRefs(a)
             /\ \A x \in Names : x # k => (x \in NameRefs(a)' <=> x \in NameRefs(a))
             /\ k \notin NameRefs(a) /\ (k \in NameRefs(a)' <=> a = b)
  <2>1. /\ \A x \in Names : owner[x] # t => (x \in NameRefs(a)' <=> x \in NameRefs(a))
        /\ \A x \in Names : owner[x] = t =>
              /\ x \in NameRefs(a) <=> data[x] = a
              /\ x \in NameRefs(a)' <=> data'[x] = a
        /\ \A u \in Threads : u # t => (u \in CallRefs(a)' <=> u \in CallRefs(a))
    BY <1>6, <1>7, NameRefsOf DEF Orderly
  <2>2. t \notin CallRefs(a)
    BY <1>1 DEF CallRefs
  <2> QED
    BY <1>2, <1>3, <1>6, <2>1, <2>2, NullIsNoBlock
<1>9. \A a \in Blocks : a # b => RefSum(a)' = RefSum(a)
  BY <1>8, RefsKeptIf
<1>10. RefSum(b)' = RefSum(b) + 1
  <2>1. CallRefs(b)' = CallRefs(b)
    BY <1>8, RefsAreSubsets
  <2> QED
    BY <1>8, <2>1, NameAdded
<1> QED
  BY <1>2, <1>20, <1>6, <1>7, <1>9, <1>10, FirstReference

-----------------------------------------------------------------------------
(* The invariant.                                                           *)

\* It holds at first.
LEMMA Initially == Init => IInv
<1> SUFFICES ASSUME Init PROVE IInv
  OBVIOUS
<1>1. /\ NoData \in [count : Nat, chars : Seq(Bytes)] /\ NoData.count = 0
      /\ \A b \in Blocks : block[b] = NoData
  BY DEF Init, NoData
<1>2. Types
  BY <1>1, NewCalls DEF Init, Types
<1>3. \A t \in Threads : call[t].pc \notin ResetPcs \cup {"write", "detach", "join", "second", "astray"}
  BY <1>2, IdleCall DEF Init
<1>4. CallsAreOwn /\ SureIsUnique
  BY <1>3 DEF CallsAreOwn, CallIsOwn, SureIsUnique
<1>5. \A t \in Threads : call[t].pc \notin {"release", "delete", "install"}
  BY <1>3 DEF ResetPcs, LettingGo
<1>6. Counted
  <2> SUFFICES ASSUME NEW b \in Blocks
               PROVE  block[b].count = Cardinality(NameRefs(b)) + Cardinality(CallRefs(b))
    BY DEF Counted
  <2>1. NameRefs(b) = {}
    BY NullIsNoBlock DEF Init, NameRefs
  <2>2. CallRefs(b) = {}
    BY <1>5 DEF CallRefs
  <2>3. block[b].count = 0
    BY <1>1
  <2>4. Cardinality(NameRefs(b)) = 0 /\ Cardinality(CallRefs(b)) = 0
    BY <2>1, <2>2, FS_EmptySet
  <2> QED
    BY <2>3, <2>4
<1>7. DeletersAlone /\ DeadAreDeleted
  BY <1>1, <1>5 DEF DeletersAlone, DeadAreDeleted, Deletes
<1> QED
  BY <1>2, <1>4, <1>6, <1>7 DEF IInv

\* Every step keeps it.
LEMMA Stepwise == IInv /\ [Next]_vars => IInv'
<1> SUFFICES ASSUME IInv, [Next]_vars PROVE IInv'
  OBVIOUS
<1>1. ASSUME NEW t \in Threads, Continue(t) PROVE IInv'
  BY <1>1, ReleaseInv, DeleteInv, CopyOverInv, TakeInv, DroppedInv, DetachInv,
     DetachFailsInv, InstallInv, WriteInv, CopyFirstInv, JoinInv, JoinFailsInv DEF Continue
<1>2. ASSUME NEW t \in Threads, NEW n \in Names, Begin(t, n) PROVE IInv'
  <2>1. CASE Make(t, n) \/ Destroy(t, n) \/ BeginWrite(t, n)
    BY <2>1, MakeInv, BeginResetInv, BeginWriteInv
  <2>2. ASSUME NEW m \in Names, Copy(t, n, m) \/ Move(t, n, m) PROVE IInv'
    BY <2>2, CopyInv, MoveInv
  <2>3. ASSUME NEW m \in Names, Assign(t, n, m) \/ MoveAssign(t, n, m) PROVE IInv'
    BY <2>3, BeginResetInv
  <2>4. ASSUME NEW m \in Names, Replace(t, n, m) PROVE IInv'
    BY <2>2, <2>3, <2>4 DEF Replace
  <2>5. ASSUME NEW m \in Names, NEW k \in Names, BeginJoin(t, k, n, m) PROVE IInv'
    BY <2>5, BeginJoinInv
  <2>6. ASSUME NEW u \in Threads, Hand(t, n, u) PROVE IInv'
    BY <2>6, HandInv
  <2> QED
    BY <1>2, <2>1, <2>2, <2>3, <2>4, <2>5, <2>6 DEF Begin
<1>3. CASE UNCHANGED vars
  <2>1. owner' = owner /\ data' = data /\ block' = block /\ call' = call /\ unsure' = unsure
    BY <1>3 DEF vars
  <2>2. Types' /\ CallsAreOwn'
    BY <2>1 DEF IInv, Types, CallsAreOwn, CallIsOwn
  <2>3. \A b \in Blocks : NameRefs(b)' = NameRefs(b) /\ CallRefs(b)' = CallRefs(b)
    BY <2>1 DEF NameRefs, CallRefs, LetGo
  <2>4. Counted'
    BY <2>1, <2>3 DEF IInv, Counted
  <2>5. DeletersAlone' /\ DeadAreDeleted' /\ SureIsUnique'
    BY <2>1 DEF IInv, DeletersAlone, DeadAreDeleted, Deletes, SureIsUnique
  <2> QED
    BY <2>2, <2>4, <2>5 DEF IInv
<1> QED
  BY <1>1, <1>2, <1>3 DEF Next

\* Whatever the threads do, each counter is the number of references, the one
\* thread that freed the last of them deletes the block, and a thread that found
\* its String unique is alone with the block it writes to.
THEOREM Invariant == Spec => []IInv
BY Initially, Stepwise, PTL DEF Spec

\* A call begins in a thread that is in none.
LEMMA BeginsIdle ==
    ASSUME NEW t \in Threads, NEW n \in Names, Begin(t, n)
    PROVE  call[t] = Idle
BY DEF Begin, Make, Destroy, BeginWrite, Copy, Move, Replace, Assign, MoveAssign, BeginJoin,
       Hand, Uses

\* A thread touches what its own Strings refer to.
LEMMA StepsAreOwn ==
    ASSUME IInv, NEW t \in Threads, Continue(t) \/ \E n \in Names : Begin(t, n)
    PROVE  \A x \in Names : owner[x] # t => data'[x] = data[x]
<1>1. Types /\ CallIsOwn(t)
  BY DEF IInv, CallsAreOwn
<1>2. CASE UNCHANGED data
  BY <1>2
<1>3. ASSUME NEW n \in Names, NEW m \in Names, owner[n] = t, owner[m] = t,
             NEW e, NEW f, data' = [data EXCEPT ![n] = e, ![m] = f]
      PROVE  \A x \in Names : owner[x] # t => data'[x] = data[x]
  BY <1>1, <1>3 DEF Types
<1>4. ASSUME NEW n \in Names, owner[n] = t, NEW e, data' = [data EXCEPT ![n] = e]
      PROVE  \A x \in Names : owner[x] # t => data'[x] = data[x]
  BY <1>1, <1>4 DEF Types
<1>5. ASSUME NEW n \in Names, Begin(t, n)
      PROVE  \A x \in Names : owner[x] # t => data'[x] = data[x]
  <2>1. CASE Make(t, n)
    BY <1>4, <2>1 DEF Make, Uses
  <2>2. CASE \E m \in Names : Copy(t, n, m)
    BY <1>4, <2>2 DEF Copy, Uses
  <2>3. CASE \E m \in Names : Move(t, n, m)
    <3>1. PICK m \in Names : Move(t, n, m)
      BY <2>3
    <3>2. owner[n] = t /\ owner[m] = t /\ data' = [data EXCEPT ![n] = data[m], ![m] = NoBlock]
      BY <3>1 DEF Move, Uses
    <3> QED
      BY <1>3, <3>2
  <2>4. CASE UNCHANGED data
    BY <2>4
  <2> QED
    BY <1>5, <2>1, <2>2, <2>3, <2>4
    DEF Begin, Destroy, BeginWrite, Replace, Assign, MoveAssign, BeginJoin, Hand
<1>6. ASSUME Continue(t)
      PROVE  \A x \in Names : owner[x] # t => data'[x] = data[x]
  <2>1. CASE call[t].pc \in LettingGo
    <3>1. call[t].pc \in ResetPcs
      BY <2>1 DEF ResetPcs
    <3>2. PICK n \in Names, m \in Names : n = call[t].n /\ m = call[t].m
      BY <1>1, <3>1, CallFields
    <3>3. owner[n] = t /\ owner[m] = t
      BY <1>1, <3>1, <3>2 DEF CallIsOwn
    <3>4. \/ data' = [data EXCEPT ![n] = NoBlock]
          \/ data' = [data EXCEPT ![n] = data[m]]
          \/ data' = [data EXCEPT ![n] = data[m], ![m] = NoBlock]
          \/ data' = [data EXCEPT ![n] = call[t].b]
      BY <1>6, <2>1, <3>2 DEF LettingGo, Continue, Release, Delete, CopyOver, Take, Dropped,
             Detach, DetachFails, Install, Write, CopyFirst, Join, JoinFails
    <3> QED
      BY <1>3, <1>4, <3>3, <3>4
  <2>2. CASE Join(t) /\ ~JoinsAstray(t)
    <3>1. PICK k \in Names, b \in Blocks : owner[k] = t /\ data' = [data EXCEPT ![k] = b]
      BY <2>2, JoinMakes DEF MakesJoin
    <3> QED
      BY <1>4, <3>1
  <2>3. CASE UNCHANGED data
    BY <2>3
  <2> QED
    BY <1>6, <2>1, <2>2, <2>3 DEF LettingGo, Continue, Release, Delete, CopyOver, Take, Dropped,
             Detach, DetachFails, Install, Write, CopyFirst, JoinFails, JoinsAstray
<1> QED
  BY <1>5, <1>6

\* A thread goes on with its own call.
LEMMA CallsOfOthers ==
    ASSUME IInv, NEW t \in Threads, NEW u \in Threads, u # t,
           Continue(t) \/ \E n \in Names : Begin(t, n)
    PROVE  call'[u] = call[u]
<1>1. Types
  BY DEF IInv
<1>2. CASE call' = call
  BY <1>2
<1>3. CASE \E c : Goes(t, c)
  BY <1>1, <1>3 DEF Goes, Types
<1>4. CASE \E l : Goto(t, l)
  BY <1>1, <1>4 DEF Goto, Types
<1> QED
  BY <1>2, <1>3, <1>4 DEF Begin, Make, Destroy, BeginWrite, Copy, Move, Replace, Assign,
        MoveAssign, BeginJoin, Hand, Continue, Release, Delete, CopyOver, Take, Dropped, Detach,
        DetachFails, Install, Write, CopyFirst, Join, JoinFails

\* What is referred to is written to by nobody but a Write.
LEMMA CharsKept ==
    ASSUME IInv, NEW t \in Threads, Continue(t) \/ \E n \in Names : Begin(t, n),
           NEW b \in Blocks, block[b].count >= 1,
           Write(t) /\ data[call[t].n] = b => block' = block
    PROVE  block'[b].chars = block[b].chars
<1>1. Types /\ CallIsOwn(t) /\ block[b] # NoData /\ NoData.count = 0
  BY DEF IInv, CallsAreOwn, NoData
<1>2. CASE block' = block
  BY <1>2
<1>3. ASSUME NEW a, NEW k, block' = [block EXCEPT ![a].count = k]
      PROVE  block'[b].chars = block[b].chars
  <2>1. block[b] \in [count : Nat, chars : Seq(Bytes)]
    BY <1>1 DEF Types
  <2>2. block'[b] = block[b] \/ block'[b] = [block[b] EXCEPT !.count = k]
    BY <1>1, <1>3 DEF Types
  <2> QED
    BY <2>1, <2>2
<1>4. ASSUME NEW a \in Blocks, block[a].count = 0, NEW e, block' = [block EXCEPT ![a] = e]
      PROVE  block'[b].chars = block[b].chars
  BY <1>1, <1>4 DEF Types
<1>5. \A a \in Blocks : block[a] = NoData => block[a].count = 0
  BY <1>1
<1>6. ASSUME NEW n \in Names, Begin(t, n)
      PROVE  block'[b].chars = block[b].chars
  <2>1. CASE Make(t, n)
    BY <1>4, <1>5, <2>1 DEF Make
  <2>2. CASE \E m \in Names : Copy(t, n, m)
    BY <1>3, <2>2 DEF Copy
  <2> QED
    BY <1>2, <1>6, <2>1, <2>2 DEF Begin, Destroy, BeginWrite, Move, Replace, Assign, MoveAssign,
                                  BeginJoin, Hand
<1>7. CASE Delete(t)
  <2>1. call[t].pc = "delete" /\ call[t].pc \in ResetPcs
    BY <1>7 DEF Delete, ResetPcs, LettingGo
  <2>2. PICK a \in Blocks : a = data[call[t].n]
    BY <1>1, <2>1, CallFields DEF CallIsOwn, Types
  <2>3. block[a].count = 0
    BY <2>1, <2>2 DEF IInv, DeletersAlone, Deletes
  <2> QED
    BY <1>4, <1>7, <2>2, <2>3 DEF Delete
<1>8. CASE Write(t)
  <2>1. PICK a \in Blocks : a = data[call[t].n]
    <3>1. call[t].pc = "write" /\ call[t].n \in Names /\ data[call[t].n] # NoBlock
      BY <1>1, <1>8, CallFields DEF Write, CallIsOwn
    <3> QED
      BY <1>1, <3>1 DEF Types
  <2>2. CASE a # b
    BY <1>1, <1>2, <1>8, <2>1, <2>2 DEF Write, Types
  <2> QED
    BY <1>2, <1>8, <2>1, <2>2
<1>9. CASE Detach(t)
  BY <1>4, <1>5, <1>9 DEF Detach
<1>10. CASE Join(t)
  <2>1. CASE JoinsAstray(t)
    BY <1>2, <2>1 DEF JoinsAstray
  <2>2. CASE ~JoinsAstray(t)
    <3>1. PICK a \in Blocks : \E s : /\ block[a] = NoData
                                    /\ block' = [block EXCEPT ![a] = [count |-> 1, chars |-> s]]
      BY <1>10, <2>2, JoinMakes DEF MakesJoin
    <3> QED
      BY <1>4, <1>5, <3>1
  <2> QED
    BY <2>1, <2>2
<1>11. CASE Release(t) \/ CopyOver(t)
  BY <1>3, <1>11 DEF Release, CopyOver
<1>12. CASE Continue(t)
  BY <1>2, <1>7, <1>8, <1>9, <1>10, <1>11, <1>12 DEF Continue, Take, Dropped, DetachFails, Install,
                                                     CopyFirst, JoinFails
<1> QED
  BY <1>6, <1>12

\* A thread in operator+ knows how long its texts are, and what the first is,
\* unless another wrote to one of them.
Known(t) ==
    LET c == call[t]
    IN  c.pc \in {"join", "second"} /\ t \notin shaken =>
            /\ c.size = Length(Buffer(c.n)) + Length(Buffer(c.m))
            /\ c.pc = "second" => c.first = Text(Buffer(c.n))

JoinsKnown == shaken \subseteq Threads /\ \A t \in Threads : Known(t)

\* Its own steps take it there.
LEMMA OwnKnown ==
    ASSUME IInv, NEW t \in Threads, Known(t), Continue(t) \/ \E n \in Names : Begin(t, n)
    PROVE  Known(t)'
<1>1. Types
  BY DEF IInv
<1>2. ASSUME NEW c \in Calls, Goes(t, c), c.pc \notin {"join", "second"} PROVE Known(t)'
  <2>1. call'[t] = c
    BY <1>1, <1>2, GoesKeeps
  <2> QED
    BY <1>2, <2>1 DEF Known
<1>3. ASSUME NEW n \in Names, Begin(t, n) PROVE Known(t)'
  <2>1. call[t] = Idle
    BY <1>3, BeginsIdle
  <2>2. CASE call' = call
    BY <2>1, <2>2 DEF Known, Idle
  <2>3. ASSUME NEW m \in Names, NEW k \in Names, BeginJoin(t, k, n, m) PROVE Known(t)'
    <3> DEFINE size == Length(Buffer(n)) + Length(Buffer(m))
               c == [pc |-> "join", n |-> n, m |-> m, into |-> k, size |-> size, first |-> <<>>]
    <3>1. Goes(t, c) /\ UNCHANGED <<data, block>>
      BY <2>3 DEF BeginJoin
    <3>2. call'[t] = c
      BY <1>1, <3>1 DEF Goes, Types
    <3>3. c.pc = "join" /\ c.n = n /\ c.m = m /\ c.size = size
      OBVIOUS
    <3> HIDE DEF c
    <3>4. Buffer(n)' = Buffer(n) /\ Buffer(m)' = Buffer(m)
      BY <3>1 DEF Buffer
    <3> QED
      BY <3>2, <3>3, <3>4 DEF Known
  <2>4. CASE \/ BeginWrite(t, n) \/ Destroy(t, n)
             \/ \E m \in Names : Assign(t, n, m) \/ MoveAssign(t, n, m)
    <3>1. CASE BeginWrite(t, n)
      <4>1. \E c : Goes(t, c) /\ c.pc \in {"write", "detach"}
        BY <3>1 DEF BeginWrite, Writes, Detaches
      <4>2. call'[t].pc \in {"write", "detach"}
        BY <1>1, <4>1 DEF Goes, Types
      <4> QED
        BY <4>2 DEF Known
    <3>2. CASE ~BeginWrite(t, n)
      <4>1. PICK next, x, y, b : Goes(t, Resets(next, x, y, b))
        BY <2>4, <3>2 DEF Destroy, Assign, MoveAssign
      <4>2. call'[t].pc = "release"
        BY <1>1, <4>1 DEF Goes, Types, Resets
      <4> QED
        BY <4>2 DEF Known
    <3> QED
      BY <3>1, <3>2
  <2>5. ASSUME NEW m \in Names, Copy(t, n, m) \/ Move(t, n, m) PROVE call' = call
    BY <2>5 DEF Copy, Move
  <2>6. ASSUME NEW m \in Names, Replace(t, n, m) PROVE Known(t)'
    BY <2>2, <2>4, <2>5, <2>6 DEF Replace
  <2>7. CASE Make(t, n) \/ \E u \in Threads : Hand(t, n, u)
    BY <2>2, <2>7 DEF Make, Hand
  <2> QED
    BY <1>3, <2>2, <2>3, <2>4, <2>5, <2>6, <2>7 DEF Begin
<1>4. CASE Release(t) \/ Delete(t)
  <2>1. call[t].pc \in {"release", "delete"} /\ call[t].pc \in ResetPcs
    BY <1>4 DEF Release, Delete, ResetPcs, LettingGo
  <2>2. PICK l \in ResetPcs : Goto(t, l) /\ l \notin {"join", "second"}
    <3>1. call[t].next \in {"copy", "take", "drop", "install"}
      BY <1>1, <2>1, CallFields
    <3> QED
      BY <1>4, <3>1 DEF Release, Delete, ResetPcs, LettingGo
  <2>3. call'[t].pc = l
    BY <1>1, <2>1, <2>2, GotoKeeps
  <2> QED
    BY <2>2, <2>3 DEF Known
<1>5. CASE CopyOver(t) \/ Take(t) \/ Dropped(t) \/ Write(t) \/ JoinFails(t)
  <2>1. Goes(t, Idle)
    BY <1>5 DEF CopyOver, Take, Dropped, Write, JoinFails
  <2> QED
    BY <1>2, <2>1, NewCalls
<1>6. CASE Detach(t) \/ DetachFails(t) \/ Install(t)
  <2>1. CASE Detach(t)
    <3>1. PICK next, x, y, b : Goes(t, Resets(next, x, y, b))
      BY <2>1 DEF Detach
    <3>2. call'[t].pc = "release"
      BY <1>1, <3>1 DEF Goes, Types, Resets
    <3> QED
      BY <3>2 DEF Known
  <2>2. CASE DetachFails(t) \/ Install(t)
    <3>1. PICK x, sure : Goes(t, Writes(x, sure))
      BY <2>2 DEF DetachFails, Install
    <3>2. call'[t].pc = "write"
      BY <1>1, <3>1 DEF Goes, Types, Writes
    <3> QED
      BY <3>2 DEF Known
  <2> QED
    BY <1>6, <2>1, <2>2
<1>7. CASE Join(t)
  <2>1. Goes(t, Idle) \/ Goes(t, Astray)
    BY <1>7 DEF Join
  <2> QED
    BY <1>2, <2>1, NewCalls
<1>8. CASE CopyFirst(t)
  <2> DEFINE first == Text(Buffer(call[t].n))
             c == [call[t] EXCEPT !.pc = "second", !.first = first]
  <2>1. /\ call[t].pc = "join" /\ (Goes(t, c) \/ Goes(t, Astray))
        /\ UNCHANGED <<data, block, shaken>>
    BY <1>8 DEF CopyFirst
  <2>2. call[t] \in JoinCalls
    BY <1>1, <2>1, CallKinds
  <2>3. /\ c.pc = "second" /\ c.n = call[t].n /\ c.m = call[t].m
        /\ c.size = call[t].size /\ c.first = first
    BY <2>2 DEF JoinCalls
  <2>4. CASE Goes(t, Astray)
    BY <1>2, <2>4, NewCalls
  <2>5. CASE Goes(t, c)
    <3> HIDE DEF c
    <3>1. call'[t] = c
      BY <1>1, <2>5 DEF Goes, Types
    <3>2. \A x : Buffer(x)' = Buffer(x)
      BY <2>1 DEF Buffer
    <3> QED
      BY <2>1, <2>3, <3>1, <3>2 DEF Known
  <2> QED
    BY <2>1, <2>4, <2>5
<1> QED
  BY <1>3, <1>4, <1>5, <1>6, <1>7, <1>8 DEF Continue

\* A step that shakes or forgets, and whom.
LEMMA ShakenBy ==
    ASSUME NEW t \in Threads, Continue(t) \/ \E n \in Names : Begin(t, n)
    PROVE  /\ \A u \in Threads : u # t /\ u \in shaken => u \in shaken'
           /\ shaken \subseteq Threads => shaken' \subseteq Threads
           /\ shaken' \subseteq shaken \/ Write(t)
<1>1. CASE \E n \in Names : Begin(t, n)
  BY <1>1 DEF Begin, Make, Destroy, BeginWrite, Copy, Move, Replace, Assign, MoveAssign, BeginJoin,
              Hand
<1>2. CASE Continue(t)
  <2>1. CASE Write(t)
    BY <2>1 DEF Write
  <2>2. CASE Join(t) \/ JoinFails(t)
    BY <2>2 DEF Join, JoinFails
  <2>3. CASE UNCHANGED shaken
    BY <2>3
  <2> QED
    BY <1>2, <2>1, <2>2, <2>3 DEF Continue, Release, Delete, CopyOver, Take, Dropped, Detach,
                                  DetachFails, Install, CopyFirst
<1> QED
  BY <1>1, <1>2

\* The steps of the others do not take it away, except for a Write that shakes.
LEMMA OthersKnown ==
    ASSUME IInv, NEW t \in Threads, NEW u \in Threads, u # t, Known(u),
           Continue(t) \/ \E n \in Names : Begin(t, n)
    PROVE  Known(u)'
<1>1. SUFFICES ASSUME call[u].pc \in {"join", "second"}, u \notin shaken'
               PROVE  /\ block'[data'[call[u].n]].chars = Buffer(call[u].n)
                      /\ block'[data'[call[u].m]].chars = Buffer(call[u].m)
  <2>1. call'[u] = call[u]
    BY CallsOfOthers
  <2>2. u \notin shaken' => u \notin shaken
    BY ShakenBy
  <2> QED
    BY <2>1, <2>2 DEF Known, Buffer
<1>2. ASSUME NEW x \in Names, owner[x] = u, data[x] # NoBlock,
             x \in {call[u].n, call[u].m}
      PROVE  block'[data'[x]].chars = Buffer(x)
  <2>1. data'[x] = data[x]
    BY <1>2, StepsAreOwn
  <2>2. ~LetGo(x)
    BY <1>1, <1>2, UsedIsNotLetGo DEF LettingGo
  <2>3. PICK b \in Blocks : b = data[x] /\ block[b].count >= 1
    BY <1>2, <2>2, HasBuffer
  <2>4. Write(t) /\ data[call[t].n] = b => block' = block
    BY <1>1, <1>2, <2>3 DEF Write, Joins
  <2>5. block'[b].chars = block[b].chars
    BY <2>3, <2>4, CharsKept
  <2> QED
    BY <2>1, <2>3, <2>5 DEF Buffer
<1>3. /\ call[u].n \in Names /\ owner[call[u].n] = u /\ data[call[u].n] # NoBlock
      /\ call[u].m \in Names /\ owner[call[u].m] = u /\ data[call[u].m] # NoBlock
  BY <1>1, CallFields DEF IInv, CallsAreOwn, CallIsOwn
<1> QED
  BY <1>2, <1>3

\* Every step keeps what is known.
LEMMA KnownStepwise == IInv /\ JoinsKnown /\ [Next]_vars => JoinsKnown'
<1> SUFFICES ASSUME IInv, JoinsKnown, [Next]_vars PROVE JoinsKnown'
  OBVIOUS
<1>1. ASSUME NEW t \in Threads, Continue(t) \/ \E n \in Names : Begin(t, n)
      PROVE  JoinsKnown'
  <2>1. \A u \in Threads : Known(u)'
    BY <1>1, OwnKnown, OthersKnown DEF JoinsKnown
  <2>2. (shaken \subseteq Threads)'
    BY <1>1, ShakenBy DEF JoinsKnown
  <2> QED
    BY <2>1, <2>2 DEF JoinsKnown
<1>2. CASE UNCHANGED vars
  <2>1. data' = data /\ block' = block /\ call' = call /\ shaken' = shaken
    BY <1>2 DEF vars
  <2> QED
    BY <2>1 DEF JoinsKnown, Known, Buffer
<1> QED
  BY <1>1, <1>2 DEF Next

\* operator+ goes on with the texts that it measured, unless another thread
\* wrote to one of them.
THEOREM JoinsKnow == Spec => []JoinsKnown
<1>1. Init => JoinsKnown
  BY DEF Init, JoinsKnown, Known, Idle
<1> QED
  BY <1>1, KnownStepwise, Invariant, PTL DEF Spec

\* A thread that is sure of its String writes to no text that another joins.
LEMMA SureShakesNobody ==
    ASSUME IInv, NEW t \in Threads, Write(t)
    PROVE  unsure' \/ shaken' \subseteq shaken
<1>1. CASE block' = block
  BY <1>1 DEF Write
<1>2. CASE block' # block
  <2>1. PICK n \in Names, sure \in BOOLEAN :
          /\ n = call[t].n /\ sure = call[t].sure /\ owner[n] = t /\ data[n] # NoBlock
          /\ call[t].pc = "write"
    BY CallFields DEF Write, IInv, CallsAreOwn, CallIsOwn
  <2>2. unsure' = ~sure
    BY <1>2, <2>1 DEF Write
  <2>3. CASE sure = TRUE
    <3>1. ~LetGo(n)
      BY <2>1, UsedIsNotLetGo DEF LettingGo
    <3>2. PICK b \in Blocks : b = data[n] /\ n \in NameRefs(b) /\ block[b].count = 1
      BY <2>1, <2>3, <3>1, HasBuffer DEF IInv, SureIsUnique
    <3>3. NameRefs(b) = {n}
      BY <3>2, OnceIsOne DEF IInv
    <3>4. ASSUME NEW u \in Threads, Joins(u, b) PROVE FALSE
      <4>1. PICK x \in Names : owner[x] = u /\ data[x] = b
        BY <3>4, CallFields DEF Joins, IInv, CallsAreOwn, CallIsOwn
      <4>2. call[u].pc \notin LettingGo \cup {"write"}
        BY <3>4 DEF Joins, LettingGo
      <4>3. x \in NameRefs(b)
        BY <4>1, <4>2, UsedIsNotLetGo DEF NameRefs
      <4> QED
        BY <2>1, <3>3, <4>1, <4>2, <4>3
    <3> QED
      BY <2>1, <3>2, <3>4 DEF Write
  <2> QED
    BY <2>2, <2>3
<1> QED
  BY <1>1, <1>2

\* A block lives as long as a String or a copy refers to it, and then is freed.
THEOREM BlocksLiveAsLongAsUsed == Spec => []CountsAreReferences
<1>1. ASSUME IInv, JoinsKnown PROVE CountsAreReferences
  <2>1. \A b \in Blocks : References(b) = RefSum(b)
    BY DEF References, RefSum, NameRefs, CallRefs
  <2>2. \A b \in Blocks : block[b].count = RefSum(b)
    BY <1>1 DEF IInv, Counted, RefSum
  <2>3. TypeOK
    <3>1. \A b \in Blocks : block[b] = NoData
                            \/ (block[b].count \in Nat /\ Last(block[b].chars) = Nul)
      BY <1>1 DEF IInv, Types, IsBuffer, Last
    <3>2. \A t \in Threads : call[t].pc \in {"idle", "release", "delete", "copy", "take", "drop",
                                             "detach", "install", "write", "join", "second",
                                             "astray"}
      BY <1>1, CallFields DEF IInv, ResetPcs, LettingGo
    <3> QED
      BY <1>1, <3>1, <3>2 DEF TypeOK, IInv, Types, JoinsKnown
  <2>4. \A b \in Blocks : block[b] # NoData /\ RefSum(b) = 0 =>
               \E t \in Threads : call[t].pc = "delete" /\ data[call[t].n] = b
    BY <1>1, <2>2 DEF IInv, DeadAreDeleted, Deletes
  <2>5. \A b \in Blocks : block[b] = NoData => \A n \in Names : data[n] = b => LetGo(n)
    <3> SUFFICES ASSUME NEW b \in Blocks, NEW n \in Names, data[n] = b, ~LetGo(n)
                 PROVE  block[b] # NoData
      OBVIOUS
    <3>1. n \in NameRefs(b)
      BY DEF NameRefs
    <3> QED
      BY <1>1, <3>1, Referenced DEF IInv
  <2> QED
    BY <2>1, <2>2, <2>3, <2>4, <2>5 DEF CountsAreReferences
<1> QED
  BY <1>1, Invariant, JoinsKnow, PTL

\* A thread in operator+ that nobody shook stays inside its buffer, and makes
\* one text behind the other.
LEMMA KnownJoins ==
    ASSUME IInv, NEW t \in Threads, Known(t), t \notin shaken, Continue(t),
           call[t].pc \in {"join", "second"}
    PROVE  /\ call'[t] # Astray
           /\ data'[call[t].into] # NoBlock =>
                  block'[data'[call[t].into]].chars =
                      Append(Text(Buffer(call[t].n)) \o Text(Buffer(call[t].m)), Nul)
<1> DEFINE c == call[t]
           n == c.n
           m == c.m
           k == c.into
           first == Text(Buffer(n))
           second == Text(Buffer(m))
<1>1. /\ Types /\ k \in Names /\ data[k] = NoBlock /\ c.size \in Nat
  BY CallFields DEF IInv, CallsAreOwn, CallIsOwn
<1>2. /\ first \in Seq(Bytes) /\ second \in Seq(Bytes)
      /\ Length(Buffer(n)) \in Nat /\ Length(Buffer(m)) \in Nat
      /\ Len(first) = Length(Buffer(n)) /\ Len(second) = Length(Buffer(m))
  BY JoinedTexts
<1>3. c.size = Len(first) + Len(second) /\ (c.pc = "second" => c.first = first)
  BY <1>2 DEF Known
<1>4. Idle.pc = "idle" /\ Astray.pc = "astray" /\ Idle \in Calls
  BY NewCalls
<1>5. CASE CopyFirst(t)
  <2>1. Fits(0, first, c.size)
    BY <1>2, <1>3 DEF Fits
  <2>2. /\ Goes(t, [call[t] EXCEPT !.pc = "second", !.first = first]) /\ data' = data
        /\ call[t].pc = "join"
    BY <1>5, <2>1 DEF CopyFirst
  <2>3. call[t] \in JoinCalls
    BY <1>1, <2>2, CallKinds
  <2>4. call'[t].pc = "second"
    BY <1>1, <2>2, <2>3 DEF Goes, Types, JoinCalls
  <2> QED
    BY <1>1, <1>4, <2>2, <2>4
<1>6. CASE JoinFails(t)
  <2>1. call'[t] = Idle /\ data' = data
    BY <1>1, <1>4, <1>6, GoesKeeps DEF JoinFails
  <2> QED
    BY <1>1, <1>4, <2>1
<1>7. CASE Join(t)
  <2>1. c.pc = "second" /\ c.first = first
    BY <1>3, <1>7 DEF Join
  <2>2. Fits(Length(Buffer(n)), second, c.size)
    BY <1>2, <1>3 DEF Fits
  <2>3. ~JoinsAstray(t)
    BY <2>2 DEF JoinsAstray
  <2>4. PICK i \in Names, j \in Names, x \in Names, size \in 0..MaxCapacity, b \in Blocks :
             \E s : MakesJoin(t, i, j, x, size, b, s)
    BY <1>7, <2>3, JoinMakes
  <2>5. PICK s : MakesJoin(t, i, j, x, size, b, s)
    BY <2>4
  <2>6. call'[t] = Idle
    BY <1>1, <1>4, <2>5, GoesKeeps DEF MakesJoin
  <2>7. x = k /\ data'[k] = b /\ block'[b].chars = s
    BY <1>1, <2>5 DEF IInv, Types, MakesJoin
  <2>8. Len(first \o second) = c.size
    BY <1>2, <1>3
  <2>9. s = Append(first \o second, Nul)
    BY <1>2, <2>1, <2>5, <2>8 DEF MakesJoin
  <2> QED
    BY <1>4, <2>6, <2>7, <2>9
<1> QED
  BY <1>5, <1>6, <1>7 DEF Continue, Release, Delete, CopyOver, Take, Dropped, Detach, DetachFails,
                          Install, Write

\* One text joined behind the other, by a thread that nobody shook.
JoinsAsKnown(t) ==
    LET c == call[t]
    IN  c.pc \in {"join", "second"} =>
            /\ call'[t] # Astray
            /\ data'[c.into] # NoBlock =>
                   block'[data'[c.into]].chars =
                       Append(Text(Buffer(c.n)) \o Text(Buffer(c.m)), Nul)

\* A concatenation is one text behind the other and stays in its buffer, unless
\* another thread writes to one of the texts meanwhile; that takes a write
\* behind a failed copy.
THEOREM TextsAreJoined == Spec => ConcatenationJoins
<1> DEFINE Joining == /\ \A t \in Threads \ shaken : JoinsAsKnown(t)
                      /\ unsure' \/ shaken' \subseteq shaken
<1>1. ASSUME IInv, JoinsKnown, [Next]_vars PROVE [Joining]_vars
  <2> SUFFICES ASSUME NEW t \in Threads, Continue(t) \/ \E n \in Names : Begin(t, n)
               PROVE  Joining
    BY <1>1 DEF Next
  <2>1. ASSUME NEW u \in Threads \ shaken PROVE JoinsAsKnown(u)
    <3> SUFFICES ASSUME call[u].pc \in {"join", "second"}
                 PROVE  JoinsAsKnown(u)
      BY DEF JoinsAsKnown
    <3>1. CASE u = t
      <4>1. \A n \in Names : ~Begin(t, n)
        BY <1>1, <3>1, BeginsIdle, IdleCall DEF IInv
      <4> QED
        BY <1>1, <2>1, <3>1, <4>1, KnownJoins DEF JoinsKnown, JoinsAsKnown
    <3>2. CASE u # t
      <4>1. /\ call[u].into \in Names /\ owner[call[u].into] = u /\ data[call[u].into] = NoBlock
        BY <1>1, CallFields DEF IInv, CallsAreOwn, CallIsOwn
      <4>2. data'[call[u].into] = NoBlock
        BY <1>1, <3>2, <4>1, StepsAreOwn
      <4>3. call'[u] = call[u]
        BY <1>1, <3>2, CallsOfOthers
      <4>4. Astray.pc = "astray"
        BY NewCalls
      <4> QED
        BY <4>2, <4>3, <4>4 DEF JoinsAsKnown
    <3> QED
      BY <3>1, <3>2
  <2>2. unsure' \/ shaken' \subseteq shaken
    BY <1>1, ShakenBy, SureShakesNobody
  <2> QED
    BY <2>1, <2>2
<1> QED
  BY <1>1, Invariant, JoinsKnow, PTL DEF Spec, ConcatenationJoins, JoinsAsKnown

-----------------------------------------------------------------------------
(* What is read.                                                            *)

\* The first Nul is where strlen() stops, whatever follows.
LEMMA LengthIs ==
    ASSUME NEW s, NEW k \in Nat, NEW l \in Nat, Len(s) = l, k < l, s[k + 1] = Nul,
           \A i \in 1..k : s[i] # Nul
    PROVE  Length(s) = k
<1> DEFINE I == {i \in 1..Len(s) : s[i] = Nul}
<1>1. k + 1 \in I
  OBVIOUS
<1>2. Length(s) = (IF I # {} THEN Min(I) ELSE 0) - 1
  BY DEF Length, SelectInSeq
<1>3. I \in SUBSET Nat
  OBVIOUS
<1>4. Min(I) \in I /\ Min(I) <= k + 1
  <2> HIDE DEF I
  <2> QED
    BY <1>1, <1>3, MinIsLeast
<1>5. Min(I) = k + 1
  <2>1. Min(I) \in 1..l /\ s[Min(I)] = Nul
    BY <1>4
  <2>2. Min(I) \notin 1..k
    BY <2>1
  <2> QED
    BY <1>4, <2>1, <2>2
<1> QED
  BY <1>1, <1>2, <1>5

\* Where a text has no Nul, strncmp() compares all that it is told to.
LEMMA EqualForText ==
    ASSUME NEW s, NEW r, NEW k \in Nat, \A i \in 1..k : s[i] # Nul
    PROVE  EqualFor(s, r, k) <=> \A i \in 1..k : s[i] = r[i]
<1>1. ASSUME \A i \in 1..k : s[i] = r[i] PROVE EqualFor(s, r, k)
  BY <1>1 DEF EqualFor
<1>2. ASSUME EqualFor(s, r, k), ~\A i \in 1..k : s[i] = r[i] PROVE FALSE
  <2> DEFINE D == {i \in 1..k : s[i] # r[i]}
  <2>1. D \in SUBSET Nat /\ D # {}
    BY <1>2
  <2>2. Min(D) \in D /\ \A e \in D : Min(D) <= e
    <3> HIDE DEF D
    <3> QED
      BY <2>1, MinIsLeast
  <2>3. PICK d \in 1..k : s[d] # r[d] /\ \A e \in D : d <= e
    BY <2>2
  <2>4. PICK j \in 1..d - 1 : s[j] # r[j] \/ s[j] = Nul
    BY <1>2, <2>3 DEF EqualFor
  <2>5. j \in 1..k /\ ~(d <= j)
    BY <2>3, <2>4
  <2> QED
    BY <2>3, <2>4, <2>5
<1> QED
  BY <1>1, <1>2

\* Texts are the same if they are as long and have the same chars.
LEMMA SameText ==
    ASSUME NEW s, NEW r, IsBuffer(s), IsBuffer(r)
    PROVE  Text(s) = Text(r) <=> /\ Length(s) = Length(r)
                                 /\ \A i \in 1..Length(s) : s[i] = r[i]
<1>1. /\ Text(s) \in Seq(Bytes) /\ Len(Text(s)) = Length(s)
      /\ \A i \in 1..Length(s) : Text(s)[i] = s[i]
  BY TextOfBuffer
<1>2. /\ Text(r) \in Seq(Bytes) /\ Len(Text(r)) = Length(r)
      /\ \A i \in 1..Length(r) : Text(r)[i] = r[i]
  BY TextOfBuffer
<1> DEFINE a == Text(s)
           b == Text(r)
<1> HIDE DEF a, b
<1>3. ASSUME Length(s) = Length(r), \A i \in 1..Length(s) : s[i] = r[i]
      PROVE  a = b
  <2>1. /\ a \in Seq(Bytes) /\ b \in Seq(Bytes) /\ Len(a) = Len(b)
        /\ \A i \in 1..Len(a) : a[i] = b[i]
    BY <1>1, <1>2, <1>3 DEF a, b
  <2> QED
    BY <2>1, SeqEqual
<1>4. ASSUME a = b
      PROVE  Length(s) = Length(r) /\ \A i \in 1..Length(s) : s[i] = r[i]
  BY <1>1, <1>2, <1>4 DEF a, b
<1> QED
  BY <1>3, <1>4 DEF a, b

\* operator== with another String.
LEMMA EqualIsSameText ==
    ASSUME NEW s, NEW r, IsBuffer(s), IsBuffer(r)
    PROVE  Equal(s, r) <=> Text(s) = Text(r)
<1>1. Length(s) \in Nat /\ \A i \in 1..Length(s) : s[i] # Nul
  <2>1. Len(s) \in Nat /\ Length(s) \in 0..Len(s) - 1
    BY LengthOfBuffer DEF IsBuffer
  <2> QED
    BY <2>1, LengthOfBuffer
<1>2. EqualFor(s, r, Length(s)) <=> \A i \in 1..Length(s) : s[i] = r[i]
  BY <1>1, EqualForText
<1> QED
  BY <1>2, SameText DEF Equal

\* operator== with a const char*.
LEMMA EqualRawIsSameText ==
    ASSUME NEW s, NEW raw, IsBuffer(s), IsBuffer(raw)
    PROVE  EqualRaw(s, raw) <=> Text(s) = Text(raw)
<1> DEFINE k == Length(s)
           l == Length(raw)
<1>1. k \in Nat /\ s[k + 1] = Nul /\ \A i \in 1..k : s[i] # Nul
  <2>1. Len(s) \in Nat /\ Length(s) \in 0..Len(s) - 1
    BY LengthOfBuffer DEF IsBuffer
  <2> QED
    BY <2>1, LengthOfBuffer
<1>2. l \in Nat /\ raw[l + 1] = Nul /\ \A i \in 1..l : raw[i] # Nul
  <2>1. Len(raw) \in Nat /\ Length(raw) \in 0..Len(raw) - 1
    BY LengthOfBuffer DEF IsBuffer
  <2> QED
    BY <2>1, LengthOfBuffer
<1>3. EqualFor(s, raw, k) <=> \A i \in 1..k : s[i] = raw[i]
  BY <1>1, EqualForText
<1>4. Text(s) = Text(raw) <=> k = l /\ \A i \in 1..k : s[i] = raw[i]
  BY SameText
<1>5. EqualRaw(s, raw) <=> EqualFor(s, raw, k) /\ raw[k + 1] = Nul
  BY DEF EqualRaw
<1> HIDE DEF k, l
<1>6. ASSUME \A i \in 1..k : s[i] = raw[i], raw[k + 1] = Nul PROVE k = l
  <2>1. ~(l < k)
    <3>1. l < k => l + 1 \in 1..k
      BY <1>1, <1>2
    <3> QED
      BY <1>1, <1>2, <1>6, <3>1
  <2>2. ~(k < l)
    <3>1. k < l => k + 1 \in 1..l
      BY <1>1, <1>2
    <3> QED
      BY <1>2, <1>6, <3>1
  <2> QED
    BY <1>1, <1>2, <2>1, <2>2
<1> QED
  BY <1>2, <1>3, <1>4, <1>5, <1>6

\* A needle is behind the place where its chars are, and ends where the text
\* does at the latest, as it has no Nul.
LEMMA NeedleIsPrefix ==
    ASSUME NEW s, IsBuffer(s), NEW needle \in Seq(Chars), NEW behind \in Seq(Bytes),
           NEW i \in 1..Length(s)
    PROVE  (\A j \in 1..Len(needle) : (s \o behind)[i + j - 1] = needle[j])
               <=> IsPrefix(needle, SubSeq(Text(s), i, Len(Text(s))))
<1> DEFINE l == Length(s)
           k == Len(needle)
           hay == s \o behind
           rest == SubSeq(Text(s), i, l)
<1>1. /\ s \in Seq(Bytes) /\ Len(s) \in Nat /\ l \in 0..Len(s) - 1 /\ l \in Nat /\ k \in Nat
      /\ s[l + 1] = Nul /\ Len(behind) \in Nat
  <2>1. s \in Seq(Bytes) /\ Len(s) \in Nat /\ l \in 0..Len(s) - 1 /\ s[l + 1] = Nul
    BY LengthOfBuffer DEF IsBuffer
  <2> HIDE DEF l
  <2> QED
    BY <2>1
<1>2. /\ Text(s) \in Seq(Bytes) /\ Len(Text(s)) = l
      /\ \A p \in 1..l : Text(s)[p] = s[p]
  BY TextOfBuffer
<1>3. \A p \in 1..Len(s) : hay[p] = s[p]
  <2>1. \A p \in 1..Len(s) + Len(behind) :
           hay[p] = IF p <= Len(s) THEN s[p] ELSE behind[p - Len(s)]
    BY <1>1, ConcatProperties
  <2> HIDE DEF hay
  <2> QED
    BY <1>1, <2>1, SMTT(30)
<1>4. i \in 1..l
  OBVIOUS
<1>5. /\ rest \in Seq(Bytes) /\ Len(rest) = l - i + 1
      /\ \A j \in 1..l - i + 1 : rest[j] = s[i + j - 1]
  <2> DEFINE x == Text(s)
  <2>1. x \in Seq(Bytes) /\ Len(x) = l /\ \A p \in i..l : x[p] \in Bytes
    BY <1>1, <1>2, <1>4
  <2> HIDE DEF x, l
  <2>2. /\ SubSeq(x, i, l) \in Seq(Bytes)
        /\ Len(SubSeq(x, i, l)) = IF i <= l THEN l - i + 1 ELSE 0
        /\ \A j \in 1..l - i + 1 : SubSeq(x, i, l)[j] = x[i + j - 1]
    BY <1>1, <1>4, <2>1, SubSeqProperties
  <2>3. \A j \in 1..l - i + 1 : x[i + j - 1] = s[i + j - 1]
    <3> SUFFICES ASSUME NEW j \in 1..l - i + 1 PROVE x[i + j - 1] = s[i + j - 1]
      OBVIOUS
    <3>1. i + j - 1 \in 1..l
      BY <1>1, <1>4
    <3> QED
      BY <1>2, <3>1 DEF x
  <2>4. rest = SubSeq(x, i, l)
    BY DEF x
  <2>5. i <= l
    BY <1>1, <1>4
  <2> HIDE DEF rest
  <2> QED
    BY <2>2, <2>3, <2>4, <2>5
<1> HIDE DEF hay, rest, k, l
<1>6. ASSUME \A j \in 1..k : hay[i + j - 1] = needle[j]
      PROVE  k <= l - i + 1
  <2> SUFFICES ASSUME ~(k <= l - i + 1) PROVE FALSE
    OBVIOUS
  <2> DEFINE j == l - i + 2
  <2>1. j \in 1..k /\ i + j - 1 = l + 1 /\ l + 1 \in 1..Len(s)
    BY <1>1, <1>4
  <2>2. needle[j] \in Chars
    BY <2>1 DEF k
  <2>3. needle[j] = Nul
    BY <1>1, <1>3, <1>6, <2>1
  <2> QED
    BY <2>2, <2>3, NulIsNoChar
<1>7. ASSUME k <= l - i + 1
      PROVE  (\A j \in 1..k : hay[i + j - 1] = needle[j]) <=> \A j \in 1..k : rest[j] = needle[j]
  <2>1. ASSUME NEW j \in 1..k PROVE hay[i + j - 1] = rest[j]
    <3>1. j \in 1..l - i + 1 /\ i + j - 1 \in 1..Len(s)
      BY <1>1, <1>4, <1>7
    <3> QED
      BY <1>3, <1>5, <3>1
  <2> QED
    BY <2>1
<1>8. ASSUME k <= l - i + 1
      PROVE  IsPrefix(needle, rest) <=> \A j \in 1..k : rest[j] = needle[j]
  <2> DEFINE front == SubSeq(rest, 1, k)
  <2>1. needle \in Seq(Bytes)
    BY DEF Bytes
  <2>2. \A j \in 1..k : rest[j] \in Bytes
    BY <1>1, <1>4, <1>5, <1>8
  <2>3. front \in Seq(Bytes) /\ Len(front) = k /\ \A j \in 1..k : front[j] = rest[j]
    <3>1. /\ front \in Seq(Bytes)
          /\ Len(front) = IF 1 <= k THEN k - 1 + 1 ELSE 0
          /\ \A j \in 1..k - 1 + 1 : front[j] = rest[1 + j - 1]
      BY <1>1, <2>2, SubSeqProperties
    <3> HIDE DEF front
    <3> QED
      BY <1>1, <3>1
  <2>4. SubSeq(needle, 1, k) = needle
    BY SubSeqFull DEF k
  <2>5. IsPrefix(needle, rest) <=> needle = front
    BY <1>1, <1>4, <1>5, <1>8, <2>4 DEF IsPrefix, k
  <2> HIDE DEF front
  <2>6. needle = front <=> \A j \in 1..k : front[j] = needle[j]
    <3>1. ASSUME \A j \in 1..k : front[j] = needle[j] PROVE front = needle
      <4>1. Len(front) = Len(needle) /\ \A j \in 1..Len(front) : front[j] = needle[j]
        BY <2>3, <3>1 DEF k
      <4> QED
        BY <2>1, <2>3, <4>1, SeqEqual
    <3> QED
      BY <3>1
  <2> QED
    BY <2>3, <2>5, <2>6
<1>9. IsPrefix(needle, rest) => k <= l - i + 1
  BY <1>5 DEF IsPrefix, k
<1>10. (\A j \in 1..k : hay[i + j - 1] = needle[j]) <=> IsPrefix(needle, rest)
  BY <1>6, <1>7, <1>8, <1>9
<1> QED
  BY <1>2, <1>10 DEF hay, rest, k, l

\* strstr() stops at the Nul of its text.
LEMMA StrstrFinds ==
    ASSUME NEW s, IsBuffer(s), NEW needle \in Seq(Chars), NEW behind \in Seq(Bytes)
    PROVE  Strstr(s \o behind, needle) =
               FirstOf({i \in 1..Len(Text(s)) :
                            IsPrefix(needle, SubSeq(Text(s), i, Len(Text(s))))})
<1> DEFINE l == Length(s)
           hay == s \o behind
<1>1. /\ s \in Seq(Bytes) /\ Len(s) \in Nat /\ Len(behind) \in Nat
      /\ l \in 0..Len(s) - 1 /\ s[l + 1] = Nul /\ \A i \in 1..l : s[i] # Nul
  BY LengthOfBuffer DEF IsBuffer
<1>2. Len(Text(s)) = l
  BY TextOfBuffer
<1>3. /\ Len(hay) = Len(s) + Len(behind)
      /\ \A p \in 1..Len(s) + Len(behind) :
            hay[p] = IF p <= Len(s) THEN s[p] ELSE behind[p - Len(s)]
  BY <1>1, ConcatProperties
<1>4. Length(hay) = l
  <2> HIDE DEF hay, l
  <2>1. l \in Nat /\ Len(hay) \in Nat /\ l < Len(hay) /\ l + 1 \in 1..Len(s)
    BY <1>1, <1>3
  <2>2. hay[l + 1] = Nul /\ \A i \in 1..l : hay[i] # Nul
    BY <1>1, <1>3, <2>1, SMTT(30)
  <2> QED
    BY <2>1, <2>2, LengthIs
<1> DEFINE I == {i \in 1..l : \A j \in 1..Len(needle) : hay[i + j - 1] = needle[j]}
           J == {i \in 1..l : IsPrefix(needle, SubSeq(Text(s), i, Len(Text(s))))}
<1>5. I = J
  <2>1. ASSUME NEW i \in 1..l
        PROVE  (\A j \in 1..Len(needle) : hay[i + j - 1] = needle[j])
                   <=> IsPrefix(needle, SubSeq(Text(s), i, Len(Text(s))))
    BY NeedleIsPrefix
  <2> HIDE DEF l, hay
  <2> QED
    BY <2>1
<1>6. Strstr(hay, needle) = FirstOf(I)
  BY <1>4 DEF Strstr
<1> QED
  BY <1>2, <1>5, <1>6

\* Strings that read the same are equal, and a needle is found where it first
\* is in the text, whatever is behind the Nul of a buffer.
THEOREM AnswersDependOnText == Spec => []ReadsAsText
<1>1. ASSUME IInv PROVE ReadsAsText
  <2>1. ASSUME NEW n \in Names, data[n] # NoBlock, ~LetGo(n) PROVE IsBuffer(Buffer(n))
    BY <1>1, <2>1, HasBuffer
  <2>2. ComparesTexts
    <3> SUFFICES ASSUME NEW n \in Names, data[n] # NoBlock, ~LetGo(n)
                 PROVE  /\ \A m \in Names : data[m] # NoBlock /\ ~LetGo(m) =>
                             (Equal(Buffer(n), Buffer(m)) <=> Text(Buffer(n)) = Text(Buffer(m)))
                        /\ \A k \in 0..MaxCapacity : \A raw \in Buffers(k) :
                             EqualRaw(Buffer(n), raw) <=> Text(Buffer(n)) = Text(raw)
      BY DEF ComparesTexts
    <3> QED
      BY <2>1, BuffersAreBuffers, EqualIsSameText, EqualRawIsSameText
  <2>3. FindsFirst
    <3> SUFFICES ASSUME NEW n \in Names, data[n] # NoBlock, ~LetGo(n), NEW k \in 0..MaxCapacity,
                        NEW needle \in [1..k -> Chars], NEW behind \in [1..k -> Chars]
                 PROVE  Strstr(Buffer(n) \o behind, needle) =
                            FirstOf({i \in 1..Len(Text(Buffer(n))) :
                               IsPrefix(needle, SubSeq(Text(Buffer(n)), i, Len(Text(Buffer(n)))))})
      BY DEF FindsFirst
    <3>1. needle \in Seq(Chars) /\ behind \in Seq(Bytes)
      BY CapacityIsNatural DEF Bytes
    <3> QED
      BY <2>1, <3>1, StrstrFinds
  <2> QED
    BY <2>2, <2>3 DEF ReadsAsText
<1> QED
  BY <1>1, Invariant, PTL

-----------------------------------------------------------------------------
(* Strings are independent texts.                                           *)

\* The block that a String holds for who looks at it: that of the copy that is
\* about to be installed, none while it is assigned to or destroyed.
Held(n) ==
    LET c == call[owner[n]]
    IN  IF c.pc \in ResetPcs /\ c.n = n THEN c.b ELSE data[n]

\* Something refers to it, and it is a buffer.
HeldIsUsed ==
    \A n \in Names :
        /\ Held(n) = NoBlock => Seen(n) = NoText
        /\ Held(n) # NoBlock =>
              /\ Held(n) \in Blocks /\ Seen(n) = block[Held(n)].chars
              /\ block[Held(n)] # NoData /\ block[Held(n)].count >= 1
              /\ IsBuffer(block[Held(n)].chars)
              /\ n \in NameRefs(Held(n)) \/ owner[n] \in CallRefs(Held(n))

\* It does, whenever the invariant holds.
LEMMA WhatIsHeld == IInv => HeldIsUsed
<1> SUFFICES ASSUME IInv, NEW n \in Names
             PROVE  /\ Held(n) = NoBlock => Seen(n) = NoText
                    /\ Held(n) # NoBlock =>
                          /\ Held(n) \in Blocks /\ Seen(n) = block[Held(n)].chars
                          /\ block[Held(n)] # NoData /\ block[Held(n)].count >= 1
                          /\ IsBuffer(block[Held(n)].chars)
                          /\ n \in NameRefs(Held(n)) \/ owner[n] \in CallRefs(Held(n))
  BY DEF HeldIsUsed
<1>1. PICK t \in Threads : t = owner[n]
  BY DEF IInv, Types
<1>2. Types /\ CallIsOwn(t) /\ Counted
  BY DEF IInv, CallsAreOwn
<1>3. LetGo(n) <=> call[t].pc \in LettingGo /\ call[t].n = n
  BY <1>1, LetGoByOwner DEF IInv
<1>4. CASE call[t].pc \in ResetPcs /\ call[t].n = n
  <2>1. Held(n) = call[t].b /\ call[t].b \in Blocks \cup {NoBlock}
    BY <1>1, <1>2, <1>4, CallFields DEF Held
  <2>2. LetGo(n) \/ data[n] # NoBlock
    BY <1>2, <1>3, <1>4 DEF CallIsOwn, ResetPcs
  <2>3. call[t] # Idle
    BY <1>2, <1>4, CallKinds DEF ResetPcs, LettingGo
  <2>4. Seen(n) = IF call[t].next = "install" THEN block[call[t].b].chars ELSE NoText
    BY <1>1, <1>4, <2>2, <2>3 DEF Seen, ResetPcs, LettingGo
  <2>5. CASE call[t].next = "install"
    <3>1. call[t].b \in Blocks
      BY <1>2, <1>4, <2>1, <2>5 DEF CallIsOwn
    <3>2. t \in CallRefs(call[t].b)
      BY <1>2, <1>4, <2>5 DEF CallRefs, CallIsOwn, ResetPcs, LettingGo
    <3>3. block[call[t].b].count >= 1 /\ block[call[t].b] # NoData
      BY <1>2, <3>1, <3>2, Referenced
    <3> QED
      BY <1>1, <1>2, <2>1, <2>4, <2>5, <3>1, <3>2, <3>3, NullIsNoBlock DEF Types
  <2>6. CASE call[t].next # "install"
    BY <1>2, <1>4, <2>1, <2>4, <2>6 DEF CallIsOwn
  <2> QED
    BY <2>5, <2>6
<1>5. CASE ~(call[t].pc \in ResetPcs /\ call[t].n = n)
  <2>1. Held(n) = data[n] /\ data[n] \in Blocks \cup {NoBlock}
    BY <1>1, <1>2, <1>5 DEF Held, Types
  <2>2. ~LetGo(n)
    BY <1>3, <1>5 DEF ResetPcs
  <2>3. Seen(n) = IF data[n] = NoBlock THEN NoText ELSE Buffer(n)
    BY <1>1, <1>5, <2>2 DEF Seen, ResetPcs, LettingGo
  <2>4. ASSUME data[n] # NoBlock
        PROVE  /\ n \in NameRefs(data[n]) /\ IsBuffer(Buffer(n)) /\ data[n] \in Blocks
               /\ block[data[n]] # NoData /\ block[data[n]].count >= 1
    BY <2>2, <2>4, HasBuffer
  <2> QED
    BY <2>1, <2>3, <2>4 DEF Buffer
<1> QED
  BY <1>4, <1>5

\* Also after a step.
LEMMA WhatIsHeldNext == IInv' => HeldIsUsed'
BY WhatIsHeld, PTL

\* A thread's steps are about its own call and its own Strings.
LEMMA StepIsOwn ==
    ASSUME IInv, NEW t \in Threads, Continue(t) \/ \E n \in Names : Begin(t, n), UNCHANGED owner
    PROVE  OwnStep(t)
<1>1. \A x \in Names : owner[x] # t => data'[x] = data[x]
  BY StepsAreOwn
<1>2. \A u \in Threads : u # t => call'[u] = call[u]
  <2>1. call' = call \/ (\E c : Goes(t, c)) \/ (\E l : Goto(t, l))
    <3>1. CASE Continue(t)
      BY <3>1 DEF Continue, Release, Delete, CopyOver, Take, Dropped, Detach, DetachFails, Install,
                  Write, CopyFirst, Join, JoinFails
    <3>2. CASE \E n \in Names : Begin(t, n)
      BY <3>2, ZenonT(30) DEF Begin, Make, Copy, Move, Hand, Assign, MoveAssign, Replace, Destroy, BeginWrite,
                  BeginJoin
    <3> QED
      BY <3>1, <3>2
  <2> QED
    BY <2>1 DEF Goes, Goto, IInv, Types
<1> QED
  BY <1>1, <1>2 DEF OwnStep

\* So only they can come to hold something else.
LEMMA HeldBy ==
    ASSUME IInv, NEW t \in Threads, OwnStep(t), NEW n \in Names
    PROVE  /\ owner[n] # t => Held(n)' = Held(n)
           /\ owner[n] = t =>
                 /\ Held(n) = IF call[t].pc \in ResetPcs /\ call[t].n = n
                              THEN call[t].b ELSE data[n]
                 /\ Held(n)' = IF call'[t].pc \in ResetPcs /\ call'[t].n = n
                               THEN call'[t].b ELSE data'[n]
<1>1. owner' = owner /\ owner[n] \in Threads
  BY DEF OwnStep, IInv, Types
<1> QED
  BY <1>1 DEF Held, OwnStep

\* What is held and not written to is seen as before.
LEMMA SeenKept ==
    ASSUME IInv, IInv', NEW n \in Names, Held(n)' = Held(n),
           Held(n) # NoBlock => block'[Held(n)].chars = block[Held(n)].chars
    PROVE  Seen(n)' = Seen(n)
<1>1. CASE Held(n) = NoBlock
  BY <1>1, WhatIsHeld, WhatIsHeldNext DEF HeldIsUsed
<1>2. CASE Held(n) # NoBlock
  <2>1. PICK b \in Blocks : b = Held(n)
    BY <1>2, WhatIsHeld DEF HeldIsUsed
  <2>2. Seen(n) = block[b].chars
    BY <1>2, <2>1, WhatIsHeld DEF HeldIsUsed
  <2>3. Seen(n)' = block'[b].chars
    BY <1>2, <2>1, WhatIsHeldNext DEF HeldIsUsed
  <2> QED
    BY <1>2, <2>1, <2>2, <2>3
<1> QED
  BY <1>1, <1>2

\* The texts of all Strings.
Shown == [n \in Names |-> Seen(n)]

\* A buffer is one that make() could have made, and no absent text.
LEMMA BufferCanBeMade ==
    ASSUME NEW s, IsBuffer(s)
    PROVE  /\ s # NoText /\ \E k \in 0..MaxCapacity : s \in Promise!Buffers(k)
           /\ Len(s) \in Nat /\ \A i \in 1..Len(s) - 1 : i \in 1..MaxCapacity /\ s[i] \in Chars \cup {Nul}
<1> DEFINE k == Len(s) - 1
           r == SubSeq(s, 1, k)
<1>1. /\ s \in Seq(Bytes) /\ Len(s) \in Nat /\ k \in 0..MaxCapacity /\ k \in Nat /\ Len(s) = k + 1
      /\ s[k + 1] = Nul
  BY CapacityIsNatural DEF IsBuffer
<1> HIDE DEF k
<1>2. r \in Seq(Bytes) /\ Len(r) = k /\ \A i \in 1..k : r[i] = s[i]
  BY <1>1
<1> HIDE DEF r
<1>3. r \in [1..k -> Bytes]
  BY <1>1, <1>2
<1>4. Append(r, Nul) = s
  <2> DEFINE q == Append(r, Nul)
  <2>1. Nul \in Bytes
    BY DEF Bytes
  <2>2. q \in Seq(Bytes) /\ Len(q) = k + 1 /\ \A i \in 1..k + 1 : q[i] = s[i]
    BY <1>1, <1>2, <2>1
  <2> HIDE DEF q
  <2>3. q = s
    BY <1>1, <2>2, SeqEqual
  <2> QED
    BY <2>3 DEF q
<1>5. s \in Buffers(k) /\ s \in Promise!Buffers(k)
  BY <1>3, <1>4 DEF Buffers, Promise!Buffers, Bytes
<1>6. s # NoText
  BY <1>1, <1>5, NoTextIsNoBuffer
<1>7. \A i \in 1..Len(s) - 1 : i \in 1..MaxCapacity /\ s[i] \in Chars \cup {Nul}
  BY <1>1, CapacityIsNatural DEF Bytes
<1> QED
  BY <1>1, <1>5, <1>6, <1>7

\* So a String that holds a block is a text, and else is none.
LEMMA MadeIsHeld ==
    ASSUME IInv, NEW n \in Names
    PROVE  Promise!Made(n) <=> Held(n) # NoBlock
<1>1. Promise!Made(n) <=> Seen(n) # NoText
  BY DEF Promise!Made
<1> QED
  BY <1>1, WhatIsHeld, BufferCanBeMade DEF HeldIsUsed

\* One text is all that changes.
LEMMA OneShown ==
    ASSUME NEW n \in Names, \A m \in Names : m # n => Seen(m)' = Seen(m),
           NEW s, Seen(n)' = s
    PROVE  Shown' = [Shown EXCEPT ![n] = s]
BY DEF Shown

\* While nothing is sure there is a text to write to.
UnsureShows == unsure => \E n \in Names : Promise!Made(n) /\ 1 < Len(Seen(n))

PromiseStep == Promise!Next \/ UNCHANGED Promise!vars

\* A step that shows nothing.
LEMMA SameShown ==
    ASSUME IInv, UnsureShows, unsure' = FALSE, Shown' = Shown
    PROVE  PromiseStep
<1>1. Shown' = Shown
  OBVIOUS
<1>2. CASE unsure = FALSE
  BY <1>1, <1>2 DEF PromiseStep, Promise!vars, Shown
<1>3. CASE unsure # FALSE
  <2>1. PICK n \in Names : Promise!Made(n) /\ 1 < Len(Seen(n))
    BY <1>3 DEF UnsureShows, IInv, Types
  <2>2. Held(n) # NoBlock
    BY <2>1, MadeIsHeld
  <2>3. IsBuffer(Seen(n))
    BY <2>2, WhatIsHeld DEF HeldIsUsed
  <2>4. PICK s : s = Seen(n)
    OBVIOUS
  <2>5. 1 \in 1..MaxCapacity /\ s[1] \in Chars \cup {Nul} /\ s = [s EXCEPT ![1] = s[1]]
    <3>1. 1 \in 1..Len(s) - 1
      BY <2>1, <2>3, <2>4, BufferCanBeMade
    <3>2. s \in Seq(Bytes)
      BY <2>3, <2>4 DEF IsBuffer
    <3> QED
      BY <2>3, <2>4, <3>1, <3>2, BufferCanBeMade
  <2>6. Shown[n] = s /\ Shown' = [Shown EXCEPT ![n] = s]
    BY <1>1, <2>4 DEF Shown
  <2>7. Promise!Write(n, 1, s[1])
    BY <2>1, <2>4, <2>5, <2>6 DEF Promise!Write, Promise!Becomes, Shown
  <2> QED
    BY <2>5, <2>7 DEF PromiseStep, Promise!Next
<1> QED
  BY <1>2, <1>3

\* Everything is held as before, and not written to.
LEMMA QuietSeen ==
    ASSUME IInv, IInv', UnsureShows, unsure' = FALSE, \A n \in Names : Held(n)' = Held(n),
           \A n \in Names : Held(n) # NoBlock => block'[Held(n)].chars = block[Held(n)].chars
    PROVE  PromiseStep
<1>1. Shown' = Shown
  BY SeenKept DEF Shown
<1> QED
  BY <1>1, SameShown

\* A String comes to hold a block that was free.
LEMMA FirstShown ==
    ASSUME IInv, IInv', NEW n \in Names, NEW b \in Blocks, NEW s, IsBuffer(s),
           block[b] = NoData, block' = [block EXCEPT ![b] = [count |-> 1, chars |-> s]],
           unsure' = FALSE, Held(n) = NoBlock, Held(n)' = b,
           \A m \in Names : m # n => Held(m)' = Held(m)
    PROVE  PromiseStep
<1>1. block'[b].chars = s /\ \A a \in Blocks : a # b => block'[a] = block[a]
  BY DEF IInv, Types
<1>2. Seen(n)' = s
  BY <1>1, NullIsNoBlock, WhatIsHeldNext DEF HeldIsUsed
<1>3. ASSUME NEW m \in Names, m # n PROVE Seen(m)' = Seen(m)
  <2>1. Held(m) # NoBlock => Held(m) \in Blocks /\ Held(m) # b
    BY WhatIsHeld DEF HeldIsUsed
  <2> QED
    BY <1>1, <1>3, <2>1, SeenKept
<1>4. Shown' = [Shown EXCEPT ![n] = s]
  BY <1>2, <1>3, OneShown
<1>5. PICK k \in 0..MaxCapacity : s \in Promise!Buffers(k)
  BY BufferCanBeMade
<1>6. Promise!Make(n)
  BY <1>4, <1>5, MadeIsHeld DEF Promise!Make, Promise!Becomes, Shown
<1> QED
  BY <1>6 DEF PromiseStep, Promise!Next

\* What the steps that write to no buffer keep.
SameChars == \A b \in Blocks : block'[b].chars = block[b].chars

\* A String comes to hold what another holds.
LEMMA CopyShown ==
    ASSUME IInv, IInv', NEW n \in Names, NEW m \in Names, SameChars, unsure' = FALSE,
           Held(n) = NoBlock, Held(m) # NoBlock, Held(n)' = Held(m),
           \A x \in Names : x # n => Held(x)' = Held(x)
    PROVE  PromiseStep
<1>1. PICK b \in Blocks : b = Held(m)
  BY WhatIsHeld DEF HeldIsUsed
<1>2. Seen(n)' = block'[b].chars /\ Seen(m) = block[b].chars
  BY <1>1, NullIsNoBlock, WhatIsHeld, WhatIsHeldNext DEF HeldIsUsed
<1>3. ASSUME NEW x \in Names, x # n PROVE Seen(x)' = Seen(x)
  <2>1. Held(x) # NoBlock => Held(x) \in Blocks
    BY WhatIsHeld DEF HeldIsUsed
  <2> QED
    BY <1>3, <2>1, SeenKept DEF SameChars
<1>4. Seen(n)' = Seen(m)
  BY <1>2 DEF SameChars
<1>5. PICK s : s = Seen(m)
  OBVIOUS
<1>6. Shown' = [Shown EXCEPT ![n] = s] /\ Shown[m] = s
  BY <1>3, <1>4, <1>5, OneShown DEF Shown
<1>7. Promise!Copy(n, m)
  BY <1>6, MadeIsHeld DEF Promise!Copy, Promise!Becomes, Shown
<1> QED
  BY <1>7 DEF PromiseStep, Promise!Next

\* A String comes to hold what another held, if it held anything.
LEMMA MoveShown ==
    ASSUME IInv, IInv', UnsureShows, NEW n \in Names, NEW m \in Names, n # m, SameChars,
           unsure' = FALSE, Held(n) = NoBlock, Held(n)' = Held(m), Held(m)' = NoBlock,
           \A x \in Names : x \notin {n, m} => Held(x)' = Held(x)
    PROVE  PromiseStep
<1>1. \A x \in Names : Held(x) # NoBlock => Held(x) \in Blocks
  BY WhatIsHeld DEF HeldIsUsed
<1>2. CASE Held(m) = NoBlock
  <2>1. \A x \in Names : Held(x)' = Held(x)
    BY <1>2
  <2> QED
    BY <1>1, <2>1, QuietSeen DEF SameChars
<1>3. CASE Held(m) # NoBlock
  <2>1. PICK b \in Blocks : b = Held(m)
    BY <1>1, <1>3
  <2>2. Seen(n)' = block'[b].chars /\ Seen(m) = block[b].chars /\ Seen(m)' = NoText
    BY <2>1, NullIsNoBlock, WhatIsHeld, WhatIsHeldNext DEF HeldIsUsed
  <2>3. \A x \in Names : x \notin {n, m} => Seen(x)' = Seen(x)
    BY <1>1, SeenKept DEF SameChars
  <2>4. Seen(n)' = Seen(m)
    BY <2>2 DEF SameChars
  <2>5. Shown' = [Shown EXCEPT ![n] = Shown[m], ![m] = NoText]
    <3>1. PICK s : s = Seen(m)
      OBVIOUS
    <3>2. Shown[m] = s /\ Shown' = [Shown EXCEPT ![n] = s, ![m] = NoText]
      BY <2>2, <2>3, <2>4, <3>1 DEF Shown
    <3> QED
      BY <3>2
  <2>6. Promise!Move(n, m)
    BY <1>3, <2>5, MadeIsHeld DEF Promise!Move, Shown
  <2> QED
    BY <2>6 DEF PromiseStep, Promise!Next
<1> QED
  BY <1>2, <1>3

\* A String holds nothing any more.
LEMMA DestroyShown ==
    ASSUME IInv, IInv', NEW n \in Names, SameChars, unsure' = FALSE,
           Held(n) # NoBlock, Held(n)' = NoBlock, \A x \in Names : x # n => Held(x)' = Held(x)
    PROVE  PromiseStep
<1>1. \A x \in Names : Held(x) # NoBlock => Held(x) \in Blocks
  BY WhatIsHeld DEF HeldIsUsed
<1>2. \A x \in Names : x # n => Seen(x)' = Seen(x)
  BY <1>1, SeenKept DEF SameChars
<1>3. Seen(n)' = NoText
  BY WhatIsHeldNext DEF HeldIsUsed
<1>4. Shown' = [Shown EXCEPT ![n] = NoText]
  BY <1>2, <1>3, OneShown
<1>5. Promise!Destroy(n)
  BY <1>4, MadeIsHeld DEF Promise!Destroy, Promise!Becomes, Shown
<1> QED
  BY <1>5 DEF PromiseStep, Promise!Next

\* Outside of a reset a thread's Strings hold what they refer to.
LEMMA HeldIsData ==
    ASSUME IInv, NEW t \in Threads, call[t].pc \notin ResetPcs, NEW n \in Names, owner[n] = t
    PROVE  Held(n) = data[n]
BY DEF Held

\* A counter is counted up or down.
LEMMA CountsKeepChars ==
    ASSUME IInv, NEW b \in Blocks, NEW k, block' = [block EXCEPT ![b].count = k]
    PROVE  SameChars
<1>1. \A a \in Blocks : block[a] \in [count : Nat, chars : Seq(Bytes)]
  BY DEF IInv, Types
<1>2. block'[b] = [block[b] EXCEPT !.count = k]
  BY DEF IInv, Types
<1>3. block'[b].chars = block[b].chars
  BY <1>1, <1>2
<1>4. \A a \in Blocks : a # b => block'[a] = block[a]
  BY DEF IInv, Types
<1> QED
  BY <1>3, <1>4 DEF SameChars

\* The steps before a String is let go of, and those that do not touch blocks.
LEMMA LabelStep ==
    ASSUME IInv, IInv', UnsureShows, NEW t \in Threads,
           NEW k \in Names, NEW n \in Names, NEW m \in Names,
           \/ BeginWrite(t, n) \/ DetachFails(t)
           \/ BeginJoin(t, k, n, m) \/ CopyFirst(t) \/ JoinsAstray(t) \/ JoinFails(t),
           OwnStep(t)
    PROVE  PromiseStep
<1>1. unsure' = FALSE /\ UNCHANGED <<owner, data, block>>
  BY DEF BeginWrite, DetachFails, BeginJoin, CopyFirst, JoinsAstray, JoinFails
<1>2. call[t].pc \notin ResetPcs
  <2>1. call[t] = Idle \/ call[t].pc \in {"detach", "join", "second"}
    BY DEF BeginWrite, DetachFails, BeginJoin, CopyFirst, JoinsAstray, JoinFails,
           Uses
  <2> QED
    BY <2>1, IdleCall DEF IInv, ResetPcs, LettingGo
<1>3. call'[t].pc \notin ResetPcs
  <2>1. \E c : Goes(t, c) /\ c.pc \in {"idle", "write", "detach", "join", "second", "astray"}
    <3>1. CASE BeginWrite(t, n)
      BY <3>1 DEF BeginWrite, Writes, Detaches
    <3>2. CASE DetachFails(t)
      BY <3>2 DEF DetachFails, Writes
    <3>3. CASE JoinFails(t)
      BY <3>3 DEF JoinFails, Idle
    <3>4. CASE BeginJoin(t, k, n, m)
      BY <3>4 DEF BeginJoin
    <3>5. CASE CopyFirst(t) \/ JoinsAstray(t)
      <4> DEFINE c == [call[t] EXCEPT !.pc = "second", !.first = Text(Buffer(call[t].n))]
      <4>1. Goes(t, Astray) \/ (call[t].pc = "join" /\ Goes(t, c))
        BY <3>5 DEF CopyFirst, JoinsAstray
      <4>2. call[t].pc = "join" => c.pc = "second"
        BY CallKinds DEF IInv, JoinCalls
      <4>3. Astray.pc = "astray"
        BY NewCalls
      <4> HIDE DEF c
      <4> QED
        BY <4>1, <4>2, <4>3
    <3> QED
      BY <3>1, <3>2, <3>3, <3>4, <3>5
  <2>2. call'[t].pc \in {"idle", "write", "detach", "join", "second", "astray"}
    BY <2>1 DEF Goes, IInv, Types
  <2> QED
    BY <2>2 DEF ResetPcs, LettingGo
<1>4. \A x \in Names : Held(x)' = Held(x)
  BY <1>1, <1>2, <1>3, HeldBy
<1> QED
  BY <1>1, <1>4, QuietSeen

\* make() makes.
LEMMA MakeShown ==
    ASSUME IInv, IInv', NEW t \in Threads, NEW n \in Names, Make(t, n), OwnStep(t)
    PROVE  PromiseStep
<1>1. PICK b \in Blocks, k \in 0..MaxCapacity : \E s \in Buffers(k) :
         /\ block[b] = NoData
         /\ block' = [block EXCEPT ![b] = [count |-> 1, chars |-> s]]
         /\ data' = [data EXCEPT ![n] = b]
  BY DEF Make
<1>2. PICK s \in Buffers(k) :
         /\ block[b] = NoData
         /\ block' = [block EXCEPT ![b] = [count |-> 1, chars |-> s]]
         /\ data' = [data EXCEPT ![n] = b]
  BY <1>1
<1>3. /\ owner[n] = t /\ call[t] = Idle /\ data[n] = NoBlock /\ call' = call /\ unsure' = FALSE
      /\ call[t].pc \notin ResetPcs /\ IsBuffer(s)
  BY IdleCall, BuffersAreBuffers DEF Make, Uses, IInv
<1>4. data'[n] = b /\ \A x \in Names : x # n => data'[x] = data[x]
  BY <1>2 DEF IInv, Types
<1>5. /\ Held(n) = NoBlock /\ Held(n)' = b
      /\ \A x \in Names : x # n => Held(x)' = Held(x)
  BY <1>3, <1>4, HeldBy
<1> QED
  BY <1>2, <1>3, <1>5, FirstShown

\* The copy constructor copies, the move constructor moves.
LEMMA CopyOrMoveShown ==
    ASSUME IInv, IInv', UnsureShows, NEW t \in Threads, NEW n \in Names, NEW m \in Names,
           Copy(t, n, m) \/ Move(t, n, m), OwnStep(t)
    PROVE  PromiseStep
<1>1. /\ owner[n] = t /\ owner[m] = t /\ call[t] = Idle /\ data[n] = NoBlock /\ call' = call
      /\ unsure' = FALSE /\ call[t].pc \notin ResetPcs
  BY IdleCall DEF Copy, Move, Uses, IInv
<1>2. \A x \in Names : owner[x] # t => Held(x)' = Held(x)
  BY HeldBy
<1>3. \A x \in Names : owner[x] = t => Held(x) = data[x] /\ Held(x)' = data'[x]
  BY <1>1, HeldBy
<1>4. CASE Copy(t, n, m)
  <2>1. PICK b \in Blocks : b = data[m]
    BY <1>4 DEF Copy, IInv, Types
  <2>2. /\ n # m /\ data' = [data EXCEPT ![n] = b] /\ block' = [block EXCEPT ![b].count = @ + 1]
    BY <1>4, <2>1, NullIsNoBlock DEF Copy
  <2>3. SameChars
    BY <2>2, CountsKeepChars
  <2>4. data'[n] = b /\ \A x \in Names : x # n => data'[x] = data[x]
    BY <2>2 DEF IInv, Types
  <2>5. /\ Held(n) = NoBlock /\ Held(m) # NoBlock /\ Held(n)' = Held(m)
        /\ \A x \in Names : x # n => Held(x)' = Held(x)
    BY <1>1, <1>2, <1>3, <2>1, <2>4, NullIsNoBlock
  <2> QED
    BY <1>1, <2>3, <2>5, CopyShown
<1>5. CASE Move(t, n, m)
  <2>1. /\ n # m /\ data' = [data EXCEPT ![n] = data[m], ![m] = NoBlock] /\ block' = block
    BY <1>5 DEF Move
  <2>2. /\ data'[n] = data[m] /\ data'[m] = NoBlock
        /\ \A x \in Names : x \notin {n, m} => data'[x] = data[x]
    BY <2>1 DEF IInv, Types
  <2>3. /\ Held(n) = NoBlock /\ Held(n)' = Held(m) /\ Held(m)' = NoBlock
        /\ \A x \in Names : x \notin {n, m} => Held(x)' = Held(x)
    BY <1>1, <1>2, <1>3, <2>2
  <2> QED
    BY <1>1, <2>1, <2>3, MoveShown DEF SameChars
<1> QED
  BY <1>4, <1>5

\* A String that is handed over is seen as before.
LEMMA HandShown ==
    ASSUME IInv, IInv', UnsureShows, NEW t \in Threads, NEW n \in Names, NEW u \in Threads,
           Hand(t, n, u)
    PROVE  PromiseStep
<1>1. /\ owner[n] = t /\ call[t] = Idle /\ owner' = [owner EXCEPT ![n] = u]
      /\ unsure' = FALSE /\ UNCHANGED <<data, block, call>> /\ call[t].pc \notin ResetPcs
  BY IdleCall DEF Hand, Uses, IInv
<1>2. \A x \in Names : x # n => owner'[x] = owner[x]
  BY <1>1 DEF IInv, Types
<1>3. owner'[n] = u
  BY <1>1 DEF IInv, Types
<1>4. call[u].pc \in ResetPcs => call[u].n # n
  BY <1>1 DEF IInv, CallsAreOwn, CallIsOwn
<1>5. \A x \in Names : Held(x)' = Held(x)
  BY <1>1, <1>2, <1>3, <1>4 DEF Held
<1> QED
  BY <1>1, <1>5, QuietSeen

\* An assignment begins by destroying.
LEMMA ResetShown ==
    ASSUME IInv, IInv', NEW t \in Threads, NEW n \in Names, NEW m \in Names,
           Assign(t, n, m) \/ MoveAssign(t, n, m) \/ Destroy(t, n), OwnStep(t)
    PROVE  PromiseStep
<1>1. PICK next \in {"copy", "take", "drop"}, k \in Names :
        /\ owner[n] = t /\ data[n] # NoBlock /\ call[t] = Idle
        /\ Goes(t, Resets(next, n, k, NoBlock))
        /\ unsure' = FALSE /\ UNCHANGED <<data, block>>
  BY DEF Assign, MoveAssign, Destroy, Uses
<1>2. call[t].pc \notin ResetPcs
  BY <1>1, IdleCall DEF IInv
<1>3. PICK c \in Calls : /\ c.pc = "release" /\ c.n = n /\ c.b = NoBlock /\ Goes(t, c)
  BY <1>1, NewCalls
<1>4. call'[t] = c /\ c.pc \in ResetPcs
  BY <1>3, GoesKeeps DEF IInv, ResetPcs
<1>5. /\ Held(n) # NoBlock /\ Held(n)' = NoBlock
      /\ \A x \in Names : x # n => Held(x)' = Held(x)
  BY <1>1, <1>2, <1>3, <1>4, HeldBy
<1> QED
  BY <1>1, <1>5, DestroyShown DEF SameChars

\* What is released and deleted is held by nobody.
LEMMA ReleaseOrDeleteShown ==
    ASSUME IInv, IInv', UnsureShows, NEW t \in Threads, Release(t) \/ Delete(t), OwnStep(t)
    PROVE  PromiseStep
<1>1. /\ call[t].pc \in {"release", "delete"} /\ unsure' = FALSE /\ Types /\ CallIsOwn(t)
  BY DEF Release, Delete, IInv, CallsAreOwn
<1>2. call[t].pc \in ResetPcs
  BY <1>1 DEF ResetPcs, LettingGo
<1>3. PICK n \in Names, next \in {"copy", "take", "drop", "install"} :
         n = call[t].n /\ next = call[t].next
  BY <1>1, <1>2, CallFields
<1>4. PICK b \in Blocks : b = data[n] /\ owner[n] = t
  BY <1>1, <1>2, <1>3 DEF CallIsOwn, Types
<1>5. PICK l \in {next, "delete"} : Goto(t, l)
  BY <1>3 DEF Release, Delete
<1>6. l \in ResetPcs
  BY DEF ResetPcs, LettingGo
<1>7. call'[t].pc = l /\ call'[t].n = n /\ call'[t].b = call[t].b
  BY <1>1, <1>2, <1>3, <1>5, <1>6, GotoKeeps
<1>8. \A x \in Names : x # n => data'[x] = data[x]
  BY <1>1, <1>3 DEF Release, Delete, Types
<1>9. \A x \in Names : Held(x)' = Held(x)
  BY <1>2, <1>3, <1>4, <1>6, <1>7, <1>8, HeldBy
<1>10. ASSUME NEW x \in Names, Held(x) # NoBlock
       PROVE  block'[Held(x)].chars = block[Held(x)].chars
  <2>1. Held(x) \in Blocks /\ block[Held(x)].count >= 1
    BY <1>10, WhatIsHeld DEF HeldIsUsed
  <2>2. CASE Release(t)
    <3>1. block' = [block EXCEPT ![b].count = block[b].count - 1]
      BY <1>3, <1>4, <2>2 DEF Release
    <3>2. SameChars
      BY <3>1, CountsKeepChars
    <3> QED
      BY <2>1, <3>2 DEF SameChars
  <2>3. CASE Delete(t)
    <3>1. block' = [block EXCEPT ![b] = NoData] /\ call[t].pc = "delete"
      BY <1>3, <1>4, <2>3 DEF Delete
    <3>2. block[b].count = 0
      BY <1>3, <1>4, <3>1 DEF IInv, DeletersAlone, Deletes
    <3>3. Held(x) # b
      BY <2>1, <3>2
    <3> QED
      BY <1>1, <2>1, <3>1, <3>3 DEF Types
  <2> QED
    BY <2>2, <2>3
<1> QED
  BY <1>1, <1>9, <1>10, QuietSeen

\* An assignment ends by copying or moving, a destruction is done.
LEMMA ResetEndShown ==
    ASSUME IInv, IInv', UnsureShows, NEW t \in Threads,
           CopyOver(t) \/ Take(t) \/ Dropped(t), OwnStep(t)
    PROVE  PromiseStep
<1>1. /\ call[t].pc \in {"copy", "take", "drop"} /\ unsure' = FALSE /\ Types /\ CallIsOwn(t)
      /\ Goes(t, Idle)
  BY DEF CopyOver, Take, Dropped, IInv, CallsAreOwn
<1>2. call[t].pc \in ResetPcs
  BY <1>1 DEF ResetPcs, LettingGo
<1>3. PICK n \in Names, m \in Names : n = call[t].n /\ m = call[t].m
  BY <1>1, <1>2, CallFields
<1>4. /\ owner[n] = t /\ owner[m] = t /\ call[t].b = NoBlock
      /\ call[t].pc \in {"copy", "take"} => n # m
      /\ call[t].pc = "copy" => data[m] # NoBlock
  BY <1>1, <1>2, <1>3 DEF CallIsOwn
<1>5. call'[t].pc \notin ResetPcs
  <2>1. call'[t] = Idle /\ Idle.pc = "idle"
    BY <1>1, GoesKeeps, NewCalls
  <2> QED
    BY <2>1 DEF ResetPcs, LettingGo
<1>6. \A x \in Names : owner[x] # t => Held(x)' = Held(x)
  BY HeldBy
<1>7. \A x \in Names : owner[x] = t =>
         Held(x) = (IF x = n THEN NoBlock ELSE data[x]) /\ Held(x)' = data'[x]
  BY <1>2, <1>3, <1>4, <1>5, HeldBy
<1>8. CASE CopyOver(t)
  <2>1. call[t].pc = "copy"
    BY <1>8 DEF CopyOver
  <2>2. PICK b \in Blocks : b = data[m]
    BY <1>1, <1>4, <2>1 DEF Types
  <2>3. data' = [data EXCEPT ![n] = b] /\ block' = [block EXCEPT ![b].count = @ + 1]
    BY <1>3, <1>8, <2>2 DEF CopyOver
  <2>4. SameChars
    BY <2>3, CountsKeepChars
  <2>5. data'[n] = b /\ \A x \in Names : x # n => data'[x] = data[x]
    BY <1>1, <2>3 DEF Types
  <2>6. /\ Held(n) = NoBlock /\ Held(m) # NoBlock /\ Held(n)' = Held(m)
        /\ \A x \in Names : x # n => Held(x)' = Held(x)
    BY <1>4, <1>6, <1>7, <2>1, <2>2, <2>5, NullIsNoBlock
  <2> QED
    BY <1>1, <2>4, <2>6, CopyShown
<1>9. CASE Take(t)
  <2>1. /\ n # m /\ data' = [data EXCEPT ![n] = data[m], ![m] = NoBlock] /\ block' = block
    BY <1>3, <1>4, <1>9 DEF Take
  <2>2. /\ data'[n] = data[m] /\ data'[m] = NoBlock
        /\ \A x \in Names : x \notin {n, m} => data'[x] = data[x]
    BY <1>1, <2>1 DEF Types
  <2>3. /\ Held(n) = NoBlock /\ Held(n)' = Held(m) /\ Held(m)' = NoBlock
        /\ \A x \in Names : x \notin {n, m} => Held(x)' = Held(x)
    BY <1>4, <1>6, <1>7, <2>1, <2>2, ZenonT(60)
  <2> QED
    BY <1>1, <2>1, <2>3, MoveShown DEF SameChars
<1>10. CASE Dropped(t)
  <2>1. data' = [data EXCEPT ![n] = NoBlock] /\ block' = block
    BY <1>3, <1>10 DEF Dropped
  <2>2. data'[n] = NoBlock /\ \A x \in Names : x # n => data'[x] = data[x]
    BY <1>1, <2>1 DEF Types
  <2>3. \A x \in Names : Held(x)' = Held(x)
    BY <1>4, <1>6, <1>7, <2>2
  <2> QED
    BY <1>1, <2>1, <2>3, QuietSeen
<1> QED
  BY <1>8, <1>9, <1>10

\* c_str() copies, and installs the copy: its String reads as before.
LEMMA DetachShown ==
    ASSUME IInv, IInv', UnsureShows, NEW t \in Threads, Detach(t), OwnStep(t)
    PROVE  PromiseStep
<1>1. /\ unsure' = FALSE /\ Types /\ CallIsOwn(t)
      /\ call[t].pc = "detach" /\ call[t].pc \notin ResetPcs
  BY DEF Detach, IInv, CallsAreOwn, ResetPcs, LettingGo
<1>2. PICK n \in Names : n = call[t].n
  BY <1>1, CallFields
<1>3. owner[n] = t /\ data[n] # NoBlock /\ Held(n) = data[n]
  BY <1>1, <1>2, HeldIsData DEF CallIsOwn
<1>4. PICK s : s = Buffer(n)
  OBVIOUS
<1>5. Seen(n) = s
  BY <1>3, <1>4, WhatIsHeld DEF HeldIsUsed, Buffer
<1>6. PICK b \in Blocks :
        /\ block[b] = NoData
        /\ block' = [block EXCEPT ![b] = [count |-> 1, chars |-> s]]
        /\ Goes(t, Resets("install", n, n, b)) /\ data' = data
  BY <1>2, <1>4 DEF Detach
<1>7. PICK c \in Calls : c.pc = "release" /\ c.n = n /\ c.b = b /\ Goes(t, c)
  BY <1>6, NewCalls
<1>8. call'[t] = c /\ c.pc \in ResetPcs
  BY <1>1, <1>7, GoesKeeps DEF ResetPcs
<1>9. block'[b].chars = s /\ \A a \in Blocks : a # b => block'[a] = block[a]
  BY <1>1, <1>6 DEF Types
<1>10. Held(n)' = b /\ \A x \in Names : x # n => Held(x)' = Held(x)
  BY <1>1, <1>3, <1>6, <1>7, <1>8, HeldBy
<1>11. Seen(n)' = s
  BY <1>9, <1>10, NullIsNoBlock, WhatIsHeldNext DEF HeldIsUsed
<1>12. ASSUME NEW x \in Names, x # n PROVE Seen(x)' = Seen(x)
  <2>1. Held(x) # NoBlock => Held(x) \in Blocks /\ Held(x) # b
    BY <1>6, WhatIsHeld DEF HeldIsUsed
  <2> QED
    BY <1>9, <1>10, <1>12, <2>1, SeenKept
<1>13. Shown' = Shown
  BY <1>5, <1>11, <1>12 DEF Shown
<1> QED
  BY <1>1, <1>13, SameShown

\* What was held as a copy is held as what the String refers to.
LEMMA InstallShown ==
    ASSUME IInv, IInv', UnsureShows, NEW t \in Threads, Install(t), OwnStep(t)
    PROVE  PromiseStep
<1>1. /\ unsure' = FALSE /\ block' = block /\ Types /\ CallIsOwn(t)
      /\ call[t].pc = "install" /\ call[t].pc \in ResetPcs
  BY DEF Install, IInv, CallsAreOwn, ResetPcs, LettingGo
<1>2. PICK n \in Names : n = call[t].n
  BY <1>1, CallFields
<1>3. /\ owner[n] = t /\ data' = [data EXCEPT ![n] = call[t].b] /\ Goes(t, Writes(n, TRUE))
  BY <1>1, <1>2 DEF CallIsOwn, Install
<1>4. data'[n] = call[t].b /\ \A x \in Names : x # n => data'[x] = data[x]
  BY <1>1, <1>3 DEF Types
<1>5. call'[t].pc \notin ResetPcs
  <2>1. PICK c \in Calls : c.pc = "write" /\ Goes(t, c)
    BY <1>3, NewCalls, ZenonT(30)
  <2>2. call'[t] = c
    BY <1>1, <2>1, GoesKeeps
  <2> QED
    BY <2>1, <2>2 DEF ResetPcs, LettingGo
<1>6. \A x \in Names : Held(x)' = Held(x)
  BY <1>1, <1>2, <1>3, <1>4, <1>5, HeldBy
<1> QED
  BY <1>1, <1>6, QuietSeen

\* operator+ makes.
LEMMA JoinShown ==
    ASSUME IInv, IInv', NEW t \in Threads, Join(t), ~JoinsAstray(t), OwnStep(t)
    PROVE  PromiseStep
<1>1. /\ unsure' = FALSE /\ Types /\ Goes(t, Idle)
      /\ call[t].pc = "second" /\ call[t].pc \notin ResetPcs
  BY JoinMakes DEF Join, IInv, ResetPcs, LettingGo, MakesJoin
<1>2. PICK n \in Names, m \in Names, k \in Names, size \in 0..MaxCapacity, b \in Blocks :
         \E s : MakesJoin(t, n, m, k, size, b, s)
  BY JoinMakes
<1>3. PICK s : MakesJoin(t, n, m, k, size, b, s)
  BY <1>2
<1>4. /\ owner[k] = t /\ data[k] = NoBlock /\ block[b] = NoData /\ IsBuffer(s)
      /\ block' = [block EXCEPT ![b] = [count |-> 1, chars |-> s]]
      /\ data' = [data EXCEPT ![k] = b]
  BY <1>3 DEF MakesJoin
<1>5. data'[k] = b /\ \A x \in Names : x # k => data'[x] = data[x]
  BY <1>1, <1>4 DEF Types
<1>6. call'[t].pc \notin ResetPcs
  <2>1. call'[t] = Idle /\ Idle.pc = "idle"
    BY <1>1, GoesKeeps, NewCalls
  <2> QED
    BY <2>1 DEF ResetPcs, LettingGo
<1>7. Held(k) = NoBlock /\ Held(k)' = b /\ \A x \in Names : x # k => Held(x)' = Held(x)
  BY <1>1, <1>4, <1>5, <1>6, HeldBy
<1> QED
  BY <1>1, <1>4, <1>7, FirstShown

\* The caller of c_str() writes to its String, and to others that hold the same
\* only where a copy failed.
LEMMA WriteShown ==
    ASSUME IInv, IInv', UnsureShows, NEW t \in Threads, Write(t), OwnStep(t)
    PROVE  PromiseStep /\ UnsureShows'
<1>1. /\ call[t].pc = "write" /\ call[t].pc \notin ResetPcs /\ Goes(t, Idle)
      /\ UNCHANGED <<owner, data>> /\ Types /\ CallIsOwn(t) /\ BlockTypes /\ Counted
      /\ SureIsUnique
  BY DEF Write, IInv, CallsAreOwn, Types, BlockTypes, ResetPcs, LettingGo
<1>2. PICK n \in Names, sure \in BOOLEAN : n = call[t].n /\ sure = call[t].sure
  BY <1>1, CallFields
<1>3. owner[n] = t /\ data[n] # NoBlock /\ Held(n) = data[n]
  BY <1>1, <1>2, HeldIsData DEF CallIsOwn
<1>4. PICK b \in Blocks : b = data[n]
  BY <1>1, <1>3 DEF Types
<1>5. call'[t].pc \notin ResetPcs
  <2>1. call'[t] = Idle /\ Idle.pc = "idle"
    BY <1>1, GoesKeeps, NewCalls
  <2> QED
    BY <2>1 DEF ResetPcs, LettingGo
<1>6. \A x \in Names : Held(x)' = Held(x)
  BY <1>1, <1>5, HeldBy
<1>7. CASE unsure' = FALSE /\ UNCHANGED block
  <2>1. PromiseStep
    BY <1>6, <1>7, QuietSeen
  <2> QED
    BY <1>7, <2>1 DEF UnsureShows
<1>8. ASSUME NEW i \in 1..Capacity(block[b].chars), NEW c \in Bytes,
             block' = [block EXCEPT ![b].chars[i] = c], unsure' = ~sure
      PROVE  PromiseStep /\ UnsureShows'
  <2>1. PICK s, w : s = block[b].chars /\ w = [s EXCEPT ![i] = c]
    OBVIOUS
  <2>2. block[b] # NoData /\ IsBuffer(s) /\ Seen(n) = s
    BY <1>3, <1>4, <2>1, WhatIsHeld DEF HeldIsUsed
  <2>3. block'[b].chars = w /\ \A a \in Blocks : a # b => block'[a] = block[a]
    <3>1. /\ block'[b].chars = [block[b].chars EXCEPT ![i] = c]
          /\ \A a \in Blocks : a # b => block'[a] = block[a]
      BY <1>1, <1>8, <2>2, BlockIsWritten, ZenonT(30)
    <3> QED
      BY <2>1, <3>1
  <2>4. i \in 1..MaxCapacity /\ i < Len(s) /\ 1 < Len(s) /\ IsBuffer(w) /\ Len(w) = Len(s)
    <3>1. i \in 1..Len(s) - 1 /\ Len(s) \in Nat
      BY <2>1, <2>2, BufferCanBeMade DEF Capacity
    <3>2. i \in 1..Capacity(s)
      BY <2>1
    <3> QED
      BY <2>1, <2>2, <3>1, <3>2, BufferCanBeMade, WriteKeepsBuffer
  <2>5. ASSUME NEW x \in Names, Held(x) = b PROVE Seen(x) = s /\ Seen(x)' = w
    BY <1>6, <2>1, <2>3, <2>5, NullIsNoBlock, WhatIsHeld, WhatIsHeldNext DEF HeldIsUsed
  <2>6. ASSUME NEW x \in Names, Held(x) # b PROVE Seen(x)' = Seen(x)
    <3>1. Held(x) # NoBlock => Held(x) \in Blocks
      BY WhatIsHeld DEF HeldIsUsed
    <3> QED
      BY <1>6, <2>3, <2>6, <3>1, SeenKept
  <2>7. Promise!Made(n) /\ Shown[n] = s
    BY <1>3, <2>2, MadeIsHeld DEF Shown
  <2>8. CASE sure = TRUE
    <3>1. ~LetGo(n)
      BY <1>1, <1>3, UsedIsNotLetGo DEF ResetPcs
    <3>2. n \in NameRefs(b) /\ block[b].count = 1
      BY <1>1, <1>2, <1>4, <2>8, <3>1 DEF NameRefs, SureIsUnique
    <3>3. NameRefs(b) = {n} /\ CallRefs(b) = {}
      BY <1>1, <3>2, OnceIsOne
    <3>4. \A x \in Names : x # n => Held(x) # b
      BY <3>3, NullIsNoBlock, WhatIsHeld DEF HeldIsUsed
    <3>5. Shown' = [Shown EXCEPT ![n] = w]
      BY <1>3, <1>4, <2>5, <2>6, <3>4 DEF Shown
    <3>6. Promise!Write(n, i, c)
      BY <1>8, <2>1, <2>4, <2>7, <2>8, <3>5 DEF Promise!Write, Promise!Becomes, Shown
    <3>7. PromiseStep
      BY <2>4, <3>6 DEF PromiseStep, Promise!Next, Bytes
    <3> QED
      BY <1>8, <2>8, <3>7 DEF UnsureShows
  <2>9. CASE sure = FALSE
    <3> DEFINE others == {x \in Names : Held(x) = b}
    <3>1. \A x \in others : Shown[x] = s
      BY <2>5 DEF Shown
    <3>2. Shown' = [x \in Names |-> IF x = n \/ x \in others THEN w ELSE Shown[x]]
      BY <1>3, <1>4, <2>5, <2>6 DEF Shown
    <3>3. others \in SUBSET Names
      OBVIOUS
    <3> HIDE DEF others
    <3>4. Promise!WriteShared(n, others, i, c)
      <4>1. w = [Shown[n] EXCEPT ![i] = c] /\ unsure' = TRUE /\ i < Len(Shown[n])
        BY <1>8, <2>1, <2>4, <2>7, <2>9
      <4>2. \A x \in others : Shown[x] = Shown[n]
        BY <2>7, <3>1
      <4>3. Shown' = [x \in Names |-> IF x = n \/ x \in others THEN [Shown[n] EXCEPT ![i] = c]
                                      ELSE Shown[x]]
        BY <3>2, <4>1
      <4> QED
        BY <2>7, <4>1, <4>2, <4>3 DEF Promise!WriteShared, Shown
    <3>5. PromiseStep
      BY <2>4, <3>3, <3>4 DEF PromiseStep, Promise!Next, Bytes
    <3>6. Seen(n)' = w /\ w # NoText /\ 1 < Len(w)
      BY <1>3, <1>4, <2>4, <2>5, BufferCanBeMade
    <3>7. Promise!Made(n)'
      BY <3>6 DEF Promise!Made
    <3> QED
      BY <3>5, <3>6, <3>7 DEF UnsureShows
  <2> QED
    BY <2>8, <2>9
<1>9. \/ unsure' = FALSE /\ UNCHANGED block
      \/ \E i \in 1..Capacity(block[b].chars), c \in Bytes :
            block' = [block EXCEPT ![b].chars[i] = c] /\ unsure' = ~sure
  BY <1>2, <1>4 DEF Write, Buffer, Bytes
<1> QED
  BY <1>7, <1>8, <1>9

\* Every step of the calls is a step of the texts, or shows nothing.
LEMMA StepsAreShown ==
    ASSUME IInv, IInv', UnsureShows, Next
    PROVE  PromiseStep /\ UnsureShows'
<1>1. ASSUME unsure' = FALSE, PromiseStep PROVE PromiseStep /\ UnsureShows'
  BY <1>1 DEF UnsureShows
<1>2. ASSUME NEW t \in Threads, Continue(t) PROVE PromiseStep /\ UnsureShows'
  <2>1. owner' = owner
    BY <1>2 DEF Continue, Release, Delete, CopyOver, Take, Dropped, Detach, DetachFails, Install,
                Write, CopyFirst, Join, JoinFails
  <2>2. OwnStep(t)
    BY <1>2, <2>1, StepIsOwn
  <2>3. ASSUME ~Write(t) PROVE unsure' = FALSE
    BY <1>2, <2>3 DEF Continue, Release, Delete, CopyOver, Take, Dropped, Detach, DetachFails,
                      Install, CopyFirst, Join, JoinFails
  <2>4. CASE Write(t)
    BY <2>2, <2>4, WriteShown
  <2>5. CASE ~Write(t)
    <3>1. CASE Release(t) \/ Delete(t)
      BY <2>2, <3>1, ReleaseOrDeleteShown, <1>1, <2>3, <2>5
    <3>2. CASE CopyOver(t) \/ Take(t) \/ Dropped(t)
      BY <2>2, <3>2, ResetEndShown, <1>1, <2>3, <2>5
    <3>3. CASE Detach(t) \/ Install(t) \/ (Join(t) /\ ~JoinsAstray(t))
      BY <2>2, <3>3, DetachShown, InstallShown, JoinShown, <1>1, <2>3, <2>5
    <3>4. CASE DetachFails(t) \/ CopyFirst(t) \/ JoinsAstray(t) \/ JoinFails(t)
      <4>1. PICK n \in Names : n = call[t].n
        BY <3>4, CallFields DEF DetachFails, CopyFirst, JoinsAstray, JoinFails, IInv
      <4> QED
        BY <2>2, <3>4, LabelStep, <1>1, <2>3, <2>5
    <3> QED
      BY <1>2, <2>5, <3>1, <3>2, <3>3, <3>4 DEF Continue
  <2> QED
    BY <2>4, <2>5
<1>3. ASSUME NEW t \in Threads, NEW n \in Names, Begin(t, n) PROVE PromiseStep /\ UnsureShows'
  <2>1. unsure' = FALSE
    BY <1>3 DEF Begin, Make, Copy, Move, Hand, Assign, MoveAssign, Replace, Destroy, BeginWrite,
                BeginJoin
  <2>2. ASSUME NEW u \in Threads, Hand(t, n, u) PROVE PromiseStep
    BY <2>2, HandShown
  <2>3. ASSUME ~\E u \in Threads : Hand(t, n, u) PROVE OwnStep(t)
    <3>1. owner' = owner
      BY <1>3, <2>3 DEF Begin, Make, Copy, Move, Assign, MoveAssign, Replace, Destroy, BeginWrite,
                        BeginJoin
    <3> QED
      BY <1>3, <3>1, StepIsOwn
  <2>4. ASSUME ~\E u \in Threads : Hand(t, n, u) PROVE PromiseStep
    <3>1. OwnStep(t)
      BY <2>3, <2>4
    <3>2. CASE Make(t, n)
      BY <3>1, <3>2, MakeShown
    <3>3. ASSUME NEW m \in Names, Copy(t, n, m) \/ Move(t, n, m) PROVE PromiseStep
      BY <3>1, <3>3, CopyOrMoveShown
    <3>4. ASSUME NEW m \in Names, Assign(t, n, m) \/ MoveAssign(t, n, m) \/ Destroy(t, n)
          PROVE  PromiseStep
      BY <3>1, <3>4, ResetShown
    <3>5. ASSUME NEW m \in Names, NEW k \in Names, BeginWrite(t, n) \/ BeginJoin(t, k, n, m)
          PROVE  PromiseStep
      BY <3>1, <3>5, LabelStep
    <3>6. ASSUME NEW m \in Names, Replace(t, n, m) PROVE PromiseStep
      BY <3>3, <3>4, <3>6 DEF Replace
    <3> QED
      BY <1>3, <2>4, <3>2, <3>3, <3>4, <3>5, <3>6 DEF Begin
  <2> QED
    BY <1>1, <2>1, <2>2, <2>4
<1> QED
  BY <1>2, <1>3 DEF Next

\* Strings are independent texts, on all threads: what one of them reads
\* changes with its own calls only, except for a write behind a failed copy.
THEOREM StringsAreTexts == Spec => KeepsPromise
<1>1. Init => Promise!Init /\ UnsureShows
  <2> SUFFICES ASSUME Init PROVE Promise!Init /\ UnsureShows
    OBVIOUS
  <2>1. IInv
    BY Initially
  <2>2. ASSUME NEW n \in Names PROVE Seen(n) = NoText
    <3>1. owner[n] \in Threads /\ call[owner[n]] = Idle /\ data[n] = NoBlock
      BY DEF Init
    <3>2. call[owner[n]].pc \notin ResetPcs
      BY <2>1, <3>1, IdleCall DEF IInv
    <3>3. Held(n) = NoBlock
      BY <3>1, <3>2, HeldIsData, <2>1
    <3> QED
      BY <2>1, <3>3, WhatIsHeld DEF HeldIsUsed
  <2> QED
    BY <2>2 DEF Promise!Init, UnsureShows, Init
<1>2. IInv /\ IInv' /\ UnsureShows /\ [Next]_vars => [Promise!Next]_(Promise!vars) /\ UnsureShows'
  <2> SUFFICES ASSUME IInv, IInv', UnsureShows, [Next]_vars
               PROVE  PromiseStep /\ UnsureShows'
    BY DEF PromiseStep
  <2>1. CASE Next
    BY <2>1, StepsAreShown
  <2>2. CASE UNCHANGED vars
    <3>1. /\ owner' = owner /\ data' = data /\ block' = block /\ call' = call /\ unsure' = unsure
      BY <2>2 DEF vars
    <3>2. \A n \in Names : Held(n)' = Held(n)
      BY <3>1 DEF Held
    <3>3. \A n \in Names : Seen(n)' = Seen(n)
      BY <3>1, <3>2, SeenKept
    <3>4. UNCHANGED Promise!vars
      BY <3>1, <3>3 DEF Promise!vars
    <3>5. UnsureShows'
      BY <3>1, <3>3 DEF UnsureShows, Promise!Made
    <3> QED
      BY <3>4, <3>5 DEF PromiseStep
  <2> QED
    BY <2>1, <2>2
<1> QED
  BY <1>1, <1>2, Invariant, PTL DEF Spec, KeepsPromise, Promise!Spec

=============================================================================
