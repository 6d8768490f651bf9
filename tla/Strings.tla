------------------------------ MODULE Strings ------------------------------
(***************************************************************************)
(* String (dstd/Strings): buffers that copies share through a SharedPtr    *)
(* until one of them is to be written.  A thread uses its own Strings      *)
(* only, but their buffers are shared with those of other threads.         *)
(***************************************************************************)
EXTENDS Integers, Sequences, FiniteSets, SequencesExt

CONSTANTS
    Threads,
    Names,                  \* variables of type String
    Blocks, NoBlock,        \* addresses of shared data, the null pointer
    Chars, Nul,
    NoText,                 \* there is no such String
    MaxCapacity             \* bound: no longer String is made

ASSUME NullIsNoBlock == NoBlock \notin Blocks
ASSUME NulIsNoChar == Nul \notin Chars
ASSUME CapacityIsNatural == MaxCapacity \in Nat
ASSUME FinitelyMany == IsFiniteSet(Names) /\ IsFiniteSet(Threads)

VARIABLES
    owner,      \* the thread that a String belongs to
    data,       \* m_data of each String, null before it is made or when moved from
    block,      \* counter and chars of each block
    call,       \* where each thread is in a call
    unsure,     \* ghost: the last step wrote to what could not be made unique
    shaken      \* ghost: the threads in operator+ of a text that another wrote to

vars == <<owner, data, block, call, unsure, shaken>>

NoData == [count |-> 0, chars |-> <<>>]
Idle == [pc |-> "idle"]
Astray == [pc |-> "astray"]     \* wrote behind the end of a buffer

\* A buffer ends with a Nul; a text may end before.
Buffers(k) == {Append(s, Nul) : s \in [1..k -> Chars \cup {Nul}]}
Capacity(chars) == Len(chars) - 1

ASSUME NoTextIsNoBuffer == \A k \in 0..MaxCapacity : NoText \notin Buffers(k)

\* strlen().
Length(chars) == SelectInSeq(chars, LAMBDA c : c = Nul) - 1

\* The buffer of a String that has one.
Buffer(n) == block[data[n]].chars

\* String n belongs to thread t, which is in no call.
Uses(t, n) == owner[n] = t /\ call[t] = Idle

\* t goes on with the call c.
Goes(t, c) == call' = [call EXCEPT ![t] = c]
Goto(t, label) == call' = [call EXCEPT ![t].pc = label]

Init == /\ owner \in [Names -> Threads]
        /\ data = [n \in Names |-> NoBlock]
        /\ block = [b \in Blocks |-> NoData]
        /\ call = [t \in Threads |-> Idle]
        /\ unsure = FALSE /\ shaken = {}

-----------------------------------------------------------------------------
(* Construction.                                                             *)

\* The three make(): of a text, of bytes, of a capacity.
Make(t, n) ==
    /\ Uses(t, n) /\ data[n] = NoBlock
    /\ \E b \in Blocks, k \in 0..MaxCapacity : \E chars \in Buffers(k) :
         /\ block[b] = NoData
         /\ block' = [block EXCEPT ![b] = [count |-> 1, chars |-> chars]]
         /\ data' = [data EXCEPT ![n] = b]
    /\ unsure' = FALSE /\ UNCHANGED <<owner, call, shaken>>

Copy(t, n, m) ==
    /\ Uses(t, n) /\ Uses(t, m) /\ data[n] = NoBlock /\ data[m] # NoBlock
    /\ block' = [block EXCEPT ![data[m]].count = @ + 1]
    /\ data' = [data EXCEPT ![n] = data[m]]
    /\ unsure' = FALSE /\ UNCHANGED <<owner, call, shaken>>

Move(t, n, m) ==
    /\ Uses(t, n) /\ Uses(t, m) /\ n # m /\ data[n] = NoBlock
    /\ data' = [data EXCEPT ![n] = data[m], ![m] = NoBlock]
    /\ unsure' = FALSE /\ UNCHANGED <<owner, block, call, shaken>>

\* A String is handed to another thread, by means that order the two.
Hand(t, n, u) ==
    /\ Uses(t, n) /\ owner' = [owner EXCEPT ![n] = u]
    /\ unsure' = FALSE /\ UNCHANGED <<data, block, call, shaken>>

-----------------------------------------------------------------------------
(* Assignment and destruction: first reset() lets go of the old block.       *)

\* A call that resets n, and then does what next says with m or with block b.
Resets(next, n, m, b) == [pc |-> "release", next |-> next, n |-> n, m |-> m, b |-> b]

Assign(t, n, m) ==
    /\ Uses(t, n) /\ Uses(t, m) /\ n # m /\ data[n] # NoBlock /\ data[m] # NoBlock
    /\ Goes(t, Resets("copy", n, m, NoBlock))
    /\ unsure' = FALSE /\ UNCHANGED <<owner, data, block, shaken>>

MoveAssign(t, n, m) ==
    /\ Uses(t, n) /\ Uses(t, m) /\ n # m /\ data[n] # NoBlock
    /\ Goes(t, Resets("take", n, m, NoBlock))
    /\ unsure' = FALSE /\ UNCHANGED <<owner, data, block, shaken>>

\* replaceValue(), which a SharedPtr has and String does not use.
Replace(t, n, m) == (Move(t, n, m) \/ MoveAssign(t, n, m)) /\ data[n] # data[m]

Destroy(t, n) ==
    /\ Uses(t, n) /\ data[n] # NoBlock
    /\ Goes(t, Resets("drop", n, n, NoBlock))
    /\ unsure' = FALSE /\ UNCHANGED <<owner, data, block, shaken>>

\* The counter is decremented, and what it was decides.
Release(t) ==
    LET c == call[t]
        left == block[data[c.n]].count - 1
    IN  /\ c.pc = "release"
        /\ block' = [block EXCEPT ![data[c.n]].count = left]
        /\ Goto(t, IF left > 0 THEN c.next ELSE "delete")
        /\ unsure' = FALSE /\ UNCHANGED <<owner, data, shaken>>

\* Buffer and counter are freed.
Delete(t) ==
    LET c == call[t]
    IN  /\ c.pc = "delete"
        /\ block' = [block EXCEPT ![data[c.n]] = NoData]
        /\ data' = [data EXCEPT ![c.n] = NoBlock]
        /\ Goto(t, c.next)
        /\ unsure' = FALSE /\ UNCHANGED <<owner, shaken>>

\* Mutant of CopyOver: the counter is not incremented.
CopyOverUncounted(t) ==
    LET c == call[t]
    IN  /\ c.pc = "copy"
        /\ data' = [data EXCEPT ![c.n] = data[c.m]]
        /\ Goes(t, Idle)
        /\ unsure' = FALSE /\ UNCHANGED <<owner, block, shaken>>

CopyOver(t) ==
    LET c == call[t]
    IN  /\ c.pc = "copy"
        /\ block' = [block EXCEPT ![data[c.m]].count = @ + 1]
        /\ data' = [data EXCEPT ![c.n] = data[c.m]]
        /\ Goes(t, Idle)
        /\ unsure' = FALSE /\ UNCHANGED <<owner, shaken>>

Take(t) ==
    LET c == call[t]
    IN  /\ c.pc = "take"
        /\ data' = [data EXCEPT ![c.n] = data[c.m], ![c.m] = NoBlock]
        /\ Goes(t, Idle)
        /\ unsure' = FALSE /\ UNCHANGED <<owner, block, shaken>>

Dropped(t) ==
    LET c == call[t]
    IN  /\ c.pc = "drop"
        /\ data' = [data EXCEPT ![c.n] = NoBlock]
        /\ Goes(t, Idle)
        /\ unsure' = FALSE /\ UNCHANGED <<owner, block, shaken>>

-----------------------------------------------------------------------------
(* c_str() of a String that is not const: ensureUnique(), and the write that *)
(* follows.                                                                  *)

Writes(n, sure) == [pc |-> "write", n |-> n, sure |-> sure]
Detaches(n) == [pc |-> "detach", n |-> n]

\* Mutant of BeginWrite: two may share.
BeginWriteShared(t, n) ==
    /\ Uses(t, n) /\ data[n] # NoBlock
    /\ Goes(t, IF block[data[n]].count <= 2 THEN Writes(n, TRUE) ELSE Detaches(n))
    /\ unsure' = FALSE /\ UNCHANGED <<owner, data, block, shaken>>

BeginWrite(t, n) ==
    /\ Uses(t, n) /\ data[n] # NoBlock
    /\ Goes(t, IF block[data[n]].count <= 1 THEN Writes(n, TRUE) ELSE Detaches(n))
    /\ unsure' = FALSE /\ UNCHANGED <<owner, data, block, shaken>>

Detach(t) ==
    LET c == call[t]
    IN  /\ c.pc = "detach"
        /\ \E b \in Blocks :
             /\ block[b] = NoData
             /\ block' = [block EXCEPT ![b] = [count |-> 1, chars |-> Buffer(c.n)]]
             /\ Goes(t, Resets("install", c.n, c.n, b))
        /\ unsure' = FALSE /\ UNCHANGED <<owner, data, shaken>>

\* No memory: c_str() ignores it.
DetachFails(t) ==
    /\ call[t].pc = "detach"
    /\ Goes(t, Writes(call[t].n, FALSE))
    /\ unsure' = FALSE /\ UNCHANGED <<owner, data, block, shaken>>

Install(t) ==
    LET c == call[t]
    IN  /\ c.pc = "install"
        /\ data' = [data EXCEPT ![c.n] = c.b]
        /\ Goes(t, Writes(c.n, TRUE))
        /\ unsure' = FALSE /\ UNCHANGED <<owner, block, shaken>>

\* u is joining texts, one of which is in block b.
Joins(u, b) ==
    /\ call[u].pc \in {"join", "second"}
    /\ b \in {data[call[u].n], data[call[u].m]}

\* The caller writes a char, before the last Nul, or none.
Write(t) ==
    LET n == call[t].n
    IN  /\ call[t].pc = "write"
        /\ Goes(t, Idle)
        /\ \/ \E i \in 1..Capacity(Buffer(n)), c \in Chars \cup {Nul} :
                /\ block' = [block EXCEPT ![data[n]].chars[i] = c]
                /\ unsure' = ~call[t].sure
           \/ unsure' = FALSE /\ UNCHANGED block
        /\ shaken' = shaken \cup {u \in Threads : block' # block /\ Joins(u, data[n])}
        /\ UNCHANGED <<owner, data>>

-----------------------------------------------------------------------------
(* Calls that only read.                                                     *)

\* operator+: the lengths are added up.
BeginJoin(t, k, n, m) ==
    LET size == Length(Buffer(n)) + Length(Buffer(m))
    IN  /\ Uses(t, k) /\ Uses(t, n) /\ Uses(t, m)
        /\ data[k] = NoBlock /\ data[n] # NoBlock /\ data[m] # NoBlock
        /\ size <= MaxCapacity
        /\ Goes(t, [pc |-> "join", n |-> n, m |-> m, into |-> k, size |-> size, first |-> <<>>])
        /\ unsure' = FALSE /\ UNCHANGED <<owner, data, block, shaken>>

Text(chars) == SubSeq(chars, 1, Length(chars))

\* Whether memcpy() of part behind k bytes stays in the buffer of size + 1.
Fits(k, part, size) == part = <<>> \/ k + Len(part) <= size + 1

\* The buffer is there; the first text is measured again and copied.
CopyFirst(t) ==
    LET c == call[t]
        first == Text(Buffer(c.n))
    IN  /\ c.pc = "join"
        /\ Goes(t, IF Fits(0, first, c.size) THEN [c EXCEPT !.pc = "second", !.first = first]
                   ELSE Astray)
        /\ unsure' = FALSE /\ UNCHANGED <<owner, data, block, shaken>>

\* chars with those of part behind the first k.
Inserted(chars, k, part) ==
    [i \in DOMAIN chars |-> IF i \in k + 1..k + Len(part) THEN part[i - k] ELSE chars[i]]

\* Mutant of Join: the second text is copied behind a Nul.
JoinNoNul(t) ==
    LET c == call[t]
        offset == Length(Buffer(c.n)) + 1
        second == Text(Buffer(c.m))
    IN  /\ c.pc = "second"
        /\ \/ ~Fits(offset, second, c.size) /\ Goes(t, Astray) /\ UNCHANGED <<data, block>>
           \/ \E b \in Blocks, raw \in Buffers(c.size) :
                /\ Fits(offset, second, c.size) /\ block[b] = NoData
                /\ block' = [block EXCEPT ![b] =
                       [count |-> 1, chars |->
                           [Inserted(Inserted(raw, 0, c.first), offset, second)
                               EXCEPT ![c.size + 1] = Nul]]]
                /\ data' = [data EXCEPT ![c.into] = b]
                /\ Goes(t, Idle)
        /\ unsure' = FALSE /\ shaken' = shaken \ {t} /\ UNCHANGED owner

\* Where the first text ends is measured once more, and so is the second.  What
\* no text was copied to holds anything.
Join(t) ==
    LET c == call[t]
        offset == Length(Buffer(c.n))
        second == Text(Buffer(c.m))
    IN  /\ c.pc = "second"
        /\ \/ ~Fits(offset, second, c.size) /\ Goes(t, Astray) /\ UNCHANGED <<data, block>>
           \/ \E b \in Blocks, raw \in Buffers(c.size) :
                /\ Fits(offset, second, c.size) /\ block[b] = NoData
                /\ block' = [block EXCEPT ![b] =
                       [count |-> 1, chars |->
                           [Inserted(Inserted(raw, 0, c.first), offset, second)
                               EXCEPT ![c.size + 1] = Nul]]]
                /\ data' = [data EXCEPT ![c.into] = b]
                /\ Goes(t, Idle)
        /\ unsure' = FALSE /\ shaken' = shaken \ {t} /\ UNCHANGED owner

\* No memory for the buffer, or for what is shared of it when both are copied.
JoinFails(t) ==
    LET c == call[t]
    IN  /\ \/ c.pc = "join"
           \/ c.pc = "second" /\ Fits(Length(Buffer(c.n)), Text(Buffer(c.m)), c.size)
        /\ Goes(t, Idle)
        /\ unsure' = FALSE /\ shaken' = shaken \ {t} /\ UNCHANGED <<owner, data, block>>

\* strncmp(s, r, k) = 0, which stops at a Nul.
EqualFor(s, r, k) ==
    \A i \in 1..k : (\E j \in 1..i - 1 : s[j] # r[j] \/ s[j] = Nul) \/ s[i] = r[i]

\* operator== with another String.
Equal(s, r) == Length(s) = Length(r) /\ EqualFor(s, r, Length(s))

\* Mutant of EqualRaw: a longer text is equal as well.
EqualRawPrefix(s, raw) == EqualFor(s, raw, Length(s))

\* operator== with a const char*.
EqualRaw(s, raw) == EqualFor(s, raw, Length(s)) /\ raw[Length(s) + 1] = Nul

\* The first of some positions, or the null pointer.
FirstOf(hits) == IF hits = {} THEN 0 ELSE Min(hits)

\* Mutant of Strstr: the search goes on to the end of the buffer.
StrstrToEnd(hay, needle) ==
    FirstOf({i \in 1..Len(hay) - Len(needle) :
                \A j \in 1..Len(needle) : hay[i + j - 1] = needle[j]})

\* strstr(): memcmp() at every char of hay, with what is behind its end.
Strstr(hay, needle) ==
    FirstOf({i \in 1..Length(hay) : \A j \in 1..Len(needle) : hay[i + j - 1] = needle[j]})

-----------------------------------------------------------------------------
Continue(t) ==
    \/ Release(t) \/ Delete(t) \/ CopyOver(t) \/ Take(t) \/ Dropped(t)
    \/ Detach(t) \/ DetachFails(t) \/ Install(t) \/ Write(t)
    \/ CopyFirst(t) \/ Join(t) \/ JoinFails(t)

Begin(t, n) ==
    \/ Make(t, n) \/ Destroy(t, n) \/ BeginWrite(t, n)
    \/ \E m \in Names : \/ Copy(t, n, m) \/ Move(t, n, m) \/ Replace(t, n, m)
                        \/ Assign(t, n, m) \/ MoveAssign(t, n, m)
                        \/ \E k \in Names : BeginJoin(t, k, n, m)
    \/ \E u \in Threads : Hand(t, n, u)

\* Of what happens when memory behind a buffer was written, nothing is said.
Next == /\ \A t \in Threads : call[t] # Astray
        /\ \E t \in Threads : Continue(t) \/ \E n \in Names : Begin(t, n)

Spec == Init /\ [][Next]_vars

-----------------------------------------------------------------------------
TypeOK ==
    /\ owner \in [Names -> Threads]
    /\ data \in [Names -> Blocks \cup {NoBlock}]
    /\ \A b \in Blocks :
         \/ block[b] = NoData
         \/ block[b].count \in Nat /\ Last(block[b].chars) = Nul
    /\ \A t \in Threads :
         call[t].pc \in {"idle", "release", "delete", "copy", "take", "drop",
                         "detach", "install", "write", "join", "second", "astray"}
    /\ unsure \in BOOLEAN /\ shaken \subseteq Threads

\* n was let go of, and not yet given another block.
LetGo(n) == \E t \in Threads : /\ call[t].pc \in {"delete", "copy", "take", "drop", "install"}
                               /\ call[t].n = n

\* Who refers to block b: Strings, and copies that are not yet installed.
References(b) ==
    Cardinality({n \in Names : data[n] = b /\ ~LetGo(n)})
        + Cardinality({t \in Threads :
                /\ call[t].pc \in {"release", "delete", "install"}
                /\ call[t].b = b})

\* A block lives as long as something refers to it, through copies, moves and
\* assignments on all threads; then it is freed, once (SharedPtr.hpp:127-151).
CountsAreReferences ==
    /\ TypeOK
    /\ \A b \in Blocks :
        /\ block[b].count = References(b)
        /\ block[b] # NoData /\ References(b) = 0 =>
               \E t \in Threads : call[t].pc = "delete" /\ data[call[t].n] = b
        /\ block[b] = NoData => \A n \in Names : data[n] = b => LetGo(n)

\* A concatenation is one text behind the other and ends with a Nul, and no byte
\* behind the buffer is written, although the texts are measured three times; only
\* a write by another thread in between, which takes a failed copy of a String that
\* both share, can make it otherwise (String.cpp:73-84).
ConcatenationJoins ==
    [][/\ \A t \in Threads \ shaken :
            LET c == call[t]
            IN  c.pc \in {"join", "second"} =>
                    /\ call'[t] # Astray
                    /\ data'[c.into] # NoBlock =>
                           block'[data'[c.into]].chars =
                               Append(Text(Buffer(c.n)) \o Text(Buffer(c.m)), Nul)
       /\ unsure' \/ shaken' \subseteq shaken]_vars

\* Two Strings, and a String and a text, are equal if they read the same; the
\* bytes behind the Nul do not matter.
ComparesTexts ==
    \A n \in Names : data[n] # NoBlock /\ ~LetGo(n) =>
        /\ \A m \in Names : data[m] # NoBlock /\ ~LetGo(m) =>
               (Equal(Buffer(n), Buffer(m)) <=> Text(Buffer(n)) = Text(Buffer(m)))
        /\ \A k \in 0..MaxCapacity : \A raw \in Buffers(k) :
               EqualRaw(Buffer(n), raw) <=> Text(Buffer(n)) = Text(raw)

\* strstr finds the first place of the needle in the text, whatever the bytes
\* that it compares behind the end of the text and of its buffer.
FindsFirst ==
    \A n \in Names : data[n] # NoBlock /\ ~LetGo(n) =>
        \A k \in 0..MaxCapacity : \A needle \in [1..k -> Chars], behind \in [1..k -> Chars] :
            LET text == Text(Buffer(n))
            IN  Strstr(Buffer(n) \o behind, needle) =
                    FirstOf({i \in 1..Len(text) : IsPrefix(needle, SubSeq(text, i, Len(text)))})

\* What a String answers depends on what it reads and on nothing behind its
\* Nul, however its buffer came about: ==, != and strstr (String.cpp:106-168).
ReadsAsText == ComparesTexts /\ FindsFirst

\* What a String holds for who looks at it from outside: nothing while it is
\* assigned to or destroyed, its copy while that is about to be installed.
Seen(n) ==
    LET c == call[owner[n]]
    IN  IF data[n] = NoBlock /\ ~LetGo(n) THEN NoText
        ELSE IF c.pc \in {"release", "delete", "copy", "take", "drop", "install"} /\ c.n = n
          THEN IF c.next = "install" THEN block[c.b].chars ELSE NoText
        ELSE Buffer(n)

Promise == INSTANCE Texts WITH text <- [n \in Names |-> Seen(n)]

\* Strings are independent texts, except for a write behind a failed copy.
KeepsPromise == Promise!Spec
=============================================================================
