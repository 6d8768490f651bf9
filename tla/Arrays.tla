------------------------------- MODULE Arrays -------------------------------
(***************************************************************************)
(* Vector, Set and Array (dstd/DataStructures/Arrays): objects constructed *)
(* in place in a RawBuffer, which a UniquePtr frees without destroying     *)
(* them; RawBuffer (dstd/Pointers) as a container of bytes; and Optional,  *)
(* a container of one element in itself.  One thread uses them, so a call  *)
(* is a step; it may find no memory.                                       *)
(***************************************************************************)
EXTENDS Integers, FiniteSets, Sequences, SequencesExt

CONSTANTS
    Vectors, Sets, Arrays,  \* the objects, by kind
    Raws, Optionals,        \* the RawBuffers used on their own, the Optionals
    Values, Default,        \* what elements hold; what T() or a zero byte is
    Lost,                   \* what is left of an object destroyed or moved from
    Raw,                    \* a cell of a buffer that was never written
    NotMade,                \* the list of an object that does not exist
    Buffers, NoBuffer,      \* addresses of buffers, the null pointer
    ArraySize,              \* Size of Array<T, Size>
    SizeMax,                \* SIZE_MAX: size_t counts modulo SizeMax + 1
    MaxSize,                \* bound: no longer sequence is asked for
    MaxObjects,             \* bound: objects at a time
    MaxCells                \* bound: cells of two buffers together

ASSUME SizesAreNatural == MaxSize \in Nat /\ ArraySize \in 1..MaxSize /\ SizeMax \in Nat
ASSUME ObjectsAreNatural == MaxObjects \in Nat
ASSUME DefaultIsValue == Default \in Values
ASSUME ValuesDistinct == Lost \notin Values /\ Raw \notin Values \cup {Lost}
ASSUME NotMadeIsNoList == NotMade \notin Seq(Values \cup {Lost})
ASSUME NullIsNoBuffer == NoBuffer \notin Buffers
ASSUME KindsDisjoint ==
    /\ Vectors \cap Sets = {} /\ (Vectors \cup Sets) \cap Arrays = {}
    /\ Raws \cap (Vectors \cup Sets \cup Arrays) = {}
    /\ Optionals \cap (Vectors \cup Sets \cup Arrays \cup Raws) = {}
ASSUME FinitelyMany == IsFiniteSet(Vectors \cup Sets \cup Arrays \cup Optionals)

VARIABLES
    heap,   \* the cells of each buffer, <<>> while it is not allocated
    obj,    \* each object: made, m_buffer, m_size, m_capacity; a RawBuffer's
            \* size is m_used and its capacity m_size, an Optional's size is
            \* m_hasValue and its buffer is m_object; an Array's size is Size,
            \* and 0 while m_active is false
    alive,  \* ghost: elements constructed less elements destroyed
    res     \* what the last call returned

vars == <<heap, obj, alive, res>>

Containers == Vectors \cup Sets \cup Arrays \cup Optionals
Names == Containers \cup Raws

Made(n) == obj[n].made

\* Bound: those that exist at a time are of one kind, as kinds share no state.
Kind(n) == CHOOSE k \in {Vectors, Sets, Arrays, Raws, Optionals} : n \in k
New(n) == LET there == {m \in Names : Made(m)}
          IN  n \notin there /\ Cardinality(there) < MaxObjects /\ there \subseteq Kind(n)
Size(n) == obj[n].size
Capacity(n) == obj[n].capacity
Cells(n) == IF obj[n].buffer = NoBuffer THEN <<>> ELSE heap[obj[n].buffer]

\* The objects of s, and no object behind them, in k cells.
Padded(s, k) == [i \in 1..k |-> IF i <= Len(s) THEN s[i] ELSE Raw]

\* Of a RawBuffer: the bytes appended, unless it was moved from.
Elements(n) == SubSeq(Padded(Cells(n), Capacity(n)), 1, Size(n))

\* What the destructor of n destroys: bytes are no objects.
Objects(n) == IF n \in Raws THEN 0 ELSE Size(n)

\* Not yet or no longer there; and made without a buffer, or moved from.
Absent == [made |-> FALSE, buffer |-> NoBuffer, size |-> 0, capacity |-> 0]
Bare == [Absent EXCEPT !.made = TRUE]

\* Moved from, with a size() all the same: Array's is a constant, and RawBuffer's
\* implicit move copies it.
Hollow(n) == /\ Made(n) /\ obj[n].buffer = NoBuffer
             /\ n \in Arrays \/ (n \in Raws /\ Capacity(n) > 0)

Init == /\ heap = [b \in Buffers |-> <<>>]
        /\ obj = [n \in Names |-> Absent]
        /\ alive = 0 /\ res = "ok"

-----------------------------------------------------------------------------
(* Buffers.                                                                 *)

\* A null pointer is read or written: the kernel panics, and nothing is left.
Panics == /\ heap' = [b \in Buffers |-> <<>>] /\ obj' = [n \in Names |-> Absent]
          /\ alive' = 0 /\ res' = "panic"

\* The buffer of n, if it has one, is freed.
Freed(n) == [b \in Buffers |-> IF b = obj[n].buffer THEN <<>> ELSE heap[b]]

\* n gets a buffer of the cells s, any that is free, or none if s is empty; used
\* of them are in use.  Its old one is freed.
Replace(n, s, used) ==
    LET Gets(b) == obj' = [obj EXCEPT ![n] = [made |-> TRUE, buffer |-> b,
                                              size |-> used, capacity |-> Len(s)]]
    IN  \/ s = <<>> /\ heap' = Freed(n) /\ Gets(NoBuffer)
        \/ \E b \in Buffers :
             /\ s # <<>> /\ heap[b] = <<>>
             /\ \A c \in Buffers \ {obj[n].buffer} : Len(heap[c]) + Len(s) <= MaxCells
             /\ heap' = [Freed(n) EXCEPT ![b] = s] /\ Gets(b)

\* n gets a buffer of k cells with the objects of s.
Occupy(n, s, k) == Replace(n, Padded(s, k), Len(s))

\* Mutant of Truncate: the size is set, no destructor runs.
TruncateOnly(n, k) ==
    /\ obj' = [obj EXCEPT ![n].size = k]
    /\ UNCHANGED <<heap, alive>>

\* destroyElements(k, m_size) and m_size = k.
Truncate(n, k) ==
    /\ heap' = [b \in Buffers |-> IF b = obj[n].buffer
                                    THEN Padded(SubSeq(heap[b], 1, k), Len(heap[b]))
                                    ELSE heap[b]]
    /\ obj' = [obj EXCEPT ![n].size = k]
    /\ alive' = alive - (Size(n) - k)

-----------------------------------------------------------------------------
(* Vector, and what Set does the same way.                                   *)

Make(n) == /\ New(n)
           /\ obj' = [obj EXCEPT ![n] = Bare] /\ res' = "ok"
           /\ UNCHANGED <<heap, alive>>

MakeWithCapacity(n, k) == /\ New(n)
                          /\ Occupy(n, <<>>, k) /\ res' = "ok"
                          /\ UNCHANGED alive

\* Mutant of Reserve: what is there already is reserved again.
ReserveAnew(n, k) ==
    /\ Made(n) /\ res' = "ok"
    /\ IF k < Capacity(n) THEN UNCHANGED <<heap, obj>> ELSE Occupy(n, Elements(n), k)
    /\ UNCHANGED alive

\* Each element is moved to the new buffer and the old one destroyed.
Reserve(n, k) ==
    /\ Made(n) /\ res' = "ok"
    /\ IF k <= Capacity(n) THEN UNCHANGED <<heap, obj>> ELSE Occupy(n, Elements(n), k)
    /\ UNCHANGED alive

Doubled(k) == IF k = 0 THEN 1 ELSE 2 * k

\* constructAt(data() + m_size, ...), behind a reserve() if there is no room.
Construct(n, v) ==
    /\ IF Size(n) < Capacity(n)
         THEN /\ heap' = [heap EXCEPT ![obj[n].buffer][Size(n) + 1] = v]
              /\ obj' = [obj EXCEPT ![n].size = @ + 1]
         ELSE Occupy(n, Append(Elements(n), v), Doubled(Capacity(n)))
    /\ alive' = alive + 1 /\ res' = "ok"

PushBack(n, v) == Made(n) /\ Size(n) < MaxSize /\ Construct(n, v)

\* push_back(vector[i]): reserve() destroys what the argument refers to.
PushAlias(n, i) ==
    /\ Made(n) /\ i <= Size(n) /\ Size(n) < MaxSize
    /\ Construct(n, IF Size(n) = Capacity(n) THEN Lost ELSE Elements(n)[i])

PopBack(n) ==
    /\ Made(n)
    /\ IF Size(n) = 0
         THEN res' = "underflow" /\ UNCHANGED <<heap, obj, alive>>
         ELSE Truncate(n, Size(n) - 1) /\ res' = "ok"

\* Mutant of Resize: the loop of constructors starts at the front.
ResizeFromFront(n, k) ==
    /\ Made(n) /\ res' = "ok"
    /\ IF k <= Size(n) THEN Truncate(n, k)
       ELSE LET s == [i \in 1..k |-> Default]
            IN  /\ alive' = alive + (k - Size(n))
                /\ IF k > Capacity(n) THEN Occupy(n, s, k)
                   ELSE /\ heap' = [heap EXCEPT ![obj[n].buffer] = Padded(s, Len(@))]
                        /\ obj' = [obj EXCEPT ![n].size = k]

Resize(n, k) ==
    /\ Made(n) /\ res' = "ok"
    /\ IF k <= Size(n) THEN Truncate(n, k)
       ELSE LET s == [i \in 1..k |-> IF i <= Size(n) THEN Cells(n)[i] ELSE Default]
            IN  /\ alive' = alive + (k - Size(n))
                /\ IF k > Capacity(n) THEN Occupy(n, s, k)
                   ELSE /\ heap' = [heap EXCEPT ![obj[n].buffer] = Padded(s, Len(@))]
                        /\ obj' = [obj EXCEPT ![n].size = k]

Clear(n) == Made(n) /\ Truncate(n, 0) /\ res' = "ok"

-----------------------------------------------------------------------------
(* Set.                                                                      *)

Has(n, v) == v \in ToSet(Elements(n))

\* push().
Add(n, v) ==
    /\ Made(n)
    /\ \/ Has(n, v) /\ res' = "present" /\ UNCHANGED <<heap, obj, alive>>
       \/ ~Has(n, v) /\ Size(n) < MaxSize /\ Construct(n, v)

-----------------------------------------------------------------------------
(* Array.                                                                    *)

MakeArray(n, v) ==
    /\ New(n)
    /\ Occupy(n, [i \in 1..ArraySize |-> v], ArraySize)
    /\ alive' = alive + ArraySize /\ res' = "ok"

\* destroyConstructedElements(cells, count).
Destroyed(cells, count) == [i \in DOMAIN cells |-> IF i <= count THEN Raw ELSE cells[i]]

\* T::make() fails behind done elements; the cells are freed with what is left.
MakeArrayFails(n, done) ==
    LET built == Padded([i \in 1..done |-> Default], ArraySize)
        left == Destroyed(built, done)
    IN  /\ ~Made(n) /\ res' = "noSpace"
        /\ alive' = alive + Cardinality({i \in DOMAIN left : left[i] # Raw})
        /\ UNCHANGED <<heap, obj>>

\* make(args) with an rvalue: the first element takes what it refers to.
MakeArrayOfRvalue(n, v) ==
    /\ New(n)
    /\ Occupy(n, [i \in 1..ArraySize |-> IF i = 1 THEN v ELSE Lost], ArraySize)
    /\ alive' = alive + ArraySize /\ res' = "ok"

\* fill(); and memset of a RawBuffer by its user, or clear() if v is Default.  All
\* but clear() panic on what was moved from; so does [] and iteration of an Array.
Fill(n, v) ==
    \/ /\ Made(n) /\ Cells(n) # <<>>
       /\ heap' = [heap EXCEPT ![obj[n].buffer] = [i \in DOMAIN @ |-> v]] /\ res' = "ok"
       /\ UNCHANGED <<obj, alive>>
    \/ Hollow(n) /\ Panics
    \/ n \in Raws /\ Hollow(n) /\ v = Default /\ res' = "ok" /\ UNCHANGED <<heap, obj, alive>>

-----------------------------------------------------------------------------
(* RawBuffer on its own: bytes behind the first m_used may be in use too.     *)

CopyRaw(n, m) ==
    /\ New(n) /\ Made(m)
    /\ Replace(n, Padded(Cells(m), Capacity(m)), Size(m))
    /\ res' = "ok" /\ UNCHANGED alive

\* Mutant of ResizeRaw: only what was appended is copied.
ResizeRawUsed(n, k) ==
    /\ Made(n)
    /\ Replace(n, Padded(Elements(n), k), Min({Size(n), k}))
    /\ res' = "ok" /\ UNCHANGED alive

ResizeRaw(n, k) ==
    /\ Made(n)
    /\ Replace(n, Padded(Cells(n), k), Min({Size(n), k}))
    /\ res' = "ok" /\ UNCHANGED alive

\* m_size behind resizeIfNeeded(k): a buffer less than half used shrinks.
Fitted(n, k) ==
    IF k > Capacity(n) THEN Max({k, (2 * Capacity(n)) % (SizeMax + 1)})
    ELSE IF k < Capacity(n) \div 2 THEN k
    ELSE Capacity(n)

\* append() of the bytes s; own says that they are in this buffer, null that the
\* view's pointer is null.  What is replaced before it is copied from is lost.
AppendBytes(n, s, own, null) ==
    LET sum == (Size(n) + Len(s)) % (SizeMax + 1)
        k == Fitted(n, sum)
        fits == sum >= Len(s) /\ sum >= Size(n)
        through == s # <<>> /\ (null \/ (Hollow(n) /\ k = Capacity(n)))
        bytes == IF own /\ k # Capacity(n) THEN [i \in DOMAIN s |-> Lost] ELSE s
        cells == [i \in 1..k |-> IF i \in Size(n) + 1..sum THEN bytes[i - Size(n)]
                                 ELSE Padded(Cells(n), k)[i]]
    IN  /\ Made(n)
        /\ \/ ~fits /\ res' = "noSpace" /\ UNCHANGED <<heap, obj, alive>>
           \/ fits /\ through /\ Panics
           \/ /\ fits /\ ~through /\ res' = "ok" /\ UNCHANGED alive
              /\ IF k # Capacity(n) THEN Replace(n, cells, sum)
                 ELSE /\ heap' = [b \in Buffers |-> IF b = obj[n].buffer THEN cells
                                                    ELSE heap[b]]
                      /\ obj' = [obj EXCEPT ![n].size = sum]

\* append(RawBufferView).
AppendView(n, k, v) == AppendBytes(n, [i \in 1..k |-> v], FALSE, FALSE)

\* append(RawBufferView(n.get(), k)).
AppendOwn(n, k) ==
    k <= Size(n) /\ AppendBytes(n, SubSeq(Elements(n), 1, k), TRUE, Hollow(n))

\* append(move(m)): what was appended to m, or all of m.
AppendRaw(n, m) ==
    /\ Made(m)
    /\ AppendBytes(n, IF Size(m) > 0 THEN Elements(m) ELSE Padded(Cells(m), Capacity(m)),
                   n = m, Hollow(m))

\* The implicit move: other keeps m_size and m_used, for a buffer that is gone.
MoveRaw(n, m) ==
    /\ n # m /\ Made(m) /\ (Made(n) \/ New(n))
    /\ heap' = Freed(n)
    /\ obj' = [obj EXCEPT ![n] = obj[m], ![m].buffer = NoBuffer]
    /\ res' = "ok" /\ UNCHANGED alive

-----------------------------------------------------------------------------
(* Optional.  An object that was moved from is not destroyed: its husk stays *)
(* until another is constructed there, and is not counted any more.          *)

MakeOptional(n) == New(n) /\ Occupy(n, <<>>, 1) /\ res' = "ok" /\ UNCHANGED alive

MakeOptionalOf(n, v) ==
    /\ New(n) /\ Occupy(n, <<v>>, 1)
    /\ alive' = alive + 1 /\ res' = "ok"

\* n is constructed; from is what m holds then.
ConstructOptional(n, m, from, size) ==
    /\ New(n) /\ Made(m)
    /\ \E b \in Buffers :
         /\ heap[b] = <<>>
         /\ heap' = [heap EXCEPT ![b] = Padded(Elements(m), 1), ![obj[m].buffer] = from]
         /\ obj' = [obj EXCEPT ![n] = [obj[m] EXCEPT !.buffer = b], ![m].size = size]

\* reset(), and the object of m if it has one; from is what m holds then.
AssignOptional(n, m, from, size) ==
    /\ n # m /\ Made(n) /\ Made(m)
    /\ heap' = [heap EXCEPT ![obj[n].buffer] =
                    IF Size(m) = 1 THEN Elements(m) ELSE IF Size(n) = 1 THEN <<Raw>> ELSE @,
                            ![obj[m].buffer] = from]
    /\ obj' = [obj EXCEPT ![n].size = Size(m), ![m].size = size]

CopyOptional(n, m) ==
    /\ \/ ConstructOptional(n, m, Cells(m), Size(m))
       \/ AssignOptional(n, m, Cells(m), Size(m))
    /\ alive' = alive + Size(m) - Size(n) /\ res' = "ok"

MoveOptional(n, m) ==
    LET from == IF Size(m) = 1 THEN <<Lost>> ELSE Cells(m)
    IN  /\ ConstructOptional(n, m, from, 0) \/ AssignOptional(n, m, from, 0)
        /\ alive' = alive - Size(n) /\ res' = "ok"

Emplace(n, v) ==
    /\ Made(n)
    /\ heap' = [heap EXCEPT ![obj[n].buffer] = <<v>>]
    /\ obj' = [obj EXCEPT ![n].size = 1]
    /\ alive' = alive + 1 - Size(n) /\ res' = "ok"

\* emplace(n.value()): reset() destroys what the argument refers to.
EmplaceOwn(n) == Size(n) = 1 /\ Emplace(n, Lost)

\* Assignment of a value, which leaves one that is equal alone.
AssignValue(n, v) ==
    \/ Elements(n) # <<v>> /\ Emplace(n, v)
    \/ Made(n) /\ Elements(n) = <<v>> /\ res' = "ok" /\ UNCHANGED <<heap, obj, alive>>

Reset(n) ==
    /\ Made(n) /\ res' = "ok"
    /\ IF Size(n) = 1 THEN Truncate(n, 0) ELSE UNCHANGED <<heap, obj, alive>>

-----------------------------------------------------------------------------
(* What all kinds have.                                                      *)

\* Mutant of Move: other keeps its pointer.
MoveSharesBuffer(n, m) ==
    /\ n # m /\ Made(m) /\ (Made(n) \/ New(n))
    /\ heap' = Freed(n)
    /\ obj' = [obj EXCEPT ![n] = obj[m], ![m] = [Bare EXCEPT !.buffer = obj[m].buffer]]
    /\ alive' = alive - Objects(n) /\ res' = "ok"

\* Move construction of n, or assignment to it, which destroys its elements.
Move(n, m) ==
    /\ n # m /\ Made(m) /\ (Made(n) \/ New(n))
    /\ heap' = Freed(n)
    /\ obj' = [obj EXCEPT ![n] = obj[m], ![m] = Bare]
    /\ alive' = alive - Objects(n) /\ res' = "ok"

Destroy(n) ==
    /\ Made(n)
    /\ heap' = Freed(n)
    /\ obj' = [obj EXCEPT ![n] = Absent]
    /\ alive' = alive - Objects(n) /\ res' = "ok"

\* RawBuffer::make fails, or the size in bytes is beyond SIZE_MAX, in a call
\* that wants a buffer; only a Set that has room never does.
NoMemory(n) ==
    /\ n \notin Optionals
    /\ ~Made(n) \/ n \in Vectors \cup Raws \/ (n \in Sets /\ Size(n) = Capacity(n))
    /\ res' = "noSpace" /\ UNCHANGED <<heap, obj, alive>>

-----------------------------------------------------------------------------
VectorStep(n) ==
    \/ Make(n) \/ Clear(n) \/ PopBack(n)
    \/ \E v \in Values : PushBack(n, v)
    \/ \E i \in 1..MaxSize : PushAlias(n, i)
    \/ \E k \in 1..MaxSize : MakeWithCapacity(n, k) \/ Reserve(n, k)
    \/ \E k \in 0..MaxSize : Resize(n, k)
    \/ \E m \in Vectors : Move(n, m)

SetStep(n) == \/ Make(n) \/ Clear(n)
              \/ \E v \in Values : Add(n, v)
              \/ \E m \in Sets : Move(n, m)

ArrayStep(n) == \/ \E v \in Values : \/ MakeArray(n, v) \/ MakeArrayOfRvalue(n, v)
                                      \/ Fill(n, v)
                \/ \E done \in 0..ArraySize - 1 : MakeArrayFails(n, done)
                \/ \E m \in Arrays : Move(n, m)

RawStep(n) == \/ Make(n)
              \/ \E k \in 1..SizeMax : MakeWithCapacity(n, k) \/ AppendOwn(n, k)
              \/ \E k \in 0..SizeMax : ResizeRaw(n, k)
              \/ \E v \in Values : Fill(n, v) \/ \E k \in 0..SizeMax : AppendView(n, k, v)
              \/ \E m \in Raws : CopyRaw(n, m) \/ AppendRaw(n, m) \/ MoveRaw(n, m)

OptionalStep(n) == \/ MakeOptional(n) \/ EmplaceOwn(n) \/ Reset(n)
                   \/ \E v \in Values : \/ MakeOptionalOf(n, v) \/ Emplace(n, v)
                                         \/ AssignValue(n, v)
                   \/ \E m \in Optionals : CopyOptional(n, m) \/ MoveOptional(n, m)

Next == \/ \E n \in Vectors : VectorStep(n)
        \/ \E n \in Sets : SetStep(n)
        \/ \E n \in Arrays : ArrayStep(n)
        \/ \E n \in Raws : RawStep(n)
        \/ \E n \in Optionals : OptionalStep(n)
        \/ \E n \in Names : Destroy(n) \/ NoMemory(n)

Spec == Init /\ [][Next]_vars

-----------------------------------------------------------------------------
\* Every variable has its type; a buffer is as long as its owner thinks, and
\* the elements are in it, except for a RawBuffer that was moved from.
TypeOK ==
    /\ heap \in [Buffers -> Seq(Values \cup {Lost, Raw})]
    /\ obj \in [Names -> [made : BOOLEAN, buffer : Buffers \cup {NoBuffer},
                          size : Nat, capacity : Nat]]
    /\ \A n \in Names :
         /\ Size(n) <= Capacity(n)
         /\ (n \in Raws /\ Hollow(n)) \/ Len(Cells(n)) = Capacity(n)
    /\ alive \in Int /\ res \in {"ok", "noSpace", "underflow", "present", "panic"}

\* Every object that is constructed is destroyed once and in its place: those
\* alive are the elements, and no cell behind them holds one (the loops of
\* reserve, resize, destroyElements, destroyConstructedElements), except for the
\* husk that an Optional keeps (Optional.hpp:81-83).
ObjectsAreElements ==
    /\ alive = SumFunction([n \in Containers |-> Size(n)])
    /\ \A n \in Containers : \A i \in 1..Len(Cells(n)) :
         \/ Cells(n)[i] = Raw <=> i > Size(n)
         \/ n \in Optionals /\ Cells(n) = <<Lost>>

\* A buffer that is allocated has one owner, through all moves, and is as long
\* as that one thinks; what was moved from has none and thinks so.
BuffersHaveOneOwner ==
    /\ TypeOK
    /\ \A b \in Buffers :
           heap[b] # <<>> <=> Cardinality({n \in Names : obj[n].buffer = b}) = 1

\* References and iterators stay valid until the object is moved, destroyed
\* or needs more room than it has.
AddressesStay ==
    [][\A n \in Containers :
         Made(n) /\ obj'[n].buffer # obj[n].buffer =>
             \/ obj'[n].capacity > Capacity(n) \/ res' = "panic"
             \/ Destroy(n) \/ \E m \in Names : Move(n, m) \/ Move(m, n)]_vars

\* A RawBuffer loses bytes in four ways only, whether they were appended or
\* written through get() (RawBufferTest.cpp:22-39): it is filled, moved or
\* destroyed; append() writes over what is behind m_used; resize() cuts off what
\* is behind the new size; and append() to a buffer that is then less than half
\* used cuts off what is behind m_used (RawBuffer.cpp:85-89).
BytesSurvive ==
    [][\A n \in Raws :
         LET before == Cells(n)
             after == Cells(n)'
         IN  \/ Made(n) /\ Made(n)' => \A i \in 1..Len(before) :
                    \/ i \in Size(n) + 1..Size(n)'
                    \/ i <= Len(after) /\ after[i] = before[i]
                    \/ /\ i > Len(after) /\ Len(after) = Size(n)'
                       /\ Size(n)' < Len(before) \div 2
                    \/ i > Len(after) /\ ResizeRaw(n, Len(after))
             \/ res' = "panic" \/ \E v \in Values : Fill(n, v)
             \/ \E m \in Raws : MoveRaw(n, m) \/ MoveRaw(m, n)]_vars

\* The sequences that the objects stand for.
Contents(n) == LET cells == Cells(n)
               IN  [i \in 1..(IF n \in Arrays THEN ArraySize ELSE Size(n)) |->
                       IF i > Len(cells) \/ cells[i] = Raw THEN Lost ELSE cells[i]]

contents == [n \in Names |-> IF Made(n) THEN Contents(n) ELSE NotMade]

hollow == {n \in Names : Hollow(n)}

Promise == INSTANCE Lists WITH list <- contents, gone <- hollow

\* They behave as sequences, through failed calls, moves and use of what was moved
\* from.  What a caller loses by referring into the object itself, or by one rvalue
\* for a whole Array, Lists names: PushAlias, AppendOwn, HoldsOwn, MakeArrayOfRvalue.
KeepsPromise == Promise!Spec
=============================================================================
