------------------------------- MODULE Lists -------------------------------
(***************************************************************************)
(* What dstd's Vector, Set, Array and RawBuffer promise: finite sequences, *)
(* of which a Set has no value twice and an Array has a fixed length; a    *)
(* RawBuffer is what was appended to it, an Optional holds one value or    *)
(* none.  res is what the last call returned.  An Array or a RawBuffer     *)
(* that was moved from keeps its length and has nothing behind it: who     *)
(* uses its elements ends everything.                                      *)
(***************************************************************************)
EXTENDS Integers, Sequences, SequencesExt

CONSTANTS
    Vectors, Sets, Arrays, Raws, Optionals,  \* the objects, by kind
    Values, Default,        \* what elements hold; what T() holds
    Lost,                   \* the value of an object that is no more
    NotMade,                \* there is no such object
    ArraySize,              \* Size of Array<T, Size>
    SizeMax,                \* no sequence of bytes is longer
    MaxSize                 \* bound: no longer sequence is asked for

VARIABLES
    list, res,
    gone        \* the Arrays and RawBuffers that have nothing behind them

vars == <<list, res, gone>>

Names == Vectors \cup Sets \cup Arrays \cup Raws \cup Optionals
Kinds == {Vectors, Sets, Optionals}

Made(n) == list[n] # NotMade

Becomes(n, s) == res' = "ok" /\ list' = [list EXCEPT ![n] = s] /\ gone' = gone \ {n}

Init == list = [n \in Names |-> NotMade] /\ res = "ok" /\ gone = {}

Make(n) == ~Made(n) /\ Becomes(n, <<>>)

MakeArray(n, v) == ~Made(n) /\ Becomes(n, [i \in 1..ArraySize |-> v])

\* Every element is given the same rvalue.
MakeArrayOfRvalue(n, v) ==
    ~Made(n) /\ Becomes(n, [i \in 1..ArraySize |-> IF i = 1 THEN v ELSE Lost])

Fill(n, v) ==
    Made(n) /\ n \notin gone /\ Becomes(n, [i \in 1..Len(list[n]) |-> v])

\* An element that is gone is read or written.
Panics ==
    gone # {} /\ res' = "panic" /\ list' = [n \in Names |-> NotMade] /\ gone' = {}

PushBack(n, v) == Made(n) /\ Becomes(n, Append(list[n], v))

\* The element is pushed, or whatever is left of it.
PushAlias(n) == Made(n) /\ \E v \in ToSet(list[n]) \cup {Lost} : PushBack(n, v)

PopBack(n) ==
    /\ Made(n)
    /\ IF list[n] = <<>> THEN res' = "underflow" /\ UNCHANGED <<list, gone>>
                         ELSE Becomes(n, Front(list[n]))

Resize(n, k) ==
    /\ Made(n)
    /\ Becomes(n, [i \in 1..k |-> IF i <= Len(list[n]) THEN list[n][i] ELSE Default])

\* reserve() changes nothing that can be seen here.
Reserve(n) == Made(n) /\ res' = "ok" /\ UNCHANGED <<list, gone>>

Clear(n) == Made(n) /\ Becomes(n, <<>>)

\* push() of a Set.
Add(n, v) ==
    /\ Made(n)
    /\ IF v \in ToSet(list[n]) THEN res' = "present" /\ UNCHANGED <<list, gone>>
                               ELSE PushBack(n, v)

\* append() of bytes; of a part of the sequence to itself, or what is left of
\* it; of another sequence, or of bytes never appended to that.
AppendBytes(n, s) ==
    Made(n) /\ Len(list[n]) + Len(s) <= SizeMax /\ Becomes(n, list[n] \o s)

AppendOwn(n, k) ==
    /\ Made(n) /\ k <= Len(list[n])
    /\ \/ AppendBytes(n, SubSeq(list[n], 1, k))
       \/ AppendBytes(n, [i \in 1..k |-> Lost])

AppendList(n, m) ==
    /\ Made(m)
    /\ IF list[m] # <<>> THEN AppendBytes(n, list[m])
       ELSE /\ Made(n) /\ Made(n)' /\ Becomes(n, list'[n])
            /\ IsPrefix(list[n], list'[n])

Cut(n, k) == Made(n) /\ k <= Len(list[n]) /\ Becomes(n, SubSeq(list[n], 1, k))

Copy(n, m) == ~Made(n) /\ Made(m) /\ Becomes(n, list[m])

\* By construction or by assignment; what was there is no more.
Move(n, m) ==
    /\ n # m /\ Made(m) /\ UNCHANGED gone
    /\ list' = [list EXCEPT ![n] = list[m], ![m] = <<>>] /\ res' = "ok"

\* Of an Array or a RawBuffer.  What is left has the length it had, and nothing
\* behind it, unless it was a RawBuffer without any bytes.
MoveAll(n, m) ==
    /\ n # m /\ Made(m) /\ res' = "ok"
    /\ list' = [list EXCEPT ![n] = list[m], ![m] = [i \in DOMAIN list[m] |-> Lost]]
    /\ gone' \ {m} = (IF m \in gone THEN gone \cup {n} ELSE gone \ {n}) \ {m}
    /\ m \in gone' \/ (m \in Raws /\ list[m] = <<>>)

Destroy(n) == Made(n) /\ Becomes(n, NotMade)

\* Of an Optional; its own value is lost when it is emplaced there.
Holds(n, v) == Becomes(n, <<v>>)
HoldsOwn(n) == Made(n) /\ list[n] # <<>> /\ Holds(n, Lost)
CopyOver(n, m) == Made(n) /\ Made(m) /\ Becomes(n, list[m])

\* A call that failed changed nothing.
Fails == res' = "noSpace" /\ UNCHANGED <<list, gone>>

Next == \/ Fails \/ Panics
        \/ \E n \in Names : Destroy(n)
        \/ \E k \in {Arrays, Raws} : \E n, m \in k : MoveAll(n, m)
        \/ \E n \in Raws : \/ Make(n) \/ Reserve(n)
                           \/ \E k \in 0..SizeMax : \/ AppendOwn(n, k) \/ Cut(n, k)
                                \/ \E v \in Values : AppendBytes(n, [i \in 1..k |-> v])
                           \/ \E m \in Raws : AppendList(n, m) \/ Copy(n, m)
        \/ \E n \in Vectors \cup Sets : Make(n) \/ Clear(n)
        \/ \E n \in Vectors : \/ PopBack(n) \/ Reserve(n) \/ PushAlias(n)
                              \/ \E v \in Values : PushBack(n, v)
                              \/ \E k \in 0..MaxSize : Resize(n, k)
        \/ \E n \in Sets, v \in Values : Add(n, v)
        \/ \E n \in Arrays, v \in Values : MakeArray(n, v) \/ MakeArrayOfRvalue(n, v)
        \/ \E n \in Arrays \cup Raws, v \in Values : Fill(n, v)
        \/ \E n \in Optionals : \/ Make(n) \/ Clear(n) \/ HoldsOwn(n)
                                \/ \E v \in Values : Holds(n, v)
                                \/ \E m \in Optionals : Copy(n, m) \/ CopyOver(n, m)
        \/ \E k \in Kinds : \E n, m \in k : Move(n, m)

Spec == Init /\ [][Next]_vars
=============================================================================
