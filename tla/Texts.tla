------------------------------- MODULE Texts -------------------------------
(***************************************************************************)
(* What Strings promise: every one of them has a buffer of its own, that   *)
(* no call on another changes.  Only where memory was wanting, and nothing *)
(* is sure, a write may reach others that hold the same.                   *)
(***************************************************************************)
EXTENDS Integers, Sequences

CONSTANTS Names, Chars, Nul, NoText, MaxCapacity

VARIABLES text, unsure

vars == <<text, unsure>>

Buffers(k) == {Append(s, Nul) : s \in [1..k -> Chars \cup {Nul}]}
Made(n) == text[n] # NoText
Becomes(n, s) == text' = [text EXCEPT ![n] = s] /\ unsure' = FALSE

Init == text = [n \in Names |-> NoText] /\ unsure = FALSE

Make(n) == ~Made(n) /\ \E k \in 0..MaxCapacity : \E s \in Buffers(k) : Becomes(n, s)

Copy(n, m) == ~Made(n) /\ Made(m) /\ Becomes(n, text[m])

Move(n, m) ==
    /\ ~Made(n) /\ Made(m)
    /\ text' = [text EXCEPT ![n] = text[m], ![m] = NoText]
    /\ unsure' = FALSE

Destroy(n) == Made(n) /\ Becomes(n, NoText)

Write(n, i, c) == Made(n) /\ i < Len(text[n]) /\ Becomes(n, [text[n] EXCEPT ![i] = c])

\* Others that hold the same as n are written with it.
WriteShared(n, others, i, c) ==
    /\ Made(n) /\ i < Len(text[n]) /\ \A m \in others : text[m] = text[n]
    /\ text' = [m \in Names |-> IF m = n \/ m \in others THEN [text[n] EXCEPT ![i] = c]
                                ELSE text[m]]
    /\ unsure' = TRUE

Next == \E n \in Names :
            \/ Make(n) \/ Destroy(n)
            \/ \E m \in Names : Copy(n, m) \/ Move(n, m)
            \/ \E i \in 1..MaxCapacity, c \in Chars \cup {Nul} :
                 Write(n, i, c) \/ \E others \in SUBSET Names : WriteShared(n, others, i, c)

Spec == Init /\ [][Next]_vars
=============================================================================
