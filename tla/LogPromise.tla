----------------------------- MODULE LogPromise -----------------------------
(***************************************************************************)
(* What a file logger promises, without its lock, its file and its bytes:  *)
(* lines are written in the order they were accepted, each at most once, a *)
(* write takes everything that waits, and what waits is forgotten only for *)
(* want of memory or when the logger ends.                                 *)
(***************************************************************************)
EXTENDS Integers, Sequences

CONSTANTS Lines,       \* the lines that may be logged
          MaxWaiting,  \* how many may wait
          MayForget    \* may a waiting line be lost?

VARIABLES written, waiting

vars == <<written, waiting>>

Occurs(l, s) == \E i \in 1..Len(s) : s[i] = l

IsNew(l) == ~Occurs(l, written) /\ ~Occurs(l, waiting)

Init == written = <<>> /\ waiting = <<>>

\* A line is written, behind everything that waited.
WriteLine(l) == /\ IsNew(l)
                /\ written' = written \o Append(waiting, l)
                /\ waiting' = <<>>

\* What waits is written without a new line.
WriteWaiting == /\ written' = written \o waiting
                /\ waiting' = <<>>

\* A line that could not be written waits.
Keep(l) == /\ IsNew(l) /\ Len(waiting) < MaxWaiting
           /\ waiting' = Append(waiting, l)
           /\ UNCHANGED written

\* One waiting line is lost.
Forget(i) == /\ MayForget
             /\ waiting' = SubSeq(waiting, 1, i - 1) \o SubSeq(waiting, i + 1, Len(waiting))
             /\ UNCHANGED written

\* The logger ends; another one starts with nothing.
Restart == written' = <<>> /\ waiting' = <<>>

Next == \/ \E l \in Lines : WriteLine(l) \/ Keep(l)
        \/ WriteWaiting
        \/ \E i \in 1..Len(waiting) : Forget(i)
        \/ Restart

Spec == Init /\ [][Next]_vars
=============================================================================
