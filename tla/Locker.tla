------------------------------- MODULE Locker -------------------------------
(***************************************************************************)
(* Locker<T> (dstd/Synchronization): an object behind a read-write lock,   *)
(* and the guards, which lock in their constructor, hand their lock over   *)
(* when they are moved and unlock in their destructor.  Threads hold       *)
(* guards, update the object under them in steps, and move whole Lockers.  *)
(***************************************************************************)
EXTENDS Integers, FiniteSets

CONSTANTS
    Threads,
    Lockers, NoLocker,      \* addresses of Lockers, the null pointer
    Exclusives, Shareds,    \* the guards a thread has variables for
    MaxUpdates              \* bound: updates of an object

ASSUME ThreadsFinite == IsFiniteSet(Threads)
ASSUME GuardsFinite == IsFiniteSet(Shareds) /\ Exclusives \cap Shareds = {}
ASSUME LockersOrdered == Lockers \subseteq Nat /\ NoLocker \notin Lockers
ASSUME UpdatesAreNatural == MaxUpdates \in Nat

VARIABLES
    guard,      \* m_locker of each guard
    pc, at,     \* where a thread is, and the guard that is about
    seen,       \* what it has read there
    object,     \* m_object: a Counter, updated field by field
    updates,    \* ghost: finished updates of it
    there,      \* m_lock was not moved away
    rw          \* the kernel's lock: claimed by a writer; readers inside

vars == <<guard, pc, at, seen, object, updates, there, rw>>

Guards == Threads \X (Exclusives \cup Shareds)
NoGuard == <<>>
Free == [want |-> FALSE, shared |-> 0]

Init == /\ guard = [p \in Guards |-> NoLocker]
        /\ pc = [t \in Threads |-> "idle"]
        /\ at = [t \in Threads |-> NoGuard]
        /\ seen = [t \in Threads |-> 0]
        /\ object = [l \in Lockers |-> [first |-> 0, second |-> 0]]
        /\ updates = [l \in Lockers |-> 0]
        /\ there = [l \in Lockers |-> TRUE]
        /\ rw = [l \in Lockers |-> Free]

Goto(t, label) == pc' = [pc EXCEPT ![t] = label]

Returns(t) == /\ pc' = [pc EXCEPT ![t] = "idle"]
              /\ at' = [at EXCEPT ![t] = NoGuard]
              /\ seen' = [seen EXCEPT ![t] = 0]

-----------------------------------------------------------------------------
(* The kernel's read-write lock: a writer claims it and then waits until    *)
(* the readers inside are gone; no reader enters a lock that is claimed.    *)

Claim(t) ==
    LET l == guard[at[t]]
    IN  /\ pc[t] = "exclusive" /\ ~rw[l].want
        /\ rw' = [rw EXCEPT ![l].want = TRUE]
        /\ Goto(t, "claimed")
        /\ UNCHANGED <<guard, at, seen, object, updates, there>>

GrantExclusive(t) ==
    /\ pc[t] = "claimed" /\ rw[guard[at[t]]].shared = 0
    /\ Returns(t)
    /\ UNCHANGED <<guard, object, updates, there, rw>>

GrantShared(t) ==
    LET l == guard[at[t]]
    IN  /\ pc[t] = "shared" /\ ~rw[l].want
        /\ rw' = [rw EXCEPT ![l].shared = @ + 1]
        /\ Returns(t)
        /\ UNCHANGED <<guard, object, updates, there>>

\* unlockExclusive() or unlockShared(), if guard p has a locker.
Unlocked(p) ==
    [l \in Lockers |-> IF l # guard[p] THEN rw[l]
                       ELSE IF p[2] \in Exclusives THEN [rw[l] EXCEPT !.want = FALSE]
                       ELSE [rw[l] EXCEPT !.shared = @ - 1]]

-----------------------------------------------------------------------------
(* The guards.                                                              *)

\* How callers avoid waiting for each other: lockers are asked for in order.
MayAsk(t, l) ==
    \A p \in Guards : p[1] = t /\ guard[p] # NoLocker => guard[p] < l

\* m_locker is set, then the thread waits for the lock.
Construct(p, l) ==
    /\ pc[p[1]] = "idle" /\ guard[p] = NoLocker /\ there[l] /\ MayAsk(p[1], l)
    /\ guard' = [guard EXCEPT ![p] = l]
    /\ at' = [at EXCEPT ![p[1]] = p]
    /\ Goto(p[1], IF p[2] \in Exclusives THEN "exclusive" ELSE "shared")
    /\ UNCHANGED <<seen, object, updates, there, rw>>

\* Two guards of one type in one thread.
Movable(p, q) ==
    /\ p # q /\ p[1] = q[1] /\ pc[p[1]] = "idle"
    /\ p[2] \in Exclusives <=> q[2] \in Exclusives

\* Mutant of Move: the lock that p held is forgotten.
MoveForgets(p, q) ==
    /\ Movable(p, q)
    /\ guard' = [guard EXCEPT ![p] = guard[q], ![q] = NoLocker]
    /\ UNCHANGED <<pc, at, seen, object, updates, there, rw>>

\* Mutant of Move: q keeps its m_locker.
MoveKeeps(p, q) ==
    /\ Movable(p, q)
    /\ rw' = Unlocked(p)
    /\ guard' = [guard EXCEPT ![p] = guard[q]]
    /\ UNCHANGED <<pc, at, seen, object, updates, there>>

\* Mutant of Move: m_locker is replaced before it is unlocked.
MoveUnlocksLate(p, q) ==
    /\ Movable(p, q)
    /\ rw' = Unlocked(q)
    /\ guard' = [guard EXCEPT ![p] = guard[q], ![q] = NoLocker]
    /\ UNCHANGED <<pc, at, seen, object, updates, there>>

\* p is constructed from q, or assigned: then its old lock is released.
Move(p, q) ==
    /\ Movable(p, q)
    /\ rw' = Unlocked(p)
    /\ guard' = [guard EXCEPT ![p] = guard[q], ![q] = NoLocker]
    /\ UNCHANGED <<pc, at, seen, object, updates, there>>

\* The destructor.
Drop(p) ==
    /\ pc[p[1]] = "idle" /\ guard[p] # NoLocker
    /\ rw' = Unlocked(p)
    /\ guard' = [guard EXCEPT ![p] = NoLocker]
    /\ UNCHANGED <<pc, at, seen, object, updates, there>>

-----------------------------------------------------------------------------
(* Their users, through get() and operator->.                               *)

\* A reference from guard p is only used while the guard is there.
Use(p, label) ==
    LET t == p[1]
    IN  /\ pc[t] = "idle" /\ guard[p] # NoLocker
        /\ at' = [at EXCEPT ![t] = p]
        /\ seen' = [seen EXCEPT ![t] = object[guard[p]].first]
        /\ Goto(t, label)
        /\ UNCHANGED <<guard, object, updates, there, rw>>

BeginUpdate(p) ==
    /\ p[2] \in Exclusives /\ guard[p] # NoLocker => updates[guard[p]] < MaxUpdates
    /\ p[2] \in Exclusives /\ Use(p, "first")

WriteFirst(t) ==
    /\ pc[t] = "first"
    /\ object' = [object EXCEPT ![guard[at[t]]].first = seen[t] + 1]
    /\ Goto(t, "second")
    /\ UNCHANGED <<guard, at, seen, updates, there, rw>>

WriteSecond(t) ==
    LET l == guard[at[t]]
    IN  /\ pc[t] = "second"
        /\ object' = [object EXCEPT ![l].second = seen[t] + 1]
        /\ updates' = [updates EXCEPT ![l] = @ + 1]
        /\ Returns(t)
        /\ UNCHANGED <<guard, there, rw>>

BeginRead(p) == Use(p, "read")

FinishRead(t) ==
    /\ pc[t] = "read"
    /\ Returns(t)
    /\ UNCHANGED <<guard, object, updates, there, rw>>

-----------------------------------------------------------------------------
(* The Locker itself.  Only one that no guard refers to is moved or         *)
(* assigned to; nothing in the code checks that.                            *)

Unguarded(l) == \A p \in Guards : guard[p] # l

\* Mutant of MoveLocker: the lock is moved, the object is not.
MoveLockOnly(l, m) ==
    /\ l # m /\ there[m] /\ Unguarded(l) /\ Unguarded(m)
    /\ there' = [there EXCEPT ![l] = TRUE, ![m] = FALSE]
    /\ rw' = [rw EXCEPT ![l] = rw[m], ![m] = Free]
    /\ updates' = [updates EXCEPT ![l] = updates[m]]
    /\ UNCHANGED <<guard, pc, at, seen, object>>

\* Construction of l from m or assignment to it: the lock, then the object,
\* of which a Counter leaves a copy.
MoveLocker(l, m) ==
    /\ l # m /\ there[m] /\ Unguarded(l) /\ Unguarded(m)
    /\ there' = [there EXCEPT ![l] = TRUE, ![m] = FALSE]
    /\ rw' = [rw EXCEPT ![l] = rw[m], ![m] = Free]
    /\ object' = [object EXCEPT ![l] = object[m]]
    /\ updates' = [updates EXCEPT ![l] = updates[m]]
    /\ UNCHANGED <<guard, pc, at, seen>>

-----------------------------------------------------------------------------
Continue(t) == WriteFirst(t) \/ WriteSecond(t) \/ FinishRead(t)

GuardStep(p) ==
    \/ \E l \in Lockers : Construct(p, l)
    \/ \E q \in Guards : Move(p, q)
    \/ Drop(p) \/ BeginUpdate(p) \/ BeginRead(p)

Next == \/ \E t \in Threads : \/ Claim(t) \/ GrantExclusive(t) \/ GrantShared(t)
                              \/ Continue(t)
        \/ \E p \in Guards : GuardStep(p)
        \/ \E l, m \in Lockers : MoveLocker(l, m)

\* Whichever guard holds it by now.
Leave(t, l) == \E p \in Guards : p[1] = t /\ guard[p] = l /\ Drop(p)

\* The kernel starves nobody who waits, threads run on, and whoever holds a
\* lock comes to drop its guard.
Fairness ==
    /\ \A t \in Threads : /\ SF_vars(Claim(t)) /\ SF_vars(GrantShared(t))
                          /\ WF_vars(GrantExclusive(t)) /\ WF_vars(Continue(t))
    /\ \A t \in Threads, l \in Lockers : SF_vars(Leave(t, l))

Spec == Init /\ [][Next]_vars
FairSpec == Spec /\ Fairness

-----------------------------------------------------------------------------
TypeOK ==
    /\ guard \in [Guards -> Lockers \cup {NoLocker}]
    /\ pc \in [Threads -> {"idle", "exclusive", "claimed", "shared",
                           "first", "second", "read"}]
    /\ at \in [Threads -> Guards \cup {NoGuard}] /\ seen \in [Threads -> Nat]
    /\ object \in [Lockers -> [first : Nat, second : Nat]]
    /\ updates \in [Lockers -> Nat]
    /\ there \in [Lockers -> BOOLEAN]
    /\ rw \in [Lockers -> [want : BOOLEAN, shared : Nat]]

\* Guard p has its lock: it does not wait for it in its constructor.
Waits(p) == at[p[1]] = p /\ pc[p[1]] \in {"exclusive", "claimed", "shared"}
Claims(p) == at[p[1]] = p /\ pc[p[1]] = "claimed"
Holds(p, l) == guard[p] = l /\ ~Waits(p)

\* Whoever holds an exclusive guard is alone, whatever guards were moved
\* where, assigned over or dropped.
Exclusion ==
    \A l \in Lockers : \A p, q \in Guards :
        Holds(p, l) /\ Holds(q, l) /\ p[2] \in Exclusives => p = q

\* The kernel's lock is as its guards say: what is locked will be unlocked,
\* and nothing is unlocked twice.
LockMatchesGuards ==
    \A l \in Lockers :
        /\ rw[l].shared = Cardinality({p \in Threads \X Shareds : Holds(p, l)})
        /\ rw[l].want <=> \E p \in Threads \X Exclusives :
                              Holds(p, l) \/ (guard[p] = l /\ Claims(p))

\* The object counts all updates, in both fields, except while the one thread
\* that may is changing it.
ObjectCounts ==
    \A l \in Lockers :
        \/ object[l] = [first |-> updates[l], second |-> updates[l]]
        \/ \E t \in Threads : pc[t] = "second" /\ guard[at[t]] = l

\* Who reads the object field by field under a guard reads one object.
ReadsWhole ==
    \A t \in Threads : pc[t] = "read" => object[guard[at[t]]].second = seen[t]

\* No update is lost or half done and no reader sees half of one, whoever
\* guards, moves guards and moves Lockers at the same time (Locker.hpp:63-75).
UpdatesKept == ObjectCounts /\ ReadsWhole

\* Who asks for a guard gets it, when lockers are asked for in order.
RequestsGranted ==
    \A t \in Threads : pc[t] \in {"exclusive", "shared"} ~> pc[t] = "idle"
=============================================================================
