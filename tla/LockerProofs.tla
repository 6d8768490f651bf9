---------------------------- MODULE LockerProofs ----------------------------
(***************************************************************************)
(* Theorems about Locker: its guards exclude each other, the kernel's lock *)
(* is as they say, and no update under them is lost.                       *)
(***************************************************************************)
EXTENDS Locker, FiniteSetTheorems, TLAPS

Writers == Threads \X Exclusives
Readers == Threads \X Shareds

\* Guard p has the lock of l, or claims it.
Has(p, l) == guard[p] = l /\ (~Waits(p) \/ Claims(p))

\* Where a thread is, there is a guard of its own, of the right kind.
AtGuards ==
    \A t \in Threads :
        /\ pc[t] # "idle" => /\ at[t] \in Guards /\ at[t][1] = t
                             /\ guard[at[t]] \in Lockers
        /\ pc[t] \in {"exclusive", "claimed", "first", "second"} => at[t] \in Writers
        /\ pc[t] = "shared" => at[t] \in Readers

OneWriter ==
    \A l \in Lockers : \A p, q \in Writers : Has(p, l) /\ Has(q, l) => p = q

WriterAlone ==
    \A l \in Lockers : \A p \in Writers, q \in Readers : ~(Holds(p, l) /\ Holds(q, l))

\* What a thread has read of the object under its guard is still so.
SeenIsThere ==
    \A t \in Threads :
        LET l == guard[at[t]]
        IN  /\ pc[t] \in {"first", "read"} =>
                   /\ seen[t] = updates[l]
                   /\ object[l] = [first |-> updates[l], second |-> updates[l]]
            /\ pc[t] = "second" =>
                   /\ seen[t] = updates[l]
                   /\ object[l] = [first |-> updates[l] + 1, second |-> updates[l]]

LockInv == TypeOK /\ AtGuards /\ LockMatchesGuards /\ OneWriter /\ WriterAlone

IInv == LockInv /\ ObjectCounts /\ SeenIsThere

-----------------------------------------------------------------------------
\* Guards are of one of two kinds.
LEMMA GuardKinds ==
    /\ Guards = Writers \cup Readers /\ Writers \cap Readers = {}
    /\ \A p \in Guards : /\ p[1] \in Threads /\ (p[2] \in Exclusives <=> p \in Writers)
                         /\ (p[2] \notin Exclusives <=> p \in Readers)
    BY GuardsFinite DEF Guards, Writers, Readers

\* The readers of a Locker can be counted.
LEMMA ReadersFinite ==
    ASSUME NEW l PROVE IsFiniteSet({p \in Readers : Holds(p, l)})
<1>1. IsFiniteSet(Readers)
    BY ThreadsFinite, GuardsFinite, FS_Product DEF Readers
<1> QED
    BY <1>1, FS_Subset

\* A guard of a thread that is in no constructor holds what it refers to.
LEMMA IdleHolds ==
    ASSUME NEW p, pc[p[1]] \notin {"exclusive", "claimed", "shared"}, NEW l
    PROVE  (Holds(p, l) <=> guard[p] = l) /\ (Has(p, l) <=> guard[p] = l)
    BY DEF Holds, Has, Waits, Claims

\* Holding an exclusive guard excludes all others.
LEMMA Excludes ==
    ASSUME OneWriter, WriterAlone PROVE Exclusion
<1> SUFFICES ASSUME NEW l \in Lockers, NEW p \in Guards, NEW q \in Guards,
                    Holds(p, l), Holds(q, l), p[2] \in Exclusives
             PROVE  p = q
    BY DEF Exclusion
<1>1. p \in Writers
    BY GuardKinds
<1>2. q \in Writers
    BY <1>1, GuardKinds DEF WriterAlone
<1> QED
    BY <1>1, <1>2 DEF OneWriter, Has, Holds

-----------------------------------------------------------------------------
(* What the actions do to the guards that hold a lock.                       *)

\* Nothing changes for the guards.
Unmoved ==
    \A p \in Guards, l \in Lockers : (Holds(p, l)' <=> Holds(p, l)) /\ (Has(p, l)' <=> Has(p, l))

\* A thread that starts to wait is counted nowhere.
LEMMA ConstructUnmoved ==
    ASSUME LockInv, NEW p \in Guards, NEW l \in Lockers, Construct(p, l)
    PROVE  Unmoved
<1>1. guard' = [guard EXCEPT ![p] = l] /\ at' = [at EXCEPT ![p[1]] = p]
      /\ guard[p] = NoLocker /\ pc[p[1]] = "idle"
      /\ pc' = [pc EXCEPT ![p[1]] = IF p[2] \in Exclusives THEN "exclusive" ELSE "shared"]
    BY DEF Construct, Goto
<1>2. p[1] \in Threads
    BY GuardKinds
<1> SUFFICES ASSUME NEW q \in Guards, NEW m \in Lockers
             PROVE (Holds(q, m)' <=> Holds(q, m)) /\ (Has(q, m)' <=> Has(q, m))
    BY DEF Unmoved
<1>3. q[1] \in Threads
    BY GuardKinds
<1>4. CASE q = p
    BY <1>1, <1>2, <1>4, LockersOrdered
       DEF LockInv, TypeOK, Holds, Has, Waits, Claims
<1>5. CASE q # p
    BY <1>1, <1>2, <1>3, <1>5 DEF LockInv, TypeOK, Holds, Has, Waits, Claims
<1> QED
    BY <1>4, <1>5

\* A thread that is in no constructor uses its guard p.
LEMMA UseUnmoved ==
    ASSUME LockInv, NEW p \in Guards, NEW label \in {"first", "read"}, Use(p, label)
    PROVE  Unmoved
<1>1. at' = [at EXCEPT ![p[1]] = p] /\ pc[p[1]] = "idle"
      /\ guard' = guard /\ pc' = [pc EXCEPT ![p[1]] = label]
    BY DEF Use, Goto
<1>2. p[1] \in Threads
    BY GuardKinds
<1> SUFFICES ASSUME NEW q \in Guards, NEW m \in Lockers
             PROVE (Holds(q, m)' <=> Holds(q, m)) /\ (Has(q, m)' <=> Has(q, m))
    BY DEF Unmoved
<1>3. q[1] \in Threads
    BY GuardKinds
<1> QED
    BY <1>1, <1>2, <1>3 DEF LockInv, TypeOK, Holds, Has, Waits, Claims

\* Work on the object leaves the guards alone.
LEMMA ContinueUnmoved ==
    ASSUME LockInv, NEW t \in Threads, Continue(t)
    PROVE  Unmoved
<1> SUFFICES ASSUME NEW q \in Guards, NEW m \in Lockers
             PROVE (Holds(q, m)' <=> Holds(q, m)) /\ (Has(q, m)' <=> Has(q, m))
    BY DEF Unmoved
<1>1. q[1] \in Threads
    BY GuardKinds
<1>2. CASE WriteFirst(t)
    BY <1>1, <1>2 DEF WriteFirst, Goto, LockInv, TypeOK, Holds, Has, Waits, Claims
<1>3. CASE WriteSecond(t)
    BY <1>1, <1>3 DEF WriteSecond, Returns, LockInv, TypeOK, Holds, Has, Waits, Claims
<1>4. CASE FinishRead(t)
    BY <1>1, <1>4 DEF FinishRead, Returns, LockInv, TypeOK, Holds, Has, Waits, Claims
<1> QED
    BY <1>2, <1>3, <1>4 DEF Continue

\* The claim of a waiting writer.
LEMMA ClaimAdds ==
    ASSUME LockInv, NEW t \in Threads, Claim(t),
           NEW q \in Guards, NEW m \in Lockers
    PROVE  /\ Holds(q, m)' <=> Holds(q, m)
           /\ Has(q, m)' <=> Has(q, m) \/ (q = at[t] /\ m = guard[q])
<1>1. q[1] \in Threads /\ at[t] \in Guards /\ at[t][1] = t
    BY GuardKinds DEF Claim, LockInv, AtGuards
<1> QED
    BY <1>1 DEF Claim, Goto, LockInv, TypeOK, Holds, Has, Waits, Claims

\* Its lock, which it has claimed before.
LEMMA GrantExclusiveAdds ==
    ASSUME LockInv, NEW t \in Threads, GrantExclusive(t),
           NEW q \in Guards, NEW m \in Lockers
    PROVE  /\ Holds(q, m)' <=> Holds(q, m) \/ (q = at[t] /\ m = guard[q])
           /\ Has(q, m)' <=> Has(q, m)
<1>1. q[1] \in Threads /\ at[t] \in Guards /\ at[t][1] = t
    BY GuardKinds DEF GrantExclusive, LockInv, AtGuards
<1> QED
    BY <1>1 DEF GrantExclusive, Returns, LockInv, TypeOK, Holds, Has, Waits, Claims

\* The lock of a waiting reader, which did not have it.
LEMMA GrantSharedAdds ==
    ASSUME LockInv, NEW t \in Threads, GrantShared(t),
           NEW q \in Guards, NEW m \in Lockers
    PROVE  /\ Holds(q, m)' <=> Holds(q, m) \/ (q = at[t] /\ m = guard[q])
           /\ Has(q, m)' <=> Has(q, m) \/ (q = at[t] /\ m = guard[q])
           /\ q = at[t] => ~Holds(q, m)
<1>1. q[1] \in Threads /\ at[t] \in Guards /\ at[t][1] = t
    BY GuardKinds DEF GrantShared, LockInv, AtGuards
<1> QED
    BY <1>1 DEF GrantShared, Returns, LockInv, TypeOK, Holds, Has, Waits, Claims

\* What q held is held by p, what p held by nobody.
LEMMA MovePasses ==
    ASSUME LockInv, NEW p \in Guards, NEW q \in Guards, Move(p, q),
           NEW x \in Guards, NEW m \in Lockers
    PROVE  /\ Holds(x, m)' <=> (x = p /\ guard[q] = m) \/ (x \notin {p, q} /\ Holds(x, m))
           /\ Has(x, m)' <=> (x = p /\ guard[q] = m) \/ (x \notin {p, q} /\ Has(x, m))
           /\ x \in {p, q} => (Holds(x, m) <=> guard[x] = m) /\ (Has(x, m) <=> guard[x] = m)
<1>1. x[1] \in Threads /\ p[1] = q[1] /\ pc[p[1]] = "idle" /\ p # q
    BY GuardKinds DEF Move, Movable
<1>2. guard' = [guard EXCEPT ![p] = guard[q], ![q] = NoLocker] /\ pc' = pc /\ at' = at
    BY DEF Move
<1> QED
    BY <1>1, <1>2, LockersOrdered DEF LockInv, TypeOK, Holds, Has, Waits, Claims

\* What p held is held by nobody.
LEMMA DropReleases ==
    ASSUME LockInv, NEW p \in Guards, Drop(p),
           NEW x \in Guards, NEW m \in Lockers
    PROVE  /\ Holds(x, m)' <=> x # p /\ Holds(x, m)
           /\ Has(x, m)' <=> x # p /\ Has(x, m)
           /\ x = p => (Holds(x, m) <=> guard[x] = m) /\ (Has(x, m) <=> guard[x] = m)
<1>1. x[1] \in Threads /\ pc[p[1]] = "idle"
    BY GuardKinds DEF Drop
<1> QED
    BY <1>1, LockersOrdered DEF Drop, LockInv, TypeOK, Holds, Has, Waits, Claims

-----------------------------------------------------------------------------
(* Types.                                                                    *)

\* A lock that is held for reading counts its reader.
LEMMA ReaderIsCounted ==
    ASSUME LockInv, NEW p \in Readers, NEW l \in Lockers, Holds(p, l)
    PROVE  rw[l].shared > 0
<1> DEFINE S == {q \in Readers : Holds(q, l)}
<1>1. rw[l].shared = Cardinality(S)
    BY DEF LockInv, LockMatchesGuards, Readers
<1>2. IsFiniteSet(S) /\ p \in S
    BY ReadersFinite
<1>3. S # {} /\ Cardinality(S) \in Nat
    BY <1>2, FS_CardinalityType
<1>4. Cardinality(S) # 0
    BY <1>2, <1>3, FS_EmptySet
<1> HIDE DEF S
<1> QED
    BY <1>1, <1>3, <1>4

\* What unlocking guard p does to the locks.
LEMMA UnlockedFields ==
    ASSUME LockInv, NEW p \in Guards, pc[p[1]] = "idle"
    PROVE  /\ Unlocked(p) \in [Lockers -> [want : BOOLEAN, shared : Nat]]
           /\ \A m \in Lockers :
                 /\ Unlocked(p)[m].want <=> rw[m].want /\ ~(guard[p] = m /\ p \in Writers)
                 /\ Unlocked(p)[m].shared = IF guard[p] = m /\ p \in Readers
                                            THEN rw[m].shared - 1 ELSE rw[m].shared
<1> SUFFICES ASSUME NEW m \in Lockers
             PROVE  /\ Unlocked(p)[m] \in [want : BOOLEAN, shared : Nat]
                    /\ Unlocked(p)[m].want <=> rw[m].want /\ ~(guard[p] = m /\ p \in Writers)
                    /\ Unlocked(p)[m].shared = IF guard[p] = m /\ p \in Readers
                                               THEN rw[m].shared - 1 ELSE rw[m].shared
    BY DEF Unlocked
<1>1. rw[m] \in [want : BOOLEAN, shared : Nat]
    BY DEF LockInv, TypeOK
<1>2. CASE guard[p] # m
    BY <1>1, <1>2 DEF Unlocked
<1>3. CASE guard[p] = m /\ p \in Writers
  <2>1. Unlocked(p)[m] = [rw[m] EXCEPT !.want = FALSE] /\ p \notin Readers
    BY <1>3, GuardKinds DEF Unlocked
  <2> QED
    BY <1>1, <1>3, <2>1
<1>4. CASE guard[p] = m /\ p \in Readers
  <2>1. Unlocked(p)[m] = [rw[m] EXCEPT !.shared = @ - 1] /\ p \notin Writers
    BY <1>4, GuardKinds DEF Unlocked
  <2>2. rw[m].shared > 0
    BY <1>4, ReaderIsCounted, IdleHolds
  <2> QED
    BY <1>1, <1>4, <2>1, <2>2
<1> QED
    BY <1>2, <1>3, <1>4, GuardKinds

\* Every action keeps the types.
LEMMA TypesKept ==
    ASSUME LockInv, [Next]_vars PROVE TypeOK'
<1> USE DEF LockInv
<1>1. ASSUME NEW t \in Threads, Claim(t) PROVE TypeOK'
  <2>1. at[t] \in Guards /\ guard[at[t]] \in Lockers
    BY <1>1 DEF Claim, AtGuards
  <2>2. rw' \in [Lockers -> [want : BOOLEAN, shared : Nat]]
    BY <1>1, <2>1 DEF Claim, TypeOK
  <2> QED
    BY <1>1, <2>2 DEF Claim, Goto, TypeOK
<1>2. ASSUME NEW t \in Threads, GrantExclusive(t) PROVE TypeOK'
    BY <1>2 DEF GrantExclusive, Returns, TypeOK
<1>3. ASSUME NEW t \in Threads, GrantShared(t) PROVE TypeOK'
  <2>1. at[t] \in Guards /\ guard[at[t]] \in Lockers
    BY <1>3 DEF GrantShared, AtGuards
  <2>2. rw' \in [Lockers -> [want : BOOLEAN, shared : Nat]]
    BY <1>3, <2>1 DEF GrantShared, TypeOK
  <2> QED
    BY <1>3, <2>2 DEF GrantShared, Returns, TypeOK
<1>4. ASSUME NEW t \in Threads, Continue(t) PROVE TypeOK'
  <2>1. CASE WriteFirst(t)
    <3>1. at[t] \in Guards /\ guard[at[t]] \in Lockers /\ seen[t] + 1 \in Nat
      BY <2>1 DEF WriteFirst, AtGuards, TypeOK
    <3>2. object' \in [Lockers -> [first : Nat, second : Nat]]
      BY <2>1, <3>1 DEF WriteFirst, TypeOK
    <3> QED
      BY <2>1, <3>2 DEF WriteFirst, Goto, TypeOK
  <2>2. CASE WriteSecond(t)
    <3>1. at[t] \in Guards /\ guard[at[t]] \in Lockers /\ seen[t] + 1 \in Nat
      BY <2>2 DEF WriteSecond, AtGuards, TypeOK
    <3>2. object' \in [Lockers -> [first : Nat, second : Nat]]
      BY <2>2, <3>1 DEF WriteSecond, TypeOK
    <3>3. updates' \in [Lockers -> Nat]
      BY <2>2, <3>1 DEF WriteSecond, TypeOK
    <3> QED
      BY <2>2, <3>2, <3>3 DEF WriteSecond, Returns, TypeOK
  <2>3. CASE FinishRead(t)
    BY <2>3 DEF FinishRead, Returns, TypeOK
  <2> QED
    BY <1>4, <2>1, <2>2, <2>3 DEF Continue
<1>5. ASSUME NEW p \in Guards, NEW l \in Lockers, Construct(p, l) PROVE TypeOK'
    BY <1>5, GuardKinds DEF Construct, Goto, TypeOK
<1>6. ASSUME NEW p \in Guards, NEW q \in Guards, Move(p, q) PROVE TypeOK'
  <2>1. rw' \in [Lockers -> [want : BOOLEAN, shared : Nat]]
    BY <1>6, UnlockedFields DEF Move, Movable
  <2> QED
    BY <1>6, <2>1 DEF Move, TypeOK
<1>7. ASSUME NEW p \in Guards, Drop(p) PROVE TypeOK'
  <2>1. rw' \in [Lockers -> [want : BOOLEAN, shared : Nat]]
    BY <1>7, UnlockedFields DEF Drop
  <2> QED
    BY <1>7, <2>1 DEF Drop, TypeOK
<1>8. ASSUME NEW p \in Guards, NEW label \in {"first", "read"}, Use(p, label) PROVE TypeOK'
  <2>1. p[1] \in Threads /\ guard[p] \in Lockers /\ object[guard[p]].first \in Nat
    BY <1>8, GuardKinds DEF Use, TypeOK
  <2> QED
    BY <1>8, <2>1 DEF Use, Goto, TypeOK
<1>9. ASSUME NEW l \in Lockers, NEW m \in Lockers, MoveLocker(l, m) PROVE TypeOK'
  <2>1. Free \in [want : BOOLEAN, shared : Nat]
    BY DEF Free
  <2>2. rw' \in [Lockers -> [want : BOOLEAN, shared : Nat]]
    BY <1>9, <2>1 DEF MoveLocker, TypeOK
  <2> QED
    BY <1>9, <2>2 DEF MoveLocker, TypeOK
<1>10. CASE UNCHANGED vars
    BY <1>10 DEF vars, TypeOK
<1> QED
    BY <1>1, <1>2, <1>3, <1>4, <1>5, <1>6, <1>7, <1>8, <1>9, <1>10
       DEF Next, GuardStep, BeginUpdate, BeginRead

\* A thread that is in the middle of something keeps its guard there.
LEMMA AtGuardsKept ==
    ASSUME LockInv, [Next]_vars PROVE AtGuards'
<1> USE DEF LockInv
<1> SUFFICES ASSUME NEW u \in Threads
             PROVE  /\ pc'[u] # "idle" => /\ at'[u] \in Guards /\ at'[u][1] = u
                                          /\ guard'[at'[u]] \in Lockers
                    /\ pc'[u] \in {"exclusive", "claimed", "first", "second"} => at'[u] \in Writers
                    /\ pc'[u] = "shared" => at'[u] \in Readers
    BY DEF AtGuards, Writers, Readers, Guards
<1>1. ASSUME NEW t \in Threads, Claim(t) \/ GrantExclusive(t) \/ GrantShared(t) \/ Continue(t)
      PROVE  /\ guard' = guard
             /\ \/ at'[u] = at[u] /\ pc'[u] = pc[u]
                \/ at'[u] = at[u] /\ pc[u] = "exclusive" /\ pc'[u] = "claimed"
                \/ at'[u] = at[u] /\ pc[u] = "first" /\ pc'[u] = "second"
                \/ pc'[u] = "idle"
  <2>1. CASE Claim(t)
    BY <2>1 DEF Claim, Goto, TypeOK
  <2>2. CASE GrantExclusive(t)
    BY <2>2 DEF GrantExclusive, Returns, TypeOK
  <2>3. CASE GrantShared(t)
    BY <2>3 DEF GrantShared, Returns, TypeOK
  <2>4. CASE Continue(t)
    BY <2>4 DEF Continue, WriteFirst, WriteSecond, FinishRead, Goto, Returns, TypeOK
  <2> QED
    BY <1>1, <2>1, <2>2, <2>3, <2>4
<1>2. ASSUME NEW p \in Guards, NEW l \in Lockers, Construct(p, l)
      PROVE  /\ guard'[p] = l /\ \A q \in Guards : q # p => guard'[q] = guard[q]
             /\ u = p[1] => at'[u] = p /\ pc'[u] = (IF p \in Writers THEN "exclusive" ELSE "shared")
             /\ u # p[1] => at'[u] = at[u] /\ pc'[u] = pc[u]
    BY <1>2, GuardKinds DEF Construct, Goto, TypeOK
<1>3. ASSUME NEW p \in Guards, NEW q \in Guards, Move(p, q)
      PROVE  /\ at' = at /\ pc' = pc /\ pc[p[1]] = "idle" /\ p[1] = q[1]
             /\ \A x \in Guards : x \notin {p, q} => guard'[x] = guard[x]
    BY <1>3, GuardKinds DEF Move, Movable, TypeOK
<1>4. ASSUME NEW p \in Guards, Drop(p)
      PROVE  /\ at' = at /\ pc' = pc /\ pc[p[1]] = "idle"
             /\ \A x \in Guards : x # p => guard'[x] = guard[x]
    BY <1>4, GuardKinds DEF Drop, TypeOK
<1>5. ASSUME NEW p \in Guards, NEW label \in {"first", "read"}, Use(p, label),
             p \in Writers \/ label = "read"
      PROVE  /\ guard' = guard /\ guard[p] \in Lockers
             /\ u = p[1] => at'[u] = p /\ pc'[u] = label
             /\ u # p[1] => at'[u] = at[u] /\ pc'[u] = pc[u]
    BY <1>5, GuardKinds DEF Use, Goto, TypeOK
<1>6. ASSUME NEW l \in Lockers, NEW m \in Lockers, MoveLocker(l, m)
      PROVE  guard' = guard /\ at' = at /\ pc' = pc
    BY <1>6 DEF MoveLocker
<1>7. ASSUME UNCHANGED vars
      PROVE  guard' = guard /\ at' = at /\ pc' = pc
    BY <1>7 DEF vars
<1> DEFINE Goal == /\ pc'[u] # "idle" => /\ at'[u] \in Guards /\ at'[u][1] = u
                                         /\ guard'[at'[u]] \in Lockers
                   /\ pc'[u] \in {"exclusive", "claimed", "first", "second"} => at'[u] \in Writers
                   /\ pc'[u] = "shared" => at'[u] \in Readers
<1>8. /\ pc[u] # "idle" => at[u] \in Guards /\ at[u][1] = u /\ guard[at[u]] \in Lockers
      /\ pc[u] \in {"exclusive", "claimed", "first", "second"} => at[u] \in Writers
      /\ pc[u] = "shared" => at[u] \in Readers
    BY DEF AtGuards
<1>11. ASSUME NEW t \in Threads, Claim(t) \/ GrantExclusive(t) \/ GrantShared(t) \/ Continue(t)
       PROVE  Goal
    BY <1>1, <1>8, <1>11
<1>12. ASSUME NEW p \in Guards, NEW l \in Lockers, Construct(p, l) PROVE Goal
    BY <1>2, <1>8, <1>12, GuardKinds
<1>13. ASSUME NEW p \in Guards, NEW q \in Guards, Move(p, q) PROVE Goal
    BY <1>3, <1>8, <1>13
<1>14. ASSUME NEW p \in Guards, Drop(p) PROVE Goal
    BY <1>4, <1>8, <1>14
<1>15. ASSUME NEW p \in Guards, BeginUpdate(p) \/ BeginRead(p) PROVE Goal
    BY <1>5, <1>8, <1>15, GuardKinds DEF BeginUpdate, BeginRead
<1>16. ASSUME NEW l \in Lockers, NEW m \in Lockers, MoveLocker(l, m) PROVE Goal
    BY <1>6, <1>8, <1>16
<1>17. ASSUME UNCHANGED vars PROVE Goal
    BY <1>7, <1>8, <1>17
<1> HIDE DEF Goal
<1>18. ASSUME NEW p \in Guards, GuardStep(p) PROVE Goal
    BY <1>12, <1>13, <1>14, <1>15, <1>18 DEF GuardStep
<1>19. ASSUME Next PROVE Goal
    BY <1>11, <1>16, <1>18, <1>19 DEF Next
<1>20. Goal
    BY <1>17, <1>19
<1> QED
    BY <1>20 DEF Goal

-----------------------------------------------------------------------------
(* Exclusion.                                                                *)

Locked == LockMatchesGuards /\ OneWriter /\ WriterAlone

ReadersOf(l) == {p \in Readers : Holds(p, l)}

\* The lock of each Locker, told by the guards that hold or claim it.
LEMMA MatchesHas ==
    LockMatchesGuards <=>
        \A l \in Lockers : /\ rw[l].shared = Cardinality(ReadersOf(l))
                           /\ rw[l].want <=> \E p \in Writers : Has(p, l)
<1>1. ASSUME NEW l \in Lockers
      PROVE  {p \in Threads \X Shareds : Holds(p, l)} = ReadersOf(l)
    BY DEF ReadersOf, Readers
<1>2. ASSUME NEW l \in Lockers, NEW p \in Writers
      PROVE  Has(p, l) <=> (Holds(p, l) \/ (guard[p] = l /\ Claims(p)))
    BY DEF Has, Holds
<1> QED
    BY <1>1, <1>2 DEF LockMatchesGuards, Writers

\* The same after a step.
LEMMA MatchesHasNext ==
    ASSUME \A l \in Lockers : /\ rw'[l].shared = Cardinality(ReadersOf(l)')
                              /\ rw'[l].want <=> \E p \in Writers : Has(p, l)'
    PROVE  LockMatchesGuards'
<1>1. ASSUME NEW l \in Lockers
      PROVE  {p \in Threads \X Shareds : Holds(p, l)'} = ReadersOf(l)'
    BY DEF ReadersOf, Readers
<1>2. ASSUME NEW l \in Lockers, NEW p \in Writers
      PROVE  Has(p, l)' <=> (Holds(p, l)' \/ (guard'[p] = l /\ Claims(p)'))
    BY DEF Has, Holds
<1> QED
    BY <1>1, <1>2 DEF LockMatchesGuards, Writers

\* While nothing changes for the guards and the locks, nothing can break.
LEMMA UnmovedKeeps ==
    ASSUME LockInv, Unmoved, rw' = rw PROVE Locked'
<1>1. ASSUME NEW l \in Lockers PROVE ReadersOf(l)' = ReadersOf(l)
    BY GuardKinds DEF Unmoved, ReadersOf
<1>2. LockMatchesGuards'
    BY <1>1, MatchesHas, MatchesHasNext, GuardKinds DEF LockInv, Unmoved
<1>3. OneWriter'
    BY GuardKinds DEF LockInv, Unmoved, OneWriter
<1>4. WriterAlone'
    BY GuardKinds DEF LockInv, Unmoved, WriterAlone
<1> QED
    BY <1>2, <1>3, <1>4 DEF Locked

\* A writer only claims a lock that no writer has.
LEMMA ClaimKeeps ==
    ASSUME LockInv, NEW t \in Threads, Claim(t) PROVE Locked'
<1> DEFINE k == guard[at[t]]
<1>1. at[t] \in Writers /\ at[t] \in Guards /\ k \in Lockers /\ ~rw[k].want
    BY GuardKinds DEF LockInv, AtGuards, Claim
<1>2. ASSUME NEW p \in Writers PROVE ~Has(p, k)
    BY <1>1, MatchesHas DEF LockInv
<1>3. /\ rw'[k].want /\ rw'[k].shared = rw[k].shared
      /\ \A l \in Lockers : l # k => rw'[l] = rw[l]
    BY <1>1 DEF Claim, LockInv, TypeOK
<1>4. ASSUME NEW l \in Lockers
      PROVE  /\ ReadersOf(l)' = ReadersOf(l)
             /\ \A p \in Writers : Has(p, l)' <=> Has(p, l) \/ (p = at[t] /\ l = k)
    BY ClaimAdds, GuardKinds DEF ReadersOf
<1>5. LockMatchesGuards'
    BY <1>1, <1>3, <1>4, MatchesHas, MatchesHasNext DEF LockInv
<1>6. OneWriter'
    BY <1>1, <1>2, <1>4 DEF LockInv, OneWriter
<1>7. WriterAlone'
    BY ClaimAdds, GuardKinds DEF LockInv, WriterAlone
<1> QED
    BY <1>5, <1>6, <1>7 DEF Locked

\* It is let in when there is no reader inside.
LEMMA GrantExclusiveKeeps ==
    ASSUME LockInv, NEW t \in Threads, GrantExclusive(t) PROVE Locked'
<1> DEFINE k == guard[at[t]]
<1>1. at[t] \in Writers /\ at[t] \in Guards /\ k \in Lockers /\ rw[k].shared = 0 /\ rw' = rw
    BY GuardKinds DEF LockInv, AtGuards, GrantExclusive
<1>2. ASSUME NEW p \in Readers PROVE ~Holds(p, k)
    BY <1>1, GuardKinds, ReaderIsCounted
<1>3. ASSUME NEW l \in Lockers PROVE ReadersOf(l)' = ReadersOf(l)
    BY <1>1, GrantExclusiveAdds, GuardKinds DEF ReadersOf
<1>4. LockMatchesGuards'
    BY <1>1, <1>3, MatchesHas, MatchesHasNext, GrantExclusiveAdds, GuardKinds DEF LockInv
<1>5. OneWriter'
    BY GrantExclusiveAdds, GuardKinds DEF LockInv, OneWriter
<1>6. WriterAlone'
    BY <1>1, <1>2, GrantExclusiveAdds, GuardKinds DEF LockInv, WriterAlone
<1> QED
    BY <1>4, <1>5, <1>6 DEF Locked

\* A reader is let in when there is no writer.
LEMMA GrantSharedKeeps ==
    ASSUME LockInv, NEW t \in Threads, GrantShared(t) PROVE Locked'
<1>0. guard[at[t]] \in Lockers
    BY DEF LockInv, AtGuards, GrantShared
<1> PICK k \in Lockers : k = guard[at[t]]
    BY <1>0
<1>1. at[t] \in Readers /\ at[t] \in Guards /\ ~rw[k].want
    BY GuardKinds DEF LockInv, AtGuards, GrantShared
<1>2. ASSUME NEW p \in Writers PROVE ~Has(p, k) /\ ~Holds(p, k)
    BY <1>1, MatchesHas DEF LockInv, Has, Holds
<1>3. /\ rw'[k].want = rw[k].want /\ rw'[k].shared = rw[k].shared + 1
      /\ \A l \in Lockers : l # k => rw'[l] = rw[l]
    BY <1>1 DEF GrantShared, LockInv, TypeOK
<1>4. ReadersOf(k)' = ReadersOf(k) \cup {at[t]} /\ at[t] \notin ReadersOf(k)
  <2>1. ASSUME NEW p \in Readers
        PROVE  (Holds(p, k)' <=> Holds(p, k) \/ p = at[t]) /\ (p = at[t] => ~Holds(p, k))
    BY <1>1, GrantSharedAdds, GuardKinds
  <2>2. ReadersOf(k)' = {p \in Readers : Holds(p, k) \/ p = at[t]}
    BY <2>1 DEF ReadersOf
  <2> QED
    BY <1>1, <2>1, <2>2 DEF ReadersOf
<1>5. IsFiniteSet(ReadersOf(k))
    BY ReadersFinite DEF ReadersOf
<1>6. Cardinality(ReadersOf(k)') = Cardinality(ReadersOf(k)) + 1
    BY <1>4, <1>5, FS_AddElement
<1>7. ASSUME NEW l \in Lockers, l # k PROVE ReadersOf(l)' = ReadersOf(l)
    BY <1>7, GrantSharedAdds, GuardKinds DEF ReadersOf
<1>8. ASSUME NEW l \in Lockers, NEW p \in Writers PROVE Has(p, l)' <=> Has(p, l)
    BY <1>1, GrantSharedAdds, GuardKinds
<1>9. LockMatchesGuards'
  <2>1. ASSUME NEW l \in Lockers
        PROVE  rw'[l].shared = Cardinality(ReadersOf(l)')
    BY <1>3, <1>6, <1>7, MatchesHas DEF LockInv
  <2>2. ASSUME NEW l \in Lockers
        PROVE  rw'[l].want <=> \E p \in Writers : Has(p, l)'
    BY <1>3, <1>8, MatchesHas DEF LockInv
  <2> QED
    BY <2>1, <2>2, MatchesHasNext
<1>10. OneWriter'
    BY <1>8 DEF LockInv, OneWriter
<1>11. WriterAlone'
    BY <1>1, <1>2, GrantSharedAdds, GuardKinds DEF LockInv, WriterAlone
<1> QED
    BY <1>9, <1>10, <1>11 DEF Locked

\* The destructor releases what its guard held.
LEMMA DropKeeps ==
    ASSUME LockInv, NEW p \in Guards, Drop(p) PROVE Locked'
<1>0. guard[p] \in Lockers /\ pc[p[1]] = "idle" /\ rw' = Unlocked(p)
    BY DEF Drop, LockInv, TypeOK
<1> PICK k \in Lockers : k = guard[p]
    BY <1>0
<1>1. \A m \in Lockers :
         /\ rw'[m].want <=> rw[m].want /\ ~(k = m /\ p \in Writers)
         /\ rw'[m].shared = IF k = m /\ p \in Readers THEN rw[m].shared - 1 ELSE rw[m].shared
    BY <1>0, UnlockedFields
<1>2. ASSUME NEW x \in Guards, NEW m \in Lockers
      PROVE  /\ Holds(x, m)' <=> x # p /\ Holds(x, m)
             /\ Has(x, m)' <=> x # p /\ Has(x, m)
             /\ x = p => (Holds(x, m) <=> k = m) /\ (Has(x, m) <=> k = m)
    BY DropReleases
<1>3. ASSUME NEW m \in Lockers
      PROVE  rw'[m].want <=> \E x \in Writers : Has(x, m)'
  <2>1. rw[m].want <=> \E x \in Writers : Has(x, m)
    BY MatchesHas DEF LockInv
  <2> QED
    BY <1>1, <1>2, <2>1, GuardKinds DEF LockInv, OneWriter
<1>4. ASSUME NEW m \in Lockers
      PROVE  rw'[m].shared = Cardinality(ReadersOf(m)')
  <2>1. rw[m].shared = Cardinality(ReadersOf(m))
    BY MatchesHas DEF LockInv
  <2>2. ReadersOf(m)' = ReadersOf(m) \ {p}
    BY <1>2, GuardKinds DEF ReadersOf
  <2>3. p \in ReadersOf(m) <=> k = m /\ p \in Readers
    BY <1>2 DEF ReadersOf
  <2>4. CASE p \in ReadersOf(m)
    <3>1. Cardinality(ReadersOf(m) \ {p}) = Cardinality(ReadersOf(m)) - 1
      BY <2>4, ReadersFinite, FS_RemoveElement DEF ReadersOf
    <3> QED
      BY <1>1, <2>1, <2>2, <2>3, <2>4, <3>1
  <2>5. CASE p \notin ReadersOf(m)
    <3>1. ReadersOf(m)' = ReadersOf(m)
      BY <2>2, <2>5
    <3> QED
      BY <1>1, <2>1, <2>3, <2>5, <3>1
  <2> QED
    BY <2>4, <2>5
<1>5. LockMatchesGuards'
    BY <1>3, <1>4, MatchesHasNext
<1>6. OneWriter'
    BY <1>2, GuardKinds DEF LockInv, OneWriter
<1>7. WriterAlone'
    BY <1>2, GuardKinds DEF LockInv, WriterAlone
<1> QED
    BY <1>5, <1>6, <1>7 DEF Locked

\* A moved guard takes its lock along and releases what the target held.
LEMMA MoveKeepsLocked ==
    ASSUME LockInv, NEW p \in Guards, NEW q \in Guards, Move(p, q) PROVE Locked'
<1>0. /\ pc[p[1]] = "idle" /\ rw' = Unlocked(p) /\ p # q
      /\ p \in Writers <=> q \in Writers
      /\ p \in Readers <=> q \in Readers
    BY GuardKinds DEF Move, Movable
<1>1. \A m \in Lockers :
         /\ rw'[m].want <=> rw[m].want /\ ~(guard[p] = m /\ p \in Writers)
         /\ rw'[m].shared = IF guard[p] = m /\ p \in Readers THEN rw[m].shared - 1
                            ELSE rw[m].shared
    BY <1>0, UnlockedFields
<1>2. ASSUME NEW x \in Guards, NEW m \in Lockers
      PROVE  /\ Holds(x, m)' <=> (x = p /\ guard[q] = m) \/ (x \notin {p, q} /\ Holds(x, m))
             /\ Has(x, m)' <=> (x = p /\ guard[q] = m) \/ (x \notin {p, q} /\ Has(x, m))
             /\ x \in {p, q} => (Holds(x, m) <=> guard[x] = m) /\ (Has(x, m) <=> guard[x] = m)
    BY MovePasses
<1>3. ASSUME NEW m \in Lockers
      PROVE  rw'[m].want <=> \E x \in Writers : Has(x, m)'
  <2>1. rw[m].want <=> \E x \in Writers : Has(x, m)
    BY MatchesHas DEF LockInv
  <2>2. CASE p \in Readers
    <3>1. ASSUME NEW x \in Writers PROVE Has(x, m)' <=> Has(x, m)
      BY <1>0, <1>2, <2>2, GuardKinds
    <3> QED
      BY <1>1, <2>1, <2>2, <3>1, GuardKinds
  <2>3. CASE p \in Writers
    <3>1. ASSUME rw[m].want, guard[p] # m PROVE \E x \in Writers : Has(x, m)'
      <4>1. PICK x \in Writers : Has(x, m)
        BY <2>1, <3>1
      <4>2. CASE x = q
        BY <1>2, <2>3, <4>1, <4>2, GuardKinds
      <4>3. CASE x # q
        BY <1>2, <3>1, <4>1, <4>3, GuardKinds
      <4> QED
        BY <4>2, <4>3
    <3>2. ASSUME NEW x \in Writers, Has(x, m)' PROVE rw[m].want /\ guard[p] # m
      <4>1. PICK y \in Writers : Has(y, m) /\ y # p
        BY <1>0, <1>2, <2>3, <3>2, GuardKinds
      <4> QED
        BY <1>2, <2>1, <2>3, <4>1 DEF LockInv, OneWriter
    <3> QED
      BY <1>1, <2>3, <3>1, <3>2
  <2> QED
    BY <2>2, <2>3, GuardKinds
<1>4. ASSUME NEW m \in Lockers
      PROVE  rw'[m].shared = Cardinality(ReadersOf(m)')
  <2> DEFINE S == ReadersOf(m)
  <2>1. rw[m].shared = Cardinality(S) /\ IsFiniteSet(S)
    BY MatchesHas, ReadersFinite DEF LockInv, ReadersOf
  <2>2. ASSUME p \in Readers
        PROVE  (p \in S <=> guard[p] = m) /\ (q \in S <=> guard[q] = m)
    BY <1>0, <1>2, <2>2 DEF ReadersOf
  <2>3. CASE p \in Writers
    <3>1. ReadersOf(m)' = S
      BY <1>0, <1>2, <2>3, GuardKinds DEF ReadersOf
    <3> QED
      BY <1>1, <2>1, <2>3, <3>1, GuardKinds
  <2>4. CASE p \in Readers /\ q \in S
    <3>1. ReadersOf(m)' = (S \ {q}) \cup {p}
      BY <1>0, <1>2, <2>2, <2>4, GuardKinds DEF ReadersOf
    <3>2. IsFiniteSet(S \ {q}) /\ Cardinality(S \ {q}) = Cardinality(S) - 1
      BY <2>1, <2>4, FS_RemoveElement
    <3>3. CASE p \in S
      <4>1. (S \ {q}) \cup {p} = S \ {q}
        BY <1>0, <3>3
      <4> QED
        BY <1>1, <2>1, <2>2, <2>4, <3>1, <3>2, <3>3, <4>1, ZenonT(30)
    <3>4. CASE p \notin S
      <4>1. Cardinality((S \ {q}) \cup {p}) = Cardinality(S \ {q}) + 1
        BY <3>2, <3>4, FS_AddElement
      <4>2. Cardinality(S) \in Nat
        BY <2>1, FS_CardinalityType
      <4> QED
        BY <1>1, <2>1, <2>2, <2>4, <3>1, <3>2, <3>4, <4>1, <4>2
    <3> QED
      BY <3>3, <3>4
  <2>5. CASE p \in Readers /\ q \notin S
    <3>1. ReadersOf(m)' = S \ {p}
      BY <1>0, <1>2, <2>2, <2>5, GuardKinds DEF ReadersOf
    <3>2. CASE p \in S
      <4>1. Cardinality(S \ {p}) = Cardinality(S) - 1
        BY <2>1, <3>2, FS_RemoveElement
      <4> QED
        BY <1>1, <2>1, <2>2, <2>5, <3>1, <3>2, <4>1
    <3>3. CASE p \notin S
      <4>1. S \ {p} = S
        BY <3>3
      <4> QED
        BY <1>1, <2>1, <2>2, <2>5, <3>1, <3>3, <4>1
    <3> QED
      BY <3>2, <3>3
  <2> QED
    BY <2>3, <2>4, <2>5, GuardKinds
<1>5. LockMatchesGuards'
    BY <1>3, <1>4, MatchesHasNext
<1>6. OneWriter'
    BY <1>0, <1>2, GuardKinds DEF LockInv, OneWriter
<1>7. WriterAlone'
    BY <1>0, <1>2, GuardKinds DEF LockInv, WriterAlone
<1> QED
    BY <1>5, <1>6, <1>7 DEF Locked

\* The lock of a Locker that nobody guards is free.
LEMMA MoveLockerKeeps ==
    ASSUME LockInv, NEW l \in Lockers, NEW m \in Lockers, MoveLocker(l, m) PROVE Locked'
<1>1. /\ guard' = guard /\ pc' = pc /\ at' = at
      /\ rw' = [rw EXCEPT ![l] = rw[m], ![m] = Free] /\ l # m
      /\ Unguarded(l) /\ Unguarded(m)
    BY DEF MoveLocker
<1>2. ASSUME NEW n \in Lockers
      PROVE  /\ ReadersOf(n)' = ReadersOf(n)
             /\ \A x \in Guards : (Holds(x, n)' <=> Holds(x, n)) /\ (Has(x, n)' <=> Has(x, n))
    BY <1>1 DEF ReadersOf, Holds, Has, Waits, Claims
<1>3. ASSUME NEW n \in {l, m}
      PROVE  /\ rw[n].shared = 0 /\ ~rw[n].want
             /\ Cardinality(ReadersOf(n)) = 0 /\ \A x \in Writers : ~Has(x, n)
  <2>1. \A x \in Guards : ~Has(x, n) /\ ~Holds(x, n)
    BY <1>1 DEF Unguarded, Has, Holds
  <2>2. ReadersOf(n) = {}
    BY <2>1, GuardKinds DEF ReadersOf
  <2> QED
    BY <2>1, <2>2, FS_EmptySet, MatchesHas, GuardKinds DEF LockInv
<1>4. ASSUME NEW n \in Lockers
      PROVE  rw'[n].shared = rw[n].shared /\ (rw'[n].want <=> rw[n].want)
    BY <1>1, <1>3 DEF LockInv, TypeOK, Free
<1>5. LockMatchesGuards'
  <2>1. ASSUME NEW n \in Lockers PROVE rw'[n].shared = Cardinality(ReadersOf(n)')
    BY <1>2, <1>4, MatchesHas DEF LockInv
  <2>2. ASSUME NEW n \in Lockers PROVE rw'[n].want <=> \E x \in Writers : Has(x, n)'
    BY <1>2, <1>4, MatchesHas, GuardKinds DEF LockInv
  <2> QED
    BY <2>1, <2>2, MatchesHasNext
<1>6. OneWriter'
    BY <1>2, GuardKinds DEF LockInv, OneWriter
<1>7. WriterAlone'
    BY <1>2, GuardKinds DEF LockInv, WriterAlone
<1> QED
    BY <1>5, <1>6, <1>7 DEF Locked

\* Every action keeps the guards, the locks and who may hold them consistent.
LEMMA LockedKept ==
    ASSUME LockInv, [Next]_vars PROVE Locked'
<1>1. ASSUME NEW t \in Threads, Continue(t) PROVE Locked'
  <2>1. rw' = rw
    BY <1>1 DEF Continue, WriteFirst, WriteSecond, FinishRead
  <2> QED
    BY <1>1, <2>1, ContinueUnmoved, UnmovedKeeps
<1>2. ASSUME NEW p \in Guards, NEW l \in Lockers, Construct(p, l) PROVE Locked'
  <2>1. rw' = rw
    BY <1>2 DEF Construct
  <2> QED
    BY <1>2, <2>1, ConstructUnmoved, UnmovedKeeps
<1>3. ASSUME NEW p \in Guards, BeginUpdate(p) \/ BeginRead(p) PROVE Locked'
  <2>1. rw' = rw
    BY <1>3 DEF BeginUpdate, BeginRead, Use
  <2>2. Unmoved
    BY <1>3, UseUnmoved DEF BeginUpdate, BeginRead
  <2> QED
    BY <2>1, <2>2, UnmovedKeeps
<1>4. ASSUME NEW p \in Guards, GuardStep(p) PROVE Locked'
    BY <1>2, <1>3, <1>4, MoveKeepsLocked, DropKeeps DEF GuardStep
<1>5. ASSUME Next PROVE Locked'
    BY <1>1, <1>4, <1>5, ClaimKeeps, GrantExclusiveKeeps, GrantSharedKeeps, MoveLockerKeeps
       DEF Next
<1>6. ASSUME UNCHANGED vars PROVE Locked'
    BY <1>6, UnmovedKeeps DEF vars, Unmoved, Holds, Has, Waits, Claims
<1> QED
    BY <1>5, <1>6

-----------------------------------------------------------------------------
(* Updates.                                                                  *)

Using == {"first", "second", "read"}

\* While a thread updates the object, no other one uses it.
LEMMA UpdaterIsAlone ==
    ASSUME LockInv, NEW t \in Threads, NEW p \in Guards,
           pc[t] \in {"first", "second"}, guard[p] = guard[at[t]],
           pc[p[1]] \in {"idle"} \cup Using
    PROVE  p = at[t]
<1>1. at[t] \in Writers /\ at[t] \in Guards /\ at[t][1] = t /\ guard[at[t]] \in Lockers
    BY GuardKinds DEF LockInv, AtGuards
<1>2. at[t][2] \in Exclusives
    BY <1>1, GuardKinds
<1>3. Holds(p, guard[at[t]]) /\ Holds(at[t], guard[at[t]])
    BY <1>1 DEF Holds, Waits, Using
<1> QED
    BY <1>1, <1>2, <1>3, Excludes DEF Exclusion, LockInv

\* No thread uses the object otherwise than before.
Quiet ==
    /\ object' = object /\ updates' = updates
    /\ \A u \in Threads :
          /\ pc'[u] \in Using => /\ pc'[u] = pc[u] /\ seen'[u] = seen[u]
                                 /\ guard'[at'[u]] = guard[at[u]]
          /\ pc[u] = "second" => pc'[u] = "second" /\ guard'[at'[u]] = guard[at[u]]

\* Then updates are kept.
LEMMA QuietKeeps ==
    ASSUME IInv, Quiet PROVE ObjectCounts' /\ SeenIsThere'
<1>1. ObjectCounts'
    BY DEF IInv, Quiet, ObjectCounts
<1>2. SeenIsThere'
    BY DEF IInv, Quiet, SeenIsThere, Using
<1> QED
    BY <1>1, <1>2

\* Neither waiting for a lock nor handing it on is.
LEMMA GuardStepsAreQuiet ==
    ASSUME LockInv
    PROVE  /\ \A t \in Threads : Claim(t) \/ GrantExclusive(t) \/ GrantShared(t)
                                 \/ FinishRead(t) => Quiet
           /\ \A p \in Guards, l \in Lockers : Construct(p, l) => Quiet
           /\ \A p, q \in Guards : Move(p, q) => Quiet
           /\ \A p \in Guards : Drop(p) => Quiet
           /\ UNCHANGED vars => Quiet
<1>1. ASSUME NEW u \in Threads
      PROVE  pc[u] \in Using => at[u] \in Guards /\ at[u][1] = u
    BY DEF LockInv, AtGuards, Using
<1>2. ASSUME NEW t \in Threads, Claim(t) PROVE Quiet
    BY <1>2 DEF Claim, Goto, Quiet, Using, LockInv, TypeOK
<1>3. ASSUME NEW t \in Threads, GrantExclusive(t) PROVE Quiet
    BY <1>3 DEF GrantExclusive, Returns, Quiet, Using, LockInv, TypeOK
<1>4. ASSUME NEW t \in Threads, GrantShared(t) PROVE Quiet
    BY <1>4 DEF GrantShared, Returns, Quiet, Using, LockInv, TypeOK
<1>5. ASSUME NEW t \in Threads, FinishRead(t) PROVE Quiet
    BY <1>5 DEF FinishRead, Returns, Quiet, Using, LockInv, TypeOK
<1>6. ASSUME NEW p \in Guards, NEW l \in Lockers, Construct(p, l) PROVE Quiet
    BY <1>1, <1>6, GuardKinds DEF Construct, Goto, Quiet, Using, LockInv, TypeOK
<1>7. ASSUME NEW p \in Guards, NEW q \in Guards, Move(p, q) PROVE Quiet
    BY <1>1, <1>7, GuardKinds DEF Move, Movable, Quiet, Using, LockInv, TypeOK
<1>8. ASSUME NEW p \in Guards, Drop(p) PROVE Quiet
    BY <1>1, <1>8, GuardKinds DEF Drop, Quiet, Using, LockInv, TypeOK
<1>9. ASSUME UNCHANGED vars PROVE Quiet
    BY <1>9 DEF vars, Quiet, Using
<1> QED
    BY <1>2, <1>3, <1>4, <1>5, <1>6, <1>7, <1>8, <1>9

\* Who starts to use the object finds all updates in it.
LEMMA UseKeeps ==
    ASSUME IInv, NEW p \in Guards, NEW label \in {"first", "read"}, Use(p, label)
    PROVE  ObjectCounts' /\ SeenIsThere'
<1>1. /\ p[1] \in Threads /\ guard[p] \in Lockers /\ pc[p[1]] = "idle"
      /\ object' = object /\ updates' = updates /\ guard' = guard
      /\ seen'[p[1]] = object[guard[p]].first /\ at'[p[1]] = p /\ pc'[p[1]] = label
      /\ \A u \in Threads : u # p[1] => pc'[u] = pc[u] /\ seen'[u] = seen[u] /\ at'[u] = at[u]
    BY GuardKinds DEF Use, Goto, IInv, LockInv, TypeOK
<1>2. ASSUME NEW t \in Threads, pc[t] = "second", guard[at[t]] = guard[p] PROVE FALSE
  <2>1. p = at[t]
    BY <1>1, <1>2, UpdaterIsAlone DEF IInv
  <2> QED
    BY <1>1, <1>2, <2>1 DEF IInv, LockInv, AtGuards
<1>3. object[guard[p]] = [first |-> updates[guard[p]], second |-> updates[guard[p]]]
    BY <1>1, <1>2 DEF IInv, ObjectCounts
<1>4. ObjectCounts'
    BY <1>1 DEF IInv, ObjectCounts
<1>5. SeenIsThere'
    BY <1>1, <1>3 DEF IInv, SeenIsThere
<1> QED
    BY <1>4, <1>5

\* The first half of an update, which nobody else sees.
LEMMA WriteFirstKeeps ==
    ASSUME IInv, NEW t \in Threads, WriteFirst(t)
    PROVE  ObjectCounts' /\ SeenIsThere'
<1>1. pc[t] = "first" /\ at[t] \in Guards /\ at[t][1] = t /\ guard[at[t]] \in Lockers
    BY DEF WriteFirst, IInv, LockInv, AtGuards
<1> PICK l \in Lockers : l = guard[at[t]]
    BY <1>1
<1>2. /\ guard' = guard /\ at' = at /\ seen' = seen /\ updates' = updates
      /\ pc'[t] = "second" /\ \A u \in Threads : u # t => pc'[u] = pc[u]
      /\ object'[l] = [object[l] EXCEPT !.first = seen[t] + 1]
      /\ \A m \in Lockers : m # l => object'[m] = object[m]
    BY DEF WriteFirst, Goto, IInv, LockInv, TypeOK
<1>3. /\ object[l] \in [first : Nat, second : Nat]
      /\ seen[t] = updates[l] /\ object[l].second = updates[l]
  <2>1. seen[t] = updates[l] /\ object[l] = [first |-> updates[l], second |-> updates[l]]
    BY <1>1 DEF IInv, SeenIsThere
  <2> QED
    BY <2>1 DEF IInv, LockInv, TypeOK
<1>4. object'[l] = [first |-> updates[l] + 1, second |-> updates[l]]
    BY <1>2, <1>3
<1>5. ASSUME NEW u \in Threads, u # t, pc[u] \in Using PROVE guard[at[u]] # l
  <2>1. at[u] \in Guards /\ at[u][1] = u
    BY <1>5 DEF IInv, LockInv, AtGuards, Using
  <2> QED
    BY <1>1, <1>5, <2>1, UpdaterIsAlone DEF IInv
<1>6. ObjectCounts'
    BY <1>2 DEF IInv, ObjectCounts
<1>7. ASSUME NEW u \in Threads, u # t, pc[u] \in Using PROVE guard[at[u]] \in Lockers
    BY <1>7 DEF IInv, LockInv, AtGuards, Using
<1>8. SeenIsThere'
    BY <1>2, <1>3, <1>4, <1>5, <1>7 DEF IInv, SeenIsThere, Using
<1> QED
    BY <1>6, <1>8

\* The second half, with which the update is there.
LEMMA WriteSecondKeeps ==
    ASSUME IInv, NEW t \in Threads, WriteSecond(t)
    PROVE  ObjectCounts' /\ SeenIsThere'
<1>1. pc[t] = "second" /\ at[t] \in Guards /\ at[t][1] = t /\ guard[at[t]] \in Lockers
    BY DEF WriteSecond, IInv, LockInv, AtGuards
<1> PICK l \in Lockers : l = guard[at[t]]
    BY <1>1
<1>2. /\ guard' = guard /\ pc'[t] = "idle"
      /\ \A u \in Threads : u # t => pc'[u] = pc[u] /\ at'[u] = at[u] /\ seen'[u] = seen[u]
      /\ object'[l] = [object[l] EXCEPT !.second = seen[t] + 1]
      /\ updates'[l] = updates[l] + 1
      /\ \A m \in Lockers : m # l => object'[m] = object[m] /\ updates'[m] = updates[m]
    BY DEF WriteSecond, Returns, IInv, LockInv, TypeOK
<1>3. /\ object[l] \in [first : Nat, second : Nat]
      /\ seen[t] = updates[l] /\ object[l].first = updates[l] + 1
  <2>1. seen[t] = updates[l] /\ object[l] = [first |-> updates[l] + 1, second |-> updates[l]]
    BY <1>1 DEF IInv, SeenIsThere
  <2> QED
    BY <2>1 DEF IInv, LockInv, TypeOK
<1>4. object'[l] = [first |-> updates'[l], second |-> updates'[l]]
    BY <1>2, <1>3
<1>5. ASSUME NEW u \in Threads, u # t, pc[u] \in Using
      PROVE guard[at[u]] # l /\ guard[at[u]] \in Lockers
  <2>1. at[u] \in Guards /\ at[u][1] = u /\ guard[at[u]] \in Lockers
    BY <1>5 DEF IInv, LockInv, AtGuards, Using
  <2> QED
    BY <1>1, <1>5, <2>1, UpdaterIsAlone DEF IInv
<1>6. ObjectCounts'
  <2> SUFFICES ASSUME NEW m \in Lockers, m # l
               PROVE  \/ object'[m] = [first |-> updates'[m], second |-> updates'[m]]
                      \/ \E u \in Threads : pc'[u] = "second" /\ guard'[at'[u]] = m
    BY <1>4 DEF ObjectCounts
  <2>1. CASE object[m] = [first |-> updates[m], second |-> updates[m]]
    BY <1>2, <2>1
  <2>2. CASE \E u \in Threads : pc[u] = "second" /\ guard[at[u]] = m
    BY <1>2, <2>2
  <2> QED
    BY <2>1, <2>2 DEF IInv, ObjectCounts
<1>7. SeenIsThere'
    BY <1>2, <1>5 DEF IInv, SeenIsThere, Using
<1> QED
    BY <1>6, <1>7

\* A Locker that nobody guards nobody uses; it moves with its object.
LEMMA MoveLockerKeepsUpdates ==
    ASSUME IInv, NEW l \in Lockers, NEW m \in Lockers, MoveLocker(l, m)
    PROVE  ObjectCounts' /\ SeenIsThere'
<1>1. /\ guard' = guard /\ pc' = pc /\ at' = at /\ seen' = seen
      /\ object'[l] = object[m] /\ updates'[l] = updates[m]
      /\ \A n \in Lockers : n # l => object'[n] = object[n] /\ updates'[n] = updates[n]
      /\ Unguarded(l) /\ Unguarded(m)
    BY DEF MoveLocker, IInv, LockInv, TypeOK
<1>2. ASSUME NEW u \in Threads, pc[u] \in Using
      PROVE  guard[at[u]] \notin {l, m} /\ guard[at[u]] \in Lockers
    BY <1>1, <1>2 DEF IInv, LockInv, AtGuards, Using, Unguarded
<1>3. ObjectCounts'
  <2> SUFFICES ASSUME NEW n \in Lockers
               PROVE  \/ object'[n] = [first |-> updates'[n], second |-> updates'[n]]
                      \/ \E u \in Threads : pc'[u] = "second" /\ guard'[at'[u]] = n
    BY DEF ObjectCounts
  <2>1. CASE n = l
    BY <1>1, <1>2, <2>1 DEF IInv, ObjectCounts, Using
  <2>2. CASE n # l
    BY <1>1, <2>2 DEF IInv, ObjectCounts
  <2> QED
    BY <2>1, <2>2
<1>4. SeenIsThere'
    BY <1>1, <1>2 DEF IInv, SeenIsThere, Using
<1> QED
    BY <1>3, <1>4

-----------------------------------------------------------------------------
\* At first no guard has a locker, and every Locker is new.
LEMMA InitHolds ==
    ASSUME Init PROVE IInv
<1>1. ASSUME NEW p \in Guards, NEW l \in Lockers PROVE ~Holds(p, l) /\ ~Has(p, l)
    BY <1>1, LockersOrdered DEF Init, Holds, Has
<1>2. TypeOK
    BY GuardKinds, LockersOrdered DEF Init, TypeOK, Free
<1>3. AtGuards
    BY DEF Init, AtGuards
<1>4. LockMatchesGuards
  <2>1. ASSUME NEW l \in Lockers PROVE ReadersOf(l) = {}
    BY <1>1, GuardKinds DEF ReadersOf
  <2>2. ASSUME NEW l \in Lockers PROVE rw[l].shared = Cardinality(ReadersOf(l)) /\ ~rw[l].want
    BY <2>1, FS_EmptySet DEF Init, Free
  <2> QED
    BY <1>1, <2>2, MatchesHas, GuardKinds
<1>5. OneWriter /\ WriterAlone
    BY <1>1, GuardKinds DEF OneWriter, WriterAlone
<1>6. ObjectCounts /\ SeenIsThere
    BY DEF Init, ObjectCounts, SeenIsThere
<1> QED
    BY <1>2, <1>3, <1>4, <1>5, <1>6 DEF IInv, LockInv

\* Every step keeps the invariant.
LEMMA StepHolds ==
    ASSUME IInv, [Next]_vars PROVE IInv'
<1>1. LockInv'
    BY TypesKept, AtGuardsKept, LockedKept DEF IInv, LockInv, Locked
<1>2. ASSUME NEW t \in Threads,
             Claim(t) \/ GrantExclusive(t) \/ GrantShared(t) \/ Continue(t)
      PROVE  ObjectCounts' /\ SeenIsThere'
    BY <1>2, GuardStepsAreQuiet, QuietKeeps, WriteFirstKeeps, WriteSecondKeeps
       DEF Continue, IInv
<1>3. ASSUME NEW p \in Guards, BeginUpdate(p) \/ BeginRead(p)
      PROVE  ObjectCounts' /\ SeenIsThere'
    BY <1>3, UseKeeps DEF BeginUpdate, BeginRead
<1>4. ASSUME NEW p \in Guards, GuardStep(p)
      PROVE  ObjectCounts' /\ SeenIsThere'
    BY <1>3, <1>4, GuardStepsAreQuiet, QuietKeeps DEF GuardStep, IInv
<1>5. ASSUME NEW l \in Lockers, NEW m \in Lockers, MoveLocker(l, m)
      PROVE  ObjectCounts' /\ SeenIsThere'
    BY <1>5, MoveLockerKeepsUpdates
<1>6. ASSUME UNCHANGED vars PROVE ObjectCounts' /\ SeenIsThere'
    BY <1>6, GuardStepsAreQuiet, QuietKeeps DEF IInv
<1> QED
    BY <1>1, <1>2, <1>4, <1>5, <1>6 DEF Next, IInv

\* The inductive invariant of the lockers: types, the guard each thread is
\* busy with, the kernel's lock as its guards say, one writer that is alone,
\* and an object that counts its updates.
THEOREM Invariant == Spec => []IInv
<1> QED
    BY InitHolds, StepHolds, PTL DEF Spec

\* Every variable keeps its type; the kernel's count of readers never
\* underflows.
THEOREM TypesHold == Spec => []TypeOK
<1>1. IInv => TypeOK
    BY DEF IInv, LockInv
<1> QED
    BY <1>1, Invariant, PTL

\* Whoever holds an exclusive guard is alone, however guards and Lockers
\* were moved.
THEOREM GuardsExclude == Spec => []Exclusion
<1>1. IInv => Exclusion
    BY Excludes DEF IInv, LockInv
<1> QED
    BY <1>1, Invariant, PTL

\* Everything locked is unlocked by the one guard that has it.
THEOREM GuardsAccountForLocks == Spec => []LockMatchesGuards
<1>1. IInv => LockMatchesGuards
    BY DEF IInv, LockInv
<1> QED
    BY <1>1, Invariant, PTL

\* No update under a guard is lost or half done, and a reader sees one version
\* of the object.
THEOREM NoUpdateIsLost == Spec => []UpdatesKept
<1>1. IInv => ObjectCounts
    BY DEF IInv
<1>2. IInv => ReadsWhole
  <2> SUFFICES ASSUME IInv, NEW t \in Threads, pc[t] = "read"
               PROVE  object[guard[at[t]]].second = seen[t]
    BY DEF ReadsWhole
  <2> DEFINE l == guard[at[t]]
  <2>1. seen[t] = updates[l] /\ object[l] = [first |-> updates[l], second |-> updates[l]]
    BY DEF IInv, SeenIsThere
  <2> QED
    BY <2>1
<1>3. IInv => UpdatesKept
    BY <1>1, <1>2 DEF UpdatesKept
<1> QED
    BY <1>3, Invariant, PTL
=============================================================================
