-------------------------------- MODULE Map --------------------------------
(***************************************************************************)
(* dstd::Map (dstd/DataStructures/Map.hpp): open addressing with linear    *)
(* probing, tombstones and a rehash before an insert that would load the   *)
(* table beyond three quarters.  The rehash loop is one step per slot; any *)
(* other call is one step, for the map is used by one thread.              *)
(***************************************************************************)
EXTENDS Integers, FiniteSets

CONSTANTS
    Keys, Values,
    None,             \* no key, no value, the null pointer
    Lost,             \* what is read of a value in a buffer that was freed
    Hash,             \* MapHash, a function of the keys
    DefaultCapacity,  \* kDefaultCapacity
    Capacities,       \* the capacities passed to make()
    MaxCapacity,      \* bound: no larger table is asked for
    Iterates          \* is an iterator used in this instance?

ASSUME HashIsNatural == Hash \in [Keys -> Nat]
ASSUME CapacitiesAreNatural == Capacities \subseteq Nat /\ MaxCapacity \in Nat
ASSUME NoneIsNoKey == None \notin Keys /\ None \notin Values
ASSUME LostIsNoValue == Lost \notin Values \cup {None}
ASSUME IteratesIsBoolean == Iterates \in BOOLEAN

VARIABLES
    slots,     \* the entries of m_buffer
    size,      \* m_size
    capacity,  \* m_capacity
    pc,        \* "ready", or "rehash" or "insert" inside insert()
    ins,       \* the arguments of the insert under way
    fresh,     \* newMap in rehash(): its slots, size and capacity
    next,      \* index of the loop in rehash()
    res,       \* what the last call returned
    it         \* an iterator: its index, and ghosts: the keys it visited
               \* and those of its begin() that were not removed since

vars == <<slots, size, capacity, pc, ins, fresh, next, res, it>>

-----------------------------------------------------------------------------
(* MapEntry.                                                                *)

Slot == {[state |-> s, key |-> None, value |-> None] : s \in {"empty", "tombstone"}}
        \cup [state : {"occupied"}, key : Keys, value : Values \cup {Lost}]

EmptySlot == [state |-> "empty", key |-> None, value |-> None]
Tombstone == [state |-> "tombstone", key |-> None, value |-> None]
Entry(k, v) == [state |-> "occupied", key |-> k, value |-> v]

IsEmpty(s) == s.state = "empty"
IsTombstone(s) == s.state = "tombstone"
IsOccupied(s) == s.state = "occupied"
Holds(s, k) == IsOccupied(s) /\ s.key = k

Occupied(T, n) == {i \in 0..n - 1 : IsOccupied(T[i])}

\* The buffer make() constructs.
EmptyTable(n) == [i \in 0..n - 1 |-> EmptySlot]

-----------------------------------------------------------------------------
(* Probing: a table T of n slots, n a power of two, so & (n - 1) is % n.     *)

\* The slot that the search for k looks at after d others.
Probe(k, d, n) == (Hash[k] + d) % n

Least(S) == CHOOSE d \in S : \A e \in S : d <= e

\* All divisors but 1 are even.
IsPowerOfTwo(n) == n > 0 /\ \A d \in 1..n : n % d = 0 => d = 1 \/ d % 2 = 0

\* normalizeCapacity: the least power of two that is not below c.
NormalizeCapacity(c) ==
    IF c = 0 THEN DefaultCapacity
    ELSE Least({n \in c..2 * c : IsPowerOfTwo(n)})

ASSUME DefaultIsPowerOfTwo == DefaultCapacity \in Nat /\ IsPowerOfTwo(DefaultCapacity)
ASSUME CapacitiesAreBounded == \A c \in Capacities : NormalizeCapacity(c) <= MaxCapacity

\* The probes at which the search for k meets a slot that ends it.
Stops(T, n, k) == {d \in 0..n - 1 : \/ IsEmpty(T[Probe(k, d, n)])
                                    \/ Holds(T[Probe(k, d, n)], k)}

\* findOccupiedSlot: the slot of k, or n if the search ends without it.
FindOccupiedSlot(T, n, k) ==
    IF Stops(T, n, k) = {} THEN n
    ELSE LET i == Probe(k, Least(Stops(T, n, k)), n)
         IN  IF IsEmpty(T[i]) THEN n ELSE i

\* The tombstones that the search for k passes before it ends.
TombstonesPassed(T, n, k) ==
    {d \in 0..n - 1 : /\ IsTombstone(T[Probe(k, d, n)])
                      /\ \A e \in Stops(T, n, k) : d < e}

\* Mutant of FindInsertSlot: the first tombstone is taken before k is found.
FindInsertSlotEarly(T, n, k) ==
    LET found == FindOccupiedSlot(T, n, k)
        reuse == TombstonesPassed(T, n, k)
    IN  IF reuse # {} THEN Probe(k, Least(reuse), n)
        ELSE IF found < n THEN found
        ELSE IF Stops(T, n, k) # {} THEN Probe(k, Least(Stops(T, n, k)), n)
        ELSE n

\* findInsertSlot: the slot that holds k; else the first tombstone passed;
\* else the empty slot that ended the search; else none, which is n.
FindInsertSlot(T, n, k) ==
    LET found == FindOccupiedSlot(T, n, k)
        reuse == TombstonesPassed(T, n, k)
    IN  IF found < n THEN found
        ELSE IF reuse # {} THEN Probe(k, Least(reuse), n)
        ELSE IF Stops(T, n, k) # {} THEN Probe(k, Least(Stops(T, n, k)), n)
        ELSE n

\* Mutant of ShouldRehash: one entry beyond a full table.
ShouldRehashLate(m, n) == n = 0 \/ m > n

\* shouldRehashBeforeInsert for a table of n slots, m of them occupied.
ShouldRehash(m, n) == n = 0 \/ (m + 1) * 4 > n * 3

-----------------------------------------------------------------------------
(* Life of the map object.                                                  *)

NotIterating == [on |-> FALSE, index |-> 0, visited |-> {}, stable |-> {}]
NoInsert == [key |-> None, value |-> None]
NoTable == [slots |-> EmptyTable(0), size |-> 0, capacity |-> 0]

Init == /\ \E c \in Capacities : capacity = NormalizeCapacity(c)
        /\ slots = EmptyTable(capacity) /\ size = 0
        /\ pc = "ready" /\ ins = NoInsert /\ fresh = NoTable /\ next = 0
        /\ res = "ok" /\ it = NotIterating

\* map = Map::make(c): the old entries are destroyed.
Reassign(c) == /\ pc = "ready"
               /\ capacity' = NormalizeCapacity(c) /\ size' = 0
               /\ slots' = EmptyTable(capacity')
               /\ res' = "ok" /\ it' = NotIterating
               /\ UNCHANGED <<pc, ins, fresh, next>>

\* The map is moved from: it has no buffer any more, but may be used on.
MoveAway == /\ pc = "ready"
            /\ capacity' = 0 /\ size' = 0 /\ slots' = EmptyTable(0)
            /\ res' = "ok" /\ it' = NotIterating
            /\ UNCHANGED <<pc, ins, fresh, next>>

\* clear() destroys the entries and keeps the buffer.
Clear == /\ pc = "ready"
         /\ slots' = EmptyTable(capacity) /\ size' = 0
         /\ res' = "ok" /\ it' = [it EXCEPT !.stable = {}]
         /\ UNCHANGED <<capacity, pc, ins, fresh, next>>

-----------------------------------------------------------------------------
(* insert() and rehash().                                                   *)

BeginInsert(k, v) ==
    /\ pc = "ready" /\ ~ShouldRehash(size, capacity)
    /\ ins' = [key |-> k, value |-> v] /\ pc' = "insert"
    /\ UNCHANGED <<slots, size, capacity, fresh, next, res, it>>

\* The table would get too full: Map::make of twice the capacity succeeds.
BeginRehash(k, v) ==
    LET n == NormalizeCapacity(capacity * 2)
    IN  /\ pc = "ready" /\ ShouldRehash(size, capacity) /\ n <= MaxCapacity
        /\ ins' = [key |-> k, value |-> v] /\ pc' = "rehash" /\ next' = 0
        /\ fresh' = [slots |-> EmptyTable(n), size |-> 0, capacity |-> n]
        /\ it' = NotIterating
        /\ UNCHANGED <<slots, size, capacity, res>>

\* insert(k, *find(j)) where j is at slot i: the value is a reference into the
\* buffer that a rehash frees before it is read.  The key may be one as well:
\* a rehash leaves any key of it, so k is not tied to an entry here or above.
InsertElement(k, i) ==
    /\ i \in Occupied(slots, capacity)
    /\ BeginInsert(k, slots[i].value) \/ BeginRehash(k, Lost)

\* It fails, and insert() with it.
RehashNoMemory ==
    /\ pc = "ready" /\ ShouldRehash(size, capacity)
    /\ res' = "noSpace"
    /\ UNCHANGED <<slots, size, capacity, pc, ins, fresh, next, it>>

\* newMap.insert of one entry, which then is abandoned.  Neither a nested
\* rehash nor a full newMap is modelled: see RehashNeverNests.
Reinsert ==
    /\ pc = "rehash" /\ next < capacity /\ IsOccupied(slots[next])
    /\ fresh' = [fresh EXCEPT
                   !.slots[FindInsertSlot(fresh.slots, fresh.capacity, slots[next].key)] = slots[next],
                   !.size = @ + 1]
    /\ slots' = [slots EXCEPT ![next] = EmptySlot]
    /\ next' = next + 1
    /\ UNCHANGED <<size, capacity, pc, ins, res, it>>

SkipUnoccupied ==
    /\ pc = "rehash" /\ next < capacity /\ ~IsOccupied(slots[next])
    /\ next' = next + 1
    /\ UNCHANGED <<slots, size, capacity, pc, ins, fresh, res, it>>

\* The new buffer replaces the old one.
FinishRehash ==
    /\ pc = "rehash" /\ next = capacity
    /\ slots' = fresh.slots /\ size' = fresh.size /\ capacity' = fresh.capacity
    /\ fresh' = NoTable /\ next' = 0 /\ pc' = "insert"
    /\ UNCHANGED <<ins, res, it>>

\* A key that is there gets the new value; another gets a slot.  The error
\* "Map is full" is not modelled: see InsertFindsSlot.
Place ==
    LET i == FindInsertSlot(slots, capacity, ins.key)
    IN  /\ pc = "insert" /\ i < capacity
        /\ slots' = [slots EXCEPT ![i] = Entry(ins.key, ins.value)]
        /\ size' = IF IsOccupied(slots[i]) THEN size ELSE size + 1
        /\ ins' = NoInsert /\ pc' = "ready" /\ res' = "ok"
        /\ UNCHANGED <<capacity, fresh, next, it>>

-----------------------------------------------------------------------------
(* find(), contains() and remove().                                         *)

Find(k) ==
    LET i == FindOccupiedSlot(slots, capacity, k)
    IN  /\ pc = "ready"
        /\ res' = IF i < capacity THEN slots[i].value ELSE None
        /\ UNCHANGED <<slots, size, capacity, pc, ins, fresh, next, it>>

\* Mutant of Remove: the slot becomes empty.
RemoveLeavesEmpty(k) ==
    LET i == FindOccupiedSlot(slots, capacity, k)
    IN  /\ pc = "ready" /\ i < capacity
        /\ slots' = [slots EXCEPT ![i] = EmptySlot] /\ size' = size - 1
        /\ res' = "ok" /\ it' = [it EXCEPT !.stable = @ \ {k}]
        /\ UNCHANGED <<capacity, pc, ins, fresh, next>>

Remove(k) ==
    LET i == FindOccupiedSlot(slots, capacity, k)
    IN  /\ pc = "ready" /\ i < capacity
        /\ slots' = [slots EXCEPT ![i] = Tombstone] /\ size' = size - 1
        /\ res' = "ok" /\ it' = [it EXCEPT !.stable = @ \ {k}]
        /\ UNCHANGED <<capacity, pc, ins, fresh, next>>

RemoveMissing(k) ==
    /\ pc = "ready" /\ FindOccupiedSlot(slots, capacity, k) >= capacity
    /\ res' = "notFound"
    /\ UNCHANGED <<slots, size, capacity, pc, ins, fresh, next, it>>

-----------------------------------------------------------------------------
(* Iterator.                                                                *)

KeysAt(S) == {slots[i].key : i \in S}

\* Mutant of AdvanceToOccupied: it always steps once.
AdvanceBeyond(i) ==
    LET ahead == {j \in Occupied(slots, capacity) : i < j}
    IN  IF ahead = {} THEN capacity ELSE Least(ahead)

\* advanceToOccupied: the first occupied slot from i on, else the capacity.
AdvanceToOccupied(i) ==
    LET ahead == {j \in Occupied(slots, capacity) : i <= j}
    IN  IF ahead = {} THEN capacity ELSE Least(ahead)

\* begin()
Begin == /\ Iterates /\ pc = "ready"
         /\ it' = [on |-> TRUE, index |-> AdvanceToOccupied(0), visited |-> {},
                   stable |-> KeysAt(Occupied(slots, capacity))]
         /\ UNCHANGED <<slots, size, capacity, pc, ins, fresh, next, res>>

\* The body of a range-based for runs, unless it (or what it called) removed
\* the entry; then operator++.
Visit == /\ pc = "ready" /\ it.on /\ it.index < capacity
         /\ it' = [it EXCEPT !.visited = @ \cup KeysAt({it.index} \cap Occupied(slots, capacity)),
                             !.index = AdvanceToOccupied(it.index + 1)]
         /\ UNCHANGED <<slots, size, capacity, pc, ins, fresh, next, res>>

-----------------------------------------------------------------------------
Next == \/ \E k \in Keys : \/ \E v \in Values : BeginInsert(k, v) \/ BeginRehash(k, v)
                           \/ \E i \in 0..MaxCapacity - 1 : InsertElement(k, i)
                           \/ Find(k) \/ Remove(k) \/ RemoveMissing(k)
        \/ RehashNoMemory \/ Reinsert \/ SkipUnoccupied \/ FinishRehash
        \/ Place
        \/ Clear \/ MoveAway \/ (\E c \in Capacities : Reassign(c))
        \/ Begin \/ Visit

Spec == Init /\ [][Next]_vars

-----------------------------------------------------------------------------
(* Safety.                                                                  *)

\* Every variable has its type.
TypeOK == /\ capacity \in 0..MaxCapacity /\ size \in Nat
          /\ slots \in [0..capacity - 1 -> Slot]
          /\ pc \in {"ready", "rehash", "insert"}
          /\ ins \in [key : Keys, value : Values \cup {Lost}] \cup {NoInsert}
          /\ DOMAIN fresh = DOMAIN NoTable
          /\ fresh.capacity \in 0..MaxCapacity /\ fresh.size \in Nat
          /\ fresh.slots \in [0..fresh.capacity - 1 -> Slot]
          /\ next \in 0..capacity
          /\ res \in {"ok", "noSpace", "notFound", None, Lost} \cup Values
          /\ it \in [on : BOOLEAN, index : 0..MaxCapacity,
                     visited : SUBSET Keys, stable : SUBSET Keys]

\* No empty slot lies on the way from the home of an entry to the entry, after
\* any mix of removals and reuses of tombstones, or a search would miss it
\* (Map.hpp:437-440).
Reachable(T, n) ==
    \A i \in Occupied(T, n) : FindOccupiedSlot(T, n, T[i].key) = i

EntriesReachable == /\ pc # "rehash" => Reachable(slots, capacity)
                    /\ Reachable(fresh.slots, fresh.capacity)

\* m_size counts the entries: an insert that reuses a tombstone or updates a
\* value, and a remove, keep it right; the load check depends on it.
SizeIsCount == /\ pc # "rehash" => size = Cardinality(Occupied(slots, capacity))
               /\ fresh.size = Cardinality(Occupied(fresh.slots, fresh.capacity))

\* The table is sound: of its type, and an entry that is in it is found and
\* counted, after any mix of inserts, removals, rehashes and moves.
TableIsSound == TypeOK /\ EntriesReachable /\ SizeIsCount

\* The check "Map is full" (Map.hpp:291) never fails: three quarters of the
\* slots bound the entries, so a search for a slot to insert at finds one.
InsertFindsSlot ==
    pc = "insert" => FindInsertSlot(slots, capacity, ins.key) < capacity

\* newMap.insert in rehash() neither rehashes nor fails, at any point of the
\* loop: entries moved out so far would be lost with newMap (Map.hpp:493-496).
RehashNeverNests ==
    pc = "rehash" /\ next < capacity /\ IsOccupied(slots[next]) =>
        LET k == slots[next].key
        IN  /\ ~ShouldRehash(fresh.size, fresh.capacity)
            /\ FindInsertSlot(fresh.slots, fresh.capacity, k) < fresh.capacity
            /\ FindOccupiedSlot(fresh.slots, fresh.capacity, k) = fresh.capacity

\* An insert only fails for want of memory for a larger table, before any
\* entry has moved: neither it nor the inserts of its rehash find a full table.
InsertSucceeds == InsertFindsSlot /\ RehashNeverNests

\* A key that was there at begin() and was not removed is visited once: it is
\* behind the iterator or ahead of it, whatever else was removed, updated or
\* inserted without a rehash (MapTest.cpp:46).
IterationVisitsOnce ==
    it.on => \A k \in it.stable :
        (k \in it.visited) # (k \in KeysAt({i \in Occupied(slots, capacity) : it.index <= i}))

\* The entries of the map as a function; in rehash() two tables hold them.
Contents ==
    LET old == {slots[i] : i \in Occupied(slots, capacity)}
        new == {fresh.slots[i] : i \in Occupied(fresh.slots, fresh.capacity)}
    IN  [k \in {e.key : e \in old \cup new} |->
            (CHOOSE e \in old \cup new : e.key = k).value]

\* The map implements Dictionary: whatever the collisions, tombstones and
\* rehashes, each call returns and changes what the dictionary's does.
Promise == INSTANCE Dictionary WITH dict <- Contents
KeepsPromise == Promise!Spec
=============================================================================
