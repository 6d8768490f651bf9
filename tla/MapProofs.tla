------------------------------ MODULE MapProofs ------------------------------
(***************************************************************************)
(* Theorems about Map: the table stays sound, an insert always finds a     *)
(* slot, an iteration visits every entry once, and the map implements      *)
(* Dictionary; for all keys, hashes, capacities and bounds.                *)
(***************************************************************************)
EXTENDS Map, FiniteSetTheorems, WellFoundedInduction, TLAPS

-----------------------------------------------------------------------------
(* Arithmetic and probing.                                                  *)

Less == {s \in Nat \X Nat : s[1] < s[2]}

\* A nonempty set of numbers has a least element.
LEMMA LeastIsLeast ==
    ASSUME NEW S \in SUBSET Nat, S # {}
    PROVE  Least(S) \in S /\ \A e \in S : Least(S) <= e
<1>1. OpToRel(<, Nat) = Less
  BY DEF OpToRel, Less
<1>2. IsWellFoundedOn(Less, Nat)
  BY <1>1, NatLessThanWellFounded
<1>3. PICK x \in S : \A y \in S : <<y, x>> \notin Less
  BY <1>2, WFMin
<1>4. ASSUME NEW y \in S PROVE x <= y
  <2>1. <<y, x>> \in Nat \X Nat
    OBVIOUS
  <2>2. ~(y < x)
    BY <1>3, <2>1 DEF Less
  <2> QED
    BY <2>2
<1> QED
  BY <1>4 DEF Least

\* Division with a remainder.
LEMMA Division ==
    ASSUME NEW n \in Nat, n > 0, NEW a \in Nat
    PROVE  a % n \in 0..n - 1 /\ \E q \in Int : a = n * q + (a % n)
<1>1. a % n \in 0..n - 1
  OBVIOUS
<1>2. \E q \in Int : a = n * q + (a % n)
  OBVIOUS
<1> QED
  BY <1>1, <1>2

LEMMA Remainder ==
    ASSUME NEW a \in Nat, NEW n \in Nat, NEW q \in Int, NEW r \in 0..n - 1, a = n * q + r
    PROVE  a % n = r
OBVIOUS

\* Numbers less than n apart with the same remainder are equal.
LEMMA SameRemainder ==
    ASSUME NEW n \in Nat, n > 0, NEW a \in Nat, NEW b \in Nat, a % n = b % n,
           a - b < n, b - a < n
    PROVE  a = b
<1>1. PICK p \in Int : a = n * p + (a % n)
  BY Division
<1>2. PICK q \in Int : b = n * q + (b % n)
  BY Division
<1>3. a % n \in Int
  BY Division
<1>4. n * (p - q) = a - b
  BY <1>1, <1>2, <1>3
<1>5. CASE p - q >= 1
  <2>1. n * (p - q) >= n
    BY <1>5
  <2> QED
    BY <1>4, <2>1
<1>6. CASE p - q <= -1
  <2>1. n * (p - q) <= -n
    BY <1>6
  <2> QED
    BY <1>4, <2>1
<1> QED
  BY <1>4, <1>5, <1>6

LEMMA ProbeInTable ==
    ASSUME NEW k \in Keys, NEW n \in Nat, n > 0, NEW d \in Nat
    PROVE  Probe(k, d, n) \in 0..n - 1
BY HashIsNatural, Division DEF Probe

\* The probes of a key meet every slot once.
LEMMA ProbeInjective ==
    ASSUME NEW k \in Keys, NEW n \in Nat, n > 0, NEW d \in 0..n - 1, NEW e \in 0..n - 1,
           Probe(k, d, n) = Probe(k, e, n)
    PROVE  d = e
<1> DEFINE a == Hash[k] + d
           b == Hash[k] + e
<1>1. Hash[k] \in Nat
  BY HashIsNatural
<1>2. a \in Nat /\ b \in Nat /\ a - b < n /\ b - a < n
  BY <1>1
<1>3. a % n = b % n
  BY DEF Probe
<1>4. a = b
  <2> HIDE DEF a, b
  <2> QED
    BY <1>2, <1>3, SameRemainder
<1> QED
  BY <1>1, <1>4

LEMMA ProbeSurjective ==
    ASSUME NEW k \in Keys, NEW n \in Nat, n > 0, NEW i \in 0..n - 1
    PROVE  \E d \in 0..n - 1 : Probe(k, d, n) = i
<1> DEFINE h == Hash[k]
           r == h % n
<1>1. h \in Nat
  BY HashIsNatural
<1> HIDE DEF h
<1>2. PICK q \in Int : h = n * q + r
  BY <1>1, Division
<1>3. r \in 0..n - 1
  BY <1>1, Division
<1> HIDE DEF r
<1>4. CASE i >= r
  <2> DEFINE a == h + (i - r)
  <2>1. a = n * q + i /\ a \in Nat
    BY <1>1, <1>2, <1>3
  <2> HIDE DEF a
  <2>2. a % n = i
    BY <1>2, <2>1, Remainder
  <2> QED
    BY <1>3, <1>4, <2>2 DEF Probe, h, a
<1>5. CASE i < r
  <2> DEFINE a == h + (i - r + n)
  <2>1. a = n * (q + 1) + i /\ a \in Nat
    BY <1>1, <1>2, <1>3
  <2> HIDE DEF a
  <2>2. a % n = i
    BY <1>2, <2>1, Remainder
  <2> QED
    BY <1>3, <1>5, <2>2 DEF Probe, h, a
<1> QED
  BY <1>3, <1>4, <1>5

-----------------------------------------------------------------------------
(* The capacities.                                                          *)

\* Twice a power of two is one: an odd divisor of 2 * n divides n.
LEMMA DoubleIsPowerOfTwo ==
    ASSUME NEW n \in Nat, IsPowerOfTwo(n) PROVE IsPowerOfTwo(2 * n)
<1> SUFFICES ASSUME NEW d \in 1..2 * n, (2 * n) % d = 0, d % 2 # 0
             PROVE  d = 1
  BY DEF IsPowerOfTwo
<1> DEFINE m == 2 * n
<1>1. PICK q \in Int : m = d * q + (m % d)
  <2>1. m \in Nat /\ d \in Nat /\ d > 0
    OBVIOUS
  <2> HIDE DEF m
  <2> QED
    BY <2>1, Division
<1>2. PICK e \in Int : d = 2 * e + (d % 2)
  BY Division
<1>3. d % 2 = 1
  BY Division
<1>4. 2 * n = d * q /\ d = 2 * e + 1
  BY <1>1, <1>2, <1>3
<1>5. q = 2 * (n - e * q)
  BY <1>4
<1> DEFINE h == n - e * q
<1>6. h \in Int /\ n = d * h
  BY <1>4, <1>5
<1> HIDE DEF h
<1>7. n % d = 0
  BY <1>6, Remainder, SMTT(30)
<1>8. d \in 1..n
  <2>1. n > 0
    BY DEF IsPowerOfTwo
  <2>2. h >= 1
    BY <1>6, <2>1
  <2> QED
    BY <1>6, <2>2
<1> QED
  BY <1>7, <1>8 DEF IsPowerOfTwo

\* There is a power of two from c on, below its double: the least c without one
\* would have none for the half of it, rounded up.
LEMMA PowerOfTwoExists ==
    ASSUME NEW c \in Nat, c > 0
    PROVE  \E n \in c..2 * c - 1 : IsPowerOfTwo(n)
<1> DEFINE Bad == {b \in Nat : b > 0 /\ \A n \in b..2 * b - 1 : ~IsPowerOfTwo(n)}
<1>1. SUFFICES Bad = {}
  OBVIOUS
<1>2. SUFFICES ASSUME Bad # {} PROVE FALSE
  OBVIOUS
<1> DEFINE b == Least(Bad)
<1>3. b \in Bad /\ \A e \in Bad : b <= e
  BY <1>2, LeastIsLeast
<1> HIDE DEF b
<1>4. IsPowerOfTwo(1)
  BY DEF IsPowerOfTwo
<1>5. b > 1
  BY <1>3, <1>4
<1>6. PICK a \in Nat : 0 < a /\ a < b /\ b <= 2 * a /\ 2 * a <= b + 1
  <2>1. PICK q \in Int : b + 1 = 2 * q + ((b + 1) % 2)
    BY <1>3, Division
  <2>2. (b + 1) % 2 \in 0..1
    BY <1>3, Division
  <2> QED
    BY <1>3, <1>5, <2>1, <2>2
<1>7. a \notin Bad
  BY <1>3, <1>6
<1>8. PICK n \in a..2 * a - 1 : IsPowerOfTwo(n)
  BY <1>6, <1>7
<1>9. CASE n >= b
  <2>1. n \in b..2 * b - 1
    BY <1>3, <1>6, <1>8, <1>9
  <2> QED
    BY <1>3, <1>8, <2>1
<1>10. CASE n < b
  <2>1. 2 * n \in b..2 * b - 1
    BY <1>3, <1>6, <1>8, <1>10
  <2>2. IsPowerOfTwo(2 * n)
    BY <1>6, <1>8, DoubleIsPowerOfTwo
  <2> QED
    BY <1>3, <2>1, <2>2
<1> QED
  BY <1>3, <1>6, <1>8, <1>9, <1>10

\* normalizeCapacity finds a table of the size asked for, or the default one.
LEMMA Normalized ==
    ASSUME NEW c \in Nat
    PROVE  /\ NormalizeCapacity(c) \in Nat \ {0}
           /\ NormalizeCapacity(c) >= c
<1>1. CASE c = 0
  BY <1>1, DefaultIsPowerOfTwo DEF NormalizeCapacity, IsPowerOfTwo
<1>2. CASE c # 0
  <2> DEFINE S == {n \in c..2 * c : IsPowerOfTwo(n)}
  <2>1. S # {} /\ S \in SUBSET Nat
    BY <1>2, PowerOfTwoExists
  <2>2. Least(S) \in S
    BY <2>1, LeastIsLeast
  <2> QED
    BY <1>2, <2>2 DEF NormalizeCapacity
<1> QED
  BY <1>1, <1>2

-----------------------------------------------------------------------------
(* One table: searching, taking a slot, leaving a tombstone.                *)

Tables(n) == [0..n - 1 -> Slot]

\* No entry is in two slots, and no empty slot is on the way to one.
Unique(T, n) == \A i, j \in Occupied(T, n) : T[i].key = T[j].key => i = j

OnPath(T, n, i) ==
    \E d \in 0..n - 1 : /\ Probe(T[i].key, d, n) = i
                        /\ \A e \in 0..d - 1 : ~IsEmpty(T[Probe(T[i].key, e, n)])

Sound(T, n) == Unique(T, n) /\ \A i \in Occupied(T, n) : OnPath(T, n, i)

\* The kinds of slots.
LEMMA SlotKinds ==
    ASSUME NEW s \in Slot
    PROVE  /\ IsEmpty(s) \/ IsTombstone(s) \/ IsOccupied(s)
           /\ IsEmpty(s) => ~IsTombstone(s) /\ ~IsOccupied(s)
           /\ IsTombstone(s) => ~IsOccupied(s)
           /\ IsOccupied(s) => s.key \in Keys /\ s.value \in Values \cup {Lost}
BY DEF Slot, IsEmpty, IsTombstone, IsOccupied

LEMMA NewSlots ==
    /\ EmptySlot \in Slot /\ IsEmpty(EmptySlot)
    /\ Tombstone \in Slot /\ IsTombstone(Tombstone)
    /\ \A k \in Keys, v \in Values \cup {Lost} :
           /\ Entry(k, v) \in Slot /\ IsOccupied(Entry(k, v))
           /\ Entry(k, v).key = k /\ Entry(k, v).value = v
BY DEF Slot, EmptySlot, Tombstone, Entry, IsEmpty, IsTombstone, IsOccupied

\* What the search for k finds: the slot that holds it, when entries are where
\* they can be found; or none.
LEMMA FindsEntry ==
    ASSUME NEW n \in Nat, n > 0, NEW T \in Tables(n), Sound(T, n), NEW i \in Occupied(T, n)
    PROVE  FindOccupiedSlot(T, n, T[i].key) = i
<1> DEFINE k == T[i].key
           S == Stops(T, n, k)
<1>1. i \in 0..n - 1 /\ IsOccupied(T[i]) /\ k \in Keys
  BY SlotKinds DEF Occupied, Tables
<1>2. PICK d \in 0..n - 1 : Probe(k, d, n) = i /\ \A e \in 0..d - 1 : ~IsEmpty(T[Probe(k, e, n)])
  BY DEF Sound, OnPath
<1>3. d \in S
  BY <1>1, <1>2 DEF Stops, Holds
<1>4. ASSUME NEW e \in S PROVE d <= e
  <2>1. SUFFICES ASSUME e < d PROVE FALSE
    BY DEF Stops
  <2>2. e \in 0..d - 1 /\ e \in 0..n - 1
    BY <2>1 DEF Stops
  <2>3. Holds(T[Probe(k, e, n)], k)
    BY <1>2, <2>2 DEF Stops
  <2>4. Probe(k, e, n) \in Occupied(T, n)
    BY <1>1, <2>2, <2>3, ProbeInTable DEF Occupied, Holds
  <2>5. Probe(k, e, n) = Probe(k, d, n)
    BY <1>2, <2>3, <2>4 DEF Sound, Unique, Holds
  <2> QED
    BY <1>1, <2>1, <2>2, <2>5, ProbeInjective
<1>5. Least(S) = d
  <2>1. S \in SUBSET Nat /\ S # {}
    BY <1>3 DEF Stops
  <2>2. Least(S) \in S /\ Least(S) <= d
    BY <1>3, <2>1, LeastIsLeast
  <2> QED
    BY <1>4, <2>1, <2>2
<1>6. ~IsEmpty(T[i])
  BY <1>1, SlotKinds DEF Tables
<1> QED
  BY <1>2, <1>3, <1>5, <1>6 DEF FindOccupiedSlot

\* What it finds holds k, whatever is in the table.
LEMMA FoundHolds ==
    ASSUME NEW n \in Nat, n > 0, NEW T \in Tables(n), NEW k \in Keys
    PROVE  LET i == FindOccupiedSlot(T, n, k)
           IN  i = n \/ (i \in Occupied(T, n) /\ T[i].key = k)
<1> DEFINE S == Stops(T, n, k)
<1>1. CASE S = {}
  BY <1>1 DEF FindOccupiedSlot
<1>2. CASE S # {}
  <2>1. Least(S) \in S
    BY <1>2, LeastIsLeast DEF Stops
  <2> DEFINE i == Probe(k, Least(S), n)
  <2>2. i \in 0..n - 1
    BY <2>1, ProbeInTable DEF Stops
  <2>3. IsEmpty(T[i]) \/ Holds(T[i], k)
    BY <2>1 DEF Stops
  <2>4. FindOccupiedSlot(T, n, k) = IF IsEmpty(T[i]) THEN n ELSE i
    BY <1>2 DEF FindOccupiedSlot
  <2> QED
    BY <2>2, <2>3, <2>4 DEF Occupied, Holds
<1> QED
  BY <1>1, <1>2

\* So every entry is reached by the search for its key, and only then.
LEMMA SoundIsReachable ==
    ASSUME NEW n \in Nat, NEW T \in Tables(n), Sound(T, n)
    PROVE  Reachable(T, n)
<1>1. CASE n = 0
  BY <1>1 DEF Reachable, Occupied
<1>2. CASE n > 0
  BY <1>2, FindsEntry DEF Reachable
<1> QED
  BY <1>1, <1>2

\* The slot an insert takes: the one of k if there is one, else one that is free,
\* and in either case one that the search for k gets to.
LEMMA InsertSlot ==
    ASSUME NEW n \in Nat, n > 0, NEW T \in Tables(n), Sound(T, n), NEW k \in Keys,
           NEW i, i = FindInsertSlot(T, n, k), i # n
    PROVE  /\ i \in 0..n - 1
           /\ IsOccupied(T[i]) => T[i].key = k
           /\ ~IsOccupied(T[i]) => \A j \in Occupied(T, n) : T[j].key # k
           /\ \E d \in 0..n - 1 : /\ Probe(k, d, n) = i
                                  /\ \A e \in 0..d - 1 : ~IsEmpty(T[Probe(k, e, n)])
<1> DEFINE found == FindOccupiedSlot(T, n, k)
           reuse == TombstonesPassed(T, n, k)
           S == Stops(T, n, k)
<1>1. found = n \/ (found \in Occupied(T, n) /\ T[found].key = k)
  BY FoundHolds
<1>2. i = IF found < n THEN found
          ELSE IF reuse # {} THEN Probe(k, Least(reuse), n)
          ELSE IF S # {} THEN Probe(k, Least(S), n) ELSE n
  BY DEF FindInsertSlot
<1>3. reuse \in SUBSET (0..n - 1) /\ S \in SUBSET (0..n - 1)
  BY DEF TombstonesPassed, Stops
<1>4. CASE found \in Occupied(T, n)
  <2>1. i = found /\ i \in 0..n - 1 /\ IsOccupied(T[i]) /\ T[i].key = k
    BY <1>1, <1>2, <1>4 DEF Occupied
  <2>2. OnPath(T, n, i)
    BY <1>4, <2>1 DEF Sound
  <2> QED
    BY <2>1, <2>2 DEF OnPath
<1>5. CASE found \notin Occupied(T, n)
  <2>1. found = n
    BY <1>1, <1>5
  <2>2. \A j \in Occupied(T, n) : T[j].key # k
    BY <2>1, FindsEntry DEF Occupied
  <2>3. ~(found < n)
    BY <2>1
  <2>4. CASE reuse # {}
    <3>1. PICK d \in reuse : i = Probe(k, d, n)
      BY <1>2, <1>3, <2>3, <2>4, LeastIsLeast
    <3>2. i \in 0..n - 1 /\ IsTombstone(T[i])
      BY <1>3, <3>1, ProbeInTable DEF TombstonesPassed
    <3>3. ~IsOccupied(T[i])
      BY <3>2 DEF IsTombstone, IsOccupied
    <3>4. \A e \in 0..d - 1 : ~IsEmpty(T[Probe(k, e, n)])
      BY <1>3, <3>1 DEF TombstonesPassed, Stops
    <3> QED
      BY <1>3, <2>2, <3>1, <3>2, <3>3, <3>4
  <2>5. CASE reuse = {}
    <3>1. S # {} /\ i = Probe(k, Least(S), n)
      BY <1>2, <2>3, <2>5
    <3>2. PICK d \in S : d = Least(S) /\ \A e \in S : d <= e
      BY <1>3, <3>1, LeastIsLeast
    <3>3. i \in 0..n - 1 /\ d \in 0..n - 1
      BY <1>3, <3>1, <3>2, ProbeInTable
    <3>4. IsEmpty(T[i]) \/ Holds(T[i], k)
      BY <3>1, <3>2 DEF Stops
    <3>5. ~IsOccupied(T[i])
      BY <2>2, <3>3, <3>4 DEF Occupied, Holds, IsEmpty, IsOccupied
    <3>6. \A e \in 0..d - 1 : ~IsEmpty(T[Probe(k, e, n)])
      BY <3>2, <3>3 DEF Stops
    <3> QED
      BY <2>2, <3>1, <3>2, <3>3, <3>5, <3>6
  <2> QED
    BY <2>4, <2>5
<1> QED
  BY <1>4, <1>5

\* A table with a slot that is not occupied has one for any key.
LEMMA RoomMeansSlot ==
    ASSUME NEW n \in Nat, n > 0, NEW T \in Tables(n), NEW k \in Keys,
           NEW j \in 0..n - 1, ~IsOccupied(T[j])
    PROVE  FindInsertSlot(T, n, k) \in 0..n - 1
<1> DEFINE found == FindOccupiedSlot(T, n, k)
           reuse == TombstonesPassed(T, n, k)
           S == Stops(T, n, k)
<1>1. found = n \/ found \in Occupied(T, n)
  BY FoundHolds
<1>2. CASE found < n
  BY <1>1, <1>2 DEF Occupied, FindInsertSlot
<1>3. CASE ~(found < n) /\ reuse # {}
  <2>1. Least(reuse) \in 0..n - 1
    BY <1>3, LeastIsLeast DEF TombstonesPassed
  <2> QED
    BY <1>3, <2>1, ProbeInTable DEF FindInsertSlot
<1>4. CASE ~(found < n) /\ reuse = {}
  <2>1. PICK d \in 0..n - 1 : Probe(k, d, n) = j
    BY ProbeSurjective
  <2>2. IsEmpty(T[j]) \/ IsTombstone(T[j])
    BY SlotKinds DEF Tables
  <2>3. S # {}
    BY <1>4, <2>1, <2>2 DEF TombstonesPassed, Stops
  <2>4. Least(S) \in 0..n - 1
    BY <2>3, LeastIsLeast DEF Stops
  <2> QED
    BY <1>4, <2>3, <2>4, ProbeInTable DEF FindInsertSlot
<1> QED
  BY <1>2, <1>3, <1>4

\* An entry put where an insert takes its slot leaves the table sound.
LEMMA EntryPlaced ==
    ASSUME NEW n \in Nat, n > 0, NEW T \in Tables(n), Sound(T, n),
           NEW s \in Slot, IsOccupied(s), FindInsertSlot(T, n, s.key) # n
    PROVE  LET i == FindInsertSlot(T, n, s.key)
               U == [T EXCEPT ![i] = s]
           IN  U \in Tables(n) /\ Sound(U, n) /\ Occupied(U, n) = Occupied(T, n) \cup {i}
<1> DEFINE i == FindInsertSlot(T, n, s.key)
           U == [T EXCEPT ![i] = s]
           k == s.key
<1>1. k \in Keys
  BY SlotKinds
<1>2. /\ i \in 0..n - 1
      /\ IsOccupied(T[i]) => T[i].key = k
      /\ ~IsOccupied(T[i]) => \A j \in Occupied(T, n) : T[j].key # k
  BY <1>1, InsertSlot
<1>3. PICK d \in 0..n - 1 : Probe(k, d, n) = i /\ \A e \in 0..d - 1 : ~IsEmpty(T[Probe(k, e, n)])
  BY <1>1, InsertSlot
<1>4. U \in Tables(n) /\ U[i] = s /\ \A j \in 0..n - 1 : j # i => U[j] = T[j]
  BY <1>2 DEF Tables
<1>5. ~IsEmpty(s)
  BY SlotKinds
<1> HIDE DEF i, U
<1>6. Occupied(U, n) = Occupied(T, n) \cup {i}
  BY <1>2, <1>4 DEF Occupied
<1>7. \A j \in Occupied(T, n) : j # i => T[j].key # k
  BY <1>2 DEF Sound, Unique, Occupied
<1>8. Unique(U, n)
  BY <1>4, <1>6, <1>7 DEF Sound, Unique, Occupied
<1>9. \A j \in 0..n - 1 : ~IsEmpty(T[j]) => ~IsEmpty(U[j])
  BY <1>4, <1>5
<1>10. ASSUME NEW j \in Occupied(U, n) PROVE OnPath(U, n, j)
  <2>1. CASE j = i
    <3>1. \A e \in 0..d - 1 : Probe(k, e, n) \in 0..n - 1
      BY <1>1, ProbeInTable
    <3> QED
      BY <1>3, <1>4, <1>9, <2>1, <3>1 DEF OnPath
  <2>2. CASE j # i
    <3>1. j \in Occupied(T, n) /\ T[j] = U[j] /\ T[j].key \in Keys
      BY <1>4, <1>6, <2>2, SlotKinds DEF Occupied, Tables
    <3>2. PICK c \in 0..n - 1 : /\ Probe(T[j].key, c, n) = j
                                /\ \A e \in 0..c - 1 : ~IsEmpty(T[Probe(T[j].key, e, n)])
      BY <3>1 DEF Sound, OnPath
    <3>3. \A e \in 0..c - 1 : Probe(T[j].key, e, n) \in 0..n - 1
      BY <3>1, ProbeInTable
    <3> QED
      BY <1>9, <3>1, <3>2, <3>3 DEF OnPath
  <2> QED
    BY <2>1, <2>2
<1> QED
  BY <1>4, <1>6, <1>8, <1>10 DEF Sound, U, i

\* So does a tombstone in the place of an entry.
LEMMA EntryBuried ==
    ASSUME NEW n \in Nat, n > 0, NEW T \in Tables(n), Sound(T, n), NEW i \in Occupied(T, n)
    PROVE  LET U == [T EXCEPT ![i] = Tombstone]
           IN  U \in Tables(n) /\ Sound(U, n) /\ Occupied(U, n) = Occupied(T, n) \ {i}
<1> DEFINE U == [T EXCEPT ![i] = Tombstone]
<1>1. /\ U \in Tables(n) /\ U[i] = Tombstone
      /\ \A j \in 0..n - 1 : j # i => U[j] = T[j]
  BY NewSlots DEF Tables, Occupied
<1>2. ~IsEmpty(Tombstone) /\ ~IsOccupied(Tombstone)
  BY DEF Tombstone, IsEmpty, IsOccupied
<1> HIDE DEF U
<1>3. Occupied(U, n) = Occupied(T, n) \ {i}
  BY <1>1, <1>2 DEF Occupied
<1>4. Unique(U, n)
  BY <1>1, <1>3 DEF Sound, Unique, Occupied
<1>5. \A j \in 0..n - 1 : ~IsEmpty(T[j]) => ~IsEmpty(U[j])
  BY <1>1, <1>2
<1>6. ASSUME NEW j \in Occupied(U, n) PROVE OnPath(U, n, j)
  <2>1. j \in Occupied(T, n) /\ T[j] = U[j] /\ T[j].key \in Keys
    BY <1>1, <1>3, SlotKinds DEF Occupied, Tables
  <2>2. PICK c \in 0..n - 1 : /\ Probe(T[j].key, c, n) = j
                              /\ \A e \in 0..c - 1 : ~IsEmpty(T[Probe(T[j].key, e, n)])
    BY <2>1 DEF Sound, OnPath
  <2>3. \A e \in 0..c - 1 : Probe(T[j].key, e, n) \in 0..n - 1
    BY <2>1, ProbeInTable
  <2> QED
    BY <1>5, <2>1, <2>2, <2>3 DEF OnPath
<1> QED
  BY <1>1, <1>3, <1>4, <1>6 DEF Sound, U

\* A new table is sound and has no entries.
LEMMA EmptyTableIsSound ==
    ASSUME NEW n \in Nat
    PROVE  EmptyTable(n) \in Tables(n) /\ Sound(EmptyTable(n), n) /\ Occupied(EmptyTable(n), n) = {}
<1>1. EmptyTable(n) \in Tables(n) /\ Occupied(EmptyTable(n), n) = {}
  BY NewSlots DEF EmptyTable, Tables, Occupied, EmptySlot, IsOccupied
<1> QED
  BY <1>1 DEF Sound, Unique

\* Entries are counted by their slots.
LEMMA OccupiedCounts ==
    ASSUME NEW n \in Nat, NEW T
    PROVE  /\ IsFiniteSet(Occupied(T, n))
           /\ Cardinality(Occupied(T, n)) \in 0..n
           /\ Cardinality(Occupied(T, n)) < n => \E j \in 0..n - 1 : ~IsOccupied(T[j])
<1>1. IsFiniteSet(0..n - 1) /\ Cardinality(0..n - 1) = n
  BY FS_Interval
<1>2. Occupied(T, n) \subseteq 0..n - 1
  BY DEF Occupied
<1>3. IsFiniteSet(Occupied(T, n)) /\ Cardinality(Occupied(T, n)) <= n
  BY <1>1, <1>2, FS_Subset
<1>4. Cardinality(Occupied(T, n)) \in Nat
  BY <1>3, FS_CardinalityType
<1>5. ASSUME Cardinality(Occupied(T, n)) < n PROVE \E j \in 0..n - 1 : ~IsOccupied(T[j])
  <2>1. Occupied(T, n) # 0..n - 1
    BY <1>1, <1>4, <1>5
  <2> QED
    BY <1>2, <2>1 DEF Occupied
<1> QED
  BY <1>3, <1>4, <1>5

-----------------------------------------------------------------------------
(* The invariant.                                                           *)

\* Outside of rehash() there is one table, sound and counted.
OneTable ==
    pc # "rehash" =>
        /\ fresh = NoTable /\ next = 0
        /\ Sound(slots, capacity)
        /\ size = Cardinality(Occupied(slots, capacity))

\* In it, two tables share the entries: what is behind the loop is in the new
\* one, which has room for them all.
TwoTables ==
    pc = "rehash" =>
        /\ Sound(fresh.slots, fresh.capacity)
        /\ fresh.size = Cardinality(Occupied(fresh.slots, fresh.capacity))
        /\ fresh.capacity > 0 /\ fresh.capacity >= 2 * capacity
        /\ Unique(slots, capacity)
        /\ \A i \in 0..next - 1 : ~IsOccupied(slots[i])
        /\ \A i \in Occupied(slots, capacity) : \A j \in Occupied(fresh.slots, fresh.capacity) :
               slots[i].key # fresh.slots[j].key
        /\ size = fresh.size + Cardinality(Occupied(slots, capacity)) /\ size <= capacity
        /\ ~it.on

\* An insert under way has its arguments and, after the rehash, a free slot; what
\* was read of a freed buffer was the value of an entry.
Inserting == /\ pc # "ready" => /\ ins \in [key : Keys, value : Values \cup {Lost}]
                                /\ ins.value = Lost => size # 0
             /\ pc = "insert" => size < capacity

\* What an iteration is to visit has a slot: behind the iterator if it was visited.
Iterating ==
    it.on => \A k \in it.stable : \E j \in Occupied(slots, capacity) :
                 slots[j].key = k /\ (k \in it.visited <=> j < it.index)

IInv == TypeOK /\ OneTable /\ TwoTables /\ Inserting /\ Iterating

LEMMA InitHolds == Init => IInv
<1> SUFFICES ASSUME Init PROVE IInv
  OBVIOUS
<1>1. capacity \in 0..MaxCapacity /\ capacity \in Nat
  BY Normalized, CapacitiesAreNatural, CapacitiesAreBounded DEF Init
<1>2. slots \in Tables(capacity) /\ Sound(slots, capacity) /\ Occupied(slots, capacity) = {}
  BY <1>1, EmptyTableIsSound DEF Init
<1>3. NoTable.slots \in Tables(0)
  BY EmptyTableIsSound DEF NoTable
<1>4. TypeOK
  BY <1>1, <1>2, <1>3, CapacitiesAreNatural
     DEF Init, TypeOK, Tables, NoTable, NoInsert, NotIterating
<1>5. OneTable
  BY <1>2, FS_EmptySet DEF Init, OneTable
<1> QED
  BY <1>4, <1>5
     DEF Init, IInv, TwoTables, Inserting, Iterating, NotIterating

\* A table that another replaces: Reassign, MoveAway and Clear.
LEMMA TableReplaced ==
    ASSUME IInv, pc = "ready", UNCHANGED <<pc, ins, fresh, next>>,
           capacity' \in 0..MaxCapacity, slots' = EmptyTable(capacity'), size' = 0, res' = "ok",
           it' \in [on : BOOLEAN, index : 0..MaxCapacity, visited : SUBSET Keys, stable : SUBSET Keys],
           it'.stable = {}
    PROVE  IInv'
<1>1. capacity' \in Nat
  BY CapacitiesAreNatural
<1>2. slots' \in Tables(capacity') /\ Sound(slots', capacity') /\ Occupied(slots', capacity') = {}
  BY <1>1, EmptyTableIsSound
<1>3. TypeOK'
  <2>1. next' \in 0..capacity'
    BY <1>1 DEF IInv, OneTable
  <2>2. slots' \in [0..capacity' - 1 -> Slot] /\ size' \in Nat
    BY <1>2 DEF Tables
  <2> QED
    BY <2>1, <2>2 DEF IInv, TypeOK
<1>4. OneTable'
  BY <1>2, FS_EmptySet DEF IInv, OneTable
<1> QED
  BY <1>3, <1>4 DEF IInv, TwoTables, Inserting, Iterating

LEMMA ReplacingSteps ==
    ASSUME IInv, (\E c \in Capacities : Reassign(c)) \/ MoveAway \/ Clear
    PROVE  IInv'
<1>1. NotIterating \in [on : BOOLEAN, index : 0..MaxCapacity, visited : SUBSET Keys, stable : SUBSET Keys]
  BY CapacitiesAreNatural DEF NotIterating
<1>2. ASSUME NEW c \in Capacities, Reassign(c) PROVE IInv'
  <2>1. capacity' \in 0..MaxCapacity
    BY <1>2, Normalized, CapacitiesAreNatural, CapacitiesAreBounded DEF Reassign
  <2> QED
    BY <1>1, <1>2, <2>1, TableReplaced DEF Reassign, NotIterating
<1>3. CASE MoveAway
  <2>1. capacity' \in 0..MaxCapacity
    BY <1>3, CapacitiesAreNatural DEF MoveAway
  <2> QED
    BY <1>1, <1>3, <2>1, TableReplaced DEF MoveAway, NotIterating
<1>4. CASE Clear
  <2>1. /\ it' \in [on : BOOLEAN, index : 0..MaxCapacity, visited : SUBSET Keys, stable : SUBSET Keys]
        /\ it'.stable = {}
    BY <1>4 DEF Clear, IInv, TypeOK
  <2> QED
    BY <1>4, <2>1, TableReplaced DEF Clear, IInv, TypeOK
<1> QED
  BY <1>2, <1>3, <1>4

\* insert() without a rehash: there is a free slot.
LEMMA BeginInsertStep ==
    ASSUME IInv, NEW k \in Keys, NEW v \in Values \cup {Lost}, v = Lost => size # 0,
           BeginInsert(k, v)
    PROVE  IInv'
<1>1. /\ ins' \in [key : Keys, value : Values \cup {Lost}] /\ pc' = "insert"
      /\ ins'.value = Lost => size' # 0
  BY DEF BeginInsert
<1>2. size \in Nat /\ capacity \in Nat
  BY CapacitiesAreNatural DEF IInv, TypeOK
<1>3. size < capacity
  BY <1>2 DEF BeginInsert, ShouldRehash
<1>4. TypeOK'
  BY <1>1 DEF BeginInsert, IInv, TypeOK
<1>5. OneTable' /\ TwoTables' /\ Inserting'
  BY <1>1, <1>3 DEF BeginInsert, IInv, OneTable, TwoTables, Inserting
<1>6. Iterating'
  BY DEF BeginInsert, IInv, Iterating
<1> QED
  BY <1>4, <1>5, <1>6 DEF IInv

\* insert() with a rehash: a new table of twice the capacity.
LEMMA BeginRehashStep ==
    ASSUME IInv, NEW k \in Keys, NEW v \in Values \cup {Lost}, v = Lost => size # 0,
           BeginRehash(k, v)
    PROVE  IInv'
<1> DEFINE n == NormalizeCapacity(capacity * 2)
<1>1. capacity \in Nat /\ capacity * 2 \in Nat /\ pc = "ready"
  BY CapacitiesAreNatural DEF IInv, TypeOK, BeginRehash
<1>2. n \in Nat \ {0} /\ n >= 2 * capacity
  BY <1>1, Normalized
<1>3. /\ fresh' = [slots |-> EmptyTable(n), size |-> 0, capacity |-> n] /\ n <= MaxCapacity
      /\ ins' \in [key : Keys, value : Values \cup {Lost}] /\ (ins'.value = Lost => size' # 0)
      /\ pc' = "rehash" /\ next' = 0 /\ it' = NotIterating
      /\ UNCHANGED <<slots, size, capacity, res>>
  BY DEF BeginRehash
<1> HIDE DEF n
<1>4. EmptyTable(n) \in Tables(n) /\ Sound(EmptyTable(n), n) /\ Occupied(EmptyTable(n), n) = {}
  BY <1>2, EmptyTableIsSound
<1>5. TypeOK'
  BY <1>1, <1>2, <1>3, <1>4, CapacitiesAreNatural DEF IInv, TypeOK, Tables, NotIterating, NoTable
<1>6. TwoTables'
  <2>1. size = Cardinality(Occupied(slots, capacity)) /\ size \in Nat /\ Unique(slots, capacity)
    BY <1>1 DEF IInv, OneTable, TypeOK, Sound
  <2>2. Cardinality(Occupied(EmptyTable(n), n)) = 0
    BY <1>4, FS_EmptySet
  <2>3. size <= capacity
    BY <1>1, <2>1, OccupiedCounts
  <2>4. fresh'.slots = EmptyTable(n) /\ fresh'.size = 0 /\ fresh'.capacity = n
    BY <1>3
  <2>5. size = fresh'.size + Cardinality(Occupied(slots, capacity))
    BY <2>1, <2>4
  <2>6. \A i \in 0..next' - 1 : ~IsOccupied(slots'[i])
    BY <1>3
  <2>7. Sound(fresh'.slots, fresh'.capacity) /\ Occupied(fresh'.slots, fresh'.capacity) = {}
    BY <1>4, <2>4
  <2>8. fresh'.capacity > 0 /\ fresh'.capacity >= 2 * capacity' /\ ~it'.on
    BY <1>1, <1>2, <1>3, <2>4 DEF NotIterating
  <2>9. fresh'.size = Cardinality(Occupied(fresh'.slots, fresh'.capacity))
    BY <2>2, <2>4
  <2> QED
    BY <1>3, <2>1, <2>3, <2>5, <2>6, <2>7, <2>8, <2>9 DEF TwoTables
<1>7. OneTable' /\ Inserting'
  BY <1>3 DEF OneTable, Inserting
<1>8. Iterating'
  BY <1>3 DEF Iterating, NotIterating
<1> QED
  BY <1>5, <1>6, <1>7, <1>8 DEF IInv

\* insert() of the value of an entry of the same map.
LEMMA InsertElementStep ==
    ASSUME IInv, NEW k \in Keys, NEW i, InsertElement(k, i) PROVE IInv'
<1>1. slots[i].value \in Values \cup {Lost}
  BY SlotKinds DEF InsertElement, Occupied, IInv, TypeOK
<1>2. size # 0
  <2>1. capacity \in Nat /\ size = Cardinality(Occupied(slots, capacity)) /\ Occupied(slots, capacity) # {}
    BY CapacitiesAreNatural DEF IInv, TypeOK, OneTable, InsertElement, BeginInsert, BeginRehash
  <2> QED
    BY <2>1, OccupiedCounts, FS_EmptySet
<1> QED
  BY <1>1, <1>2, BeginInsertStep, BeginRehashStep DEF InsertElement

\* Where an entry of the old table goes in the new one.
LEMMA RoomInFresh ==
    ASSUME IInv, pc = "rehash", next < capacity, IsOccupied(slots[next])
    PROVE  /\ next \in Occupied(slots, capacity) /\ slots[next] \in Slot /\ slots[next].key \in Keys
           /\ ~ShouldRehash(fresh.size, fresh.capacity)
           /\ FindInsertSlot(fresh.slots, fresh.capacity, slots[next].key) \in 0..fresh.capacity - 1
           /\ FindOccupiedSlot(fresh.slots, fresh.capacity, slots[next].key) = fresh.capacity
<1>1. /\ capacity \in Nat /\ size \in Nat /\ next \in Nat
      /\ fresh.capacity \in Nat /\ fresh.size \in Nat /\ fresh.capacity > 0
      /\ fresh.capacity >= 2 * capacity
      /\ size = fresh.size + Cardinality(Occupied(slots, capacity))
      /\ fresh.size = Cardinality(Occupied(fresh.slots, fresh.capacity))
  BY CapacitiesAreNatural DEF IInv, TypeOK, TwoTables
<1>2. next \in Occupied(slots, capacity) /\ slots[next] \in Slot /\ slots[next].key \in Keys
  BY <1>1, SlotKinds DEF Occupied, IInv, TypeOK
<1>3. fresh.slots \in Tables(fresh.capacity)
  BY DEF IInv, TypeOK, Tables
<1>4. Cardinality(Occupied(slots, capacity)) \in Nat /\ Cardinality(Occupied(slots, capacity)) # 0
  BY <1>1, <1>2, OccupiedCounts, FS_EmptySet
<1>5. fresh.size < capacity
  BY <1>1, <1>4 DEF TwoTables, IInv
<1>6. ~ShouldRehash(fresh.size, fresh.capacity)
  BY <1>1, <1>5 DEF ShouldRehash
<1>7. PICK j \in 0..fresh.capacity - 1 : ~IsOccupied(fresh.slots[j])
  BY <1>1, <1>5, OccupiedCounts, SMTT(30)
<1>8. FindInsertSlot(fresh.slots, fresh.capacity, slots[next].key) \in 0..fresh.capacity - 1
  BY <1>1, <1>2, <1>3, <1>7, RoomMeansSlot
<1>9. FindOccupiedSlot(fresh.slots, fresh.capacity, slots[next].key) = fresh.capacity
  <2> DEFINE i == FindOccupiedSlot(fresh.slots, fresh.capacity, slots[next].key)
  <2>1. i = fresh.capacity \/ (/\ i \in Occupied(fresh.slots, fresh.capacity)
                               /\ fresh.slots[i].key = slots[next].key)
    BY <1>1, <1>2, <1>3, FoundHolds
  <2> HIDE DEF i
  <2> QED
    BY <1>2, <2>1 DEF TwoTables, IInv, i
<1> QED
  BY <1>2, <1>6, <1>8, <1>9

\* One entry moves from the old table to the new one.
LEMMA ReinsertStep ==
    ASSUME IInv, Reinsert PROVE IInv'
<1> DEFINE s == slots[next]
           n == fresh.capacity
           f == FindInsertSlot(fresh.slots, n, s.key)
<1>1. pc = "rehash" /\ next < capacity /\ IsOccupied(s)
  BY DEF Reinsert
<1>2. next \in Occupied(slots, capacity) /\ s \in Slot /\ f \in 0..n - 1 /\ f # n
  BY <1>1, RoomInFresh DEF IInv, TypeOK
<1>3. /\ n \in Nat /\ n > 0 /\ fresh.slots \in Tables(n) /\ Sound(fresh.slots, n)
      /\ capacity \in Nat /\ next \in Nat /\ size \in Nat /\ fresh.size \in Nat
  BY <1>1, CapacitiesAreNatural DEF IInv, TypeOK, TwoTables, Tables
<1>4. /\ UNCHANGED <<size, capacity, pc, ins, res, it>> /\ next' = next + 1
      /\ slots' = [slots EXCEPT ![next] = EmptySlot]
      /\ fresh'.slots = [fresh.slots EXCEPT ![f] = s] /\ fresh'.size = fresh.size + 1
      /\ fresh'.capacity = n /\ DOMAIN fresh' = DOMAIN fresh
  BY DEF Reinsert, IInv, TypeOK, NoTable
<1> HIDE DEF s, n, f
<1>5. /\ fresh'.slots \in Tables(n) /\ Sound(fresh'.slots, n)
      /\ Occupied(fresh'.slots, n) = Occupied(fresh.slots, n) \cup {f}
  BY <1>1, <1>2, <1>3, <1>4, EntryPlaced DEF f
<1>6. /\ slots' \in Tables(capacity) /\ slots'[next] = EmptySlot
      /\ \A i \in 0..capacity - 1 : i # next => slots'[i] = slots[i]
  BY <1>2, <1>4, NewSlots DEF Occupied, Tables, IInv, TypeOK
<1>7. Occupied(slots', capacity) = Occupied(slots, capacity) \ {next}
  BY <1>6, NewSlots, SlotKinds DEF Occupied
<1>8. \A j \in Occupied(fresh.slots, n) : fresh.slots[j].key # s.key
  BY <1>1, <1>2 DEF IInv, TwoTables, n, s
<1>9. f \notin Occupied(fresh.slots, n)
  <2>1. s.key \in Keys
    BY <1>1, <1>2, SlotKinds
  <2>2. IsOccupied(fresh.slots[f]) => fresh.slots[f].key = s.key
    BY <1>2, <1>3, <2>1, InsertSlot DEF f
  <2> QED
    BY <1>8, <2>2 DEF Occupied
<1>10. TypeOK'
  <2>1. next' \in 0..capacity'
    BY <1>1, <1>3, <1>4
  <2>2. fresh'.size \in Nat /\ fresh'.slots \in [0..fresh'.capacity - 1 -> Slot]
    BY <1>3, <1>4, <1>5 DEF Tables
  <2>3. fresh'.capacity \in 0..MaxCapacity /\ DOMAIN fresh' = DOMAIN NoTable
    BY <1>4 DEF IInv, TypeOK, n
  <2>4. slots' \in [0..capacity' - 1 -> Slot]
    BY <1>4, <1>6 DEF Tables
  <2> QED
    BY <1>4, <2>1, <2>2, <2>3, <2>4 DEF IInv, TypeOK
<1>11. TwoTables'
  <2>1. /\ Cardinality(Occupied(fresh'.slots, n)) = Cardinality(Occupied(fresh.slots, n)) + 1
        /\ Cardinality(Occupied(slots', capacity)) = Cardinality(Occupied(slots, capacity)) - 1
    <3>1. IsFiniteSet(Occupied(fresh.slots, n)) /\ IsFiniteSet(Occupied(slots, capacity))
      BY <1>3, OccupiedCounts
    <3>2. Cardinality(Occupied(fresh.slots, n) \cup {f}) = Cardinality(Occupied(fresh.slots, n)) + 1
      BY <1>9, <3>1, FS_AddElement
    <3>3. Cardinality(Occupied(slots, capacity) \ {next}) = Cardinality(Occupied(slots, capacity)) - 1
      BY <1>2, <3>1, FS_RemoveElement
    <3> QED
      BY <1>5, <1>7, <3>2, <3>3
  <2>2. fresh'.size = Cardinality(Occupied(fresh'.slots, n))
    BY <1>1, <1>4, <2>1 DEF IInv, TwoTables, n
  <2>3. size = fresh'.size + Cardinality(Occupied(slots', capacity))
    BY <1>1, <1>3, <1>4, <2>1, OccupiedCounts DEF IInv, TwoTables
  <2>4. Unique(slots', capacity)
    BY <1>1, <1>6, <1>7 DEF IInv, TwoTables, Unique, Occupied
  <2>5. \A i \in 0..next' - 1 : ~IsOccupied(slots'[i])
    BY <1>1, <1>2, <1>3, <1>4, <1>6, NewSlots, SlotKinds DEF IInv, TwoTables, Occupied
  <2>6. ASSUME NEW i \in Occupied(slots', capacity), NEW j \in Occupied(fresh'.slots, n)
        PROVE  slots'[i].key # fresh'.slots[j].key
    <3>1. i \in Occupied(slots, capacity) /\ i # next /\ slots'[i] = slots[i] /\ slots[i].key # s.key
      BY <1>1, <1>2, <1>6, <1>7 DEF IInv, TwoTables, Unique, Occupied, s
    <3>2. CASE j = f
      <4>1. fresh'.slots[j] = s
        BY <1>2, <1>3, <1>4, <3>2 DEF Tables
      <4> QED
        BY <3>1, <4>1
    <3>3. CASE j # f
      <4>1. j \in Occupied(fresh.slots, n) /\ fresh'.slots[j] = fresh.slots[j]
        BY <1>3, <1>4, <1>5, <3>3 DEF Occupied, Tables
      <4> QED
        BY <1>1, <3>1, <4>1 DEF IInv, TwoTables, n
    <3> QED
      BY <3>2, <3>3
  <2> QED
    BY <1>1, <1>3, <1>4, <1>5, <2>2, <2>3, <2>4, <2>5, <2>6, ZenonT(30) DEF IInv, TwoTables, n
<1>12. OneTable' /\ Inserting' /\ Iterating'
  BY <1>1, <1>4
     DEF IInv, OneTable, TwoTables, Inserting, Iterating
<1> QED
  BY <1>10, <1>11, <1>12 DEF IInv

LEMMA SkipStep ==
    ASSUME IInv, SkipUnoccupied PROVE IInv'
<1>1. next \in Nat /\ capacity \in Nat /\ next < capacity /\ pc = "rehash"
  BY CapacitiesAreNatural DEF SkipUnoccupied, IInv, TypeOK
<1>2. next' \in 0..capacity
  BY <1>1 DEF SkipUnoccupied
<1>3. TypeOK'
  BY <1>2 DEF SkipUnoccupied, IInv, TypeOK
<1>4. \A i \in 0..next' - 1 : ~IsOccupied(slots'[i])
  BY <1>1 DEF SkipUnoccupied, IInv, TwoTables
<1>5. TwoTables'
  BY <1>1, <1>4 DEF SkipUnoccupied, IInv, TwoTables
<1> QED
  BY <1>1, <1>3, <1>5
     DEF SkipUnoccupied, IInv, OneTable, TwoTables, Inserting, Iterating

\* The new table has all entries when it replaces the old one.
LEMMA FinishStep ==
    ASSUME IInv, FinishRehash PROVE IInv'
<1>1. /\ pc = "rehash" /\ next = capacity /\ pc' = "insert" /\ next' = 0 /\ fresh' = NoTable
      /\ slots' = fresh.slots /\ size' = fresh.size /\ capacity' = fresh.capacity
      /\ UNCHANGED <<ins, res, it>>
  BY DEF FinishRehash
<1>2. /\ capacity \in Nat /\ size \in Nat /\ fresh.size \in Nat /\ fresh.capacity \in Nat
      /\ fresh.capacity \in 0..MaxCapacity /\ fresh.slots \in Tables(fresh.capacity)
  BY CapacitiesAreNatural DEF IInv, TypeOK, Tables
<1>3. Occupied(slots, capacity) = {}
  BY <1>1 DEF IInv, TwoTables, Occupied
<1>4. size = fresh.size
  BY <1>1, <1>2, <1>3, FS_EmptySet DEF IInv, TwoTables
<1>5. size' < capacity'
  BY <1>1, <1>2, <1>4 DEF IInv, TwoTables
<1>6. NoTable.slots \in Tables(0)
  BY EmptyTableIsSound DEF NoTable
<1>7. TypeOK'
  BY <1>1, <1>2, <1>6, CapacitiesAreNatural DEF IInv, TypeOK, Tables, NoTable
<1>8. OneTable' /\ TwoTables'
  BY <1>1 DEF IInv, OneTable, TwoTables
<1>9. Inserting'
  <2>1. ins' = ins /\ size' = size
    BY <1>1, <1>4
  <2> QED
    BY <1>1, <1>5, <2>1 DEF IInv, Inserting
<1>10. Iterating'
  BY <1>1 DEF IInv, TwoTables, Iterating
<1> QED
  BY <1>7, <1>8, <1>9, <1>10 DEF IInv

\* The slot that Place takes is there; it is of that key or of none.
LEMMA PlaceFindsSlot ==
    ASSUME IInv, pc = "insert"
    PROVE  LET i == FindInsertSlot(slots, capacity, ins.key)
           IN  /\ i \in 0..capacity - 1
               /\ ins.key \in Keys /\ ins.value \in Values \cup {Lost}
               /\ capacity \in Nat /\ capacity > 0
               /\ slots \in Tables(capacity) /\ Sound(slots, capacity)
               /\ IsOccupied(slots[i]) => slots[i].key = ins.key
               /\ ~IsOccupied(slots[i]) => \A j \in Occupied(slots, capacity) : slots[j].key # ins.key
<1> DEFINE i == FindInsertSlot(slots, capacity, ins.key)
<1>1. /\ ins.key \in Keys /\ ins.value \in Values \cup {Lost}
      /\ capacity \in Nat /\ size \in Nat /\ size < capacity
      /\ slots \in Tables(capacity) /\ Sound(slots, capacity)
      /\ size = Cardinality(Occupied(slots, capacity))
  BY CapacitiesAreNatural DEF IInv, TypeOK, OneTable, Inserting, Tables
<1>2. capacity > 0
  BY <1>1
<1>3. PICK free \in 0..capacity - 1 : ~IsOccupied(slots[free])
  BY <1>1, OccupiedCounts
<1>4. i \in 0..capacity - 1
  BY <1>1, <1>2, <1>3, RoomMeansSlot
<1>5. i # capacity
  BY <1>1, <1>4
<1>6. /\ IsOccupied(slots[i]) => slots[i].key = ins.key
      /\ ~IsOccupied(slots[i]) => \A j \in Occupied(slots, capacity) : slots[j].key # ins.key
  BY <1>1, <1>2, <1>5, InsertSlot
<1> QED
  BY <1>1, <1>2, <1>4, <1>6

LEMMA PlaceStep ==
    ASSUME IInv, Place PROVE IInv'
<1> DEFINE i == FindInsertSlot(slots, capacity, ins.key)
           s == Entry(ins.key, ins.value)
<1>1. /\ i \in 0..capacity - 1 /\ i # capacity
      /\ ins.key \in Keys /\ ins.value \in Values \cup {Lost}
      /\ capacity \in Nat /\ capacity > 0
      /\ slots \in Tables(capacity) /\ Sound(slots, capacity)
      /\ IsOccupied(slots[i]) => slots[i].key = ins.key
      /\ ~IsOccupied(slots[i]) => \A j \in Occupied(slots, capacity) : slots[j].key # ins.key
  BY PlaceFindsSlot DEF Place
<1>2. s \in Slot /\ IsOccupied(s) /\ s.key = ins.key /\ s.value = ins.value
  BY <1>1, NewSlots
<1>3. /\ pc = "insert" /\ slots' = [slots EXCEPT ![i] = s]
      /\ size' = IF IsOccupied(slots[i]) THEN size ELSE size + 1
      /\ ins' = NoInsert /\ pc' = "ready" /\ res' = "ok"
      /\ UNCHANGED <<capacity, fresh, next, it>>
  BY DEF Place
<1> HIDE DEF s
<1>4. i = FindInsertSlot(slots, capacity, s.key)
  BY <1>2
<1> HIDE DEF i
<1>5. /\ slots' \in Tables(capacity) /\ Sound(slots', capacity)
      /\ Occupied(slots', capacity) = Occupied(slots, capacity) \cup {i}
  <2>1. capacity \in Nat /\ capacity > 0 /\ slots \in Tables(capacity) /\ Sound(slots, capacity)
    BY <1>1
  <2>2. s \in Slot /\ IsOccupied(s) /\ i # capacity
    BY <1>1, <1>2
  <2>3. slots' = [slots EXCEPT ![i] = s]
    BY <1>3
  <2> QED
    BY <1>4, <2>1, <2>2, <2>3, EntryPlaced
<1>6. slots'[i] = s /\ \A j \in 0..capacity - 1 : j # i => slots'[j] = slots[j]
  BY <1>1, <1>3 DEF Tables
<1>7. size = Cardinality(Occupied(slots, capacity)) /\ size \in Nat
  BY <1>3 DEF IInv, OneTable, TypeOK
<1>8. size' = Cardinality(Occupied(slots', capacity))
  <2>1. IsFiniteSet(Occupied(slots, capacity)) /\ (i \in Occupied(slots, capacity) <=> IsOccupied(slots[i]))
    BY <1>1, OccupiedCounts DEF Occupied
  <2> QED
    BY <1>3, <1>5, <1>7, <2>1, FS_AddElement
<1>9. TypeOK'
  <2>1. size' \in Nat
    BY <1>3, <1>7
  <2> QED
    BY <1>3, <1>5, <2>1 DEF IInv, TypeOK, Tables
<1>10. OneTable' /\ TwoTables' /\ Inserting'
  BY <1>3, <1>5, <1>8 DEF IInv, OneTable, TwoTables, Inserting
<1>11. ASSUME it.on, NEW k \in it.stable
       PROVE  \E j \in Occupied(slots', capacity) :
                  slots'[j].key = k /\ (k \in it.visited <=> j < it.index)
  <2>1. PICK j \in Occupied(slots, capacity) : slots[j].key = k /\ (k \in it.visited <=> j < it.index)
    BY <1>11 DEF IInv, Iterating
  <2>2. j \in Occupied(slots', capacity) /\ slots'[j].key = k
    BY <1>1, <1>2, <1>5, <1>6, <2>1 DEF Occupied
  <2> QED
    BY <2>1, <2>2
<1>12. Iterating'
  BY <1>3, <1>11 DEF Iterating
<1> QED
  BY <1>9, <1>10, <1>12 DEF IInv

\* Where the search for a key ends, outside of rehash().
LEMMA FindInTable ==
    ASSUME IInv, pc = "ready", NEW k \in Keys
    PROVE  LET i == FindOccupiedSlot(slots, capacity, k)
           IN  /\ capacity \in Nat /\ slots \in Tables(capacity) /\ Sound(slots, capacity)
               /\ \/ i \in Occupied(slots, capacity) /\ slots[i].key = k /\ i < capacity
                  \/ i = capacity /\ \A j \in Occupied(slots, capacity) : slots[j].key # k
<1> DEFINE i == FindOccupiedSlot(slots, capacity, k)
<1>1. capacity \in Nat /\ slots \in Tables(capacity) /\ Sound(slots, capacity)
  BY CapacitiesAreNatural DEF IInv, TypeOK, OneTable, Tables
<1>2. CASE capacity = 0
  <2>1. Stops(slots, capacity, k) = {} /\ Occupied(slots, capacity) = {}
    BY <1>2 DEF Stops, Occupied
  <2> QED
    BY <1>1, <2>1 DEF FindOccupiedSlot
<1>3. CASE capacity > 0
  <2>1. i = capacity \/ (i \in Occupied(slots, capacity) /\ slots[i].key = k)
    BY <1>1, <1>3, FoundHolds
  <2>2. CASE i = capacity
    <3>1. ASSUME NEW j \in Occupied(slots, capacity), slots[j].key = k PROVE FALSE
      <4>1. i = j /\ j < capacity
        BY <1>1, <1>3, <3>1, FindsEntry DEF Occupied
      <4> QED
        BY <1>1, <2>2, <4>1
    <3> QED
      BY <1>1, <2>2, <3>1
  <2>3. CASE i \in Occupied(slots, capacity) /\ slots[i].key = k
    BY <1>1, <2>3 DEF Occupied
  <2> QED
    BY <2>1, <2>2, <2>3
<1> QED
  BY <1>1, <1>2, <1>3

LEMMA RemoveStep ==
    ASSUME IInv, NEW k \in Keys, Remove(k) PROVE IInv'
<1> DEFINE i == FindOccupiedSlot(slots, capacity, k)
<1>1. /\ pc = "ready" /\ i < capacity
      /\ slots' = [slots EXCEPT ![i] = Tombstone] /\ size' = size - 1
      /\ res' = "ok" /\ it' = [it EXCEPT !.stable = @ \ {k}]
      /\ UNCHANGED <<capacity, pc, ins, fresh, next>>
  BY DEF Remove
<1>2. /\ capacity \in Nat /\ slots \in Tables(capacity) /\ Sound(slots, capacity)
      /\ i \in Occupied(slots, capacity) /\ slots[i].key = k
  BY <1>1, FindInTable
<1> HIDE DEF i
<1>3. capacity > 0 /\ i \in 0..capacity - 1
  BY <1>2 DEF Occupied
<1>4. /\ slots' \in Tables(capacity) /\ Sound(slots', capacity)
      /\ Occupied(slots', capacity) = Occupied(slots, capacity) \ {i}
  BY <1>1, <1>2, <1>3, EntryBuried
<1>5. size = Cardinality(Occupied(slots, capacity)) /\ size \in Nat
  BY <1>1 DEF IInv, OneTable, TypeOK
<1>6. size' = Cardinality(Occupied(slots', capacity)) /\ size' \in Nat
  <2>1. IsFiniteSet(Occupied(slots, capacity))
    BY <1>2, OccupiedCounts
  <2>2. size' = Cardinality(Occupied(slots', capacity))
    BY <1>1, <1>2, <1>4, <1>5, <2>1, FS_RemoveElement, ZenonT(30)
  <2>3. Cardinality(Occupied(slots', capacity)) \in Nat
    BY <1>2, OccupiedCounts
  <2> QED
    BY <2>2, <2>3
<1>7. it' \in [on : BOOLEAN, index : 0..MaxCapacity, visited : SUBSET Keys, stable : SUBSET Keys]
  BY <1>1 DEF IInv, TypeOK
<1>8. TypeOK'
  BY <1>1, <1>4, <1>6, <1>7 DEF IInv, TypeOK, Tables
<1>9. OneTable' /\ TwoTables' /\ Inserting'
  BY <1>1, <1>4, <1>6 DEF IInv, OneTable, TwoTables, Inserting
<1>10. Iterating'
  <2>1. /\ it'.on = it.on /\ it'.visited = it.visited /\ it'.index = it.index
        /\ it'.stable = it.stable \ {k}
    BY <1>1 DEF IInv, TypeOK
  <2>2. ASSUME it.on, NEW h \in it.stable \ {k}
        PROVE  \E j \in Occupied(slots', capacity) :
                   slots'[j].key = h /\ (h \in it.visited <=> j < it.index)
    <3>1. PICK j \in Occupied(slots, capacity) : slots[j].key = h /\ (h \in it.visited <=> j < it.index)
      BY <2>2 DEF IInv, Iterating
    <3>2. j # i /\ j \in 0..capacity - 1
      BY <1>2, <2>2, <3>1 DEF Occupied
    <3>3. j \in Occupied(slots', capacity) /\ slots'[j] = slots[j]
      BY <1>1, <1>2, <1>4, <3>1, <3>2 DEF Tables
    <3> QED
      BY <3>1, <3>3
  <2> QED
    BY <1>1, <2>1, <2>2 DEF Iterating
<1> QED
  BY <1>8, <1>9, <1>10 DEF IInv

\* Calls that change nothing but their result.
LEMMA QuietSteps ==
    ASSUME IInv, (\E k \in Keys : Find(k) \/ RemoveMissing(k)) \/ RehashNoMemory
    PROVE  IInv'
<1>1. pc = "ready" /\ UNCHANGED <<slots, size, capacity, pc, ins, fresh, next, it>>
  BY DEF Find, RemoveMissing, RehashNoMemory
<1>2. res' \in {"ok", "noSpace", "notFound", None, Lost} \cup Values
  <2>1. ASSUME NEW k \in Keys, Find(k)
        PROVE  res' \in {"ok", "noSpace", "notFound", None, Lost} \cup Values
    <3> DEFINE i == FindOccupiedSlot(slots, capacity, k)
    <3>1. res' = IF i < capacity THEN slots[i].value ELSE None
      BY <2>1 DEF Find
    <3>2. CASE i < capacity
      <4>1. /\ capacity \in Nat /\ slots \in Tables(capacity)
            /\ i \in Occupied(slots, capacity) \/ i = capacity
        BY <1>1, FindInTable
      <4>2. slots[i].value \in Values \cup {Lost}
        BY <3>2, <4>1, SlotKinds DEF Occupied, Tables
      <4> QED
        BY <3>1, <3>2, <4>2
    <3> QED
      BY <3>1, <3>2
  <2> QED
    BY <2>1 DEF RemoveMissing, RehashNoMemory
<1>3. TypeOK'
  BY <1>1, <1>2 DEF IInv, TypeOK
<1> QED
  BY <1>1, <1>3 DEF IInv, OneTable, TwoTables, Inserting, Iterating

\* The iterator stops at the next entry or at the end.
LEMMA AdvanceStops ==
    ASSUME IInv, NEW i \in Nat
    PROVE  /\ AdvanceToOccupied(i) \in 0..capacity
           /\ \A j \in Occupied(slots, capacity) : i <= j => AdvanceToOccupied(i) <= j
           /\ AdvanceToOccupied(i) >= i \/ AdvanceToOccupied(i) = capacity
<1> DEFINE ahead == {j \in Occupied(slots, capacity) : i <= j}
<1>1. capacity \in Nat /\ ahead \in SUBSET Nat /\ ahead \in SUBSET (0..capacity - 1)
  BY CapacitiesAreNatural DEF IInv, TypeOK, Occupied
<1>2. CASE ahead = {}
  BY <1>1, <1>2 DEF AdvanceToOccupied
<1>3. CASE ahead # {}
  <2>1. Least(ahead) \in ahead /\ \A j \in ahead : Least(ahead) <= j
    BY <1>1, <1>3, LeastIsLeast
  <2>2. AdvanceToOccupied(i) = Least(ahead)
    BY <1>3 DEF AdvanceToOccupied
  <2> QED
    BY <1>1, <2>1, <2>2
<1> QED
  BY <1>2, <1>3

LEMMA BeginStep ==
    ASSUME IInv, Begin PROVE IInv'
<1>1. /\ it' = [on |-> TRUE, index |-> AdvanceToOccupied(0), visited |-> {},
                stable |-> KeysAt(Occupied(slots, capacity))]
      /\ pc = "ready" /\ UNCHANGED <<slots, size, capacity, pc, ins, fresh, next, res>>
  BY DEF Begin
<1>2. /\ AdvanceToOccupied(0) \in 0..capacity
      /\ \A j \in Occupied(slots, capacity) : AdvanceToOccupied(0) <= j
  BY AdvanceStops DEF Occupied
<1>3. KeysAt(Occupied(slots, capacity)) \subseteq Keys
  BY SlotKinds DEF KeysAt, Occupied, IInv, TypeOK
<1>4. capacity \in Nat /\ capacity <= MaxCapacity
  BY CapacitiesAreNatural DEF IInv, TypeOK
<1>5. it' \in [on : BOOLEAN, index : 0..MaxCapacity, visited : SUBSET Keys, stable : SUBSET Keys]
  BY <1>1, <1>2, <1>3, <1>4, CapacitiesAreNatural
<1>6. TypeOK'
  BY <1>1, <1>5 DEF IInv, TypeOK
<1>7. OneTable' /\ TwoTables' /\ Inserting'
  BY <1>1 DEF IInv, OneTable, TwoTables, Inserting
<1>8. Iterating'
  <2> DEFINE index == AdvanceToOccupied(0)
  <2>1. it'.on = TRUE /\ it'.visited = {} /\ it'.index = index /\ it'.stable = KeysAt(Occupied(slots, capacity))
    BY <1>1
  <2>2. \A j \in Occupied(slots, capacity) : ~(j < index)
    BY <1>2, <1>4 DEF Occupied
  <2> HIDE DEF index
  <2> QED
    BY <1>1, <2>1, <2>2 DEF Iterating, KeysAt
<1> QED
  BY <1>6, <1>7, <1>8 DEF IInv

LEMMA VisitStep ==
    ASSUME IInv, Visit PROVE IInv'
<1> DEFINE here == KeysAt({it.index} \cap Occupied(slots, capacity))
           index == AdvanceToOccupied(it.index + 1)
<1>1. /\ pc = "ready" /\ it.on /\ it.index < capacity
      /\ it' = [it EXCEPT !.visited = @ \cup here, !.index = index]
      /\ UNCHANGED <<slots, size, capacity, pc, ins, fresh, next, res>>
  BY DEF Visit
<1>2. capacity \in Nat /\ capacity <= MaxCapacity /\ it.index \in Nat
  BY CapacitiesAreNatural DEF IInv, TypeOK
<1>3. /\ index \in 0..capacity /\ (index >= it.index + 1 \/ index = capacity)
      /\ \A j \in Occupied(slots, capacity) : it.index + 1 <= j => index <= j
  <2> DEFINE i == it.index + 1
  <2>1. i \in Nat
    BY <1>2
  <2> HIDE DEF i
  <2>2. /\ AdvanceToOccupied(i) \in 0..capacity
        /\ AdvanceToOccupied(i) >= i \/ AdvanceToOccupied(i) = capacity
        /\ \A j \in Occupied(slots, capacity) : i <= j => AdvanceToOccupied(i) <= j
    BY <2>1, AdvanceStops
  <2> QED
    BY <2>2 DEF i
<1>4. here \subseteq Keys
  BY SlotKinds DEF KeysAt, Occupied, IInv, TypeOK
<1>5. \A h : h \in here <=> it.index \in Occupied(slots, capacity) /\ slots[it.index].key = h
  BY DEF KeysAt
<1> HIDE DEF here, index
<1>6. /\ it' \in [on : BOOLEAN, index : 0..MaxCapacity, visited : SUBSET Keys, stable : SUBSET Keys]
      /\ it'.on /\ it'.stable = it.stable /\ it'.index = index /\ it'.visited = it.visited \cup here
  <2>1. index \in 0..MaxCapacity /\ it.visited \cup here \in SUBSET Keys
    BY <1>2, <1>3, <1>4, CapacitiesAreNatural DEF IInv, TypeOK
  <2>2. it \in [on : BOOLEAN, index : 0..MaxCapacity, visited : SUBSET Keys, stable : SUBSET Keys]
    BY DEF IInv, TypeOK
  <2> QED
    BY <1>1, <2>1, <2>2
<1>7. TypeOK'
  BY <1>1, <1>6 DEF IInv, TypeOK
<1>8. OneTable' /\ TwoTables' /\ Inserting'
  BY <1>1 DEF IInv, OneTable, TwoTables, Inserting
<1>9. Iterating'
  <2>1. ASSUME NEW k \in it.stable
        PROVE  \E j \in Occupied(slots, capacity) :
                   slots[j].key = k /\ (k \in it.visited \cup here <=> j < index)
    <3>1. PICK j \in Occupied(slots, capacity) : slots[j].key = k /\ (k \in it.visited <=> j < it.index)
      BY <1>1, <2>1 DEF IInv, Iterating
    <3>2. j \in 0..capacity - 1
      BY <3>1 DEF Occupied
    <3>3. k \in here <=> j = it.index
      BY <1>1, <1>5, <3>1 DEF IInv, OneTable, Sound, Unique
    <3>4. j < index <=> (j < it.index \/ j = it.index)
      BY <1>1, <1>2, <1>3, <3>1, <3>2
    <3> QED
      BY <3>1, <3>3, <3>4
  <2> QED
    BY <1>1, <1>6, <2>1 DEF Iterating
<1> QED
  BY <1>7, <1>8, <1>9 DEF IInv

-----------------------------------------------------------------------------
(* The theorems.                                                            *)

\* IInv is inductive.
LEMMA StepHolds == IInv /\ [Next]_vars => IInv'
<1> SUFFICES ASSUME IInv, [Next]_vars PROVE IInv'
  OBVIOUS
<1>1. ASSUME NEW k \in Keys, NEW v \in Values, BeginInsert(k, v) PROVE IInv'
  BY <1>1, BeginInsertStep, LostIsNoValue
<1>2. ASSUME NEW k \in Keys, NEW v \in Values, BeginRehash(k, v) PROVE IInv'
  BY <1>2, BeginRehashStep, LostIsNoValue
<1>3. ASSUME NEW k \in Keys, NEW i \in 0..MaxCapacity - 1, InsertElement(k, i) PROVE IInv'
  BY <1>3, InsertElementStep
<1>4. ASSUME NEW k \in Keys, Find(k) \/ RemoveMissing(k) PROVE IInv'
  BY <1>4, QuietSteps
<1>5. ASSUME NEW k \in Keys, Remove(k) PROVE IInv'
  BY <1>5, RemoveStep
<1>6. CASE RehashNoMemory
  BY <1>6, QuietSteps
<1>7. CASE Reinsert
  BY <1>7, ReinsertStep
<1>8. CASE SkipUnoccupied
  BY <1>8, SkipStep
<1>9. CASE FinishRehash
  BY <1>9, FinishStep
<1>10. CASE Place
  BY <1>10, PlaceStep
<1>11. CASE Clear \/ MoveAway \/ (\E c \in Capacities : Reassign(c))
  BY <1>11, ReplacingSteps
<1>12. CASE Begin
  BY <1>12, BeginStep
<1>13. CASE Visit
  BY <1>13, VisitStep
<1>14. CASE UNCHANGED vars
  BY <1>14
     DEF vars, IInv, TypeOK, OneTable, TwoTables, Inserting, Iterating
<1> QED
  BY <1>1, <1>2, <1>3, <1>4, <1>5, <1>6, <1>7, <1>8, <1>9, <1>10, <1>11, <1>12, <1>13, <1>14
     DEF Next

\* In every reachable state the table is sound, or in rehash() the two are that
\* share its entries, and what an iteration has still to visit is ahead of it.
THEOREM Invariant == Spec => []IInv
<1>1. Init => IInv
  BY InitHolds
<1> QED
  BY <1>1, StepHolds, PTL DEF Spec

\* Every entry is found from its key and counted once, after any sequence of
\* calls, for any keys, hashes and capacities.
THEOREM TableAlwaysSound == Spec => []TableIsSound
<1>1. ASSUME IInv PROVE TableIsSound
  <2>1. /\ capacity \in Nat /\ slots \in Tables(capacity)
        /\ fresh.capacity \in Nat /\ fresh.slots \in Tables(fresh.capacity)
    BY <1>1, CapacitiesAreNatural DEF IInv, TypeOK, Tables
  <2>2. CASE pc # "rehash"
    <3>1. Reachable(slots, capacity) /\ size = Cardinality(Occupied(slots, capacity))
      BY <1>1, <2>1, <2>2, SoundIsReachable DEF IInv, OneTable
    <3>2. fresh.slots = EmptyTable(0) /\ fresh.capacity = 0 /\ fresh.size = 0
      BY <1>1, <2>2 DEF IInv, OneTable, NoTable
    <3>3. Occupied(fresh.slots, fresh.capacity) = {}
      BY <3>2, EmptyTableIsSound
    <3> QED
      BY <1>1, <2>2, <3>1, <3>2, <3>3, FS_EmptySet
         DEF IInv, TableIsSound, EntriesReachable, SizeIsCount, Reachable
  <2>3. CASE pc = "rehash"
    <3>1. Sound(fresh.slots, fresh.capacity)
      BY <1>1, <2>3 DEF IInv, TwoTables
    <3> QED
      BY <1>1, <2>1, <2>3, <3>1, SoundIsReachable
         DEF IInv, TwoTables, TableIsSound, EntriesReachable, SizeIsCount
  <2> QED
    BY <2>2, <2>3
<1> QED
  BY <1>1, Invariant, PTL

\* An insert finds a slot, and so does each insert of a rehash, which never
\* rehashes in turn: only memory can be wanting.
THEOREM InsertAlwaysSucceeds == Spec => []InsertSucceeds
<1>1. ASSUME IInv PROVE InsertSucceeds
  <2>1. InsertFindsSlot
    <3> SUFFICES ASSUME pc = "insert"
                 PROVE  FindInsertSlot(slots, capacity, ins.key) < capacity
      BY DEF InsertFindsSlot
    <3>1. capacity \in Nat /\ FindInsertSlot(slots, capacity, ins.key) \in 0..capacity - 1
      BY <1>1, PlaceFindsSlot
    <3> QED
      BY <3>1
  <2>2. RehashNeverNests
    <3> SUFFICES ASSUME pc = "rehash", next < capacity, IsOccupied(slots[next])
                 PROVE  /\ ~ShouldRehash(fresh.size, fresh.capacity)
                        /\ FindInsertSlot(fresh.slots, fresh.capacity, slots[next].key) < fresh.capacity
                        /\ FindOccupiedSlot(fresh.slots, fresh.capacity, slots[next].key) = fresh.capacity
      BY DEF RehashNeverNests
    <3>1. fresh.capacity \in Nat
      BY <1>1, CapacitiesAreNatural DEF IInv, TypeOK
    <3>2. /\ ~ShouldRehash(fresh.size, fresh.capacity)
          /\ FindInsertSlot(fresh.slots, fresh.capacity, slots[next].key) \in 0..fresh.capacity - 1
          /\ FindOccupiedSlot(fresh.slots, fresh.capacity, slots[next].key) = fresh.capacity
      BY <1>1, RoomInFresh
    <3> QED
      BY <3>1, <3>2
  <2> QED
    BY <2>1, <2>2 DEF InsertSucceeds
<1> QED
  BY <1>1, Invariant, PTL

\* An iteration visits every key that was there at begin() and was not removed,
\* and none of them twice, whatever is inserted or removed without a rehash.
THEOREM IterationAlwaysVisitsOnce == Spec => []IterationVisitsOnce
<1>1. ASSUME IInv PROVE IterationVisitsOnce
  <2> DEFINE ahead == {i \in Occupied(slots, capacity) : it.index <= i}
  <2> SUFFICES ASSUME it.on, NEW k \in it.stable
               PROVE  (k \in it.visited) # (k \in KeysAt(ahead))
    BY DEF IterationVisitsOnce
  <2>1. PICK j \in Occupied(slots, capacity) : slots[j].key = k /\ (k \in it.visited <=> j < it.index)
    BY <1>1 DEF IInv, Iterating
  <2>2. Unique(slots, capacity)
    BY <1>1 DEF IInv, OneTable, TwoTables, Sound
  <2>3. j \in Int /\ it.index \in Int
    BY <1>1, <2>1, CapacitiesAreNatural DEF IInv, TypeOK, Occupied
  <2>4. k \in KeysAt(ahead) <=> j \in ahead
    BY <2>1, <2>2 DEF KeysAt, Unique
  <2>5. j \in ahead <=> ~(j < it.index)
    BY <2>1, <2>3
  <2> QED
    BY <2>1, <2>4, <2>5
<1> QED
  BY <1>1, Invariant, PTL

-----------------------------------------------------------------------------
(* The refinement: a map is a dictionary.                                   *)

\* The entries of a table, of both tables, and what they map.
EntriesIn(T, n) == {T[i] : i \in Occupied(T, n)}
Entries == EntriesIn(slots, capacity) \cup EntriesIn(fresh.slots, fresh.capacity)
DictOf(E) == [k \in {e.key : e \in E} |-> (CHOOSE e \in E : e.key = k).value]

OneEach(E) == \A e, f \in E : e.key = f.key => e = f

LEMMA ContentsOfEntries == Contents = DictOf(Entries)
BY DEF Contents, DictOf, Entries, EntriesIn

\* An entry maps its key to its value.
LEMMA EntryInDict ==
    ASSUME NEW E, OneEach(E), NEW e \in E
    PROVE  e.key \in DOMAIN DictOf(E) /\ DictOf(E)[e.key] = e.value
<1>1. e.key \in {f.key : f \in E}
  OBVIOUS
<1>2. (CHOOSE f \in E : f.key = e.key) = e
  BY DEF OneEach
<1> QED
  BY <1>1, <1>2 DEF DictOf

LEMMA KeyInDict ==
    ASSUME NEW E, NEW k
    PROVE  k \in DOMAIN DictOf(E) <=> \E e \in E : e.key = k
BY DEF DictOf

\* The entry of k is replaced, added or taken away.
LEMMA DictWith ==
    ASSUME NEW E, OneEach(E), NEW e, NEW k, e.key = k
    PROVE  DictOf({f \in E : f.key # k} \cup {e}) = Promise!With(DictOf(E), k, e.value)
<1> DEFINE F == {f \in E : f.key # k} \cup {e}
<1>1. OneEach(F)
  BY DEF OneEach
<1>2. \A j : j \in DOMAIN DictOf(F) <=> j \in DOMAIN DictOf(E) \/ j = k
  BY KeyInDict
<1>3. ASSUME NEW j \in DOMAIN DictOf(F)
      PROVE  DictOf(F)[j] = IF j = k THEN e.value ELSE DictOf(E)[j]
  <2>1. PICK f \in F : f.key = j
    BY KeyInDict
  <2>2. DictOf(F)[j] = f.value
    BY <1>1, <2>1, EntryInDict
  <2>3. CASE j = k
    BY <2>1, <2>2, <2>3
  <2>4. CASE j # k
    <3>1. f \in E
      BY <2>1, <2>4
    <3>2. DictOf(E)[j] = f.value
      BY <2>1, <3>1, EntryInDict
    <3> QED
      BY <2>2, <2>4, <3>2
  <2> QED
    BY <2>3, <2>4
<1>4. DictOf(F) = [j \in DOMAIN DictOf(F) |-> DictOf(F)[j]]
  BY DEF DictOf
<1>5. DOMAIN DictOf(F) = DOMAIN DictOf(E) \cup {k}
  BY <1>2
<1> HIDE DEF F
<1> QED
  BY <1>3, <1>4, <1>5 DEF Promise!With, F

LEMMA DictWithout ==
    ASSUME NEW E, OneEach(E), NEW k
    PROVE  DictOf({f \in E : f.key # k}) = Promise!Without(DictOf(E), k)
<1> DEFINE F == {f \in E : f.key # k}
<1>1. OneEach(F)
  BY DEF OneEach
<1>2. DOMAIN DictOf(F) = DOMAIN DictOf(E) \ {k}
  <2>1. \A j : j \in DOMAIN DictOf(F) <=> j \in DOMAIN DictOf(E) /\ j # k
    BY KeyInDict
  <2> QED
    BY <2>1
<1>3. ASSUME NEW j \in DOMAIN DictOf(F) PROVE DictOf(F)[j] = DictOf(E)[j]
  <2>1. PICK f \in F : f.key = j
    BY KeyInDict
  <2>2. f \in E
    BY <2>1
  <2> QED
    BY <1>1, <2>1, <2>2, EntryInDict
<1>4. DictOf(F) = [j \in DOMAIN DictOf(F) |-> DictOf(F)[j]]
  BY DEF DictOf
<1> HIDE DEF F
<1> QED
  BY <1>2, <1>3, <1>4 DEF Promise!Without, F

LEMMA NoEntries == DictOf({}) = Promise!Empty
BY DEF DictOf, Promise!Empty

LEMMA ContentsNext == Contents' = DictOf(Entries')
BY DEF Contents, DictOf, Entries, EntriesIn

\* The slots of a table with one changed: its entry is gone from the entries.
LEMMA EntriesWith ==
    ASSUME NEW n \in Nat, NEW T \in Tables(n), NEW U \in Tables(n), NEW i \in 0..n - 1,
           Unique(T, n), \A j \in 0..n - 1 : j # i => U[j] = T[j],
           NEW k, IsOccupied(T[i]) => T[i].key = k,
           ~IsOccupied(T[i]) => \A j \in Occupied(T, n) : T[j].key # k
    PROVE  EntriesIn(U, n) = {e \in EntriesIn(T, n) : e.key # k}
                             \cup (IF IsOccupied(U[i]) THEN {U[i]} ELSE {})
<1> DEFINE E == {e \in EntriesIn(T, n) : e.key # k} \cup (IF IsOccupied(U[i]) THEN {U[i]} ELSE {})
<1>1. ASSUME NEW j \in Occupied(U, n) PROVE U[j] \in E
  <2>1. CASE j = i
    BY <2>1 DEF Occupied
  <2>2. CASE j # i
    <3>1. j \in Occupied(T, n) /\ U[j] = T[j]
      BY <2>2 DEF Occupied
    <3>2. T[j].key # k
      BY <2>2, <3>1 DEF Unique, Occupied
    <3> QED
      BY <3>1, <3>2 DEF EntriesIn
  <2> QED
    BY <2>1, <2>2
<1>2. ASSUME NEW j \in Occupied(T, n), T[j].key # k PROVE T[j] \in EntriesIn(U, n)
  <2>1. j # i
    BY <1>2 DEF Occupied
  <2>2. j \in Occupied(U, n) /\ U[j] = T[j]
    BY <2>1 DEF Occupied
  <2> QED
    BY <2>2 DEF EntriesIn
<1>3. IsOccupied(U[i]) => U[i] \in EntriesIn(U, n)
  BY DEF EntriesIn, Occupied
<1>4. EntriesIn(U, n) \subseteq E
  BY <1>1 DEF EntriesIn
<1>5. E \subseteq EntriesIn(U, n)
  BY <1>2, <1>3 DEF EntriesIn
<1> QED
  BY <1>4, <1>5

LEMMA NewTableHasNone ==
    ASSUME NEW n \in Nat PROVE EntriesIn(EmptyTable(n), n) = {}
BY EmptyTableIsSound DEF EntriesIn

\* Outside of rehash() the entries are those of the one table.
LEMMA EntriesOfTable ==
    ASSUME IInv, pc # "rehash"
    PROVE  /\ Entries = EntriesIn(slots, capacity)
           /\ EntriesIn(fresh.slots, fresh.capacity) = {}
<1>1. fresh.slots = EmptyTable(0) /\ fresh.capacity = 0
  BY DEF IInv, OneTable, NoTable
<1> QED
  BY <1>1, NewTableHasNone DEF Entries

\* No key has two entries.
LEMMA OneEntryEach ==
    ASSUME IInv PROVE OneEach(Entries)
<1>1. CASE pc # "rehash"
  <2>1. Entries = EntriesIn(slots, capacity) /\ Unique(slots, capacity)
    BY <1>1, EntriesOfTable DEF IInv, OneTable, Sound
  <2> QED
    BY <2>1 DEF OneEach, EntriesIn, Unique
<1>2. CASE pc = "rehash"
  <2>1. /\ Unique(slots, capacity) /\ Unique(fresh.slots, fresh.capacity)
        /\ \A i \in Occupied(slots, capacity) : \A j \in Occupied(fresh.slots, fresh.capacity) :
               slots[i].key # fresh.slots[j].key
    BY <1>2 DEF IInv, TwoTables, Sound
  <2> QED
    BY <2>1 DEF OneEach, Entries, EntriesIn, Unique
<1> QED
  BY <1>1, <1>2

-----------------------------------------------------------------------------
(* Each step of the map is one of the dictionary, or none.                  *)

\* An insert, the search for its slot and the loop of a rehash.
LEMMA PlaceInserts ==
    ASSUME IInv, Place PROVE Promise!Next
<1> DEFINE i == FindInsertSlot(slots, capacity, ins.key)
           k == ins.key
           s == Entry(k, ins.value)
<1>1. /\ i \in 0..capacity - 1
      /\ k \in Keys /\ ins.value \in Values \cup {Lost}
      /\ capacity \in Nat /\ capacity > 0
      /\ slots \in Tables(capacity) /\ Sound(slots, capacity)
      /\ IsOccupied(slots[i]) => slots[i].key = k
      /\ ~IsOccupied(slots[i]) => \A j \in Occupied(slots, capacity) : slots[j].key # k
  BY PlaceFindsSlot DEF Place
<1>2. s \in Slot /\ IsOccupied(s) /\ s.key = k /\ s.value = ins.value
  BY <1>1, NewSlots
<1>3. /\ pc = "insert" /\ slots' = [slots EXCEPT ![i] = s] /\ res' = "ok"
      /\ UNCHANGED <<capacity, fresh>>
  BY DEF Place
<1> HIDE DEF s, i
<1>4. slots' \in Tables(capacity) /\ slots'[i] = s /\ \A j \in 0..capacity - 1 : j # i => slots'[j] = slots[j]
  BY <1>1, <1>2, <1>3 DEF Tables
<1>5. Entries = EntriesIn(slots, capacity) /\ EntriesIn(fresh.slots, fresh.capacity) = {}
  BY <1>3, EntriesOfTable
<1>6. Entries' = EntriesIn(slots', capacity)
  BY <1>3, <1>5 DEF Entries
<1>7. EntriesIn(slots', capacity) = {e \in EntriesIn(slots, capacity) : e.key # k} \cup {s}
  <2>1. Unique(slots, capacity)
    BY <1>1 DEF Sound
  <2>2. EntriesIn(slots', capacity) = {e \in EntriesIn(slots, capacity) : e.key # k}
                                      \cup (IF IsOccupied(slots'[i]) THEN {slots'[i]} ELSE {})
    <3> HIDE DEF k
    <3> QED
      BY <1>1, <1>4, <2>1, EntriesWith
  <2> QED
    BY <1>2, <1>4, <2>2
<1>8. Contents' = Promise!With(Contents, k, ins.value)
  <2>1. OneEach(Entries)
    BY OneEntryEach
  <2>2. DictOf({e \in Entries : e.key # k} \cup {s}) = Promise!With(DictOf(Entries), k, s.value)
    BY <1>2, <2>1, DictWith
  <2> QED
    BY <1>2, <1>5, <1>6, <1>7, <2>2, ContentsNext, ContentsOfEntries
<1>9. CASE ins.value \in Values
  BY <1>1, <1>3, <1>8, <1>9 DEF Promise!Next, Promise!Insert
<1>10. CASE ins.value = Lost
  <2>1. size # 0 /\ size = Cardinality(Occupied(slots, capacity))
    BY <1>3, <1>10 DEF IInv, Inserting, OneTable
  <2>2. PICK j \in Occupied(slots, capacity) : TRUE
    BY <2>1, FS_EmptySet
  <2>3. slots[j] \in Entries
    BY <1>5 DEF EntriesIn
  <2>4. slots[j].key \in DOMAIN DictOf(Entries)
    BY <2>3, KeyInDict
  <2>5. slots[j].key \in DOMAIN Contents
    BY <2>4, ContentsOfEntries
  <2>6. Promise!InsertElement(k, slots[j].key)
    BY <1>3, <1>8, <1>10 DEF Promise!InsertElement, Promise!Insert
  <2> QED
    BY <1>1, <2>5, <2>6 DEF Promise!Next
<1> QED
  BY <1>1, <1>9, <1>10

LEMMA ReinsertKeeps ==
    ASSUME IInv, Reinsert PROVE Entries' = Entries
<1> DEFINE s == slots[next]
           n == fresh.capacity
           f == FindInsertSlot(fresh.slots, n, s.key)
<1>1. pc = "rehash" /\ next < capacity /\ IsOccupied(s)
  BY DEF Reinsert
<1>2. /\ next \in Occupied(slots, capacity) /\ s \in Slot /\ s.key \in Keys
      /\ f \in 0..n - 1 /\ f # n
  BY <1>1, RoomInFresh DEF IInv, TypeOK
<1>3. /\ n \in Nat /\ n > 0 /\ fresh.slots \in Tables(n) /\ Sound(fresh.slots, n)
      /\ capacity \in Nat /\ slots \in Tables(capacity) /\ Unique(slots, capacity)
  BY <1>1, CapacitiesAreNatural DEF IInv, TypeOK, TwoTables, Tables
<1>4. \A j \in Occupied(fresh.slots, n) : fresh.slots[j].key # s.key
  BY <1>1, <1>2 DEF IInv, TwoTables
<1>5. /\ capacity' = capacity /\ slots' = [slots EXCEPT ![next] = EmptySlot]
      /\ fresh'.slots = [fresh.slots EXCEPT ![f] = s] /\ fresh'.capacity = n
  BY DEF Reinsert, IInv, TypeOK, NoTable
<1> HIDE DEF s, n, f
<1>6. /\ slots' \in Tables(capacity) /\ slots'[next] = EmptySlot
      /\ \A i \in 0..capacity - 1 : i # next => slots'[i] = slots[i]
  BY <1>2, <1>3, <1>5, NewSlots DEF Occupied, Tables
<1>7. /\ fresh'.slots \in Tables(n) /\ fresh'.slots[f] = s
      /\ \A i \in 0..n - 1 : i # f => fresh'.slots[i] = fresh.slots[i]
  BY <1>2, <1>3, <1>5 DEF Tables
<1>8. EntriesIn(slots', capacity) = {e \in EntriesIn(slots, capacity) : e.key # s.key}
  <2>1. ~IsOccupied(slots'[next])
    BY <1>6, NewSlots, SlotKinds
  <2>2. next \in 0..capacity - 1 /\ slots[next].key = s.key /\ IsOccupied(slots[next])
    BY <1>2 DEF Occupied, s
  <2>3. EntriesIn(slots', capacity) = {e \in EntriesIn(slots, capacity) : e.key # s.key}
                                      \cup (IF IsOccupied(slots'[next]) THEN {slots'[next]} ELSE {})
    BY <1>3, <1>6, <2>2, EntriesWith
  <2> QED
    BY <2>1, <2>3
<1>9. EntriesIn(fresh'.slots, n) = {e \in EntriesIn(fresh.slots, n) : e.key # s.key} \cup {s}
  <2>1. Unique(fresh.slots, n)
    BY <1>3 DEF Sound
  <2>2. ~IsOccupied(fresh.slots[f])
    <3>1. IsOccupied(fresh.slots[f]) => fresh.slots[f].key = s.key
      BY <1>2, <1>3, InsertSlot DEF f
    <3> QED
      BY <1>2, <1>4, <3>1 DEF Occupied
  <2>3. EntriesIn(fresh'.slots, n) = {e \in EntriesIn(fresh.slots, n) : e.key # s.key}
                                     \cup (IF IsOccupied(fresh'.slots[f]) THEN {fresh'.slots[f]} ELSE {})
    <3> DEFINE T == fresh.slots
               U == fresh'.slots
               k == s.key
    <3>1. /\ n \in Nat /\ T \in Tables(n) /\ U \in Tables(n) /\ f \in 0..n - 1
          /\ \A j \in 0..n - 1 : j # f => U[j] = T[j]
      BY <1>2, <1>3, <1>7
    <3>2. Unique(T, n) /\ ~IsOccupied(T[f]) /\ \A j \in Occupied(T, n) : T[j].key # k
      BY <1>4, <2>1, <2>2
    <3> HIDE DEF T, U, k
    <3>3. EntriesIn(U, n) = {e \in EntriesIn(T, n) : e.key # k}
                            \cup (IF IsOccupied(U[f]) THEN {U[f]} ELSE {})
      BY <3>1, <3>2, EntriesWith
    <3> QED
      BY <3>3 DEF T, U, k
  <2> QED
    BY <1>1, <1>7, <2>3
<1>10. {e \in EntriesIn(fresh.slots, n) : e.key # s.key} = EntriesIn(fresh.slots, n)
  BY <1>4 DEF EntriesIn
<1>11. \A e \in EntriesIn(slots, capacity) : e.key = s.key => e = s
  BY <1>2, <1>3 DEF EntriesIn, Unique, s
<1>12. s \in EntriesIn(slots, capacity)
  BY <1>2 DEF EntriesIn, s
<1>13. Entries = EntriesIn(slots, capacity) \cup EntriesIn(fresh.slots, n)
  BY DEF Entries, n
<1>14. Entries' = EntriesIn(slots', capacity) \cup EntriesIn(fresh'.slots, n)
  BY <1>5 DEF Entries
<1> QED
  BY <1>8, <1>9, <1>10, <1>11, <1>12, <1>13, <1>14

LEMMA QuietStepsKeep ==
    ASSUME IInv,
           \/ \E k \in Keys, v \in Values \cup {Lost} : BeginInsert(k, v) \/ BeginRehash(k, v)
           \/ Reinsert \/ SkipUnoccupied \/ FinishRehash \/ Begin \/ Visit
    PROVE  UNCHANGED Promise!vars
<1>1. ASSUME NEW k \in Keys, NEW v \in Values \cup {Lost}, BeginInsert(k, v)
      PROVE  Entries' = Entries /\ res' = res
  BY <1>1 DEF BeginInsert, Entries
<1>2. ASSUME NEW k \in Keys, NEW v \in Values \cup {Lost}, BeginRehash(k, v)
      PROVE  Entries' = Entries /\ res' = res
  <2> DEFINE n == NormalizeCapacity(capacity * 2)
  <2>1. capacity * 2 \in Nat /\ pc = "ready"
    BY <1>2, CapacitiesAreNatural DEF IInv, TypeOK, BeginRehash
  <2>2. n \in Nat
    BY <2>1, Normalized
  <2>3. fresh'.slots = EmptyTable(n) /\ fresh'.capacity = n /\ UNCHANGED <<slots, capacity, res>>
    BY <1>2 DEF BeginRehash
  <2> HIDE DEF n
  <2>4. EntriesIn(fresh'.slots, fresh'.capacity) = {}
    BY <2>2, <2>3, NewTableHasNone
  <2>5. EntriesIn(fresh.slots, fresh.capacity) = {}
    BY <2>1, EntriesOfTable
  <2> QED
    BY <2>3, <2>4, <2>5 DEF Entries
<1>3. ASSUME Reinsert PROVE Entries' = Entries /\ res' = res
  BY <1>3, ReinsertKeeps DEF Reinsert
<1>4. ASSUME SkipUnoccupied \/ Begin \/ Visit PROVE Entries' = Entries /\ res' = res
  BY <1>4 DEF SkipUnoccupied, Begin, Visit, Entries
<1>5. ASSUME FinishRehash PROVE Entries' = Entries /\ res' = res
  <2>1. /\ slots' = fresh.slots /\ capacity' = fresh.capacity /\ res' = res
        /\ fresh'.slots = EmptyTable(0) /\ fresh'.capacity = 0
    BY <1>5 DEF FinishRehash, NoTable
  <2>2. EntriesIn(fresh'.slots, fresh'.capacity) = {}
    BY <2>1, NewTableHasNone
  <2>3. EntriesIn(slots, capacity) = {}
    BY <1>5 DEF FinishRehash, IInv, TwoTables, EntriesIn, Occupied
  <2> QED
    BY <2>1, <2>2, <2>3 DEF Entries
<1>6. Entries' = Entries /\ res' = res
  BY <1>1, <1>2, <1>3, <1>4, <1>5
<1> QED
  BY <1>6, ContentsNext, ContentsOfEntries DEF Promise!vars

\* The calls that answer at once.
LEMMA FindFinds ==
    ASSUME IInv, NEW k \in Keys, Find(k) PROVE Promise!Find(k)
<1> DEFINE i == FindOccupiedSlot(slots, capacity, k)
<1>1. /\ pc = "ready" /\ UNCHANGED <<slots, capacity, fresh>>
      /\ res' = IF i < capacity THEN slots[i].value ELSE None
  BY DEF Find
<1>2. /\ capacity \in Nat
      /\ \/ i \in Occupied(slots, capacity) /\ slots[i].key = k /\ i < capacity
         \/ i = capacity /\ \A j \in Occupied(slots, capacity) : slots[j].key # k
  BY <1>1, FindInTable
<1> HIDE DEF i
<1>3. Entries' = Entries /\ Entries = EntriesIn(slots, capacity)
  BY <1>1, EntriesOfTable DEF Entries
<1>4. CASE i < capacity
  <2>1. slots[i] \in Entries /\ slots[i].key = k
    BY <1>2, <1>3, <1>4 DEF EntriesIn
  <2>2. OneEach(Entries)
    BY OneEntryEach
  <2>3. slots[i].key \in DOMAIN DictOf(Entries) /\ DictOf(Entries)[slots[i].key] = slots[i].value
    BY <2>1, <2>2, EntryInDict
  <2> QED
    BY <1>1, <1>3, <1>4, <2>1, <2>3, ContentsNext, ContentsOfEntries DEF Promise!Find
<1>5. CASE ~(i < capacity)
  <2>1. ~ \E e \in Entries : e.key = k
    BY <1>2, <1>3, <1>5 DEF EntriesIn
  <2>2. k \notin DOMAIN DictOf(Entries)
    BY <2>1, KeyInDict
  <2> QED
    BY <1>1, <1>3, <1>5, <2>2, ContentsNext, ContentsOfEntries DEF Promise!Find
<1> QED
  BY <1>4, <1>5

LEMMA RemoveRemoves ==
    ASSUME IInv, NEW k \in Keys, Remove(k) \/ RemoveMissing(k) PROVE Promise!Remove(k)
<1> DEFINE i == FindOccupiedSlot(slots, capacity, k)
<1>1. pc = "ready" /\ UNCHANGED <<capacity, fresh>>
  BY DEF Remove, RemoveMissing
<1>2. /\ capacity \in Nat /\ slots \in Tables(capacity) /\ Sound(slots, capacity)
      /\ \/ i \in Occupied(slots, capacity) /\ slots[i].key = k /\ i < capacity
         \/ i = capacity /\ \A j \in Occupied(slots, capacity) : slots[j].key # k
  BY <1>1, FindInTable
<1>3. /\ Entries = EntriesIn(slots, capacity)
      /\ Entries' = EntriesIn(slots', capacity)
  BY <1>1, EntriesOfTable DEF Entries
<1>4. CASE Remove(k)
  <2>1. i < capacity /\ slots' = [slots EXCEPT ![i] = Tombstone] /\ res' = "ok"
    BY <1>4 DEF Remove
  <2> HIDE DEF i
  <2>2. i \in Occupied(slots, capacity) /\ slots[i].key = k
    BY <1>2, <2>1
  <2>3. /\ i \in 0..capacity - 1 /\ slots' \in Tables(capacity) /\ slots'[i] = Tombstone
        /\ \A j \in 0..capacity - 1 : j # i => slots'[j] = slots[j]
    BY <1>2, <2>1, <2>2, NewSlots DEF Occupied, Tables
  <2>4. EntriesIn(slots', capacity) = {e \in EntriesIn(slots, capacity) : e.key # k}
    <3>1. ~IsOccupied(slots'[i]) /\ IsOccupied(slots[i]) /\ Unique(slots, capacity)
      BY <1>2, <2>2, <2>3, NewSlots, SlotKinds DEF Occupied, Sound
    <3>2. EntriesIn(slots', capacity) = {e \in EntriesIn(slots, capacity) : e.key # k}
                                        \cup (IF IsOccupied(slots'[i]) THEN {slots'[i]} ELSE {})
      BY <1>2, <2>2, <2>3, <3>1, EntriesWith
    <3> QED
      BY <3>1, <3>2
  <2>5. OneEach(Entries)
    BY OneEntryEach
  <2>6. DictOf({e \in Entries : e.key # k}) = Promise!Without(DictOf(Entries), k)
    BY <2>5, DictWithout
  <2>7. Contents' = Promise!Without(Contents, k)
    BY <1>3, <2>4, <2>6, ContentsNext, ContentsOfEntries
  <2>8. slots[i] \in Entries
    BY <1>3, <2>2 DEF EntriesIn
  <2>9. k \in DOMAIN DictOf(Entries)
    BY <2>2, <2>8, KeyInDict
  <2> QED
    BY <2>1, <2>7, <2>9, ContentsOfEntries DEF Promise!Remove
<1>5. CASE RemoveMissing(k)
  <2>1. i >= capacity /\ slots' = slots /\ res' = "notFound"
    BY <1>5 DEF RemoveMissing
  <2> HIDE DEF i
  <2>2. ~(i < capacity)
    BY <1>2, <2>1 DEF Occupied
  <2>3. ~ \E e \in Entries : e.key = k
    BY <1>2, <1>3, <2>2 DEF EntriesIn
  <2>4. k \notin DOMAIN DictOf(Entries)
    BY <2>3, KeyInDict
  <2>5. Entries' = Entries
    BY <1>3, <2>1
  <2> QED
    BY <2>1, <2>4, <2>5, ContentsNext, ContentsOfEntries DEF Promise!Remove
<1> QED
  BY <1>4, <1>5

LEMMA ReplacingClears ==
    ASSUME IInv, (\E c \in Capacities : Reassign(c)) \/ MoveAway \/ Clear
    PROVE  Promise!Clear
<1>1. /\ pc = "ready" /\ fresh' = fresh /\ res' = "ok"
      /\ slots' = EmptyTable(capacity') /\ capacity' \in Nat
  BY Normalized, CapacitiesAreNatural DEF Reassign, MoveAway, Clear, IInv, TypeOK
<1>2. EntriesIn(slots', capacity') = {}
  BY <1>1, NewTableHasNone
<1>3. Entries' = {}
  BY <1>1, <1>2, EntriesOfTable DEF Entries
<1> QED
  BY <1>1, <1>3, NoEntries, ContentsNext DEF Promise!Clear

\* The map is a dictionary: every call returns and changes what the abstract one
\* does, whatever the collisions, tombstones and rehashes.
THEOREM MapIsDictionary == Spec => KeepsPromise
<1>1. Init => Promise!Init
  <2> SUFFICES ASSUME Init PROVE Promise!Init
    OBVIOUS
  <2>1. capacity \in Nat
    BY Normalized, CapacitiesAreNatural DEF Init
  <2>2. EntriesIn(slots, capacity) = {} /\ EntriesIn(fresh.slots, fresh.capacity) = {}
    BY <2>1, NewTableHasNone DEF Init, NoTable
  <2>3. Entries = {}
    BY <2>2 DEF Entries
  <2> QED
    BY <2>3, NoEntries, ContentsOfEntries DEF Init, Promise!Init
<1>2. IInv /\ [Next]_vars => [Promise!Next]_(Promise!vars)
  <2> SUFFICES ASSUME IInv, [Next]_vars PROVE Promise!Next \/ UNCHANGED Promise!vars
    OBVIOUS
  <2>1. ASSUME NEW k \in Keys, NEW v \in Values, BeginInsert(k, v) \/ BeginRehash(k, v)
        PROVE  UNCHANGED Promise!vars
    BY <2>1, QuietStepsKeep
  <2>2. ASSUME NEW k \in Keys, NEW i \in 0..MaxCapacity - 1, InsertElement(k, i)
        PROVE  UNCHANGED Promise!vars
    <3>1. slots[i].value \in Values \cup {Lost}
      BY <2>2, SlotKinds DEF InsertElement, Occupied, IInv, TypeOK
    <3>2. \E v \in Values \cup {Lost} : BeginInsert(k, v) \/ BeginRehash(k, v)
      BY <2>2, <3>1 DEF InsertElement
    <3> QED
      BY <3>2, QuietStepsKeep
  <2>3. ASSUME NEW k \in Keys, Find(k) PROVE Promise!Next
    BY <2>3, FindFinds DEF Promise!Next
  <2>4. ASSUME NEW k \in Keys, Remove(k) \/ RemoveMissing(k) PROVE Promise!Next
    BY <2>4, RemoveRemoves DEF Promise!Next
  <2>5. CASE RehashNoMemory
    <3>1. Entries' = Entries /\ res' = "noSpace"
      BY <2>5 DEF RehashNoMemory, Entries
    <3> QED
      BY <3>1, ContentsNext, ContentsOfEntries DEF Promise!Next, Promise!InsertFails
  <2>6. CASE Reinsert \/ SkipUnoccupied \/ FinishRehash \/ Begin \/ Visit
    BY <2>6, QuietStepsKeep
  <2>7. CASE Place
    BY <2>7, PlaceInserts
  <2>8. CASE Clear \/ MoveAway \/ (\E c \in Capacities : Reassign(c))
    BY <2>8, ReplacingClears DEF Promise!Next
  <2>9. CASE UNCHANGED vars
    <3>1. Entries' = Entries /\ res' = res
      BY <2>9 DEF vars, Entries
    <3> QED
      BY <3>1, ContentsNext, ContentsOfEntries DEF Promise!vars
  <2> QED
    BY <2>1, <2>2, <2>3, <2>4, <2>5, <2>6, <2>7, <2>8, <2>9 DEF Next
<1> QED
  BY <1>1, <1>2, Invariant, PTL DEF Spec, KeepsPromise, Promise!Spec
=============================================================================
