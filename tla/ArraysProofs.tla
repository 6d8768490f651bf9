---------------------------- MODULE ArraysProofs ----------------------------
(***************************************************************************)
(* Theorems about Arrays: elements are constructed and destroyed once,     *)
(* buffers have one owner, references stay valid and bytes are kept; for   *)
(* all objects, values, buffers and sizes.                                 *)
(***************************************************************************)
EXTENDS Arrays, FiniteSetTheorems, SequenceTheorems, TLAPS

-----------------------------------------------------------------------------
(* Sums over finite sets.                                                   *)

Less == {s \in Nat \X Nat : s[1] < s[2]}

\* A nonempty set of numbers has a least element.
LEMMA LeastNumber ==
    ASSUME NEW S \in SUBSET Nat, S # {}
    PROVE  \E m \in S : \A e \in S : m <= e
<1>1. OpToRel(<, Nat) = Less
  BY DEF OpToRel, Less
<1>2. IsWellFoundedOn(Less, Nat)
  BY <1>1, NatLessThanWellFounded
<1>3. PICK x \in S : \A y \in S : <<y, x>> \notin Less
  BY <1>2, WFMin
<1>4. ASSUME NEW y \in S PROVE x <= y
  <2>1. <<y, x>> \in Nat \X Nat
    OBVIOUS
  <2>2. ~(y < x)
    BY <1>3, <2>1 DEF Less
  <2> QED
    BY <2>2
<1> QED
  BY <1>4

\* A nonempty family of subsets of a finite set has a smallest one: no set of
\* the family has an element less than it.
LEMMA SmallestSet ==
    ASSUME NEW S, IsFiniteSet(S), NEW F \in SUBSET SUBSET S, F # {}
    PROVE  \E s \in F : \A x \in s : s \ {x} \notin F
<1> DEFINE N == {Cardinality(s) : s \in F}
<1>1. \A s \in SUBSET S : IsFiniteSet(s) /\ Cardinality(s) \in Nat
  BY FS_Subset, FS_CardinalityType
<1>2. N \in SUBSET Nat /\ N # {}
  BY <1>1
<1>3. PICK m \in N : \A e \in N : m <= e
  BY <1>2, LeastNumber
<1>4. PICK s \in F : m = Cardinality(s)
  BY <1>3
<1>5. ASSUME NEW x \in s, s \ {x} \in F PROVE FALSE
  <2>1. IsFiniteSet(s) /\ Cardinality(s) \in Nat
    BY <1>1
  <2>2. Cardinality(s \ {x}) = Cardinality(s) - 1
    BY <1>5, <2>1, FS_RemoveElement
  <2>3. Cardinality(s) <= Cardinality(s \ {x})
    BY <1>3, <1>4, <1>5
  <2> QED
    BY <2>1, <2>2, <2>3
<1> QED
  BY <1>5

\* g sums f over the sets of D, which have with a set the rest of it.
First(s) == CHOOSE x \in s : TRUE
Sums(g, f, D) ==
    g = [s \in D |-> IF s = {} THEN 0 ELSE f[First(s)] + g[s \ {First(s)}]]
Upto(S, n) == {s \in SUBSET S : Cardinality(s) <= n}

\* What CHOOSE takes from a set is in it.
LEMMA FirstIsElement ==
    ASSUME NEW s, s # {}
    PROVE  First(s) \in s
BY DEF First

\* Sums of sets of n elements give those of sets of n + 1.
LEMMA SumsStep ==
    ASSUME NEW S, IsFiniteSet(S), NEW f, NEW n \in Nat, NEW g, Sums(g, f, Upto(S, n))
    PROVE  \E h : Sums(h, f, Upto(S, n + 1))
<1> DEFINE h == [s \in Upto(S, n + 1) |->
                    IF s = {} THEN 0 ELSE f[First(s)] + g[s \ {First(s)}]]
<1>1. ASSUME NEW s \in Upto(S, n + 1), s # {}
      PROVE  s \ {First(s)} \in Upto(S, n) /\ s \ {First(s)} \in Upto(S, n + 1)
  <2> DEFINE r == s \ {First(s)}
  <2>1. s \in SUBSET S /\ Cardinality(s) <= n + 1
    BY DEF Upto
  <2>2. IsFiniteSet(s) /\ Cardinality(s) \in Nat
    BY <2>1, FS_Subset, FS_CardinalityType
  <2>3. Cardinality(r) = Cardinality(s) - 1
    BY <1>1, <2>2, FirstIsElement, FS_RemoveElement
  <2>4. r \in SUBSET S
    BY <2>1
  <2> HIDE DEF r
  <2>5. Cardinality(r) <= n /\ Cardinality(r) <= n + 1
    BY <2>1, <2>2, <2>3
  <2>6. r \in Upto(S, n) /\ r \in Upto(S, n + 1)
    BY <2>4, <2>5 DEF Upto
  <2> QED
    BY <2>6 DEF r
<1>2. ASSUME NEW s \in Upto(S, n)
      PROVE  s \in Upto(S, n + 1) /\ g[s] = h[s]
  <2>1. s \in SUBSET S /\ Cardinality(s) <= n
    BY DEF Upto
  <2>2. Cardinality(s) \in Nat
    BY <2>1, FS_Subset, FS_CardinalityType
  <2>3. Cardinality(s) <= n + 1
    BY <2>1, <2>2
  <2>4. s \in Upto(S, n + 1)
    BY <2>1, <2>3 DEF Upto
  <2>5. g[s] = IF s = {} THEN 0 ELSE f[First(s)] + g[s \ {First(s)}]
    BY DEF Sums
  <2> QED
    BY <2>4, <2>5
<1>3. ASSUME NEW s \in Upto(S, n + 1)
      PROVE  h[s] = IF s = {} THEN 0 ELSE f[First(s)] + h[s \ {First(s)}]
  BY <1>1, <1>2
<1>4. h = [s \in Upto(S, n + 1) |-> h[s]]
  OBVIOUS
<1> HIDE DEF h
<1>5. Sums(h, f, Upto(S, n + 1))
  BY <1>3, <1>4 DEF Sums
<1> QED
  BY <1>5

\* Sums of all subsets of a finite set exist.
LEMMA SumsExist ==
    ASSUME NEW S, IsFiniteSet(S), NEW f
    PROVE  \E g : Sums(g, f, SUBSET S)
<1> DEFINE Bad == {n \in Nat : ~ \E g : Sums(g, f, Upto(S, n))}
<1>1. Bad = {}
  <2>1. SUFFICES ASSUME Bad # {} PROVE FALSE
    OBVIOUS
  <2>2. PICK n \in Bad : \A e \in Bad : n <= e
    BY <2>1, LeastNumber
  <2>3. n # 0
    <3> DEFINE g == [s \in Upto(S, 0) |-> 0]
    <3>1. \A s \in Upto(S, 0) : s = {}
      <4> SUFFICES ASSUME NEW s \in Upto(S, 0) PROVE s = {}
        OBVIOUS
      <4>1. s \in SUBSET S /\ Cardinality(s) <= 0
        BY DEF Upto
      <4>2. IsFiniteSet(s) /\ Cardinality(s) \in Nat
        BY <4>1, FS_Subset, FS_CardinalityType
      <4>3. Cardinality(s) = 0
        BY <4>1, <4>2
      <4> QED
        BY <4>2, <4>3, FS_EmptySet
    <3>2. Sums(g, f, Upto(S, 0))
      BY <3>1 DEF Sums
    <3> QED
      BY <3>2
  <2>4. n - 1 \in Nat /\ n - 1 \notin Bad
    BY <2>2, <2>3
  <2>5. PICK g : Sums(g, f, Upto(S, n - 1))
    BY <2>4
  <2>6. \E h : Sums(h, f, Upto(S, (n - 1) + 1))
    BY <2>4, <2>5, SumsStep
  <2>7. (n - 1) + 1 = n
    BY <2>4
  <2> QED
    BY <2>6, <2>7
<1> DEFINE n == Cardinality(S)
<1>2. n \in Nat
  BY FS_CardinalityType
<1>3. Upto(S, n) = SUBSET S
  BY FS_Subset DEF Upto
<1>4. \E g : Sums(g, f, Upto(S, n))
  <2> HIDE DEF n
  <2> QED
    BY <1>1, <1>2
<1> QED
  BY <1>3, <1>4

\* What SumFunction is.
LEMMA SumIsSums ==
    ASSUME NEW f, IsFiniteSet(DOMAIN f)
    PROVE  \E g : Sums(g, f, SUBSET (DOMAIN f)) /\ SumFunction(f) = g[DOMAIN f]
<1> DEFINE g == CHOOSE g : g = [s \in SUBSET (DOMAIN f) |->
                    IF s = {} THEN 0 ELSE f[First(s)] + g[s \ {First(s)}]]
<1>1. SumFunction(f) = g[DOMAIN f]
  BY DEF SumFunction, SumFunctionOnSet, FoldFunctionOnSet, MapThenFoldSet, First
<1>2. \E h : Sums(h, f, SUBSET (DOMAIN f))
  BY SumsExist
<1>3. Sums(g, f, SUBSET (DOMAIN f))
  BY <1>2 DEF Sums
<1> QED
  BY <1>1, <1>3

\* The sum of a set: nothing, or its first element and the sum of the others.
LEMMA SumOfSet ==
    ASSUME NEW S, NEW f, NEW g, Sums(g, f, SUBSET S), NEW s \in SUBSET S
    PROVE  /\ s = {} => g[s] = 0
           /\ s # {} => /\ First(s) \in s /\ s \ {First(s)} \in SUBSET S
                        /\ g[s] = f[First(s)] + g[s \ {First(s)}]
<1>1. g[s] = IF s = {} THEN 0 ELSE f[First(s)] + g[s \ {First(s)}]
  BY DEF Sums
<1>2. s # {} => First(s) \in s
  BY FirstIsElement
<1> QED
  BY <1>1, <1>2

\* Sums of integers are integers.
LEMMA SumIsInt ==
    ASSUME NEW S, IsFiniteSet(S), NEW f, \A x \in S : f[x] \in Int,
           NEW g, Sums(g, f, SUBSET S)
    PROVE  \A s \in SUBSET S : g[s] \in Int
<1> DEFINE Bad == {s \in SUBSET S : g[s] \notin Int}
<1>1. SUFFICES ASSUME Bad # {} PROVE FALSE
  OBVIOUS
<1>2. PICK s \in Bad : \A x \in s : s \ {x} \notin Bad
  BY <1>1, SmallestSet
<1>3. s # {}
  <2>1. s \in SUBSET S /\ g[s] \notin Int
    BY <1>2
  <2>2. s = {} => g[s] = 0
    BY <2>1, SumOfSet
  <2> QED
    BY <2>1, <2>2
<1>4. First(s) \in s /\ s \ {First(s)} \in SUBSET S /\ g[s] = f[First(s)] + g[s \ {First(s)}]
  BY <1>3, SumOfSet
<1>5. g[s \ {First(s)}] \in Int /\ f[First(s)] \in Int
  BY <1>2, <1>4
<1> QED
  BY <1>4, <1>5

\* The order does not matter: any element may come first.
AnyFirst(g, f, S) == \A s \in SUBSET S : \A y \in s : g[s] = f[y] + g[s \ {y}]

\* So any element of a set may be taken first.
LEMMA SumOfAny ==
    ASSUME NEW S, IsFiniteSet(S), NEW f, \A x \in S : f[x] \in Int,
           NEW g, Sums(g, f, SUBSET S)
    PROVE  AnyFirst(g, f, S)
<1> USE DEF AnyFirst
<1> DEFINE Bad == {s \in SUBSET S : \E y \in s : g[s] # f[y] + g[s \ {y}]}
<1>1. SUFFICES ASSUME Bad # {} PROVE FALSE
  OBVIOUS
<1>2. PICK s \in Bad : \A x \in s : s \ {x} \notin Bad
  BY <1>1, SmallestSet
<1>3. PICK y \in s : g[s] # f[y] + g[s \ {y}]
  OBVIOUS
<1> DEFINE x == First(s)
<1>4. x \in s /\ s \ {x} \in SUBSET S /\ g[s] = f[x] + g[s \ {x}]
  <2>1. s \in SUBSET S /\ s # {}
    BY <1>3
  <2> QED
    BY <2>1, SumOfSet
<1>5. x # y
  BY <1>3, <1>4
<1> HIDE DEF x
<1>6. y \in s \ {x} /\ x \in s \ {y} /\ s \ {y} \in SUBSET S
  BY <1>4, <1>5
<1>7. g[s \ {x}] = f[y] + g[(s \ {x}) \ {y}]
  BY <1>2, <1>4, <1>6
<1>8. g[s \ {y}] = f[x] + g[(s \ {y}) \ {x}]
  BY <1>2, <1>6
<1>9. (s \ {x}) \ {y} = (s \ {y}) \ {x} /\ (s \ {y}) \ {x} \in SUBSET S
  OBVIOUS
<1> DEFINE both == g[(s \ {y}) \ {x}]
<1>10. f[x] \in Int /\ f[y] \in Int /\ both \in Int
  BY <1>4, <1>9, SumIsInt
<1>11. g[s \ {x}] = f[y] + both /\ g[s \ {y}] = f[x] + both
  BY <1>7, <1>8, <1>9
<1> HIDE DEF both
<1>12. g[s] = f[x] + (f[y] + both) /\ g[s] # f[y] + (f[x] + both)
  BY <1>3, <1>4, <1>11
<1> QED
  BY <1>10, <1>12

\* Functions that agree on a set have the same sum over it.
LEMMA SumsAgree ==
    ASSUME NEW S, IsFiniteSet(S), NEW f, NEW g, Sums(g, f, SUBSET S),
           NEW e, NEW h, Sums(h, e, SUBSET S), NEW r \in SUBSET S, \A x \in r : f[x] = e[x]
    PROVE  g[r] = h[r]
<1> DEFINE Bad == {s \in SUBSET r : g[s] # h[s]}
<1>1. SUFFICES ASSUME Bad # {} PROVE FALSE
  OBVIOUS
<1>2. IsFiniteSet(r) /\ Bad \in SUBSET SUBSET r
  BY FS_Subset
<1>3. PICK s \in Bad : \A x \in s : s \ {x} \notin Bad
  BY <1>1, <1>2, SmallestSet
<1>4. s \in SUBSET S /\ g[s] # h[s]
  OBVIOUS
<1>5. s # {}
  <2>1. s = {} => g[s] = 0
    BY <1>4, SumOfSet
  <2>2. s = {} => h[s] = 0
    BY <1>4, SumOfSet
  <2> QED
    BY <1>4, <2>1, <2>2
<1>6. /\ First(s) \in s /\ g[s] = f[First(s)] + g[s \ {First(s)}]
      /\ h[s] = e[First(s)] + h[s \ {First(s)}]
  BY <1>4, <1>5, SumOfSet
<1>7. f[First(s)] = e[First(s)] /\ g[s \ {First(s)}] = h[s \ {First(s)}]
  BY <1>3, <1>6
<1> QED
  BY <1>6, <1>7

\* Zeros sum to zero.
LEMMA SumIsZero ==
    ASSUME NEW S, IsFiniteSet(S), NEW f, \A x \in S : f[x] = 0,
           NEW g, Sums(g, f, SUBSET S)
    PROVE  \A s \in SUBSET S : g[s] = 0
<1> DEFINE Bad == {s \in SUBSET S : g[s] # 0}
<1>1. SUFFICES ASSUME Bad # {} PROVE FALSE
  OBVIOUS
<1>2. PICK s \in Bad : \A x \in s : s \ {x} \notin Bad
  BY <1>1, SmallestSet
<1>3. s # {}
  <2>1. s \in SUBSET S /\ g[s] # 0
    BY <1>2
  <2>2. s = {} => g[s] = 0
    BY <2>1, SumOfSet
  <2> QED
    BY <2>1, <2>2
<1>4. First(s) \in s /\ s \ {First(s)} \in SUBSET S /\ g[s] = f[First(s)] + g[s \ {First(s)}]
  BY <1>3, SumOfSet
<1>5. g[s \ {First(s)}] = 0 /\ f[First(s)] = 0
  BY <1>2, <1>4
<1> QED
  BY <1>2, <1>4, <1>5

\* So does the library's operator.
LEMMA SumOfZeros ==
    ASSUME NEW S, IsFiniteSet(S)
    PROVE  SumFunction([x \in S |-> 0]) = 0
<1> DEFINE f == [x \in S |-> 0]
<1>1. DOMAIN f = S /\ \A x \in S : f[x] = 0
  OBVIOUS
<1> HIDE DEF f
<1>2. PICK g : Sums(g, f, SUBSET S) /\ SumFunction(f) = g[S]
  BY <1>1, SumIsSums
<1>3. g[S] = 0
  <2>1. (\A x \in S : f[x] = 0) /\ Sums(g, f, SUBSET S) /\ S \in SUBSET S
    BY <1>1, <1>2
  <2> QED
    BY <2>1, SumIsZero
<1> QED
  BY <1>2, <1>3 DEF f

\* One value changes: so does the sum.
LEMMA SumChanges ==
    ASSUME NEW S, IsFiniteSet(S), NEW f \in [S -> Int], NEW e \in [S -> Int], NEW y \in S,
           \A x \in S \ {y} : e[x] = f[x]
    PROVE  /\ SumFunction(f) \in Int
           /\ SumFunction(e) = SumFunction(f) + e[y] - f[y]
<1>1. /\ DOMAIN f = S /\ DOMAIN e = S
      /\ \A x \in S : f[x] \in Int
      /\ \A x \in S : e[x] \in Int
  OBVIOUS
<1>2. PICK g : Sums(g, f, SUBSET S) /\ SumFunction(f) = g[S]
  BY <1>1, SumIsSums
<1>3. PICK h : Sums(h, e, SUBSET S) /\ SumFunction(e) = h[S]
  BY <1>1, SumIsSums
<1>4. S \in SUBSET S /\ S \ {y} \in SUBSET S
  OBVIOUS
<1>5. g[S] = f[y] + g[S \ {y}] /\ h[S] = e[y] + h[S \ {y}]
  <2>1. AnyFirst(g, f, S)
    <3>1. Sums(g, f, SUBSET S) /\ \A x \in S : f[x] \in Int
      BY <1>1, <1>2
    <3> QED
      BY <3>1, SumOfAny
  <2>2. AnyFirst(h, e, S)
    <3>1. Sums(h, e, SUBSET S) /\ \A x \in S : e[x] \in Int
      BY <1>1, <1>3
    <3> QED
      BY <3>1, SumOfAny
  <2> QED
    BY <1>4, <2>1, <2>2 DEF AnyFirst
<1>6. h[S \ {y}] = g[S \ {y}]
  BY <1>2, <1>3, <1>4, SumsAgree
<1>7. g[S] \in Int /\ g[S \ {y}] \in Int
  BY <1>1, <1>2, <1>4, SumIsInt
<1> QED
  BY <1>1, <1>2, <1>3, <1>5, <1>6, <1>7

-----------------------------------------------------------------------------
(* The invariant.                                                           *)

Cell == Values \cup {Lost, Raw}
Records == [made : BOOLEAN, buffer : Buffers \cup {NoBuffer}, size : Nat, capacity : Nat]

Types == /\ heap \in [Buffers -> Seq(Cell)] /\ obj \in [Names -> Records]
         /\ alive \in Int /\ res \in {"ok", "noSpace", "underflow", "present", "panic"}

\* The cells that hold an object of n are the first size ones, unless n is an
\* Optional with a husk.
Filled(n, size, cells) ==
    \A i \in 1..Len(cells) : \/ (cells[i] = Raw) <=> (i > size)
                             \/ n \in Optionals /\ cells = <<Lost>>

\* An object n that is o, and the cells of its buffer.
Good(n, o, cells) ==
    /\ o \in Records /\ cells \in Seq(Cell) /\ o.size <= o.capacity
    /\ ~o.made => o = Absent
    /\ o.buffer # NoBuffer => cells # <<>> /\ Len(cells) = o.capacity
    /\ o.buffer = NoBuffer => cells = <<>> /\ (n \in Raws \/ o.capacity = 0)
    /\ n \in Containers => Filled(n, o.size, cells)
    /\ n \in Arrays => o.size = o.capacity /\ (o.buffer # NoBuffer => o.size = ArraySize)
    /\ n \in Raws => o.capacity <= SizeMax
    /\ n \in Optionals /\ o.made => o.buffer # NoBuffer /\ o.capacity = 1

Fits == \A n \in Names : Good(n, obj[n], Cells(n))

\* A buffer has one owner at most; one that is allocated has one.
Owns(n, b) == obj[n].buffer = b
Owners == \A b \in Buffers : /\ \A n, m \in Names : Owns(n, b) /\ Owns(m, b) => n = m
                             /\ heap[b] # <<>> => \E n \in Names : Owns(n, b)

\* The elements alive are those of the containers.
Sizes == [n \in Containers |-> Size(n)]
Counted == alive = SumFunction(Sizes)

IInv == Types /\ Fits /\ Owners /\ Counted

-----------------------------------------------------------------------------
(* The parts of a step.                                                     *)

\* An object is of one kind.
LEMMA KindsOfNames ==
    /\ \A n \in Names : n \in Raws <=> n \notin Containers
    /\ \A n \in Vectors : n \in Names /\ n \notin Sets /\ n \notin Arrays /\ n \notin Optionals
    /\ \A n \in Sets : n \in Names /\ n \notin Arrays /\ n \notin Optionals
    /\ \A n \in Arrays : n \in Names /\ n \notin Optionals
    /\ \A n \in Raws : n \in Names /\ n \notin Arrays /\ n \notin Optionals
    /\ \A n \in Optionals : n \in Names
BY KindsDisjoint DEF Names, Containers

\* What counts of an object of n of size k.
Weight(n, k) == IF n \in Raws THEN 0 ELSE k

\* One object changes its size.
LEMMA CountOne ==
    ASSUME Counted, obj \in [Names -> Records], obj' \in [Names -> Records],
           NEW n \in Names, \A k \in Names \ {n} : obj'[k].size = obj[k].size,
           alive' = alive + Weight(n, obj'[n].size) - Weight(n, obj[n].size)
    PROVE  Counted' /\ alive' \in Int
<1> DEFINE f == Sizes
           e == [k \in Containers |-> obj'[k].size]
<1>1. IsFiniteSet(Containers) /\ Containers \subseteq Names
  BY FinitelyMany DEF Containers, Names
<1>2. \A k \in Names : obj[k].size \in Nat /\ obj'[k].size \in Nat
  BY DEF Records
<1>3. f \in [Containers -> Int] /\ e \in [Containers -> Int]
  BY <1>1, <1>2 DEF Sizes, Size
<1>4. /\ \A k \in Containers : f[k] = obj[k].size /\ e[k] = obj'[k].size
      /\ e = Sizes'
  BY <1>1 DEF Sizes, Size
<1> HIDE DEF f, e
<1>5. alive = SumFunction(f)
  BY DEF Counted, f
<1>6. CASE n \in Raws
  <2>1. n \notin Containers
    BY <1>6, KindsOfNames
  <2>2. \A k \in Containers : e[k] = f[k]
    BY <1>1, <1>4, <2>1
  <2>3. e = f
    BY <1>3, <2>2
  <2>4. Weight(n, obj'[n].size) = 0 /\ Weight(n, obj[n].size) = 0
    BY <1>6 DEF Weight
  <2>5. SumFunction(f) \in Int
    <3>1. CASE Containers = {}
      <4>1. f = [k \in Containers |-> 0]
        BY <1>3, <3>1
      <4> QED
        BY <1>1, <4>1, SumOfZeros
    <3>2. CASE Containers # {}
      <4>1. PICK y \in Containers : TRUE
        BY <3>2
      <4> QED
        BY <1>1, <1>3, <4>1, SumChanges
    <3> QED
      BY <3>1, <3>2
  <2>6. alive' = alive
    BY <1>5, <2>4, <2>5
  <2> QED
    BY <1>4, <1>5, <2>3, <2>5, <2>6 DEF Counted
<1>7. CASE n \notin Raws
  <2>1. n \in Containers
    BY <1>7, KindsOfNames
  <2>2. \A k \in Containers \ {n} : e[k] = f[k]
    BY <1>1, <1>4
  <2>3. SumFunction(f) \in Int /\ SumFunction(e) = SumFunction(f) + e[n] - f[n]
    BY <1>1, <1>3, <2>1, <2>2, SumChanges
  <2>4. Weight(n, obj'[n].size) = e[n] /\ Weight(n, obj[n].size) = f[n]
    BY <1>4, <1>7, <2>1 DEF Weight
  <2>5. e[n] \in Int /\ f[n] \in Int
    BY <1>3, <2>1
  <2>6. alive' = SumFunction(e) /\ alive' \in Int
    BY <1>5, <2>3, <2>4, <2>5
  <2> QED
    BY <1>4, <2>6 DEF Counted
<1> QED
  BY <1>6, <1>7

\* Two objects of one kind change their sizes.
LEMMA CountTwo ==
    ASSUME Counted, obj \in [Names -> Records], obj' \in [Names -> Records],
           NEW n \in Containers, NEW m \in Containers, n # m,
           \A k \in Names \ {n, m} : obj'[k].size = obj[k].size,
           alive' = alive + obj'[n].size + obj'[m].size - obj[n].size - obj[m].size
    PROVE  Counted' /\ alive' \in Int
<1> DEFINE f == Sizes
           g == [k \in Containers |-> IF k = n THEN obj'[k].size ELSE obj[k].size]
           e == [k \in Containers |-> obj'[k].size]
<1>1. IsFiniteSet(Containers) /\ Containers \subseteq Names
  BY FinitelyMany DEF Containers, Names
<1>2. \A k \in Names : obj[k].size \in Nat /\ obj'[k].size \in Nat
  BY DEF Records
<1>3. f \in [Containers -> Int] /\ g \in [Containers -> Int] /\ e \in [Containers -> Int]
  BY <1>1, <1>2 DEF Sizes, Size
<1>4. /\ \A k \in Containers : /\ f[k] = obj[k].size /\ e[k] = obj'[k].size
                               /\ g[k] = IF k = n THEN obj'[k].size ELSE obj[k].size
      /\ e = Sizes'
  BY <1>1 DEF Sizes, Size
<1> HIDE DEF f, g, e
<1>5. alive = SumFunction(f)
  BY DEF Counted, f
<1>6. SumFunction(f) \in Int /\ SumFunction(g) = SumFunction(f) + g[n] - f[n]
  <2>1. \A k \in Containers \ {n} : g[k] = f[k]
    BY <1>4
  <2> QED
    BY <1>1, <1>3, <2>1, SumChanges
<1>7. SumFunction(e) = SumFunction(g) + e[m] - g[m]
  <2>1. \A k \in Containers \ {m} : e[k] = g[k]
    BY <1>1, <1>4
  <2> QED
    BY <1>1, <1>3, <2>1, SumChanges
<1>8. g[n] = obj'[n].size /\ f[n] = obj[n].size /\ e[m] = obj'[m].size /\ g[m] = obj[m].size
  BY <1>4
<1>9. /\ obj'[n].size \in Int /\ obj[n].size \in Int
      /\ obj'[m].size \in Int /\ obj[m].size \in Int
  BY <1>1, <1>2
<1>10. alive' = SumFunction(e) /\ alive' \in Int
  BY <1>5, <1>6, <1>7, <1>8, <1>9
<1> QED
  BY <1>4, <1>10 DEF Counted

-----------------------------------------------------------------------------
(* Buffers that are written or replaced.                                    *)

\* What cells may hold.
LEMMA RawIsCell == Raw \in Cell /\ Lost \in Cell /\ Default \in Cell /\ Values \subseteq Cell
BY DefaultIsValue DEF Cell

\* A sequence of one is not empty.
LEMMA OneIsSome ==
    ASSUME NEW s, Len(s) = 1
    PROVE  s # <<>>
<1>1. Len(<<>>) = 0
  OBVIOUS
<1> QED
  BY <1>1

\* Padding gives k cells, the first of which are s.
LEMMA PaddedCells ==
    ASSUME NEW s \in Seq(Cell), NEW k \in Nat
    PROVE  /\ Padded(s, k) \in Seq(Cell) /\ Len(Padded(s, k)) = k
           /\ \A i \in 1..k : Padded(s, k)[i] = IF i <= Len(s) THEN s[i] ELSE Raw
<1>1. \A i \in 1..k : i <= Len(s) => s[i] \in Cell
  BY ElementOfSeq, LenProperties
<1>2. Padded(s, k) \in [1..k -> Cell]
  BY <1>1, RawIsCell DEF Padded
<1> QED
  BY <1>2 DEF Padded

\* used objects of n in the cells s.
Room(n, s, used) ==
    /\ s \in Seq(Cell) /\ used \in Nat /\ used <= Len(s)
    /\ n \in Containers => Filled(n, used, s)
    /\ n \in Arrays => used = Len(s) /\ used = ArraySize
    /\ n \in Raws => Len(s) <= SizeMax
    /\ n \in Optionals => Len(s) = 1

\* The record of an object that has the buffer b.
Owner(b, used, k) == [made |-> TRUE, buffer |-> b, size |-> used, capacity |-> k]

\* Records with the same fields are the same.
LEMMA RecordsEqual ==
    ASSUME NEW o \in Records, NEW p \in Records, o.made = p.made, o.buffer = p.buffer,
           o.size = p.size, o.capacity = p.capacity
    PROVE  o = p
BY DEF Records

\* The record of an owner whose size changes.
LEMMA OwnerResized ==
    ASSUME NEW o \in Records, o.made = TRUE, NEW used \in Nat
    PROVE  [o EXCEPT !.size = used] = Owner(o.buffer, used, o.capacity)
<1> DEFINE p == [o EXCEPT !.size = used]
           q == Owner(o.buffer, used, o.capacity)
<1>1. /\ p \in Records /\ p.made = TRUE /\ p.buffer = o.buffer
      /\ p.size = used /\ p.capacity = o.capacity
  BY DEF Records
<1>2. /\ q \in Records /\ q.made = TRUE /\ q.buffer = o.buffer
      /\ q.size = used /\ q.capacity = o.capacity
  BY DEF Records, Owner
<1> HIDE DEF p, q
<1>3. p = q
  BY <1>1, <1>2, RecordsEqual
<1> QED
  BY <1>3 DEF p, q

\* An object that has room in its cells is well formed.
LEMMA RoomIsGood ==
    ASSUME NEW n \in Names, NEW s, NEW used, Room(n, s, used),
           NEW b \in Buffers \cup {NoBuffer}, s = <<>> <=> b = NoBuffer
    PROVE  /\ Good(n, Owner(b, used, Len(s)), s)
           /\ Owner(b, used, Len(s)) \in Records
<1> DEFINE o == Owner(b, used, Len(s))
<1>1. Len(s) \in Nat /\ s \in Seq(Cell) /\ used \in Nat
  BY LenProperties DEF Room
<1>2. o \in Records
  BY <1>1 DEF Owner, Records
<1>3. o.made = TRUE /\ o.buffer = b /\ o.size = used /\ o.capacity = Len(s)
  BY DEF Owner
<1>4. s = <<>> <=> Len(s) = 0
  BY <1>1, EmptySeq
<1>5. n \in Optionals => s # <<>>
  BY <1>4 DEF Room
<1> HIDE DEF o
<1>6. Good(n, o, s)
  BY <1>1, <1>2, <1>3, <1>4, <1>5, KindsOfNames DEF Good, Room
<1> QED
  BY <1>2, <1>6 DEF o

\* What is known of an object.
LEMMA Knows ==
    ASSUME Types, Fits, NEW n \in Names
    PROVE  /\ obj[n] \in Records /\ obj[n].size \in Nat /\ obj[n].capacity \in Nat
           /\ obj[n].made \in BOOLEAN /\ obj[n].buffer \in Buffers \cup {NoBuffer}
           /\ Cells(n) \in Seq(Cell) /\ obj[n].size <= obj[n].capacity
           /\ obj[n].buffer # NoBuffer =>
                /\ obj[n].buffer \in Buffers /\ Cells(n) = heap[obj[n].buffer]
                /\ Cells(n) # <<>> /\ Len(Cells(n)) = obj[n].capacity
                /\ obj[n].made
           /\ obj[n].buffer = NoBuffer =>
                /\ Cells(n) = <<>>
                /\ n \in Containers => obj[n].capacity = 0
           /\ n \in Containers => Filled(n, obj[n].size, Cells(n))
           /\ n \in Arrays => obj[n].size = obj[n].capacity
           /\ n \in Arrays /\ obj[n].buffer # NoBuffer => obj[n].size = ArraySize
           /\ n \in Raws => obj[n].capacity <= SizeMax
           /\ n \in Optionals /\ obj[n].made => obj[n].buffer # NoBuffer /\ obj[n].capacity = 1
           /\ ~obj[n].made => obj[n] = Absent
<1>1. Good(n, obj[n], Cells(n))
  BY DEF Fits
<1>2. obj[n] \in Records
  BY DEF Types
<1>3. Absent.buffer = NoBuffer
  BY DEF Absent
<1>4. /\ obj[n].size \in Nat /\ obj[n].capacity \in Nat
      /\ obj[n].made \in BOOLEAN /\ obj[n].buffer \in Buffers \cup {NoBuffer}
  BY <1>2 DEF Records
<1>5. obj[n].buffer # NoBuffer => Cells(n) = heap[obj[n].buffer]
  BY DEF Cells
<1> QED
  BY <1>1, <1>2, <1>3, <1>4, <1>5, KindsOfNames DEF Good

\* Others keep their cells when buffers that are not theirs are written.
LEMMA OthersKeep ==
    ASSUME Types, Fits, NEW k \in Names, obj'[k] = obj[k],
           obj[k].buffer # NoBuffer => heap'[obj[k].buffer] = heap[obj[k].buffer]
    PROVE  Cells(k)' = Cells(k) /\ Good(k, obj'[k], Cells(k)')
<1>1. Cells(k)' = Cells(k)
  BY DEF Cells
<1>2. Good(k, obj[k], Cells(k))
  BY DEF Fits
<1> QED
  BY <1>1, <1>2

\* Only n changes: it holds size objects in these cells then.
Turns(n, size, cells) ==
    /\ IInv' /\ Cells(n)' = cells /\ obj'[n].made /\ obj'[n].size = size
    /\ ~Hollow(n)' /\ (n \in Arrays => size = ArraySize)
    /\ \A k \in Names \ {n} : obj'[k] = obj[k] /\ Cells(k)' = Cells(k)

\* The cells of n are written: s is there then, and used of them hold objects.
Writes(n, s, used) ==
    /\ obj[n].buffer # NoBuffer /\ heap' = [heap EXCEPT ![obj[n].buffer] = s]
    /\ obj' = [obj EXCEPT ![n].size = used]

\* Writing the cells of one object keeps the invariant.
LEMMA WritesInv ==
    ASSUME IInv, NEW n \in Names, NEW s, NEW used, Room(n, s, used), Len(s) = Capacity(n),
           Writes(n, s, used), alive' = alive + Weight(n, used) - Weight(n, Size(n)),
           res' \in {"ok", "noSpace", "underflow", "present", "panic"}
    PROVE  Turns(n, used, s) /\ obj'[n].buffer = obj[n].buffer
<1> DEFINE b == obj[n].buffer
<1>1. /\ Types /\ Fits /\ Owners /\ Counted
  BY DEF IInv
<1>2. b \in Buffers /\ obj[n].made /\ Cells(n) = heap[b] /\ heap[b] # <<>>
  BY <1>1, Knows DEF Writes
<1>3. obj \in [Names -> Records] /\ heap \in [Buffers -> Seq(Cell)] /\ s \in Seq(Cell)
  BY <1>1 DEF Types, Room
<1>4. /\ obj' = [obj EXCEPT ![n].size = used]
      /\ heap' = [heap EXCEPT ![b] = s]
  BY DEF Writes
<1>5. obj'[n] = Owner(b, used, Len(s))
  <2>1. obj[n] \in Records /\ obj[n].made = TRUE /\ obj[n].capacity = Len(s)
    BY <1>2, <1>3 DEF Capacity
  <2>2. obj'[n] = [obj[n] EXCEPT !.size = used]
    BY <1>3, <1>4
  <2> HIDE DEF b
  <2>3. obj[n].buffer = b
    BY DEF b
  <2> QED
    BY <2>1, <2>2, <2>3 DEF Owner, Records
<1>6. \A k \in Names \ {n} : obj'[k] = obj[k]
  BY <1>3, <1>4
<1>7. heap'[b] = s /\ \A c \in Buffers \ {b} : heap'[c] = heap[c]
  BY <1>2, <1>3, <1>4
<1>8. heap' \in [Buffers -> Seq(Cell)]
  BY <1>2, <1>3, <1>4
<1>9. s # <<>> /\ b # NoBuffer
  <2>1. Len(heap[b]) = Len(s)
    BY <1>1, <1>2, Knows DEF Writes, Capacity
  <2>2. heap[b] \in Seq(Cell)
    BY <1>2, <1>3
  <2> QED
    BY <1>2, <1>3, <2>1, <2>2, EmptySeq DEF Writes
<1> HIDE DEF b
<1>10. Good(n, obj'[n], s) /\ obj'[n] \in Records
  BY <1>2, <1>5, <1>9, RoomIsGood
<1>11. obj' \in [Names -> Records]
  <2>1. DOMAIN obj' = Names /\ obj' = [k \in Names |-> obj'[k]]
    BY <1>3, <1>4
  <2>2. \A k \in Names : obj'[k] \in Records
    BY <1>3, <1>6, <1>10
  <2> QED
    BY <2>1, <2>2
<1>12. obj'[n].buffer = b /\ obj'[n].size = used
  BY <1>5 DEF Owner
<1>13. Cells(n)' = s
  BY <1>7, <1>9, <1>12 DEF Cells
<1>14. ASSUME NEW k \in Names, k # n
       PROVE  Cells(k)' = Cells(k) /\ Good(k, obj'[k], Cells(k)')
  <2>1. obj'[k] = obj[k] /\ obj[k].buffer # b
    BY <1>1, <1>2, <1>6, <1>14 DEF Owners, Owns, b
  <2>2. obj[k].buffer # NoBuffer => heap'[obj[k].buffer] = heap[obj[k].buffer]
    BY <1>1, <1>7, <2>1, Knows
  <2> QED
    BY <1>1, <2>1, <2>2, OthersKeep
<1>15. Fits'
  <2> SUFFICES ASSUME NEW k \in Names PROVE Good(k, obj'[k], Cells(k)')
    BY DEF Fits
  <2> QED
    BY <1>10, <1>13, <1>14
<1>16. Owners'
  <2>1. \A k \in Names, c \in Buffers : Owns(k, c)' <=> Owns(k, c)
    BY <1>6, <1>12 DEF Owns, b
  <2>2. \A c \in Buffers : heap'[c] # <<>> => heap[c] # <<>>
    BY <1>2, <1>7
  <2> QED
    BY <1>1, <2>1, <2>2 DEF Owners
<1>17. Counted' /\ alive' \in Int
  <2>1. \A k \in Names \ {n} : obj'[k].size = obj[k].size
    BY <1>6
  <2> QED
    BY <1>1, <1>3, <1>11, <1>12, <2>1, CountOne DEF Size
<1>18. obj'[n].made
  BY <1>5 DEF Owner
<1>19. ~Hollow(n)' /\ (n \in Arrays => used = ArraySize)
  BY <1>9, <1>12 DEF Hollow, Room
<1> QED
  BY <1>6, <1>8, <1>11, <1>12, <1>13, <1>15, <1>16, <1>17, <1>14, <1>18, <1>19
     DEF IInv, Types, Turns, b

\* n gets another buffer, or none if s is empty.
LEMMA ReplaceInv ==
    ASSUME IInv, NEW n \in Names, NEW s, NEW used, Room(n, s, used),
           Replace(n, s, used), alive' = alive + Weight(n, used) - Weight(n, Size(n)),
           res' \in {"ok", "noSpace", "underflow", "present", "panic"}
    PROVE  Turns(n, used, s) /\ obj'[n].capacity = Len(s)
<1> DEFINE a == obj[n].buffer
<1>1. /\ Types /\ Fits /\ Owners /\ Counted
  BY DEF IInv
<1>2. obj \in [Names -> Records] /\ heap \in [Buffers -> Seq(Cell)] /\ s \in Seq(Cell)
  BY <1>1 DEF Types, Room
<1>3. PICK b \in Buffers \cup {NoBuffer} :
          /\ s = <<>> <=> b = NoBuffer
          /\ b # NoBuffer => heap[b] = <<>>
          /\ obj' = [obj EXCEPT ![n] = Owner(b, used, Len(s))]
          /\ heap' = [c \in Buffers |-> IF c = b THEN s ELSE IF c = a THEN <<>> ELSE heap[c]]
  <2>1. CASE s = <<>> /\ heap' = Freed(n)
             /\ obj' = [obj EXCEPT ![n] = Owner(NoBuffer, used, Len(s))]
    <3>1. heap' = [c \in Buffers |-> IF c = NoBuffer THEN s ELSE IF c = a THEN <<>> ELSE heap[c]]
      BY <2>1, NullIsNoBuffer DEF Freed
    <3> QED
      BY <2>1, <3>1
  <2>2. ASSUME NEW b \in Buffers, s # <<>>, heap[b] = <<>>, heap' = [Freed(n) EXCEPT ![b] = s],
               obj' = [obj EXCEPT ![n] = Owner(b, used, Len(s))]
        PROVE  \E c \in Buffers \cup {NoBuffer} :
                  /\ s = <<>> <=> c = NoBuffer
                  /\ c # NoBuffer => heap[c] = <<>>
                  /\ obj' = [obj EXCEPT ![n] = Owner(c, used, Len(s))]
                  /\ heap' = [d \in Buffers |-> IF d = c THEN s ELSE IF d = a THEN <<>> ELSE heap[d]]
    <3>1. heap' = [d \in Buffers |-> IF d = b THEN s ELSE IF d = a THEN <<>> ELSE heap[d]]
      BY <2>2 DEF Freed
    <3>2. b \in Buffers \cup {NoBuffer} /\ (s = <<>> <=> b = NoBuffer)
      BY <2>2, NullIsNoBuffer
    <3>3. b # NoBuffer => heap[b] = <<>>
      BY <2>2
    <3> HIDE DEF a
    <3> WITNESS b \in Buffers \cup {NoBuffer}
    <3> QED
      BY <2>2, <3>1, <3>2, <3>3
  <2> HIDE DEF a
  <2> QED
    BY <2>1, <2>2 DEF Replace, Owner
<1>4. a \in Buffers \cup {NoBuffer} /\ (a # NoBuffer => heap[a] # <<>>)
  BY <1>1, Knows
<1>5. obj'[n] = Owner(b, used, Len(s)) /\ \A k \in Names \ {n} : obj'[k] = obj[k]
  BY <1>2, <1>3
<1>6. Good(n, obj'[n], s) /\ obj'[n] \in Records
  BY <1>3, <1>5, RoomIsGood
<1>7. \A c \in Buffers : heap'[c] = IF c = b THEN s ELSE IF c = a THEN <<>> ELSE heap[c]
  BY <1>3
<1>8. heap' \in [Buffers -> Seq(Cell)]
  <2>1. <<>> \in Seq(Cell)
    BY EmptySeq
  <2> HIDE DEF a
  <2> QED
    BY <1>2, <1>3, <2>1
<1>9. obj' \in [Names -> Records]
  <2>1. DOMAIN obj' = Names /\ obj' = [k \in Names |-> obj'[k]]
    BY <1>2, <1>3
  <2>2. \A k \in Names : obj'[k] \in Records
    BY <1>2, <1>5, <1>6
  <2> QED
    BY <2>1, <2>2
<1>10. obj'[n].made = TRUE /\ obj'[n].buffer = b /\ obj'[n].size = used /\ obj'[n].capacity = Len(s)
  BY <1>5 DEF Owner
<1>11. Cells(n)' = s
  BY <1>3, <1>7, <1>10 DEF Cells
<1>12. ASSUME NEW k \in Names, k # n
       PROVE  Cells(k)' = Cells(k) /\ Good(k, obj'[k], Cells(k)')
  <2> DEFINE c == obj[k].buffer
  <2>1. obj'[k] = obj[k]
    BY <1>5, <1>12
  <2>2. c # NoBuffer => c \in Buffers /\ heap[c] # <<>>
    BY <1>1, Knows
  <2>3. c # NoBuffer => c # a
    BY <1>1, <1>12, <2>2 DEF Owners, Owns
  <2>4. c # NoBuffer => c # b
    BY <1>3, <2>2
  <2>5. c # NoBuffer => heap'[c] = heap[c]
    BY <1>7, <2>2, <2>3, <2>4
  <2> QED
    BY <1>1, <2>1, <2>5, OthersKeep
<1>13. Fits'
  <2> SUFFICES ASSUME NEW k \in Names PROVE Good(k, obj'[k], Cells(k)')
    BY DEF Fits
  <2> QED
    BY <1>6, <1>11, <1>12
<1>14. Owners'
  <2> SUFFICES ASSUME NEW c \in Buffers
               PROVE  /\ \A k, m \in Names : obj'[k].buffer = c /\ obj'[m].buffer = c => k = m
                      /\ heap'[c] # <<>> => \E k \in Names : obj'[k].buffer = c
    BY DEF Owners, Owns
  <2>1. /\ \A k, m \in Names : obj[k].buffer = c /\ obj[m].buffer = c => k = m
        /\ heap[c] # <<>> => \E k \in Names : obj[k].buffer = c
    BY <1>1 DEF Owners, Owns
  <2>2. CASE c = b
    <3>1. \A k \in Names : obj[k].buffer # c
      <4> SUFFICES ASSUME NEW k \in Names, obj[k].buffer = c PROVE FALSE
        OBVIOUS
      <4>1. c # NoBuffer /\ heap[c] = <<>>
        BY <1>3, <2>2, NullIsNoBuffer
      <4> QED
        BY <1>1, <4>1, Knows
    <3>2. \A k \in Names : obj'[k].buffer = c => k = n
      BY <1>5, <3>1
    <3> QED
      BY <1>10, <2>2, <3>2
  <2>3. CASE c # b
    <3>1. \A k \in Names : obj'[k].buffer = c => k # n /\ obj[k].buffer = c
      BY <1>5, <1>10, <2>3
    <3>2. heap'[c] # <<>> => c # a /\ heap[c] # <<>>
      BY <1>7, <2>3
    <3>3. \A k \in Names : obj[k].buffer = c /\ c # a => obj'[k].buffer = c
      BY <1>5
    <3> QED
      BY <2>1, <3>1, <3>2, <3>3
  <2> QED
    BY <2>2, <2>3
<1>15. Counted' /\ alive' \in Int
  <2>1. \A k \in Names \ {n} : obj'[k].size = obj[k].size
    BY <1>5
  <2> QED
    BY <1>1, <1>2, <1>9, <1>10, <2>1, CountOne DEF Size
<1>16. ~Hollow(n)' /\ (n \in Arrays => used = ArraySize)
  <2>1. n \in Arrays => used = ArraySize /\ Len(s) = ArraySize /\ ArraySize > 0
    BY SizesAreNatural DEF Room
  <2>2. s = <<>> => Len(s) = 0
    BY <1>2, EmptySeq
  <2>3. n \in Arrays => b # NoBuffer
    BY <1>3, <2>1, <2>2
  <2>4. b = NoBuffer => obj'[n].capacity = 0
    BY <1>3, <1>10, <2>2
  <2>5. obj'[n].buffer = NoBuffer => n \notin Arrays /\ ~(obj'[n].capacity > 0)
    BY <1>10, <2>3, <2>4
  <2> QED
    BY <2>1, <2>5 DEF Hollow, Capacity
<1> QED
  BY <1>5, <1>8, <1>9, <1>10, <1>11, <1>12, <1>13, <1>14, <1>15, <1>16 DEF IInv, Types, Turns

\* n goes, and its buffer.
LEMMA DestroyInv ==
    ASSUME IInv, NEW n \in Names, Destroy(n)
    PROVE  /\ IInv' /\ obj'[n] = Absent /\ Cells(n)' = <<>>
           /\ \A k \in Names \ {n} : obj'[k] = obj[k] /\ Cells(k)' = Cells(k)
<1> DEFINE a == obj[n].buffer
<1>1. /\ Types /\ Fits /\ Owners /\ Counted
  BY DEF IInv
<1>2. obj \in [Names -> Records] /\ heap \in [Buffers -> Seq(Cell)]
  BY <1>1 DEF Types
<1>3. /\ obj' = [obj EXCEPT ![n] = Absent]
      /\ heap' = [c \in Buffers |-> IF c = a THEN <<>> ELSE heap[c]]
      /\ alive' = alive - Objects(n) /\ res' = "ok"
  BY DEF Destroy, Freed
<1>4. Absent \in Records /\ Absent.buffer = NoBuffer /\ Absent.size = 0 /\ Absent.made = FALSE
      /\ Absent.capacity = 0
  BY DEF Absent, Records
<1>5. Good(n, Absent, <<>>)
  <2>1. Len(<<>>) = 0 /\ <<>> \in Seq(Cell)
    BY EmptySeq
  <2>2. Filled(n, Absent.size, <<>>)
    BY <2>1 DEF Filled
  <2>3. Absent.capacity <= SizeMax
    BY <1>4, SizesAreNatural
  <2> QED
    BY <1>4, <2>1, <2>2, <2>3 DEF Good
<1>6. obj'[n] = Absent /\ \A k \in Names \ {n} : obj'[k] = obj[k]
  BY <1>2, <1>3
<1>7. \A c \in Buffers : heap'[c] = IF c = a THEN <<>> ELSE heap[c]
  BY <1>3
<1>8. heap' \in [Buffers -> Seq(Cell)]
  <2>1. <<>> \in Seq(Cell)
    BY EmptySeq
  <2> HIDE DEF a
  <2> QED
    BY <1>2, <1>3, <2>1
<1>9. obj' \in [Names -> Records]
  BY <1>2, <1>3, <1>4
<1>10. Cells(n)' = <<>>
  BY <1>4, <1>6 DEF Cells
<1>11. ASSUME NEW k \in Names, k # n
       PROVE  Cells(k)' = Cells(k) /\ Good(k, obj'[k], Cells(k)')
  <2>1. obj'[k] = obj[k]
    BY <1>6, <1>11
  <2>2. obj[k].buffer # NoBuffer => obj[k].buffer \in Buffers /\ obj[k].buffer # a
    BY <1>1, <1>11, Knows DEF Owners, Owns
  <2>3. obj[k].buffer # NoBuffer => heap'[obj[k].buffer] = heap[obj[k].buffer]
    BY <1>7, <2>2
  <2> QED
    BY <1>1, <2>1, <2>3, OthersKeep
<1>12. Fits'
  <2> SUFFICES ASSUME NEW k \in Names PROVE Good(k, obj'[k], Cells(k)')
    BY DEF Fits
  <2> QED
    BY <1>5, <1>6, <1>10, <1>11
<1>13. Owners'
  <2> SUFFICES ASSUME NEW c \in Buffers
               PROVE  /\ \A k, m \in Names : obj'[k].buffer = c /\ obj'[m].buffer = c => k = m
                      /\ heap'[c] # <<>> => \E k \in Names : obj'[k].buffer = c
    BY DEF Owners, Owns
  <2>1. /\ \A k, m \in Names : obj[k].buffer = c /\ obj[m].buffer = c => k = m
        /\ heap[c] # <<>> => \E k \in Names : obj[k].buffer = c
    BY <1>1 DEF Owners, Owns
  <2>2. \A k \in Names : obj'[k].buffer = c => k # n /\ obj[k].buffer = c
    BY <1>4, <1>6, NullIsNoBuffer
  <2>3. heap'[c] # <<>> => c # a /\ heap[c] # <<>>
    BY <1>7
  <2>4. \A k \in Names : obj[k].buffer = c /\ c # a => obj'[k].buffer = c
    BY <1>6
  <2> QED
    BY <2>1, <2>2, <2>3, <2>4
<1>14. Counted' /\ alive' \in Int
  <2>1. \A k \in Names \ {n} : obj'[k].size = obj[k].size
    BY <1>6
  <2>2. Weight(n, obj'[n].size) = 0 /\ Weight(n, obj[n].size) = Objects(n)
    BY <1>4, <1>6 DEF Weight, Objects, Size
  <2>3. alive \in Int /\ Objects(n) \in Int
    BY <1>1, Knows DEF Types, Objects, Size
  <2>4. alive' = alive + Weight(n, obj'[n].size) - Weight(n, obj[n].size)
    BY <1>3, <2>2, <2>3
  <2> QED
    BY <1>1, <1>2, <1>9, <2>1, <2>4, CountOne
<1> QED
  BY <1>3, <1>6, <1>8, <1>9, <1>10, <1>12, <1>13, <1>14, <1>11 DEF IInv, Types

-----------------------------------------------------------------------------
(* Two objects.                                                             *)

\* An object that is about to be made has nothing.
LEMMA NewIsAbsent ==
    ASSUME IInv, NEW n \in Names, New(n)
    PROVE  ~obj[n].made /\ obj[n] = Absent /\ Size(n) = 0 /\ obj[n].buffer = NoBuffer
<1>1. ~obj[n].made
  BY DEF New, Made
<1>2. Absent.size = 0 /\ Absent.buffer = NoBuffer
  BY DEF Absent
<1>3. obj[n] = Absent
  BY <1>1, Knows DEF IInv
<1> QED
  BY <1>1, <1>2, <1>3 DEF Size

\* n takes what m has, and its own buffer is freed.
TakesOver(n, m, left) ==
    /\ heap' = Freed(n)
    /\ obj' = [obj EXCEPT ![n] = obj[m], ![m] = left]

\* One object takes the buffer of another and leaves it none.
LEMMA TakesOverInv ==
    ASSUME IInv, NEW n \in Names, NEW m \in Names, n # m,
           NEW left \in Records, left.buffer = NoBuffer,
           Good(m, left, <<>>), Good(n, obj[m], Cells(m)), TakesOver(n, m, left)
    PROVE  /\ heap' \in [Buffers -> Seq(Cell)] /\ obj' \in [Names -> Records]
           /\ Fits' /\ Owners'
           /\ Cells(n)' = Cells(m) /\ Cells(m)' = <<>> /\ obj'[n] = obj[m] /\ obj'[m] = left
           /\ \A k \in Names \ {n, m} : obj'[k] = obj[k] /\ Cells(k)' = Cells(k)
<1> DEFINE a == obj[n].buffer
           b == obj[m].buffer
<1>1. /\ Types /\ Fits /\ Owners
  BY DEF IInv
<1>2. obj \in [Names -> Records] /\ heap \in [Buffers -> Seq(Cell)]
  BY <1>1 DEF Types
<1>3. /\ obj' = [obj EXCEPT ![n] = obj[m], ![m] = left]
      /\ heap' = [c \in Buffers |-> IF c = a THEN <<>> ELSE heap[c]]
  BY DEF TakesOver, Freed
<1>4. /\ obj'[n] = obj[m] /\ obj'[m] = left
      /\ \A k \in Names \ {n, m} : obj'[k] = obj[k]
  BY <1>2, <1>3
<1>5. \A c \in Buffers : heap'[c] = IF c = a THEN <<>> ELSE heap[c]
  BY <1>3
<1>6. heap' \in [Buffers -> Seq(Cell)]
  <2>1. <<>> \in Seq(Cell)
    BY EmptySeq
  <2> HIDE DEF a
  <2> QED
    BY <1>2, <1>3, <2>1
<1>7. obj' \in [Names -> Records]
  BY <1>2, <1>3
<1>8. b # NoBuffer => b \in Buffers /\ b # a
  BY <1>1, Knows DEF Owners, Owns
<1>9. Cells(n)' = Cells(m)
  BY <1>4, <1>5, <1>8 DEF Cells
<1>10. Cells(m)' = <<>>
  BY <1>4 DEF Cells
<1>11. ASSUME NEW k \in Names, k # n, k # m
       PROVE  Cells(k)' = Cells(k) /\ Good(k, obj'[k], Cells(k)')
  <2>1. obj'[k] = obj[k]
    BY <1>4, <1>11
  <2>2. obj[k].buffer # NoBuffer => obj[k].buffer \in Buffers /\ obj[k].buffer # a
    BY <1>1, <1>11, Knows DEF Owners, Owns
  <2>3. obj[k].buffer # NoBuffer => heap'[obj[k].buffer] = heap[obj[k].buffer]
    BY <1>5, <2>2
  <2> QED
    BY <1>1, <2>1, <2>3, OthersKeep
<1>12. Fits'
  <2> SUFFICES ASSUME NEW k \in Names PROVE Good(k, obj'[k], Cells(k)')
    BY DEF Fits
  <2> QED
    BY <1>4, <1>9, <1>10, <1>11
<1>13. Owners'
  <2> SUFFICES ASSUME NEW c \in Buffers
               PROVE  /\ \A k, l \in Names : obj'[k].buffer = c /\ obj'[l].buffer = c => k = l
                      /\ heap'[c] # <<>> => \E k \in Names : obj'[k].buffer = c
    BY DEF Owners, Owns
  <2>1. /\ \A k, l \in Names : obj[k].buffer = c /\ obj[l].buffer = c => k = l
        /\ heap[c] # <<>> => \E k \in Names : obj[k].buffer = c
    BY <1>1 DEF Owners, Owns
  <2>2. c # NoBuffer
    BY NullIsNoBuffer
  <2>3. \A k \in Names : obj'[k].buffer = c =>
            \/ k = n /\ obj[m].buffer = c
            \/ k # n /\ k # m /\ obj[k].buffer = c
    BY <1>4, <2>2
  <2>4. heap'[c] # <<>> => c # a /\ heap[c] # <<>>
    BY <1>5
  <2>5. \A k \in Names : obj[k].buffer = c /\ c # a => \E l \in Names : obj'[l].buffer = c
    <3> SUFFICES ASSUME NEW k \in Names, obj[k].buffer = c, c # a
                 PROVE  \E l \in Names : obj'[l].buffer = c
      OBVIOUS
    <3>1. CASE k = m
      BY <1>4, <3>1
    <3>2. CASE k # m
      BY <1>4, <3>2
    <3> QED
      BY <3>1, <3>2
  <2> QED
    BY <2>1, <2>3, <2>4, <2>5
<1> QED
  BY <1>4, <1>6, <1>7, <1>9, <1>10, <1>11, <1>12, <1>13

\* Objects of one kind are good for the same.
Alike(n, m) == /\ n \in Raws <=> m \in Raws
               /\ n \in Containers <=> m \in Containers
               /\ n \in Arrays <=> m \in Arrays
               /\ n \in Optionals <=> m \in Optionals

\* What is well formed for one is so for another of its kind.
LEMMA AlikeGood ==
    ASSUME Fits, NEW n \in Names, NEW m \in Names, Alike(n, m)
    PROVE  Good(n, obj[m], Cells(m))
<1>1. Good(m, obj[m], Cells(m))
  BY DEF Fits
<1>2. Filled(m, obj[m].size, Cells(m)) => Filled(n, obj[m].size, Cells(m))
  BY DEF Filled, Alike
<1> QED
  BY <1>1, <1>2 DEF Good, Alike

\* The fields of what has no buffer.
LEMMA BareIs == Bare = [made |-> TRUE, buffer |-> NoBuffer, size |-> 0, capacity |-> 0]
<1> DEFINE p == [made |-> TRUE, buffer |-> NoBuffer, size |-> 0, capacity |-> 0]
<1>1. /\ Bare \in Records /\ Bare.made = TRUE /\ Bare.buffer = NoBuffer
      /\ Bare.size = 0 /\ Bare.capacity = 0
  BY DEF Bare, Absent, Records
<1>2. /\ p \in Records /\ p.made = TRUE /\ p.buffer = NoBuffer
      /\ p.size = 0 /\ p.capacity = 0
  BY DEF Records
<1> HIDE DEF p
<1>3. Bare = p
  BY <1>1, <1>2, RecordsEqual
<1> QED
  BY <1>3 DEF p

\* An object without a buffer is well formed.
LEMMA BareIsGood ==
    ASSUME NEW n \in Names, n \notin Optionals
    PROVE  /\ Bare \in Records /\ Bare.made = TRUE /\ Bare.buffer = NoBuffer
           /\ Bare.size = 0 /\ Bare.capacity = 0 /\ Good(n, Bare, <<>>)
<1>1. /\ Bare \in Records /\ Bare.made = TRUE /\ Bare.buffer = NoBuffer
      /\ Bare.size = 0 /\ Bare.capacity = 0
  BY DEF Bare, Absent, Records
<1>2. Len(<<>>) = 0 /\ <<>> \in Seq(Cell)
  BY EmptySeq
<1>3. Filled(n, 0, <<>>)
  BY <1>2 DEF Filled
<1>4. 0 <= SizeMax
  BY SizesAreNatural
<1> QED
  BY <1>1, <1>2, <1>3, <1>4 DEF Good

\* A move keeps the invariant.
LEMMA MoveInv ==
    ASSUME IInv, NEW n \in Containers, NEW m \in Containers, Alike(n, m), n \notin Optionals,
           Move(n, m)
    PROVE  /\ IInv'
           /\ Cells(n)' = Cells(m) /\ Cells(m)' = <<>> /\ obj'[n] = obj[m] /\ obj'[m] = Bare
           /\ \A k \in Names \ {n, m} : obj'[k] = obj[k] /\ Cells(k)' = Cells(k)
<1>1. /\ Types /\ Fits /\ Owners /\ Counted
  BY DEF IInv
<1>2. n \in Names /\ m \in Names /\ m \notin Optionals /\ n \notin Raws
  BY KindsOfNames DEF Names, Alike
<1>3. n # m /\ TakesOver(n, m, Bare) /\ alive' = alive - Size(n) /\ res' = "ok"
  BY <1>2 DEF Move, TakesOver, Objects
<1>4. Good(n, obj[m], Cells(m))
  BY <1>1, <1>2, AlikeGood
<1>5. /\ Bare \in Records /\ Bare.buffer = NoBuffer /\ Bare.size = 0
      /\ Good(m, Bare, <<>>)
  BY <1>2, BareIsGood
<1>6. /\ heap' \in [Buffers -> Seq(Cell)] /\ obj' \in [Names -> Records]
      /\ Fits' /\ Owners'
      /\ Cells(n)' = Cells(m) /\ Cells(m)' = <<>> /\ obj'[n] = obj[m] /\ obj'[m] = Bare
      /\ \A k \in Names \ {n, m} : obj'[k] = obj[k] /\ Cells(k)' = Cells(k)
  BY <1>2, <1>3, <1>4, <1>5, TakesOverInv
<1>7. Counted' /\ alive' \in Int
  <2>1. \A k \in Names \ {n, m} : obj'[k].size = obj[k].size
    BY <1>6
  <2>2. obj \in [Names -> Records] /\ alive \in Int
    BY <1>1 DEF Types
  <2>3. alive' = alive + obj'[n].size + obj'[m].size - obj[n].size - obj[m].size
    <3>1. obj[n].size \in Int /\ obj[m].size \in Int
      BY <1>1, <1>2, Knows
    <3>2. obj'[n].size = obj[m].size /\ obj'[m].size = 0
      BY <1>5, <1>6
    <3> QED
      BY <1>3, <2>2, <3>1, <3>2 DEF Size
  <2> QED
    BY <1>1, <1>3, <1>6, <2>1, <2>2, <2>3, CountTwo
<1> QED
  BY <1>3, <1>6, <1>7 DEF IInv, Types

\* So does the implicit move of a RawBuffer, which leaves its size.
LEMMA MoveRawInv ==
    ASSUME IInv, NEW n \in Raws, NEW m \in Raws, MoveRaw(n, m)
    PROVE  /\ IInv'
           /\ Cells(n)' = Cells(m) /\ Cells(m)' = <<>> /\ obj'[n] = obj[m]
           /\ obj'[m] = [obj[m] EXCEPT !.buffer = NoBuffer]
           /\ \A k \in Names \ {n, m} : obj'[k] = obj[k] /\ Cells(k)' = Cells(k)
<1> DEFINE left == [obj[m] EXCEPT !.buffer = NoBuffer]
<1>1. /\ Types /\ Fits /\ Owners /\ Counted
  BY DEF IInv
<1>2. n \in Names /\ m \in Names /\ Alike(n, m)
  BY KindsOfNames DEF Alike
<1>3. n # m /\ heap' = Freed(n) /\ obj[m].made /\ alive' = alive /\ res' = "ok"
  BY DEF MoveRaw, Made
<1>4. obj \in [Names -> Records] /\ alive \in Int /\ obj[m] \in Records
  BY <1>1, <1>2 DEF Types
<1>5. obj' = [obj EXCEPT ![n] = obj[m], ![m] = left]
  <2>1. obj' = [obj EXCEPT ![n] = obj[m], ![m].buffer = NoBuffer]
    BY DEF MoveRaw
  <2>2. [obj EXCEPT ![n] = obj[m]][m] = obj[m]
    BY <1>2, <1>3, <1>4
  <2> QED
    BY <2>1, <2>2
<1>6. /\ left \in Records /\ left.buffer = NoBuffer /\ left.made = obj[m].made
      /\ left.size = obj[m].size /\ left.capacity = obj[m].capacity
  BY <1>4, NullIsNoBuffer DEF Records
<1> HIDE DEF left
<1>7. Good(m, left, <<>>)
  <2>1. <<>> \in Seq(Cell)
    BY EmptySeq
  <2>2. m \notin Containers /\ m \notin Arrays /\ m \notin Optionals
    BY KindsOfNames
  <2> QED
    BY <1>1, <1>2, <1>3, <1>6, <2>1, <2>2, Knows DEF Good
<1>8. Good(n, obj[m], Cells(m))
  BY <1>1, <1>2, AlikeGood
<1>9. TakesOver(n, m, left)
  BY <1>3, <1>5 DEF TakesOver
<1>10. /\ heap' \in [Buffers -> Seq(Cell)] /\ obj' \in [Names -> Records]
       /\ Fits' /\ Owners'
       /\ Cells(n)' = Cells(m) /\ Cells(m)' = <<>> /\ obj'[n] = obj[m] /\ obj'[m] = left
       /\ \A k \in Names \ {n, m} : obj'[k] = obj[k] /\ Cells(k)' = Cells(k)
  BY <1>2, <1>3, <1>6, <1>7, <1>8, <1>9, TakesOverInv
<1>11. Counted' /\ alive' \in Int
  <2>1. \A k \in Names \ {n} : obj'[k].size = obj[k].size
    BY <1>6, <1>10
  <2>2. Weight(n, obj'[n].size) = 0 /\ Weight(n, obj[n].size) = 0
    BY DEF Weight
  <2>3. alive' = alive + Weight(n, obj'[n].size) - Weight(n, obj[n].size)
    BY <1>3, <1>4, <2>2
  <2> QED
    BY <1>1, <1>2, <1>4, <1>10, <2>1, <2>3, CountOne
<1> QED
  BY <1>3, <1>10, <1>11 DEF IInv, Types, left

\* A new Optional n gets the object of m, or none; from is what m holds then.
LEMMA ConstructsInv ==
    ASSUME IInv, NEW n \in Optionals, NEW m \in Optionals, NEW from, NEW size,
           ConstructOptional(n, m, from, size), Room(m, from, size),
           Room(n, Padded(Elements(m), 1), Size(m)),
           alive' = alive + obj'[n].size + obj'[m].size - obj[n].size - obj[m].size, res' = "ok"
    PROVE  /\ IInv' /\ Cells(n)' = Padded(Elements(m), 1) /\ Cells(m)' = from
           /\ obj'[n].made /\ obj'[n].size = Size(m)
           /\ obj'[m].made /\ obj'[m].size = size /\ obj'[m].buffer = obj[m].buffer
           /\ ~obj[n].made /\ obj[m].made /\ n # m
           /\ \A k \in Names \ {n, m} : obj'[k] = obj[k] /\ Cells(k)' = Cells(k)
<1> DEFINE s == Padded(Elements(m), 1)
           c == obj[m].buffer
<1>1. /\ Types /\ Fits /\ Owners /\ Counted
  BY DEF IInv
<1>2. n \in Names /\ m \in Names /\ n \in Containers /\ m \in Containers
  BY DEF Names, Containers
<1>3. /\ ~obj[n].made /\ obj[n].buffer = NoBuffer /\ obj[m].made
  BY <1>2, NewIsAbsent DEF ConstructOptional, Made
<1>4. n # m
  BY <1>3
<1>5. /\ obj \in [Names -> Records] /\ heap \in [Buffers -> Seq(Cell)] /\ alive \in Int
      /\ obj[m] \in Records
  BY <1>1, <1>2 DEF Types
<1>6. /\ c # NoBuffer /\ c \in Buffers /\ obj[m].capacity = 1 /\ heap[c] # <<>>
  BY <1>1, <1>2, <1>3, Knows
<1>7. PICK b \in Buffers :
          /\ heap[b] = <<>>
          /\ heap' = [heap EXCEPT ![b] = s, ![c] = from]
          /\ obj' = [obj EXCEPT ![n] = [obj[m] EXCEPT !.buffer = b], ![m].size = size]
  BY DEF ConstructOptional
<1>8. s \in Seq(Cell) /\ Len(s) = 1 /\ s # <<>> /\ Size(m) \in Nat
  <2>1. s \in Seq(Cell) /\ Len(s) = 1 /\ Size(m) \in Nat
    BY DEF Room
  <2> QED
    BY <2>1, OneIsSome
<1>9. from \in Seq(Cell) /\ Len(from) = 1 /\ from # <<>> /\ size \in Nat
  <2>1. from \in Seq(Cell) /\ Len(from) = 1 /\ size \in Nat
    BY DEF Room
  <2> QED
    BY <2>1, OneIsSome
<1> HIDE DEF s, c
<1>10. b # c /\ b # NoBuffer
  BY <1>6, <1>7, NullIsNoBuffer
<1>11. /\ heap'[b] = s /\ heap'[c] = from
       /\ \A d \in Buffers \ {b, c} : heap'[d] = heap[d]
       /\ heap' \in [Buffers -> Seq(Cell)]
  BY <1>5, <1>6, <1>7, <1>8, <1>9, <1>10
<1>12. obj'[n] = Owner(b, Size(m), 1)
  <2>1. obj'[n] = [obj[m] EXCEPT !.buffer = b]
    BY <1>2, <1>4, <1>5, <1>7
  <2>2. obj[m].made = TRUE
    BY <1>3, <1>5 DEF Records
  <2> QED
    BY <1>5, <1>6, <2>1, <2>2 DEF Owner, Records, Size
<1>13. obj'[m] = Owner(c, size, 1)
  <2>1. obj'[m] = [obj[m] EXCEPT !.size = size]
    BY <1>2, <1>4, <1>5, <1>7
  <2>2. obj[m].made = TRUE /\ obj[m].buffer = c
    BY <1>3, <1>5 DEF Records, c
  <2> QED
    BY <1>5, <1>6, <2>1, <2>2 DEF Owner, Records
<1>14. \A k \in Names \ {n, m} : obj'[k] = obj[k]
  BY <1>5, <1>7
<1>15. Good(n, obj'[n], s) /\ obj'[n] \in Records
  BY <1>2, <1>8, <1>10, <1>12, RoomIsGood DEF s
<1>16. Good(m, obj'[m], from) /\ obj'[m] \in Records
  BY <1>2, <1>6, <1>9, <1>13, RoomIsGood
<1>17. obj' \in [Names -> Records]
  <2>1. DOMAIN obj' = Names /\ obj' = [k \in Names |-> obj'[k]]
    BY <1>5, <1>7
  <2>2. \A k \in Names : obj'[k] \in Records
    BY <1>5, <1>14, <1>15, <1>16
  <2> QED
    BY <2>1, <2>2
<1>18. /\ obj'[n].buffer = b /\ obj'[n].size = Size(m) /\ obj'[n].made = TRUE
       /\ obj'[m].buffer = c /\ obj'[m].size = size /\ obj'[m].made = TRUE
  BY <1>12, <1>13 DEF Owner
<1>19. Cells(n)' = s /\ Cells(m)' = from
  BY <1>6, <1>10, <1>11, <1>18 DEF Cells
<1>20. ASSUME NEW k \in Names, k # n, k # m
       PROVE  Cells(k)' = Cells(k) /\ Good(k, obj'[k], Cells(k)')
  <2>1. obj'[k] = obj[k]
    BY <1>14, <1>20
  <2>2. obj[k].buffer # NoBuffer =>
            obj[k].buffer \in Buffers /\ obj[k].buffer # c /\ heap[obj[k].buffer] # <<>>
    BY <1>1, <1>2, <1>6, <1>20, Knows DEF Owners, Owns, c
  <2>3. obj[k].buffer # NoBuffer => heap'[obj[k].buffer] = heap[obj[k].buffer]
    BY <1>7, <1>11, <2>2
  <2> QED
    BY <1>1, <2>1, <2>3, OthersKeep
<1>21. Fits'
  <2> SUFFICES ASSUME NEW k \in Names PROVE Good(k, obj'[k], Cells(k)')
    BY DEF Fits
  <2> QED
    BY <1>15, <1>16, <1>19, <1>20
<1>22. Owners'
  <2> SUFFICES ASSUME NEW d \in Buffers
               PROVE  /\ \A k, l \in Names : obj'[k].buffer = d /\ obj'[l].buffer = d => k = l
                      /\ heap'[d] # <<>> => \E k \in Names : obj'[k].buffer = d
    BY DEF Owners, Owns
  <2>1. /\ \A k, l \in Names : obj[k].buffer = d /\ obj[l].buffer = d => k = l
        /\ heap[d] # <<>> => \E k \in Names : obj[k].buffer = d
    BY <1>1 DEF Owners, Owns
  <2>2. \A k \in Names : obj[k].buffer = b => FALSE
    BY <1>1, <1>7, <1>10, Knows
  <2>3. obj[m].buffer = c /\ obj[n].buffer # d
    BY <1>3, NullIsNoBuffer DEF c
  <2>4. \A k \in Names \ {n} : obj'[k].buffer = obj[k].buffer
    BY <1>14, <1>18, <2>3
  <2>5. CASE d = b
    <3>1. \A k \in Names : obj'[k].buffer = d => k = n
      BY <2>2, <2>4, <2>5
    <3> QED
      BY <1>2, <1>18, <2>5, <3>1
  <2>6. CASE d # b
    <3>1. \A k \in Names : obj'[k].buffer = d => k # n /\ obj[k].buffer = d
      BY <1>18, <2>4, <2>6
    <3>2. heap'[d] # <<>> => heap[d] # <<>>
      BY <1>6, <1>11, <2>6
    <3>3. \A k \in Names : obj[k].buffer = d => obj'[k].buffer = d
      BY <2>3, <2>4
    <3> QED
      BY <2>1, <3>1, <3>2, <3>3
  <2> QED
    BY <2>5, <2>6
<1>23. Counted' /\ alive' \in Int
  <2>1. \A k \in Names \ {n, m} : obj'[k].size = obj[k].size
    BY <1>14
  <2> QED
    BY <1>1, <1>2, <1>4, <1>5, <1>17, <2>1, CountTwo
<1> QED
  BY <1>3, <1>4, <1>11, <1>14, <1>17, <1>18, <1>19, <1>20, <1>21, <1>22, <1>23 DEF IInv, Types, s, c

\* n is assigned the object of m, or its absence.
LEMMA AssignsInv ==
    ASSUME IInv, NEW n \in Optionals, NEW m \in Optionals, NEW from, NEW size, NEW s,
           n # m, obj[n].made, obj[m].made,
           heap' = [heap EXCEPT ![obj[n].buffer] = s, ![obj[m].buffer] = from],
           obj' = [obj EXCEPT ![n].size = Size(m), ![m].size = size],
           Room(m, from, size), Room(n, s, Size(m)),
           alive' = alive + obj'[n].size + obj'[m].size - obj[n].size - obj[m].size, res' = "ok"
    PROVE  /\ IInv' /\ Cells(n)' = s /\ Cells(m)' = from
           /\ obj'[n].made /\ obj'[n].size = Size(m) /\ obj'[n].buffer = obj[n].buffer
           /\ obj'[m].made /\ obj'[m].size = size /\ obj'[m].buffer = obj[m].buffer
           /\ \A k \in Names \ {n, m} : obj'[k] = obj[k] /\ Cells(k)' = Cells(k)
<1> DEFINE b == obj[n].buffer
           c == obj[m].buffer
<1>1. /\ Types /\ Fits /\ Owners /\ Counted
  BY DEF IInv
<1>2. n \in Names /\ m \in Names /\ n \in Containers /\ m \in Containers
  BY DEF Names, Containers
<1>3. /\ obj \in [Names -> Records] /\ heap \in [Buffers -> Seq(Cell)] /\ alive \in Int
      /\ obj[m] \in Records /\ obj[n] \in Records
  BY <1>1, <1>2 DEF Types
<1>4. /\ c # NoBuffer /\ c \in Buffers /\ obj[m].capacity = 1 /\ heap[c] # <<>>
  BY <1>1, <1>2, Knows
<1>5. /\ b # NoBuffer /\ b \in Buffers /\ obj[n].capacity = 1 /\ heap[b] # <<>>
  BY <1>1, <1>2, Knows
<1>6. b # c
  BY <1>1, <1>2, <1>5 DEF Owners, Owns
<1>7. s \in Seq(Cell) /\ Len(s) = 1 /\ s # <<>> /\ Size(m) \in Nat
  <2>1. s \in Seq(Cell) /\ Len(s) = 1 /\ Size(m) \in Nat
    BY DEF Room
  <2> QED
    BY <2>1, OneIsSome
<1>8. from \in Seq(Cell) /\ Len(from) = 1 /\ from # <<>> /\ size \in Nat
  <2>1. from \in Seq(Cell) /\ Len(from) = 1 /\ size \in Nat
    BY DEF Room
  <2> QED
    BY <2>1, OneIsSome
<1>9. heap' = [heap EXCEPT ![b] = s, ![c] = from]
  OBVIOUS
<1> HIDE DEF b, c
<1>10. /\ heap'[b] = s /\ heap'[c] = from
       /\ \A d \in Buffers \ {b, c} : heap'[d] = heap[d]
       /\ heap' \in [Buffers -> Seq(Cell)]
  BY <1>3, <1>4, <1>5, <1>6, <1>7, <1>8, <1>9
<1>11. obj'[n] = Owner(b, Size(m), 1)
  <2>1. obj'[n] = [obj[n] EXCEPT !.size = Size(m)]
    BY <1>2, <1>3
  <2>2. obj[n].made = TRUE /\ obj[n].buffer = b
    BY <1>3 DEF Records, b
  <2>3. [obj[n] EXCEPT !.size = Size(m)] = Owner(obj[n].buffer, Size(m), obj[n].capacity)
    BY <1>3, <1>7, <2>2, OwnerResized
  <2> QED
    BY <1>5, <2>1, <2>2, <2>3
<1>12. obj'[m] = Owner(c, size, 1)
  <2>1. obj'[m] = [obj[m] EXCEPT !.size = size]
    BY <1>2, <1>3
  <2>2. obj[m].made = TRUE /\ obj[m].buffer = c
    BY <1>3 DEF Records, c
  <2>3. [obj[m] EXCEPT !.size = size] = Owner(obj[m].buffer, size, obj[m].capacity)
    BY <1>3, <1>8, <2>2, OwnerResized
  <2> QED
    BY <1>4, <2>1, <2>2, <2>3
<1>13. \A k \in Names \ {n, m} : obj'[k] = obj[k]
  BY <1>3
<1>14. Good(n, obj'[n], s) /\ obj'[n] \in Records
  BY <1>2, <1>5, <1>7, <1>11, RoomIsGood
<1>15. Good(m, obj'[m], from) /\ obj'[m] \in Records
  BY <1>2, <1>4, <1>8, <1>12, RoomIsGood
<1>16. obj' \in [Names -> Records]
  <2>1. DOMAIN obj' = Names /\ obj' = [k \in Names |-> obj'[k]]
    BY <1>3
  <2>2. \A k \in Names : obj'[k] \in Records
    BY <1>3, <1>13, <1>14, <1>15
  <2> QED
    BY <2>1, <2>2
<1>17. /\ obj'[n].buffer = b /\ obj'[n].size = Size(m) /\ obj'[n].made = TRUE
       /\ obj'[m].buffer = c /\ obj'[m].size = size /\ obj'[m].made = TRUE
  BY <1>11, <1>12 DEF Owner
<1>18. Cells(n)' = s /\ Cells(m)' = from
  BY <1>4, <1>5, <1>10, <1>17 DEF Cells
<1>19. ASSUME NEW k \in Names, k # n, k # m
       PROVE  Cells(k)' = Cells(k) /\ Good(k, obj'[k], Cells(k)')
  <2>1. obj'[k] = obj[k]
    BY <1>13, <1>19
  <2>2. obj[k].buffer # NoBuffer =>
            obj[k].buffer \in Buffers /\ obj[k].buffer # c /\ obj[k].buffer # b
    BY <1>1, <1>2, <1>4, <1>5, <1>19, Knows DEF Owners, Owns, b, c
  <2>3. obj[k].buffer # NoBuffer => heap'[obj[k].buffer] = heap[obj[k].buffer]
    BY <1>10, <2>2
  <2> QED
    BY <1>1, <2>1, <2>3, OthersKeep
<1>20. Fits'
  <2> SUFFICES ASSUME NEW k \in Names PROVE Good(k, obj'[k], Cells(k)')
    BY DEF Fits
  <2> QED
    BY <1>14, <1>15, <1>18, <1>19
<1>21. Owners'
  <2>1. \A k \in Names : obj'[k].buffer = obj[k].buffer
    BY <1>13, <1>17 DEF b, c
  <2>2. \A d \in Buffers : heap'[d] # <<>> => heap[d] # <<>>
    BY <1>4, <1>5, <1>10
  <2>3. \A k \in Names, d \in Buffers : Owns(k, d)' <=> Owns(k, d)
    BY <2>1 DEF Owns
  <2> QED
    BY <1>1, <2>2, <2>3 DEF Owners
<1>22. Counted' /\ alive' \in Int
  <2>1. \A k \in Names \ {n, m} : obj'[k].size = obj[k].size
    BY <1>13
  <2> QED
    BY <1>1, <1>2, <1>3, <1>16, <2>1, CountTwo
<1> QED
  BY <1>10, <1>13, <1>16, <1>17, <1>18, <1>19, <1>20, <1>21, <1>22 DEF IInv, Types, b, c

-----------------------------------------------------------------------------
(* Sequences of cells.                                                      *)

\* The first k cells.
LEMMA FirstCells ==
    ASSUME NEW s \in Seq(Cell), NEW k \in 0..Len(s)
    PROVE  /\ SubSeq(s, 1, k) \in Seq(Cell) /\ Len(SubSeq(s, 1, k)) = k
           /\ \A i \in 1..k : SubSeq(s, 1, k)[i] = s[i]
<1>1. Len(s) \in Nat /\ k \in Nat /\ k <= Len(s)
  BY LenProperties
<1>2. \A i \in 1..k : s[i] \in Cell
  BY <1>1, ElementOfSeq
<1>3. /\ SubSeq(s, 1, k) \in Seq(Cell)
      /\ Len(SubSeq(s, 1, k)) = IF 1 <= k THEN k - 1 + 1 ELSE 0
      /\ \A i \in 1..k - 1 + 1 : SubSeq(s, 1, k)[i] = s[1 + i - 1]
  BY <1>1, <1>2, SubSeqProperties
<1> QED
  BY <1>1, <1>3

\* The elements of a container are those in its cells.
LEMMA ElementsAre ==
    ASSUME Types, Fits, NEW n \in Names
    PROVE  /\ Elements(n) \in Seq(Cell) /\ Len(Elements(n)) = Size(n)
           /\ \A i \in 1..Size(n) :
                Elements(n)[i] = IF i <= Len(Cells(n)) THEN Cells(n)[i] ELSE Raw
           /\ n \in Containers => \A i \in 1..Size(n) :
                /\ i <= Len(Cells(n)) /\ Cells(n)[i] # Raw
                /\ Elements(n)[i] = Cells(n)[i] /\ Elements(n)[i] \in Values \cup {Lost}
<1> DEFINE p == Padded(Cells(n), Capacity(n))
<1>1. /\ Cells(n) \in Seq(Cell) /\ Capacity(n) \in Nat /\ Size(n) \in Nat /\ Size(n) <= Capacity(n)
      /\ n \in Containers => Len(Cells(n)) = Capacity(n) /\ Filled(n, Size(n), Cells(n))
  <2>1. Cells(n) = <<>> => Len(Cells(n)) = 0
    BY EmptySeq
  <2> QED
    BY <2>1, Knows DEF Capacity, Size
<1>2. /\ p \in Seq(Cell) /\ Len(p) = Capacity(n)
      /\ \A i \in 1..Capacity(n) : p[i] = IF i <= Len(Cells(n)) THEN Cells(n)[i] ELSE Raw
  BY <1>1, PaddedCells
<1> HIDE DEF p
<1>3. /\ SubSeq(p, 1, Size(n)) \in Seq(Cell) /\ Len(SubSeq(p, 1, Size(n))) = Size(n)
      /\ \A i \in 1..Size(n) : SubSeq(p, 1, Size(n))[i] = p[i]
  <2>1. Size(n) \in 0..Len(p)
    BY <1>1, <1>2
  <2> QED
    BY <1>2, <2>1, FirstCells
<1>4. Elements(n) = SubSeq(p, 1, Size(n))
  BY DEF Elements, p
<1>5. \A i \in 1..Size(n) : Elements(n)[i] = IF i <= Len(Cells(n)) THEN Cells(n)[i] ELSE Raw
  <2>1. \A i \in 1..Size(n) : i \in 1..Capacity(n)
    BY <1>1
  <2> QED
    BY <1>2, <1>3, <1>4, <2>1
<1>6. ASSUME n \in Containers, NEW i \in 1..Size(n)
      PROVE  /\ i <= Len(Cells(n)) /\ Cells(n)[i] # Raw
             /\ Elements(n)[i] = Cells(n)[i] /\ Elements(n)[i] \in Values \cup {Lost}
  <2>1. i \in 1..Len(Cells(n)) /\ ~(i > Size(n)) /\ i <= Len(Cells(n))
    BY <1>1, <1>6
  <2>2. Cells(n)[i] # Raw
    <3>1. CASE n \in Optionals /\ Cells(n) = <<Lost>>
      <4>1. i = 1
        BY <2>1, <3>1
      <4> QED
        BY <3>1, <4>1, ValuesDistinct
    <3>2. CASE (Cells(n)[i] = Raw) <=> (i > Size(n))
      BY <2>1, <3>2
    <3> QED
      BY <1>1, <1>6, <2>1, <3>1, <3>2 DEF Filled
  <2>3. Cells(n)[i] \in Cell
    BY <1>1, <2>1, ElementOfSeq
  <2> QED
    BY <1>5, <2>1, <2>2, <2>3 DEF Cell
<1> QED
  BY <1>3, <1>4, <1>5, <1>6

\* Objects in front, nothing behind them.
LEMMA RoomPadded ==
    ASSUME NEW n \in Names, NEW s \in Seq(Cell), NEW k \in Nat, Len(s) <= k,
           n \in Containers => \A i \in 1..Len(s) : s[i] # Raw,
           n \in Arrays => Len(s) = k /\ k = ArraySize,
           n \in Raws => k <= SizeMax, n \in Optionals => k = 1
    PROVE  Room(n, Padded(s, k), Len(s))
<1>1. /\ Padded(s, k) \in Seq(Cell) /\ Len(Padded(s, k)) = k
      /\ \A i \in 1..k : Padded(s, k)[i] = IF i <= Len(s) THEN s[i] ELSE Raw
  BY PaddedCells
<1>2. Len(s) \in Nat
  BY LenProperties
<1>3. n \in Containers => Filled(n, Len(s), Padded(s, k))
  <2> SUFFICES ASSUME n \in Containers, NEW i \in 1..k
               PROVE  (Padded(s, k)[i] = Raw) <=> (i > Len(s))
    BY <1>1 DEF Filled
  <2>1. CASE i <= Len(s)
    <3>1. i \in 1..Len(s)
      BY <1>2, <2>1
    <3> QED
      BY <1>1, <1>2, <2>1, <3>1
  <2>2. CASE ~(i <= Len(s))
    BY <1>1, <1>2, <2>2
  <2> QED
    BY <2>1, <2>2
<1> QED
  BY <1>1, <1>2, <1>3 DEF Room

-----------------------------------------------------------------------------
(* The lists that objects stand for.                                        *)

\* The first size cells, as what can be seen of them.
Seen(size, cells) ==
    [i \in 1..size |-> IF i > Len(cells) \/ cells[i] = Raw THEN Lost ELSE cells[i]]

\* How many there are: size() of an Array is a constant.
Extent(n) == IF n \in Arrays THEN ArraySize ELSE Size(n)

\* The list of n.
Kept(n) == IF Made(n) THEN Seen(Extent(n), Cells(n)) ELSE NotMade

\* What is seen of an object is a list as long as it says.
LEMMA SeenIsList ==
    ASSUME NEW size \in Nat, NEW cells \in Seq(Cell)
    PROVE  /\ Seen(size, cells) \in Seq(Values \cup {Lost}) /\ Len(Seen(size, cells)) = size
           /\ Seen(size, cells) # NotMade
           /\ Seen(size, cells) = <<>> <=> size = 0
<1>1. \A i \in 1..size : ~(i > Len(cells)) => cells[i] \in Cell
  <2> SUFFICES ASSUME NEW i \in 1..size, ~(i > Len(cells)) PROVE cells[i] \in Cell
    OBVIOUS
  <2>1. i \in 1..Len(cells)
    BY LenProperties
  <2> QED
    BY <2>1, ElementOfSeq
<1>2. Seen(size, cells) \in [1..size -> Values \cup {Lost}]
  BY <1>1 DEF Seen, Cell
<1>3. Seen(size, cells) \in Seq(Values \cup {Lost}) /\ Len(Seen(size, cells)) = size
  BY <1>2
<1> QED
  BY <1>3, EmptySeq, NotMadeIsNoList

\* A container's list are its elements.
LEMMA SeenAreElements ==
    ASSUME Types, Fits, NEW n \in Containers
    PROVE  Seen(Size(n), Cells(n)) = Elements(n)
<1>1. n \in Names
  BY DEF Names
<1>2. /\ Elements(n) \in Seq(Cell) /\ Len(Elements(n)) = Size(n)
      /\ \A i \in 1..Size(n) : /\ i <= Len(Cells(n)) /\ Cells(n)[i] # Raw
                               /\ Elements(n)[i] = Cells(n)[i]
  BY <1>1, ElementsAre
<1>3. Size(n) \in Nat /\ Cells(n) \in Seq(Cell) /\ Len(Cells(n)) \in Nat
  BY <1>1, Knows, LenProperties DEF Size
<1>4. Elements(n) = [i \in 1..Size(n) |-> Elements(n)[i]]
  BY <1>2
<1>5. \A i \in 1..Size(n) : Seen(Size(n), Cells(n))[i] = Elements(n)[i]
  BY <1>2, <1>3 DEF Seen
<1>6. Seen(Size(n), Cells(n)) = [i \in 1..Size(n) |-> Seen(Size(n), Cells(n))[i]]
  BY DEF Seen
<1> QED
  BY <1>4, <1>5, <1>6

-----------------------------------------------------------------------------
(* What a step shows.                                                       *)

\* A container stays where it is while it has room.
Stays(k) == Made(k) => obj'[k].buffer = obj[k].buffer \/ obj'[k].capacity > Capacity(k)

\* The bytes of a RawBuffer that is size long in these cells then are kept, but
\* for those that append() writes over or cuts off, or resize() does.
Survives(k, size, cells) ==
    Made(k) => \A i \in 1..Len(Cells(k)) :
        \/ i \in Size(k) + 1..size
        \/ i <= Len(cells) /\ cells[i] = Cells(k)[i]
        \/ i > Len(cells) /\ Len(cells) = size /\ size < Len(Cells(k)) \div 2
        \/ i > Len(cells) /\ ResizeRaw(k, Len(cells))

\* Only n changes, to the list s.
Shows(n, s) == /\ IInv' /\ Kept(n)' = s /\ Made(n)'
               /\ \A k \in Names \ {n} : Kept(k)' = Kept(k)
               /\ hollow' = hollow \ {n}
               /\ \A k \in Containers : Stays(k)
               /\ \A k \in Raws : Survives(k, Size(k)', Cells(k)')

\* Only an Array or a RawBuffer is hollow, and without a buffer.
LEMMA HollowIs ==
    /\ \A k \in hollow : k \in Names /\ obj[k].buffer = NoBuffer /\ Cells(k) = <<>>
    /\ \A k \in Vectors \cup Sets \cup Optionals : k \notin hollow
<1>1. \A k \in hollow : k \in Names /\ obj[k].buffer = NoBuffer /\ Cells(k) = <<>>
  BY DEF hollow, Hollow, Cells
<1>2. ASSUME NEW k \in Vectors \cup Sets \cup Optionals PROVE ~Hollow(k)
  <2>1. k \notin Arrays /\ k \notin Raws
    BY KindsDisjoint
  <2> QED
    BY <2>1 DEF Hollow
<1>3. \A k \in Vectors \cup Sets \cup Optionals : k \notin hollow
  BY <1>2 DEF hollow
<1> QED
  BY <1>1, <1>3

\* What does not change is hollow as before.
LEMMA HollowStays ==
    ASSUME NEW S, \A k \in Names \ S : k \in Arrays \/ k \in Raws => obj'[k] = obj[k]
    PROVE  hollow' \ S = hollow \ S
BY DEF hollow, Hollow, Made, Capacity

\* The lesser of two numbers.
LEMMA LeastOfTwo ==
    ASSUME NEW a \in Nat, NEW b \in Nat
    PROVE  Min({a, b}) \in {a, b} /\ Min({a, b}) <= a /\ Min({a, b}) <= b /\ Min({a, b}) \in Nat
<1>1. \E x \in {a, b} : \A y \in {a, b} : x <= y
  <2>1. CASE a <= b
    BY <2>1
  <2>2. CASE b <= a
    BY <2>2
  <2> QED
    BY <2>1, <2>2
<1>2. Min({a, b}) \in {a, b} /\ \A y \in {a, b} : Min({a, b}) <= y
  BY <1>1 DEF Min
<1> QED
  BY <1>2

\* The greater of two numbers.
LEMMA GreatestOfTwo ==
    ASSUME NEW a \in Nat, NEW b \in Nat
    PROVE  Max({a, b}) \in {a, b} /\ Max({a, b}) >= a /\ Max({a, b}) >= b /\ Max({a, b}) \in Nat
<1>1. \E x \in {a, b} : \A y \in {a, b} : x >= y
  <2>1. CASE a <= b
    BY <2>1
  <2>2. CASE b <= a
    BY <2>2
  <2> QED
    BY <2>1, <2>2
<1>2. Max({a, b}) \in {a, b} /\ \A y \in {a, b} : Max({a, b}) >= y
  BY <1>1 DEF Max
<1> QED
  BY <1>2

\* What does not change stays, survives and is seen as before.
LEMMA SameIsKept ==
    ASSUME IInv, NEW k \in Names, obj'[k] = obj[k], Cells(k)' = Cells(k)
    PROVE  Kept(k)' = Kept(k) /\ Stays(k) /\ Survives(k, Size(k)', Cells(k)')
<1>1. Len(Cells(k)) \in Nat
  BY Knows, LenProperties DEF IInv
<1> QED
  BY <1>1 DEF Kept, Extent, Made, Size, Stays, Survives

\* A step of one object.
LEMMA TurnsShown ==
    ASSUME IInv, NEW n \in Names, NEW size, NEW cells, Turns(n, size, cells),
           n \in Containers => Stays(n), n \in Raws => Survives(n, size, cells)
    PROVE  Shows(n, Seen(size, cells))
<1>1. /\ IInv' /\ Cells(n)' = cells /\ obj'[n].made /\ obj'[n].size = size
      /\ ~Hollow(n)' /\ (n \in Arrays => size = ArraySize)
      /\ \A k \in Names \ {n} : obj'[k] = obj[k] /\ Cells(k)' = Cells(k)
  BY DEF Turns
<1>2. \A k \in Names \ {n} : Kept(k)' = Kept(k) /\ Stays(k) /\ Survives(k, Size(k)', Cells(k)')
  BY <1>1, SameIsKept
<1>3. Kept(n)' = Seen(size, cells) /\ Made(n)' /\ Size(n)' = size
  BY <1>1 DEF Kept, Extent, Made, Size
<1>4. Containers \subseteq Names /\ Raws \subseteq Names
  BY DEF Names
<1>5. \A k \in Containers : Stays(k)
  BY <1>2, <1>4
<1>6. \A k \in Raws : Survives(k, Size(k)', Cells(k)')
  BY <1>1, <1>2, <1>3, <1>4
<1>7. hollow' = hollow \ {n}
  <2>1. hollow' \ {n} = hollow \ {n}
    BY <1>1, HollowStays
  <2>2. n \notin hollow'
    BY <1>1 DEF hollow
  <2> QED
    BY <2>1, <2>2
<1> QED
  BY <1>1, <1>2, <1>3, <1>5, <1>6, <1>7 DEF Shows

\* Nothing changes.
LEMMA StutterShown ==
    ASSUME IInv, UNCHANGED <<heap, obj, alive>>,
           res' \in {"ok", "noSpace", "underflow", "present", "panic"}
    PROVE  /\ IInv' /\ \A k \in Names : Kept(k)' = Kept(k) /\ Made(k)' = Made(k)
           /\ hollow' = hollow
           /\ \A k \in Containers : Stays(k)
           /\ \A k \in Raws : Survives(k, Size(k)', Cells(k)')
<1>1. heap' = heap /\ obj' = obj /\ alive' = alive
  OBVIOUS
<1>2. \A k \in Names : Cells(k)' = Cells(k) /\ obj'[k] = obj[k]
  BY <1>1 DEF Cells
<1>3. Types'
  BY <1>1 DEF IInv, Types
<1>4. Fits'
  BY <1>2 DEF IInv, Fits
<1>5. Owners' /\ Counted'
  BY <1>1 DEF IInv, Owners, Owns, Counted, Sizes, Size
<1>6. \A k \in Names : Kept(k)' = Kept(k) /\ Stays(k) /\ Survives(k, Size(k)', Cells(k)')
  BY <1>2, SameIsKept
<1>7. Containers \subseteq Names /\ Raws \subseteq Names
  BY DEF Names
<1>8. hollow' = hollow
  BY <1>1 DEF hollow, Hollow, Made, Capacity
<1> QED
  BY <1>1, <1>3, <1>4, <1>5, <1>6, <1>7, <1>8 DEF IInv, Made

-----------------------------------------------------------------------------
(* Containers.                                                              *)

Held == Values \cup {Lost}

\* A list is a sequence of cells, none of them raw.
LEMMA HeldIsCell ==
    ASSUME NEW s \in Seq(Held)
    PROVE  s \in Seq(Cell) /\ \A i \in 1..Len(s) : s[i] # Raw /\ s[i] \in Held
<1>1. Held \subseteq Cell
  BY DEF Held, Cell
<1>2. s \in Seq(Cell)
  BY <1>1
<1>3. \A i \in 1..Len(s) : s[i] \in Held
  BY ElementOfSeq
<1>4. Raw \notin Held
  BY ValuesDistinct DEF Held
<1> QED
  BY <1>2, <1>3, <1>4

\* Objects are seen in their cells.
LEMMA SeenPadded ==
    ASSUME NEW s \in Seq(Held), NEW k \in Nat, Len(s) <= k
    PROVE  Seen(Len(s), Padded(s, k)) = s
<1>1. s \in Seq(Cell) /\ Len(s) \in Nat /\ \A i \in 1..Len(s) : s[i] # Raw
  BY HeldIsCell, LenProperties
<1>2. /\ Len(Padded(s, k)) = k
      /\ \A i \in 1..k : Padded(s, k)[i] = IF i <= Len(s) THEN s[i] ELSE Raw
  BY <1>1, PaddedCells
<1>3. \A i \in 1..Len(s) : Seen(Len(s), Padded(s, k))[i] = s[i]
  BY <1>1, <1>2 DEF Seen
<1>4. Seen(Len(s), Padded(s, k)) = [i \in 1..Len(s) |-> Seen(Len(s), Padded(s, k))[i]]
  BY DEF Seen
<1>5. s = [i \in 1..Len(s) |-> s[i]]
  OBVIOUS
<1> QED
  BY <1>3, <1>4, <1>5

\* The container n gets a buffer for the list s.
LEMMA Occupied ==
    ASSUME IInv, NEW n \in Containers, NEW s \in Seq(Held), NEW k \in Nat, Len(s) <= k,
           n \in Arrays => Len(s) = k /\ k = ArraySize, n \in Optionals => k = 1,
           Occupy(n, s, k), ~Made(n) \/ k > Capacity(n),
           alive' = alive + Len(s) - Size(n), res' = "ok"
    PROVE  Shows(n, s)
<1>1. n \in Names /\ n \notin Raws
  BY KindsOfNames DEF Names
<1>2. s \in Seq(Cell) /\ \A i \in 1..Len(s) : s[i] # Raw
  BY HeldIsCell
<1>3. Room(n, Padded(s, k), Len(s)) /\ Len(Padded(s, k)) = k
  BY <1>1, <1>2, RoomPadded, PaddedCells
<1>4. Weight(n, Len(s)) = Len(s) /\ Weight(n, Size(n)) = Size(n)
  BY <1>1 DEF Weight
<1>5. Replace(n, Padded(s, k), Len(s))
  BY DEF Occupy
<1>6. Turns(n, Len(s), Padded(s, k)) /\ obj'[n].capacity = k
  BY <1>1, <1>3, <1>4, <1>5, ReplaceInv
<1>7. Stays(n)
  BY <1>6 DEF Stays
<1> QED
  BY <1>1, <1>6, <1>7, TurnsShown, SeenPadded

\* The list s is written to the cells of the container n.
LEMMA Written ==
    ASSUME IInv, NEW n \in Containers, NEW s \in Seq(Held), Len(s) <= Capacity(n),
           n \in Arrays => Len(s) = Capacity(n), obj[n].buffer # NoBuffer,
           heap' = [heap EXCEPT ![obj[n].buffer] = Padded(s, Capacity(n))],
           obj' = [obj EXCEPT ![n].size = Len(s)],
           alive' = alive + Len(s) - Size(n), res' = "ok"
    PROVE  Shows(n, s)
<1>1. n \in Names /\ n \notin Raws
  BY KindsOfNames DEF Names
<1>2. s \in Seq(Cell) /\ \A i \in 1..Len(s) : s[i] # Raw
  BY HeldIsCell
<1>3. /\ Capacity(n) \in Nat /\ (n \in Optionals => Capacity(n) = 1)
      /\ n \in Arrays => Capacity(n) = ArraySize
  BY <1>1, Knows DEF IInv, Capacity
<1>4. Room(n, Padded(s, Capacity(n)), Len(s)) /\ Len(Padded(s, Capacity(n))) = Capacity(n)
  BY <1>1, <1>2, <1>3, RoomPadded, PaddedCells
<1>5. Weight(n, Len(s)) = Len(s) /\ Weight(n, Size(n)) = Size(n)
  BY <1>1 DEF Weight
<1>6. Writes(n, Padded(s, Capacity(n)), Len(s))
  BY DEF Writes
<1>7. Turns(n, Len(s), Padded(s, Capacity(n))) /\ obj'[n].buffer = obj[n].buffer
  BY <1>1, <1>4, <1>5, <1>6, WritesInv
<1>8. Stays(n)
  BY <1>7 DEF Stays
<1> QED
  BY <1>1, <1>3, <1>7, <1>8, TurnsShown, SeenPadded

\* A container's elements are a list, which its cells hold.
LEMMA ElementsAreHeld ==
    ASSUME IInv, NEW n \in Containers
    PROVE  /\ n \in Names /\ Elements(n) \in Seq(Held) /\ Len(Elements(n)) = Size(n)
           /\ Size(n) \in Nat /\ Capacity(n) \in Nat /\ Size(n) <= Capacity(n)
           /\ Made(n) /\ (n \notin Arrays \/ obj[n].buffer # NoBuffer) => Kept(n) = Elements(n)
           /\ Cells(n) \in Seq(Cell) /\ Len(Cells(n)) = Capacity(n)
           /\ \A i \in 1..Size(n) : Elements(n)[i] = Cells(n)[i] /\ Elements(n)[i] \in Held
           /\ obj[n].buffer = NoBuffer => Capacity(n) = 0
           /\ obj[n].buffer # NoBuffer => obj[n].buffer \in Buffers /\ Cells(n) = heap[obj[n].buffer]
<1>1. Types /\ Fits /\ n \in Names
  BY DEF IInv, Names
<1>2. /\ Elements(n) \in Seq(Cell) /\ Len(Elements(n)) = Size(n)
      /\ \A i \in 1..Size(n) : Elements(n)[i] = Cells(n)[i] /\ Elements(n)[i] \in Held
  BY <1>1, ElementsAre DEF Held
<1>3. Elements(n) \in Seq(Held)
  BY <1>2
<1>4. Made(n) /\ (n \notin Arrays \/ obj[n].buffer # NoBuffer) => Kept(n) = Elements(n)
  BY <1>1, SeenAreElements, Knows DEF Kept, Extent, Size
<1>5. Cells(n) = <<>> => Len(Cells(n)) = 0
  BY EmptySeq
<1> QED
  BY <1>1, <1>2, <1>3, <1>4, <1>5, Knows DEF Size, Capacity

\* Cells that are written one by one.
LEMMA CellsEqual ==
    ASSUME NEW s, NEW c, NEW k, c = [i \in 1..k |-> c[i]],
           \A i \in 1..k : c[i] = IF i <= Len(s) THEN s[i] ELSE Raw
    PROVE  c = Padded(s, k)
BY DEF Padded

\* The cells behind the elements hold no object.
LEMMA CellsBehind ==
    ASSUME IInv, NEW n \in Containers, n \notin Optionals, NEW i \in 1..Capacity(n), i > Size(n)
    PROVE  Cells(n)[i] = Raw
<1>1. n \in Names /\ Fits
  BY DEF IInv, Names
<1>2. Filled(n, Size(n), Cells(n)) /\ Len(Cells(n)) = Capacity(n)
  BY <1>1, Knows, ElementsAreHeld DEF IInv, Size
<1> QED
  BY <1>2 DEF Filled

\* Default construction shows an empty list.
LEMMA MakeShows ==
    ASSUME IInv, NEW n \in Names, n \notin Optionals, n \notin Arrays, Make(n)
    PROVE  Shows(n, <<>>)
<1>1. obj[n].buffer = NoBuffer /\ Size(n) = 0 /\ ~Made(n)
  BY NewIsAbsent DEF Make, Made
<1>2. Len(<<>>) = 0 /\ <<>> \in Seq(Cell)
  BY EmptySeq
<1>3. Room(n, <<>>, 0)
  <2>1. Filled(n, 0, <<>>)
    BY <1>2 DEF Filled
  <2> QED
    BY <1>2, <2>1, SizesAreNatural DEF Room
<1>4. Freed(n) = heap
  <2>1. heap = [b \in Buffers |-> heap[b]]
    BY DEF IInv, Types
  <2>2. \A b \in Buffers : b # NoBuffer
    BY NullIsNoBuffer
  <2> QED
    BY <1>1, <2>1, <2>2 DEF Freed
<1>5. Replace(n, <<>>, 0)
  <2>1. Bare = [made |-> TRUE, buffer |-> NoBuffer, size |-> 0, capacity |-> Len(<<>>)]
    BY <1>2, BareIs
  <2> QED
    BY <1>4, <2>1 DEF Make, Replace
<1>6. Weight(n, 0) = 0 /\ Weight(n, Size(n)) = 0 /\ alive \in Int
  BY <1>1 DEF Weight, IInv, Types
<1>7. Turns(n, 0, <<>>)
  BY <1>3, <1>5, <1>6, ReplaceInv DEF Make
<1>8. Seen(0, <<>>) = <<>>
  BY <1>2, SeenIsList
<1> QED
  BY <1>1, <1>7, <1>8, TurnsShown DEF Stays, Survives

\* So does construction with a capacity.
LEMMA MakeWithCapacityShows ==
    ASSUME IInv, NEW n \in Containers, NEW k \in Nat, n \notin Arrays, n \in Optionals => k = 1,
           MakeWithCapacity(n, k)
    PROVE  Shows(n, <<>>)
<1>1. ~Made(n) /\ Size(n) = 0
  BY NewIsAbsent DEF MakeWithCapacity, Made, Names
<1>2. <<>> \in Seq(Held) /\ Len(<<>>) = 0
  BY EmptySeq
<1>3. alive' = alive + 0 - 0
  BY DEF MakeWithCapacity, IInv, Types
<1> QED
  <2>1. Occupy(n, <<>>, k) /\ res' = "ok"
    BY DEF MakeWithCapacity
  <2>2. alive' = alive + Len(<<>>) - Size(n) /\ Len(<<>>) <= k
    BY <1>1, <1>2, <1>3
  <2> QED
    BY <1>1, <1>2, <2>1, <2>2, Occupied

\* reserve() moves the elements, or does nothing.
LEMMA ReserveShows ==
    ASSUME IInv, NEW n \in Vectors, NEW k \in Nat, Reserve(n, k)
    PROVE  Shows(n, Kept(n))
<1>1. n \in Containers /\ n \notin Arrays /\ n \notin Optionals
  BY KindsOfNames DEF Containers
<1>2. /\ n \in Names /\ Made(n) /\ Kept(n) = Elements(n) /\ Elements(n) \in Seq(Held)
      /\ Len(Elements(n)) = Size(n) /\ Size(n) \in Nat /\ Size(n) <= Capacity(n) /\ Capacity(n) \in Nat
  BY <1>1, ElementsAreHeld DEF Reserve
<1>3. alive \in Int
  BY DEF IInv, Types
<1>4. CASE k <= Capacity(n)
  <2>1. n \notin hollow
    BY HollowIs
  <2> QED
    BY <1>2, <1>4, <2>1, StutterShown DEF Reserve, Shows
<1>5. CASE ~(k <= Capacity(n))
  <2>1. Occupy(n, Elements(n), k) /\ res' = "ok" /\ alive' = alive
    BY <1>5 DEF Reserve
  <2>2. alive' = alive + Len(Elements(n)) - Size(n) /\ Len(Elements(n)) <= k /\ k > Capacity(n)
    BY <1>2, <1>3, <1>5, <2>1
  <2> QED
    BY <1>1, <1>2, <2>1, <2>2, Occupied
<1> QED
  BY <1>4, <1>5

\* An object is constructed behind the others.
LEMMA ConstructShows ==
    ASSUME IInv, NEW n \in Containers, n \notin Arrays, n \notin Optionals, Made(n), NEW v \in Held,
           Construct(n, v)
    PROVE  Shows(n, Append(Kept(n), v))
<1> DEFINE s == Append(Elements(n), v)
<1>1. /\ n \in Names /\ Kept(n) = Elements(n) /\ Elements(n) \in Seq(Held)
      /\ Len(Elements(n)) = Size(n) /\ Size(n) \in Nat /\ Size(n) <= Capacity(n) /\ Capacity(n) \in Nat
      /\ Cells(n) \in Seq(Cell) /\ Len(Cells(n)) = Capacity(n)
      /\ \A i \in 1..Size(n) : Elements(n)[i] = Cells(n)[i]
      /\ obj[n].buffer = NoBuffer => Capacity(n) = 0
      /\ obj[n].buffer # NoBuffer => obj[n].buffer \in Buffers /\ Cells(n) = heap[obj[n].buffer]
  BY ElementsAreHeld
<1>2. /\ s \in Seq(Held) /\ Len(s) = Size(n) + 1 /\ s[Size(n) + 1] = v
      /\ \A i \in 1..Size(n) : s[i] = Elements(n)[i]
  BY <1>1, AppendProperties
<1>3. s \in Seq(Cell)
  BY <1>2, HeldIsCell
<1> HIDE DEF s
<1>4. alive' = alive + Len(s) - Size(n) /\ res' = "ok"
  BY <1>1, <1>2 DEF Construct, IInv, Types
<1>5. CASE Size(n) < Capacity(n)
  <2>1. obj[n].buffer # NoBuffer /\ obj[n].buffer \in Buffers /\ Cells(n) = heap[obj[n].buffer]
    BY <1>1, <1>5
  <2>2. heap' = [heap EXCEPT ![obj[n].buffer] = [Cells(n) EXCEPT ![Size(n) + 1] = v]]
    BY <1>5, <2>1 DEF Construct, IInv, Types
  <2>3. [Cells(n) EXCEPT ![Size(n) + 1] = v] = Padded(s, Capacity(n))
    <3> DEFINE c == [Cells(n) EXCEPT ![Size(n) + 1] = v]
    <3>1. DOMAIN Cells(n) = 1..Capacity(n)
      BY <1>1
    <3>2. DOMAIN c = 1..Capacity(n) /\ c = [i \in 1..Capacity(n) |-> c[i]]
      BY <3>1
    <3>3. \A i \in 1..Capacity(n) : c[i] = IF i = Size(n) + 1 THEN v ELSE Cells(n)[i]
      BY <3>1
    <3> HIDE DEF c
    <3>4. \A i \in 1..Capacity(n) : i > Size(n) => Cells(n)[i] = Raw
      BY CellsBehind
    <3>5. ASSUME NEW i \in 1..Capacity(n)
          PROVE  c[i] = IF i <= Len(s) THEN s[i] ELSE Raw
      <4>1. CASE i <= Size(n)
        BY <1>1, <1>2, <3>3, <4>1
      <4>2. CASE i = Size(n) + 1
        BY <1>1, <1>2, <3>3, <4>2
      <4>3. CASE i > Size(n) + 1
        BY <1>1, <1>2, <3>3, <3>4, <4>3
      <4> QED
        BY <1>1, <4>1, <4>2, <4>3
    <3>6. c = Padded(s, Capacity(n))
      BY <3>2, <3>5, CellsEqual
    <3> QED
      BY <3>6 DEF c
  <2>4. obj' = [obj EXCEPT ![n].size = Len(s)]
    BY <1>1, <1>2, <1>5 DEF Construct, Size, IInv, Types
  <2>5. heap' = [heap EXCEPT ![obj[n].buffer] = Padded(s, Capacity(n))]
    BY <2>2, <2>3
  <2>6. Len(s) <= Capacity(n)
    BY <1>1, <1>2, <1>5
  <2>7. Shows(n, s)
    BY <1>2, <1>4, <2>1, <2>4, <2>5, <2>6, Written
  <2> QED
    BY <1>1, <2>7 DEF s
<1>6. CASE ~(Size(n) < Capacity(n))
  <2>1. Occupy(n, s, Doubled(Capacity(n)))
    BY <1>6 DEF Construct, s
  <2>2. Doubled(Capacity(n)) \in Nat /\ Doubled(Capacity(n)) > Capacity(n)
    BY <1>1 DEF Doubled
  <2>3. Len(s) <= Doubled(Capacity(n))
    BY <1>1, <1>2, <1>6, <2>2
  <2>4. Shows(n, s)
    BY <1>2, <1>4, <2>1, <2>2, <2>3, Occupied
  <2> QED
    BY <1>1, <2>4 DEF s
<1> QED
  BY <1>5, <1>6

\* The elements behind the first k are destroyed.
LEMMA TruncateShows ==
    ASSUME IInv, NEW n \in Containers, n \notin Arrays, Made(n), NEW k \in 0..Size(n),
           n \in Optionals => Size(n) = 1, Truncate(n, k), res' = "ok"
    PROVE  Shows(n, SubSeq(Kept(n), 1, k))
<1> DEFINE s == SubSeq(Elements(n), 1, k)
<1>1. /\ n \in Names /\ Kept(n) = Elements(n) /\ Elements(n) \in Seq(Held)
      /\ Len(Elements(n)) = Size(n) /\ Size(n) \in Nat /\ Size(n) <= Capacity(n) /\ Capacity(n) \in Nat
      /\ Cells(n) \in Seq(Cell) /\ Len(Cells(n)) = Capacity(n)
      /\ \A i \in 1..Size(n) : Elements(n)[i] = Cells(n)[i]
      /\ obj[n].buffer = NoBuffer => Capacity(n) = 0
      /\ obj[n].buffer # NoBuffer => obj[n].buffer \in Buffers /\ Cells(n) = heap[obj[n].buffer]
  BY ElementsAreHeld
<1>2. k \in Nat /\ k <= Size(n)
  BY <1>1
<1>3. s \in Seq(Held) /\ Len(s) = k /\ \A i \in 1..k : s[i] = Cells(n)[i]
  <2>1. \A i \in 1..k : Elements(n)[i] \in Held
    BY <1>1, <1>2, ElementsAreHeld
  <2>2. /\ s \in Seq(Held) /\ Len(s) = IF 1 <= k THEN k - 1 + 1 ELSE 0
        /\ \A i \in 1..k - 1 + 1 : s[i] = Elements(n)[1 + i - 1]
    BY <1>1, <1>2, <2>1, SubSeqProperties
  <2>3. k - 1 + 1 = k /\ \A i \in 1..k : 1 + i - 1 = i /\ i \in 1..Size(n)
    BY <1>2, <1>1
  <2> QED
    BY <1>1, <1>2, <2>2, <2>3
<1>4. s \in Seq(Cell)
  BY <1>3, HeldIsCell
<1>5. /\ obj' = [obj EXCEPT ![n].size = k] /\ alive' = alive - (Size(n) - k)
      /\ heap' = [b \in Buffers |-> IF b = obj[n].buffer
                                      THEN Padded(SubSeq(heap[b], 1, k), Len(heap[b])) ELSE heap[b]]
      /\ heap = [b \in Buffers |-> heap[b]] /\ obj \in [Names -> Records] /\ alive \in Int
  BY DEF Truncate, IInv, Types
<1> HIDE DEF s
<1>6. alive' = alive + Len(s) - Size(n)
  BY <1>1, <1>2, <1>3, <1>5
<1>7. CASE obj[n].buffer = NoBuffer
  <2>1. Size(n) = 0 /\ k = 0
    BY <1>1, <1>2, <1>7
  <2>2. heap' = heap
    <3>1. \A b \in Buffers : b # NoBuffer
      BY NullIsNoBuffer
    <3> QED
      BY <1>5, <1>7, <3>1
  <2>3. obj' = obj
    BY <1>1, <1>5, <2>1 DEF Size, Records
  <2>4. alive' = alive
    BY <1>5, <2>1
  <2>5. s = <<>> /\ Elements(n) = <<>>
    BY <1>1, <1>3, <2>1, EmptySeq
  <2>6. n \notin hollow
    BY HollowIs DEF Containers
  <2> QED
    BY <1>1, <2>2, <2>3, <2>4, <2>5, <2>6, StutterShown DEF Shows, s
<1>8. CASE obj[n].buffer # NoBuffer
  <2> DEFINE c == SubSeq(Cells(n), 1, k)
  <2>1. c \in Seq(Cell) /\ Len(c) = k /\ \A i \in 1..k : c[i] = Cells(n)[i]
    <3>1. k \in 0..Len(Cells(n))
      BY <1>1, <1>2
    <3> QED
      BY <1>1, <3>1, FirstCells
  <2>2. heap' = [heap EXCEPT ![obj[n].buffer] = Padded(c, Capacity(n))]
    BY <1>1, <1>5, <1>8
  <2> HIDE DEF c
  <2>3. c = s
    BY <1>3, <1>4, <2>1
  <2>4. Len(s) <= Capacity(n)
    BY <1>1, <1>2, <1>3
  <2>5. Shows(n, s)
    BY <1>3, <1>5, <1>6, <1>8, <2>2, <2>3, <2>4, Written
  <2> QED
    BY <1>1, <2>5 DEF s
<1> QED
  BY <1>7, <1>8

\* Nothing of a list.
LEMMA FirstNone ==
    ASSUME NEW s \in Seq(Held)
    PROVE  SubSeq(s, 1, 0) = <<>>
<1>1. SubSeq(s, 1, 0) \in Seq(Held) /\ Len(SubSeq(s, 1, 0)) = 0
  BY SubSeqProperties
<1> QED
  BY <1>1, EmptySeq

\* clear() shows an empty list.
LEMMA ClearShows ==
    ASSUME IInv, NEW n \in Containers, n \notin Arrays, n \notin Optionals, Clear(n)
    PROVE  Shows(n, <<>>)
<1>1. Made(n) /\ Truncate(n, 0) /\ res' = "ok"
  BY DEF Clear
<1>2. Kept(n) \in Seq(Held) /\ 0 \in 0..Size(n)
  BY <1>1, ElementsAreHeld
<1> QED
  BY <1>1, <1>2, TruncateShows, FirstNone

\* So does reset() of an Optional, full or not.
LEMMA ResetShows ==
    ASSUME IInv, NEW n \in Optionals, Reset(n)
    PROVE  Shows(n, <<>>) /\ res' = "ok"
<1>1. Made(n) /\ n \in Containers /\ n \notin Arrays /\ res' = "ok"
  BY KindsOfNames DEF Reset, Containers
<1>2. /\ n \in Names /\ Kept(n) \in Seq(Held) /\ Len(Kept(n)) = Size(n)
      /\ Size(n) \in Nat /\ Size(n) <= 1
  BY <1>1, ElementsAreHeld, Knows DEF IInv, Capacity
<1>3. CASE Size(n) = 1
  <2>1. Truncate(n, 0) /\ 0 \in 0..Size(n)
    BY <1>3 DEF Reset
  <2> QED
    BY <1>1, <1>2, <1>3, <2>1, TruncateShows, FirstNone
<1>4. CASE Size(n) # 1
  <2>1. Size(n) = 0
    BY <1>2, <1>4
  <2>2. Kept(n) = <<>>
    BY <1>2, <2>1, EmptySeq
  <2>3. UNCHANGED <<heap, obj, alive>>
    BY <1>4 DEF Reset
  <2>4. n \notin hollow
    BY HollowIs
  <2> QED
    BY <1>1, <1>2, <2>2, <2>3, <2>4, StutterShown DEF Shows
<1> QED
  BY <1>3, <1>4

\* pop_back() fails on an empty list, and else takes its last element.
LEMMA PopBackShows ==
    ASSUME IInv, NEW n \in Vectors, PopBack(n)
    PROVE  \/ Size(n) = 0 /\ res' = "underflow" /\ Shows(n, Kept(n))
           \/ Size(n) # 0 /\ res' = "ok" /\ Shows(n, SubSeq(Kept(n), 1, Size(n) - 1))
<1>1. n \in Containers /\ n \notin Arrays /\ n \notin Optionals /\ Made(n)
  BY KindsOfNames DEF Containers, PopBack
<1>2. n \in Names /\ Size(n) \in Nat
  BY <1>1, ElementsAreHeld
<1>3. CASE Size(n) = 0
  <2>1. n \notin hollow
    BY HollowIs
  <2> QED
    BY <1>1, <1>2, <1>3, <2>1, StutterShown DEF PopBack, Shows
<1>4. CASE Size(n) # 0
  <2>1. Truncate(n, Size(n) - 1) /\ res' = "ok" /\ Size(n) - 1 \in 0..Size(n)
    BY <1>2, <1>4 DEF PopBack
  <2> QED
    BY <1>1, <1>4, <2>1, TruncateShows
<1> QED
  BY <1>3, <1>4

\* The first elements, and T() behind them.
Resized(s, k) == [i \in 1..k |-> IF i <= Len(s) THEN s[i] ELSE Default]

\* resize() cuts the list, or adds defaults to it.
LEMMA ResizeShows ==
    ASSUME IInv, NEW n \in Vectors, NEW k \in Nat, Resize(n, k)
    PROVE  Shows(n, Resized(Kept(n), k))
<1>1. n \in Containers /\ n \notin Arrays /\ n \notin Optionals /\ Made(n) /\ res' = "ok"
  BY KindsOfNames DEF Containers, Resize
<1>2. /\ n \in Names /\ Kept(n) = Elements(n) /\ Elements(n) \in Seq(Held)
      /\ Len(Elements(n)) = Size(n) /\ Size(n) \in Nat /\ Size(n) <= Capacity(n) /\ Capacity(n) \in Nat
      /\ \A i \in 1..Size(n) : Elements(n)[i] = Cells(n)[i] /\ Elements(n)[i] \in Held
      /\ obj[n].buffer = NoBuffer => Capacity(n) = 0
      /\ obj[n].buffer # NoBuffer => obj[n].buffer \in Buffers /\ Cells(n) = heap[obj[n].buffer]
      /\ Len(Cells(n)) = Capacity(n)
  BY <1>1, ElementsAreHeld
<1>3. CASE k <= Size(n)
  <2>1. Truncate(n, k) /\ k \in 0..Size(n)
    BY <1>2, <1>3 DEF Resize
  <2>2. Shows(n, SubSeq(Elements(n), 1, k))
    BY <1>1, <1>2, <2>1, TruncateShows
  <2>3. SubSeq(Elements(n), 1, k) = Resized(Elements(n), k)
    <3>1. /\ SubSeq(Elements(n), 1, k) = [i \in 1..k |-> Elements(n)[i]]
      BY <1>2, <1>3
    <3>2. \A i \in 1..k : i <= Len(Elements(n))
      BY <1>2, <1>3
    <3> QED
      BY <3>1, <3>2 DEF Resized
  <2> QED
    BY <1>2, <2>2, <2>3
<1>4. CASE ~(k <= Size(n))
  <2> DEFINE s == Resized(Elements(n), k)
  <2>1. s = [i \in 1..k |-> IF i <= Size(n) THEN Cells(n)[i] ELSE Default]
    BY <1>2 DEF Resized
  <2>2. s \in Seq(Held) /\ Len(s) = k
    <3>1. Default \in Held
      BY DefaultIsValue DEF Held
    <3>2. \A i \in 1..k : (IF i <= Len(Elements(n)) THEN Elements(n)[i] ELSE Default) \in Held
      BY <1>2, <3>1
    <3>3. s \in [1..k -> Held]
      BY <3>2 DEF Resized
    <3> QED
      BY <3>3
  <2>3. /\ alive' = alive + (k - Size(n)) /\ alive \in Int
        /\ IF k > Capacity(n) THEN Occupy(n, s, k)
           ELSE /\ heap' = [heap EXCEPT ![obj[n].buffer] = Padded(s, Len(@))]
                /\ obj' = [obj EXCEPT ![n].size = k]
    BY <1>4, <2>1 DEF Resize, IInv, Types
  <2> HIDE DEF s
  <2>4. alive' = alive + Len(s) - Size(n)
    BY <1>2, <2>2, <2>3
  <2>5. CASE k > Capacity(n)
    <3>1. Occupy(n, s, k) /\ Len(s) <= k
      BY <2>2, <2>3, <2>5
    <3>2. Shows(n, s)
      BY <1>1, <2>2, <2>4, <2>5, <3>1, Occupied
    <3> QED
      BY <1>2, <3>2 DEF s
  <2>6. CASE ~(k > Capacity(n))
    <3>1. obj[n].buffer # NoBuffer
      BY <1>2, <1>4, <2>6
    <3>2. heap' = [heap EXCEPT ![obj[n].buffer] = Padded(s, Capacity(n))]
      <4>1. heap' = [heap EXCEPT ![obj[n].buffer] = Padded(s, Len(@))]
        BY <2>3, <2>6
      <4>2. Len(heap[obj[n].buffer]) = Capacity(n)
        BY <1>2, <3>1
      <4> QED
        BY <4>1, <4>2
    <3>3. obj' = [obj EXCEPT ![n].size = Len(s)] /\ Len(s) <= Capacity(n)
      BY <1>2, <2>2, <2>3, <2>6
    <3>4. Shows(n, s)
      BY <1>1, <2>2, <2>4, <3>1, <3>2, <3>3, Written
    <3> QED
      BY <1>2, <3>4 DEF s
  <2> QED
    BY <2>5, <2>6
<1> QED
  BY <1>3, <1>4

\* The same value, so many times.
Copies(k, v) == [i \in 1..k |-> v]

\* Copies of a value are a list.
LEMMA CopiesAreHeld ==
    ASSUME NEW k \in Nat, NEW v \in Held
    PROVE  Copies(k, v) \in Seq(Held) /\ Len(Copies(k, v)) = k
<1>1. Copies(k, v) \in [1..k -> Held]
  BY DEF Copies
<1> QED
  BY <1>1

\* An Array is made of the list it is given.
LEMMA MakeArrayShows ==
    ASSUME IInv, NEW n \in Arrays, NEW s \in Seq(Held), Len(s) = ArraySize,
           New(n), Occupy(n, s, ArraySize), alive' = alive + ArraySize, res' = "ok"
    PROVE  Shows(n, s)
<1>1. n \in Containers /\ n \in Names /\ n \notin Optionals
  BY KindsOfNames DEF Containers
<1>2. ~Made(n) /\ Size(n) = 0 /\ ArraySize \in Nat
  BY <1>1, NewIsAbsent, SizesAreNatural DEF Made
<1>3. alive' = alive + Len(s) - Size(n)
  BY <1>2 DEF IInv, Types
<1> QED
  BY <1>1, <1>2, <1>3, Occupied

\* Every cell there is gets a value.
Fills(n, v) ==
    /\ Made(n) /\ Cells(n) # <<>>
    /\ heap' = [heap EXCEPT ![obj[n].buffer] = [i \in DOMAIN @ |-> v]] /\ res' = "ok"
    /\ UNCHANGED <<obj, alive>>

\* fill() of an Array.
LEMMA FillArrayShows ==
    ASSUME IInv, NEW n \in Arrays, NEW v \in Values, Fills(n, v)
    PROVE  Shows(n, Copies(Len(Kept(n)), v))
<1> DEFINE s == Copies(Capacity(n), v)
<1>1. /\ n \in Containers /\ n \notin Optionals /\ Made(n) /\ Cells(n) # <<>>
      /\ obj[n].buffer # NoBuffer
  BY KindsOfNames DEF Containers, Fills, Cells
<1>2. /\ n \in Names /\ Kept(n) = Elements(n)
      /\ Len(Elements(n)) = Size(n) /\ Size(n) \in Nat /\ Capacity(n) \in Nat
      /\ Cells(n) \in Seq(Cell) /\ Len(Cells(n)) = Capacity(n)
      /\ obj[n].buffer # NoBuffer => obj[n].buffer \in Buffers /\ Cells(n) = heap[obj[n].buffer]
  BY <1>1, ElementsAreHeld
<1>3. obj[n].buffer # NoBuffer
  BY <1>1 DEF Cells
<1>4. Size(n) = Capacity(n)
  BY <1>2, Knows DEF IInv, Size, Capacity
<1>5. s \in Seq(Held) /\ Len(s) = Capacity(n)
  BY <1>2, CopiesAreHeld DEF Held
<1>6. Padded(s, Capacity(n)) = [i \in 1..Capacity(n) |-> v]
  <2>1. \A i \in 1..Capacity(n) : s[i] = v /\ i <= Len(s)
    BY <1>2, <1>5 DEF Copies
  <2> QED
    BY <2>1 DEF Padded
<1>7. heap' = [heap EXCEPT ![obj[n].buffer] = Padded(s, Capacity(n))]
  <2>1. heap' = [heap EXCEPT ![obj[n].buffer] = [i \in DOMAIN @ |-> v]]
    BY DEF Fills
  <2>2. DOMAIN heap[obj[n].buffer] = 1..Capacity(n)
    BY <1>2, <1>3
  <2> QED
    BY <1>6, <2>1, <2>2
<1> HIDE DEF s
<1>8. obj' = [obj EXCEPT ![n].size = Len(s)]
  BY <1>2, <1>4, <1>5 DEF Fills, Size, IInv, Types, Records
<1>9. alive' = alive + Len(s) - Size(n) /\ res' = "ok"
  BY <1>2, <1>4, <1>5 DEF Fills, IInv, Types
<1>10. Shows(n, s)
  <2>1. Len(s) <= Capacity(n)
    BY <1>2, <1>5
  <2> QED
    BY <1>1, <1>3, <1>5, <1>7, <1>8, <1>9, <2>1, Written
<1> QED
  BY <1>2, <1>4, <1>10 DEF s

-----------------------------------------------------------------------------
(* Optionals.                                                               *)

\* The list of one value.
LEMMA OneHeld ==
    ASSUME NEW v \in Held
    PROVE  /\ <<v>> \in Seq(Held) /\ Len(<<v>>) = 1 /\ Padded(<<v>>, 1) = <<v>>
           /\ <<v>> \in Seq(Cell)
<1>1. <<v>> \in Seq(Held) /\ Len(<<v>>) = 1 /\ <<v>>[1] = v
  OBVIOUS
<1>2. Padded(<<v>>, 1) = [i \in 1..1 |-> v]
  BY <1>1 DEF Padded
<1>3. <<v>> = [i \in 1..1 |-> v]
  OBVIOUS
<1> QED
  BY <1>1, <1>2, <1>3, HeldIsCell

\* An Optional that exists has one cell, and an object or none.
LEMMA OptionalIs ==
    ASSUME IInv, NEW n \in Optionals, Made(n)
    PROVE  /\ n \in Containers /\ n \in Names /\ n \notin Arrays /\ n \notin Raws
           /\ obj[n].buffer # NoBuffer /\ Capacity(n) = 1 /\ Len(Cells(n)) = 1
           /\ Size(n) \in {0, 1} /\ Cells(n) \in Seq(Cell) /\ Filled(n, Size(n), Cells(n))
           /\ Kept(n) = Elements(n) /\ Elements(n) \in Seq(Held) /\ Len(Elements(n)) = Size(n)
           /\ Size(n) = 1 => Elements(n) = Cells(n)
           /\ Size(n) = 0 => Elements(n) = <<>>
<1>1. n \in Containers /\ n \in Names /\ n \notin Arrays /\ n \notin Raws
  BY KindsOfNames DEF Containers
<1>2. /\ obj[n].buffer # NoBuffer /\ Capacity(n) = 1 /\ Filled(n, Size(n), Cells(n))
  BY <1>1, Knows DEF IInv, Made, Capacity, Size
<1>3. /\ Kept(n) = Elements(n) /\ Elements(n) \in Seq(Held) /\ Len(Elements(n)) = Size(n)
      /\ Size(n) \in Nat /\ Size(n) <= Capacity(n)
      /\ Cells(n) \in Seq(Cell) /\ Len(Cells(n)) = Capacity(n)
      /\ \A i \in 1..Size(n) : Elements(n)[i] = Cells(n)[i]
  BY <1>1, ElementsAreHeld
<1>4. Size(n) = 1 => Elements(n) = Cells(n)
  <2> SUFFICES ASSUME Size(n) = 1 PROVE Elements(n) = Cells(n)
    OBVIOUS
  <2>1. Elements(n) \in Seq(Cell)
    BY <1>3, HeldIsCell
  <2> QED
    BY <1>2, <1>3, <2>1
<1>5. Size(n) = 0 => Elements(n) = <<>>
  BY <1>3, EmptySeq
<1> QED
  BY <1>1, <1>2, <1>3, <1>4, <1>5

\* An Optional is made of a value.
LEMMA MakeOptionalOfShows ==
    ASSUME IInv, NEW n \in Optionals, NEW v \in Held, MakeOptionalOf(n, v)
    PROVE  Shows(n, <<v>>)
<1>1. n \in Containers /\ n \in Names /\ n \notin Arrays
  BY KindsOfNames DEF Containers
<1>2. ~Made(n) /\ Size(n) = 0
  BY <1>1, NewIsAbsent DEF MakeOptionalOf, Made
<1>3. <<v>> \in Seq(Held) /\ Len(<<v>>) = 1
  BY OneHeld
<1>4. alive' = alive + Len(<<v>>) - Size(n)
  BY <1>2, <1>3 DEF MakeOptionalOf, IInv, Types
<1> QED
  <2>1. Occupy(n, <<v>>, 1) /\ res' = "ok"
    BY DEF MakeOptionalOf
  <2>2. Len(<<v>>) <= 1
    BY <1>3
  <2> QED
    BY <1>1, <1>2, <1>3, <1>4, <2>1, <2>2, Occupied

\* emplace() shows the value, whatever was there.
LEMMA EmplaceShows ==
    ASSUME IInv, NEW n \in Optionals, NEW v \in Held, Emplace(n, v)
    PROVE  Shows(n, <<v>>)
<1> DEFINE s == <<v>>
<1>1. Made(n) /\ res' = "ok" /\ obj' = [obj EXCEPT ![n].size = 1]
      /\ heap' = [heap EXCEPT ![obj[n].buffer] = s] /\ alive' = alive + 1 - Size(n)
  BY DEF Emplace
<1>2. n \in Containers /\ n \notin Arrays /\ obj[n].buffer # NoBuffer /\ Capacity(n) = 1
  BY <1>1, OptionalIs
<1>3. s \in Seq(Held) /\ Len(s) = 1 /\ Padded(s, 1) = s
  BY OneHeld
<1> HIDE DEF s
<1>4. obj' = [obj EXCEPT ![n].size = Len(s)] /\ alive' = alive + Len(s) - Size(n)
  BY <1>1, <1>3
<1>5. heap' = [heap EXCEPT ![obj[n].buffer] = Padded(s, Capacity(n))]
  BY <1>1, <1>2, <1>3
<1>6. Len(s) <= Capacity(n)
  BY <1>2, <1>3
<1>7. Shows(n, s)
  BY <1>1, <1>2, <1>3, <1>4, <1>5, <1>6, Written
<1> QED
  BY <1>7 DEF s

\* What an Optional holds when it was moved from, or stays as it is.
LEMMA LeftIsRoom ==
    ASSUME IInv, NEW m \in Optionals, Made(m)
    PROVE  /\ Room(m, Cells(m), Size(m))
           /\ Room(m, IF Size(m) = 1 THEN <<Lost>> ELSE Cells(m), 0)
<1>1. /\ m \in Containers /\ m \notin Arrays /\ m \notin Raws /\ Len(Cells(m)) = 1
      /\ Size(m) \in {0, 1} /\ Cells(m) \in Seq(Cell) /\ Filled(m, Size(m), Cells(m))
  BY OptionalIs
<1>2. Lost \in Held
  BY DEF Held
<1>3. Len(<<Lost>>) = 1 /\ <<Lost>> \in Seq(Cell)
  BY <1>2, OneHeld
<1>4. Filled(m, 0, <<Lost>>)
  BY DEF Filled
<1> QED
  BY <1>1, <1>3, <1>4 DEF Room

\* n changes to the list s and m to t, no other does.
ShowsTwo(n, m, s, t) ==
    /\ IInv' /\ n # m /\ Kept(n)' = s /\ Made(n)' /\ Kept(m)' = t /\ Made(m)'
    /\ \A k \in Names \ {n, m} : Kept(k)' = Kept(k)
    /\ hollow' = hollow
    /\ \A k \in Containers : Stays(k)
    /\ \A k \in Raws : Survives(k, Size(k)', Cells(k)')

\* What two Optionals show behind a copy or a move.
LEMMA PairShown ==
    ASSUME IInv, NEW n \in Optionals, NEW m \in Optionals, n # m, Made(m), IInv',
           NEW s, NEW from, NEW size, Seen(Size(m), s) = Kept(m),
           Cells(n)' = s, obj'[n].made, obj'[n].size = Size(m),
           Cells(m)' = from, obj'[m].made, obj'[m].size = size, obj'[m].buffer = obj[m].buffer,
           Made(n) => obj'[n].buffer = obj[n].buffer,
           \A k \in Names \ {n, m} : obj'[k] = obj[k] /\ Cells(k)' = Cells(k)
    PROVE  ShowsTwo(n, m, Kept(m), Seen(size, from))
<1>1. /\ n \in Names /\ m \in Names /\ n \notin Raws /\ m \notin Raws
      /\ n \notin Arrays /\ m \notin Arrays
  BY KindsOfNames
<1>2. \A k \in Names \ {n, m} : Kept(k)' = Kept(k) /\ Stays(k) /\ Survives(k, Size(k)', Cells(k)')
  BY SameIsKept
<1>3. Kept(n)' = Kept(m) /\ Made(n)' /\ Kept(m)' = Seen(size, from) /\ Made(m)'
  <2>1. Made(n)' /\ Size(n)' = Size(m) /\ Made(m)' /\ Size(m)' = size
    BY DEF Made, Size
  <2>2. Kept(n)' = Seen(Size(m), s) /\ Kept(m)' = Seen(size, from)
    BY <1>1, <2>1 DEF Kept, Extent
  <2> QED
    BY <2>1, <2>2
<1>4. Stays(n) /\ Stays(m)
  BY DEF Stays
<1>5. Containers \subseteq Names /\ Raws \subseteq Names
  BY DEF Names
<1>6. (\A k \in Containers : Stays(k)) /\ \A k \in Raws : Survives(k, Size(k)', Cells(k)')
  BY <1>1, <1>2, <1>4, <1>5
<1>7. hollow' = hollow
  <2>1. hollow' \ {} = hollow \ {}
    <3>1. \A k \in Names \ {} : k \in Arrays \/ k \in Raws => obj'[k] = obj[k]
      BY <1>1
    <3> QED
      BY <3>1, HollowStays
  <2> QED
    BY <2>1
<1> QED
  BY <1>2, <1>3, <1>6, <1>7 DEF ShowsTwo

\* What reset() and construction leave where a copy goes.
Placed(n, m) == IF Size(m) = 1 THEN Elements(m) ELSE IF Size(n) = 1 THEN <<Raw>> ELSE Cells(n)

\* What is placed in an Optional that is assigned to.
LEMMA PlacedIsRoom ==
    ASSUME IInv, NEW n \in Optionals, NEW m \in Optionals, Made(n), Made(m)
    PROVE  Room(n, Placed(n, m), Size(m)) /\ Seen(Size(m), Placed(n, m)) = Kept(m)
<1>1. /\ Size(m) \in {0, 1} /\ Kept(m) = Elements(m) /\ Elements(m) \in Seq(Held)
      /\ Len(Elements(m)) = Size(m) /\ (Size(m) = 0 => Elements(m) = <<>>)
  BY OptionalIs
<1>2. /\ n \notin Arrays /\ n \notin Raws /\ Size(n) \in {0, 1} /\ Cells(n) \in Seq(Cell)
      /\ Len(Cells(n)) = 1 /\ Filled(n, Size(n), Cells(n))
  BY OptionalIs
<1>3. CASE Size(m) = 1
  <2>1. Placed(n, m) = Elements(m) /\ Elements(m) \in Seq(Cell)
        /\ \A i \in 1..Len(Elements(m)) : Elements(m)[i] # Raw
    BY <1>1, <1>3, HeldIsCell DEF Placed
  <2>2. Filled(n, 1, Elements(m))
    BY <1>1, <1>3, <2>1 DEF Filled
  <2>3. Room(n, Elements(m), 1)
    BY <1>1, <1>2, <1>3, <2>1, <2>2 DEF Room
  <2>4. Padded(Elements(m), 1) = Elements(m)
    <3>1. Elements(m) = [i \in 1..1 |-> Elements(m)[i]]
      BY <1>1, <1>3
    <3>2. \A i \in 1..1 : i <= Len(Elements(m))
      BY <1>1, <1>3
    <3> QED
      BY <3>1, <3>2 DEF Padded
  <2>5. Seen(1, Elements(m)) = Elements(m)
    <3>1. Seen(Len(Elements(m)), Padded(Elements(m), 1)) = Elements(m)
      <4>1. Len(Elements(m)) <= 1
        BY <1>1, <1>3
      <4> QED
        BY <1>1, <4>1, SeenPadded
    <3> QED
      BY <1>1, <1>3, <2>4, <3>1
  <2> QED
    BY <1>1, <1>3, <2>1, <2>3, <2>5
<1>4. CASE Size(m) = 0
  <2> DEFINE s == Placed(n, m)
  <2>1. s = IF Size(n) = 1 THEN <<Raw>> ELSE Cells(n)
    BY <1>4 DEF Placed
  <2>2. s \in Seq(Cell) /\ Len(s) = 1 /\ Filled(n, 0, s)
    <3>1. CASE Size(n) = 1
      <4>1. <<Raw>> \in Seq(Cell) /\ Len(<<Raw>>) = 1
        BY RawIsCell
      <4>2. Filled(n, 0, <<Raw>>)
        BY <4>1 DEF Filled
      <4> QED
        BY <2>1, <3>1, <4>1, <4>2
    <3>2. CASE Size(n) # 1
      BY <1>2, <2>1, <3>2
    <3> QED
      BY <3>1, <3>2
  <2> HIDE DEF s
  <2>3. Room(n, s, 0)
    BY <1>2, <2>2 DEF Room
  <2>4. Seen(0, s) = <<>>
    BY <2>2, SeenIsList
  <2> QED
    BY <1>1, <1>4, <2>3, <2>4 DEF s
<1> QED
  BY <1>1, <1>3, <1>4

\* An Optional is constructed from another.
LEMMA ConstructOptionalShows ==
    ASSUME IInv, NEW n \in Optionals, NEW m \in Optionals, NEW from, NEW size,
           ConstructOptional(n, m, from, size), Room(m, from, size),
           alive' = alive + Size(m) + size - Size(n) - Size(m), res' = "ok"
    PROVE  ShowsTwo(n, m, Kept(m), Seen(size, from)) /\ ~Made(n) /\ Made(m)
<1> DEFINE s == Padded(Elements(m), 1)
<1>1. Made(m) /\ ~Made(n) /\ n # m /\ n \in Names /\ m \in Names
  BY NewIsAbsent DEF ConstructOptional, Made, Names, Containers
<1>2. /\ Size(m) \in {0, 1} /\ Kept(m) = Elements(m) /\ Elements(m) \in Seq(Held)
      /\ Len(Elements(m)) = Size(m)
  BY <1>1, OptionalIs
<1>3. Room(n, s, Size(m))
  <2>1. /\ Elements(m) \in Seq(Cell) /\ \A i \in 1..Len(Elements(m)) : Elements(m)[i] # Raw
    BY <1>2, HeldIsCell
  <2>2. n \notin Arrays /\ n \notin Raws
    BY KindsOfNames
  <2> QED
    BY <1>1, <1>2, <2>1, <2>2, RoomPadded
<1>4. Seen(Size(m), s) = Kept(m)
  BY <1>2, SeenPadded
<1>5. obj'[n].size = Size(m) /\ obj'[m].size = size
  <2>1. PICK b \in Buffers :
            obj' = [obj EXCEPT ![n] = [obj[m] EXCEPT !.buffer = b], ![m].size = size]
    BY DEF ConstructOptional
  <2>2. obj \in [Names -> Records]
    BY DEF IInv, Types
  <2>3. obj'[n] = [obj[m] EXCEPT !.buffer = b] /\ obj'[m] = [obj[m] EXCEPT !.size = size]
    BY <1>1, <2>1, <2>2
  <2> QED
    BY <1>1, <2>2, <2>3 DEF Records, Size
<1>6. alive' = alive + obj'[n].size + obj'[m].size - obj[n].size - obj[m].size
  BY <1>5 DEF Size
<1> HIDE DEF s
<1>7. /\ IInv' /\ Cells(n)' = s /\ Cells(m)' = from
      /\ obj'[n].made /\ obj'[n].size = Size(m)
      /\ obj'[m].made /\ obj'[m].size = size /\ obj'[m].buffer = obj[m].buffer
      /\ \A k \in Names \ {n, m} : obj'[k] = obj[k] /\ Cells(k)' = Cells(k)
  BY <1>3, <1>6, ConstructsInv DEF s
<1> QED
  BY <1>1, <1>4, <1>7, PairShown

\* An Optional is assigned another.
LEMMA AssignOptionalShows ==
    ASSUME IInv, NEW n \in Optionals, NEW m \in Optionals, NEW from, NEW size,
           AssignOptional(n, m, from, size), Room(m, from, size),
           alive' = alive + Size(m) + size - Size(n) - Size(m), res' = "ok"
    PROVE  ShowsTwo(n, m, Kept(m), Seen(size, from)) /\ Made(n) /\ Made(m)
<1> DEFINE s == Placed(n, m)
<1>1. Made(m) /\ Made(n) /\ n # m /\ n \in Names /\ m \in Names
  BY DEF AssignOptional, Names, Containers
<1>2. Room(n, s, Size(m)) /\ Seen(Size(m), s) = Kept(m)
  BY <1>1, PlacedIsRoom
<1>3. heap' = [heap EXCEPT ![obj[n].buffer] = s, ![obj[m].buffer] = from]
  <2>1. obj[n].buffer # NoBuffer
    BY <1>1, OptionalIs
  <2>2. Cells(n) = heap[obj[n].buffer]
    BY <2>1 DEF Cells
  <2> QED
    BY <2>2 DEF AssignOptional, Placed
<1>4. obj' = [obj EXCEPT ![n].size = Size(m), ![m].size = size] /\ obj \in [Names -> Records]
  BY DEF AssignOptional, IInv, Types
<1>5. obj'[n].size = Size(m) /\ obj'[m].size = size
  <2>1. obj'[n] = [obj[n] EXCEPT !.size = Size(m)] /\ obj'[m] = [obj[m] EXCEPT !.size = size]
    BY <1>1, <1>4
  <2> QED
    BY <1>1, <1>4, <2>1 DEF Records
<1>6. alive' = alive + obj'[n].size + obj'[m].size - obj[n].size - obj[m].size
  BY <1>5 DEF Size
<1> HIDE DEF s
<1>7. /\ IInv' /\ Cells(n)' = s /\ Cells(m)' = from
      /\ obj'[n].made /\ obj'[n].size = Size(m) /\ obj'[n].buffer = obj[n].buffer
      /\ obj'[m].made /\ obj'[m].size = size /\ obj'[m].buffer = obj[m].buffer
      /\ \A k \in Names \ {n, m} : obj'[k] = obj[k] /\ Cells(k)' = Cells(k)
  BY <1>1, <1>2, <1>3, <1>4, <1>6, AssignsInv DEF Made
<1> QED
  BY <1>1, <1>2, <1>7, PairShown

\* A copy shows what the other shows.
LEMMA CopyOptionalShows ==
    ASSUME IInv, NEW n \in Optionals, NEW m \in Optionals, CopyOptional(n, m)
    PROVE  ShowsTwo(n, m, Kept(m), Kept(m)) /\ Made(m)
<1>1. Made(m) /\ n \in Names /\ m \in Names
  BY DEF CopyOptional, ConstructOptional, AssignOptional, Names, Containers
<1>2. Room(m, Cells(m), Size(m)) /\ Seen(Size(m), Cells(m)) = Kept(m)
  BY <1>1, LeftIsRoom, KindsOfNames DEF Kept, Extent
<1>3. alive' = alive + Size(m) + Size(m) - Size(n) - Size(m)
  <2>1. Size(m) \in Int /\ Size(n) \in Int /\ alive \in Int
    BY <1>1, Knows DEF IInv, Size, Types
  <2> QED
    BY <2>1 DEF CopyOptional
<1>4. CASE ConstructOptional(n, m, Cells(m), Size(m))
  BY <1>2, <1>3, <1>4, ConstructOptionalShows DEF CopyOptional
<1>5. CASE AssignOptional(n, m, Cells(m), Size(m))
  BY <1>2, <1>3, <1>5, AssignOptionalShows DEF CopyOptional
<1> QED
  BY <1>4, <1>5 DEF CopyOptional

\* A move leaves the other empty.
LEMMA MoveOptionalShows ==
    ASSUME IInv, NEW n \in Optionals, NEW m \in Optionals, MoveOptional(n, m)
    PROVE  ShowsTwo(n, m, Kept(m), <<>>) /\ Made(m)
<1> DEFINE from == IF Size(m) = 1 THEN <<Lost>> ELSE Cells(m)
<1>1. Made(m) /\ n \in Names /\ m \in Names
  BY DEF MoveOptional, ConstructOptional, AssignOptional, Names, Containers
<1>2. Room(m, from, 0)
  BY <1>1, LeftIsRoom
<1>3. ConstructOptional(n, m, from, 0) \/ AssignOptional(n, m, from, 0)
  BY DEF MoveOptional
<1> HIDE DEF from
<1>4. Seen(0, from) = <<>>
  BY <1>2, SeenIsList DEF Room
<1>5. alive' = alive + Size(m) + 0 - Size(n) - Size(m) /\ res' = "ok"
  <2>1. Size(m) \in Int /\ Size(n) \in Int /\ alive \in Int
    BY <1>1, Knows DEF IInv, Size, Types
  <2> QED
    BY <2>1 DEF MoveOptional
<1>6. CASE ConstructOptional(n, m, from, 0)
  BY <1>2, <1>4, <1>5, <1>6, ConstructOptionalShows
<1>7. CASE AssignOptional(n, m, from, 0)
  BY <1>2, <1>4, <1>5, <1>7, AssignOptionalShows
<1> QED
  BY <1>3, <1>6, <1>7

-----------------------------------------------------------------------------
(* RawBuffers.                                                              *)

\* A sum modulo n that is not below its parts did not overflow.
LEMMA NoOverflow ==
    ASSUME NEW n \in Nat, NEW a \in 0..n, NEW b \in 0..n,
           (a + b) % (n + 1) >= a
    PROVE  (a + b) % (n + 1) = a + b /\ a + b <= n
<1> DEFINE x == a + b
           w == n + 1
           q == x \div w
           r == x % w
<1>1. x \in Nat /\ w \in Nat /\ w > 0
  OBVIOUS
<1> HIDE DEF x, w
<1>2. q \in Int /\ r \in 0..w - 1 /\ x = w * q + r
  BY <1>1
<1> HIDE DEF q, r
<1>3. CASE q = 0
  <2>1. w * q = 0
    BY <1>1, <1>3
  <2>2. x = r
    BY <1>1, <1>2, <2>1
  <2> QED
    BY <1>1, <1>2, <2>2 DEF x, w, r
<1>4. CASE q >= 1
  <2>1. w * q >= w
    BY <1>1, <1>2, <1>4
  <2>2. w * q \in Int
    BY <1>1, <1>2
  <2>3. r <= x - w
    BY <1>1, <1>2, <2>1, <2>2
  <2>4. r >= a
    BY DEF r, x, w
  <2> QED
    BY <1>1, <1>2, <2>3, <2>4 DEF x, w
<1>5. CASE q <= -1
  <2>1. w * q <= -w
    BY <1>1, <1>2, <1>5
  <2>2. w * q \in Int
    BY <1>1, <1>2
  <2>3. x <= -w + r
    BY <1>1, <1>2, <2>1, <2>2
  <2> QED
    BY <1>1, <1>2, <2>3
<1> QED
  BY <1>2, <1>3, <1>4, <1>5

\* Of a RawBuffer.
LEMMA RawIs ==
    ASSUME IInv, NEW n \in Raws
    PROVE  /\ n \in Names /\ n \notin Containers /\ n \notin Arrays /\ n \notin Optionals
           /\ Size(n) \in Nat /\ Capacity(n) \in Nat /\ Size(n) <= Capacity(n)
           /\ Capacity(n) <= SizeMax /\ SizeMax \in Nat
           /\ Cells(n) \in Seq(Cell) /\ Len(Cells(n)) \in Nat /\ Len(Cells(n)) <= Capacity(n)
           /\ Hollow(n) \/ Len(Cells(n)) = Capacity(n)
           /\ Cells(n) # <<>> => Len(Cells(n)) = Capacity(n)
           /\ obj[n].buffer = NoBuffer => Cells(n) = <<>>
           /\ Made(n) => Extent(n) = Size(n) /\ Kept(n) = Seen(Size(n), Cells(n))
           /\ Elements(n) \in Seq(Cell) /\ Len(Elements(n)) = Size(n)
<1>1. n \in Names /\ n \notin Containers /\ n \notin Arrays /\ n \notin Optionals
  BY KindsOfNames
<1>2. Cells(n) = <<>> => Len(Cells(n)) = 0
  BY EmptySeq
<1>3. Elements(n) \in Seq(Cell) /\ Len(Elements(n)) = Size(n)
  BY <1>1, ElementsAre DEF IInv
<1>4. obj[n].buffer = NoBuffer => Cells(n) = <<>>
  BY DEF Cells
<1>5. /\ Size(n) \in Nat /\ Capacity(n) \in Nat /\ Size(n) <= Capacity(n)
      /\ Capacity(n) <= SizeMax /\ SizeMax \in Nat
      /\ Cells(n) \in Seq(Cell) /\ Len(Cells(n)) \in Nat
      /\ Cells(n) # <<>> => Len(Cells(n)) = Capacity(n)
  BY <1>1, <1>4, Knows, LenProperties, SizesAreNatural DEF IInv, Size, Capacity
<1>6. ~Made(n) => Capacity(n) = 0
  BY <1>1, Knows DEF IInv, Made, Capacity, Absent
<1>7. Hollow(n) \/ Len(Cells(n)) = Capacity(n)
  <2>1. CASE obj[n].buffer = NoBuffer
    BY <1>2, <1>4, <1>5, <1>6, <2>1 DEF Hollow
  <2>2. CASE obj[n].buffer # NoBuffer
    BY <1>1, <2>2, Knows DEF IInv, Capacity
  <2> QED
    BY <2>1, <2>2
<1>8. Made(n) => Extent(n) = Size(n) /\ Kept(n) = Seen(Size(n), Cells(n))
  BY <1>1 DEF Extent, Kept
<1> QED
  BY <1>1, <1>2, <1>3, <1>4, <1>5, <1>7, <1>8

\* A copy of a RawBuffer shows what the other shows.
LEMMA CopyRawShows ==
    ASSUME IInv, NEW n \in Raws, NEW m \in Raws, CopyRaw(n, m)
    PROVE  Shows(n, Kept(m)) /\ ~Made(n) /\ Made(m)
<1> DEFINE s == Padded(Cells(m), Capacity(m))
<1>1. /\ Size(m) \in Nat /\ Capacity(m) \in Nat /\ Size(m) <= Capacity(m) /\ Capacity(m) <= SizeMax
      /\ Cells(m) \in Seq(Cell) /\ Len(Cells(m)) <= Capacity(m) /\ Len(Cells(m)) \in Nat
  BY RawIs
<1>2. n \in Names /\ n \notin Containers /\ n \notin Arrays /\ n \notin Optionals
  BY RawIs
<1>3. ~Made(n) /\ Made(m) /\ Replace(n, s, Size(m)) /\ alive' = alive /\ res' = "ok"
  BY <1>2 DEF CopyRaw, New
<1>4. /\ s \in Seq(Cell) /\ Len(s) = Capacity(m)
      /\ \A i \in 1..Capacity(m) : s[i] = IF i <= Len(Cells(m)) THEN Cells(m)[i] ELSE Raw
  BY <1>1, PaddedCells
<1> HIDE DEF s
<1>5. Room(n, s, Size(m))
  BY <1>1, <1>2, <1>4 DEF Room
<1>6. Weight(n, Size(m)) = 0 /\ Weight(n, Size(n)) = 0 /\ alive \in Int
  BY DEF Weight, IInv, Types
<1>7. Turns(n, Size(m), s)
  BY <1>2, <1>3, <1>5, <1>6, ReplaceInv
<1>8. Shows(n, Seen(Size(m), s))
  BY <1>2, <1>3, <1>7, TurnsShown DEF Survives
<1>9. Seen(Size(m), Cells(m)) = Seen(Size(m), s)
  BY <1>1, <1>4 DEF Seen
<1> QED
  BY <1>3, <1>8, <1>9, RawIs

\* resize() of a RawBuffer cuts what was appended, and keeps its bytes.
LEMMA ResizeRawShows ==
    ASSUME IInv, NEW n \in Raws, NEW k \in Nat, k <= SizeMax, ResizeRaw(n, k)
    PROVE  \E j \in 0..Size(n) : Shows(n, SubSeq(Kept(n), 1, j)) /\ Made(n)
<1> DEFINE s == Padded(Cells(n), k)
           j == Min({Size(n), k})
<1>1. /\ Size(n) \in Nat /\ Capacity(n) \in Nat /\ Size(n) <= Capacity(n)
      /\ Cells(n) \in Seq(Cell) /\ Len(Cells(n)) \in Nat /\ Len(Cells(n)) <= Capacity(n)
      /\ n \in Names /\ n \notin Containers /\ n \notin Arrays /\ n \notin Optionals
  BY RawIs
<1>2. Made(n) /\ Replace(n, s, j) /\ alive' = alive /\ res' = "ok"
  BY DEF ResizeRaw
<1>3. /\ s \in Seq(Cell) /\ Len(s) = k
      /\ \A i \in 1..k : s[i] = IF i <= Len(Cells(n)) THEN Cells(n)[i] ELSE Raw
  BY <1>1, PaddedCells
<1>4. j \in Nat /\ j <= Size(n) /\ j <= k
  BY <1>1, LeastOfTwo
<1> HIDE DEF s, j
<1>5. Room(n, s, j)
  BY <1>1, <1>3, <1>4 DEF Room
<1>6. Weight(n, j) = 0 /\ Weight(n, Size(n)) = 0 /\ alive \in Int
  BY DEF Weight, IInv, Types
<1>7. Turns(n, j, s)
  BY <1>1, <1>2, <1>5, <1>6, ReplaceInv
<1>8. Survives(n, j, s)
  <2> SUFFICES ASSUME NEW i \in 1..Len(Cells(n))
               PROVE  \/ i <= Len(s) /\ s[i] = Cells(n)[i]
                      \/ i > Len(s) /\ ResizeRaw(n, Len(s))
    BY DEF Survives
  <2>1. CASE i <= k
    BY <1>1, <1>3, <2>1
  <2>2. CASE i > k
    BY <1>3, <2>2
  <2> QED
    BY <1>1, <2>1, <2>2
<1>9. Shows(n, Seen(j, s))
  BY <1>1, <1>7, <1>8, TurnsShown
<1>10. Seen(j, s) = SubSeq(Kept(n), 1, j)
  <2>1. /\ Kept(n) \in Seq(Held) /\ Len(Kept(n)) = Size(n) /\ Kept(n) = Seen(Size(n), Cells(n))
    BY <1>1, <1>2, SeenIsList, RawIs DEF Held
  <2>2. SubSeq(Kept(n), 1, j) = [i \in 1..j |-> Kept(n)[i]]
    BY <1>1, <1>4, <2>1
  <2>3. Seen(j, s) = [i \in 1..j |-> Seen(j, s)[i]]
    BY DEF Seen
  <2>4. \A i \in 1..j : Seen(j, s)[i] = Kept(n)[i]
    BY <1>1, <1>3, <1>4, <2>1 DEF Seen
  <2> QED
    BY <2>2, <2>3, <2>4
<1> QED
  BY <1>1, <1>2, <1>4, <1>9, <1>10

\* memset() of a RawBuffer.
LEMMA FillRawShows ==
    ASSUME IInv, NEW n \in Raws, NEW v \in Values, Fills(n, v)
    PROVE  /\ IInv' /\ Kept(n)' = Copies(Len(Kept(n)), v) /\ Made(n)' /\ Made(n)
           /\ \A k \in Names \ {n} : /\ Kept(k)' = Kept(k) /\ Stays(k)
                                      /\ Survives(k, Size(k)', Cells(k)')
<1> DEFINE s == Copies(Capacity(n), v)
<1>1. /\ Size(n) \in Nat /\ Capacity(n) \in Nat /\ Size(n) <= Capacity(n) /\ Capacity(n) <= SizeMax
      /\ n \in Names /\ n \notin Containers /\ n \notin Arrays /\ n \notin Optionals
      /\ Cells(n) \in Seq(Cell) /\ (Cells(n) # <<>> => Len(Cells(n)) = Capacity(n))
  BY RawIs
<1>2. Made(n) /\ Cells(n) # <<>> /\ alive' = alive /\ res' = "ok" /\ obj' = obj
  BY DEF Fills
<1>3. obj[n].buffer # NoBuffer /\ Cells(n) = heap[obj[n].buffer] /\ Len(Cells(n)) = Capacity(n)
  BY <1>1, <1>2 DEF Cells
<1>4. s \in Seq(Held) /\ Len(s) = Capacity(n)
  BY <1>1, CopiesAreHeld DEF Held
<1>5. s \in Seq(Cell)
  BY <1>4, HeldIsCell
<1>6. heap' = [heap EXCEPT ![obj[n].buffer] = s]
  <2>1. heap' = [heap EXCEPT ![obj[n].buffer] = [i \in DOMAIN @ |-> v]]
    BY DEF Fills
  <2>2. DOMAIN heap[obj[n].buffer] = 1..Capacity(n)
    BY <1>1, <1>3
  <2> QED
    BY <2>1, <2>2 DEF Copies
<1>7. \A i \in 1..Capacity(n) : s[i] = v
  BY DEF Copies
<1> HIDE DEF s
<1>8. Room(n, s, Size(n))
  BY <1>1, <1>4, <1>5 DEF Room
<1>9. Writes(n, s, Size(n))
  <2>1. obj' = [obj EXCEPT ![n].size = Size(n)]
    BY <1>1, <1>2 DEF Size, IInv, Types, Records
  <2> QED
    BY <1>3, <1>6, <2>1 DEF Writes
<1>10. Weight(n, Size(n)) = 0 /\ alive \in Int
  BY DEF Weight, IInv, Types
<1>11. Turns(n, Size(n), s)
  BY <1>1, <1>2, <1>4, <1>8, <1>9, <1>10, WritesInv
<1>12. /\ IInv' /\ Cells(n)' = s /\ obj'[n].made /\ obj'[n].size = Size(n)
       /\ \A k \in Names \ {n} : obj'[k] = obj[k] /\ Cells(k)' = Cells(k)
  BY <1>11 DEF Turns
<1>13. \A k \in Names \ {n} : /\ Kept(k)' = Kept(k) /\ Stays(k)
                               /\ Survives(k, Size(k)', Cells(k)')
  BY <1>12, SameIsKept
<1>14. Kept(n)' = Seen(Size(n), s) /\ Made(n)'
  BY <1>1, <1>12 DEF Kept, Extent, Made, Size
<1>15. Len(Kept(n)) = Size(n)
  BY <1>1, <1>2, SeenIsList, RawIs
<1>16. Seen(Size(n), s) = Copies(Size(n), v)
  <2>1. v # Raw
    BY ValuesDistinct
  <2> QED
    BY <1>1, <1>4, <1>7, <2>1 DEF Seen, Copies
<1> QED
  BY <1>2, <1>12, <1>13, <1>14, <1>15, <1>16

\* The size behind resizeIfNeeded has room, and does not overflow either.
LEMMA FittedIsRoom ==
    ASSUME IInv, NEW n \in Raws, NEW sum \in 0..SizeMax
    PROVE  /\ Fitted(n, sum) \in Nat /\ sum <= Fitted(n, sum) /\ Fitted(n, sum) <= SizeMax
           /\ Fitted(n, sum) < Capacity(n) => /\ Fitted(n, sum) = sum
                                              /\ sum < Capacity(n) \div 2
<1>1. Capacity(n) \in Nat /\ Capacity(n) <= SizeMax /\ SizeMax \in Nat
  BY RawIs
<1>2. CASE sum > Capacity(n)
  <2> DEFINE d == (2 * Capacity(n)) % (SizeMax + 1)
             k == Max({sum, d})
  <2>1. d \in Nat /\ d <= SizeMax
    BY <1>1
  <2> HIDE DEF d
  <2>2. k \in {sum, d} /\ k >= sum /\ k \in Nat
    BY <2>1, GreatestOfTwo
  <2> HIDE DEF k
  <2>3. Fitted(n, sum) = k
    BY <1>2 DEF Fitted, k, d
  <2> QED
    BY <1>1, <1>2, <2>1, <2>2, <2>3
<1>3. CASE ~(sum > Capacity(n)) /\ sum < Capacity(n) \div 2
  <2>1. Fitted(n, sum) = sum
    BY <1>3 DEF Fitted
  <2> QED
    BY <1>1, <1>3, <2>1
<1>4. CASE ~(sum > Capacity(n)) /\ ~(sum < Capacity(n) \div 2)
  <2>1. Fitted(n, sum) = Capacity(n)
    BY <1>4 DEF Fitted
  <2> QED
    BY <1>1, <1>4, <2>1
<1> QED
  BY <1>2, <1>3, <1>4

\* What append() may lose of bytes that were in the buffer itself.
Appended(s, t, own) == t = s \/ (own /\ t = [i \in DOMAIN s |-> Lost])

\* append() fails, goes through a null pointer, has nothing to add, or adds what
\* it was given or is left of it.
LEMMA AppendBytesShows ==
    ASSUME IInv, NEW n \in Raws, NEW s \in Seq(Cell), Len(s) <= SizeMax, NEW own \in BOOLEAN,
           NEW null \in BOOLEAN, null => hollow # {}, AppendBytes(n, s, own, null)
    PROVE  /\ Made(n)
           /\ \/ res' = "noSpace" /\ UNCHANGED <<heap, obj, alive>>
              \/ Panics /\ hollow # {}
              \/ res' = "ok" /\ s = <<>> /\ UNCHANGED <<heap, obj, alive>>
              \/ /\ res' = "ok" /\ Size(n) + Len(s) <= SizeMax
                 /\ \E t \in Seq(Cell) : /\ Appended(s, t, own) /\ Len(t) = Len(s)
                                         /\ Shows(n, Kept(n) \o Seen(Len(s), t))
<1> DEFINE sum == (Size(n) + Len(s)) % (SizeMax + 1)
           k == Fitted(n, sum)
           through == s # <<>> /\ (null \/ (Hollow(n) /\ k = Capacity(n)))
           t == IF own /\ k # Capacity(n) THEN [i \in DOMAIN s |-> Lost] ELSE s
           cells == [i \in 1..k |-> IF i \in Size(n) + 1..sum THEN t[i - Size(n)]
                                    ELSE Padded(Cells(n), k)[i]]
<1>1. /\ n \in Names /\ n \notin Containers /\ n \notin Arrays /\ n \notin Optionals
      /\ Size(n) \in Nat /\ Capacity(n) \in Nat /\ Size(n) <= Capacity(n)
      /\ Capacity(n) <= SizeMax /\ SizeMax \in Nat /\ Cells(n) \in Seq(Cell)
      /\ Len(Cells(n)) \in Nat /\ Len(Cells(n)) <= Capacity(n)
      /\ Hollow(n) \/ Len(Cells(n)) = Capacity(n)
      /\ Cells(n) # <<>> => Len(Cells(n)) = Capacity(n)
  BY RawIs
<1>2. Len(s) \in Nat
  BY LenProperties
<1>3. /\ Made(n)
      /\ \/ res' = "noSpace" /\ UNCHANGED <<heap, obj, alive>>
         \/ through /\ Panics
         \/ /\ sum >= Len(s) /\ sum >= Size(n) /\ ~through /\ res' = "ok" /\ alive' = alive
            /\ IF k # Capacity(n) THEN Replace(n, cells, sum)
               ELSE /\ heap' = [b \in Buffers |-> IF b = obj[n].buffer THEN cells ELSE heap[b]]
                    /\ obj' = [obj EXCEPT ![n].size = sum]
  BY DEF AppendBytes
<1>4. t \in Seq(Cell) /\ Len(t) = Len(s) /\ Appended(s, t, own)
  <2>1. CASE own /\ k # Capacity(n)
    <3>1. t = [i \in DOMAIN s |-> Lost] /\ DOMAIN s = 1..Len(s)
      BY <2>1, LenProperties
    <3>2. t \in [1..Len(s) -> Cell]
      BY <3>1, RawIsCell
    <3> QED
      BY <1>2, <2>1, <3>1, <3>2 DEF Appended
  <2>2. CASE ~(own /\ k # Capacity(n))
    BY <2>2 DEF Appended
  <2> QED
    BY <2>1, <2>2
<1>5. CASE through /\ Panics
  <2>1. hollow # {}
    BY <1>1, <1>5 DEF hollow
  <2> QED
    BY <1>3, <1>5, <2>1
<1>6. CASE /\ sum >= Len(s) /\ sum >= Size(n) /\ ~through /\ res' = "ok" /\ alive' = alive
           /\ IF k # Capacity(n) THEN Replace(n, cells, sum)
              ELSE /\ heap' = [b \in Buffers |-> IF b = obj[n].buffer THEN cells ELSE heap[b]]
                   /\ obj' = [obj EXCEPT ![n].size = sum]
  <2>1. sum = Size(n) + Len(s) /\ sum <= SizeMax /\ sum \in 0..SizeMax
    <3>1. Size(n) \in 0..SizeMax /\ Len(s) \in 0..SizeMax
      BY <1>1, <1>2
    <3>2. sum \in 0..SizeMax
      BY <1>1, <1>2
    <3>3. sum >= Size(n)
      BY <1>6
    <3> QED
      BY <1>1, <3>1, <3>2, <3>3, NoOverflow
  <2>2. /\ k \in Nat /\ sum <= k /\ k <= SizeMax
        /\ k < Capacity(n) => k = sum /\ sum < Capacity(n) \div 2
    BY <2>1, FittedIsRoom
  <2> HIDE DEF sum, k, t
  <2>3. /\ Padded(Cells(n), k) \in Seq(Cell) /\ Len(Padded(Cells(n), k)) = k
        /\ \A i \in 1..k : Padded(Cells(n), k)[i] = IF i <= Len(Cells(n)) THEN Cells(n)[i] ELSE Raw
    BY <1>1, <2>2, PaddedCells
  <2>4. cells \in Seq(Cell) /\ Len(cells) = k
    <3>1. \A i \in Size(n) + 1..sum : t[i - Size(n)] \in Cell
      <4> SUFFICES ASSUME NEW i \in Size(n) + 1..sum PROVE t[i - Size(n)] \in Cell
        OBVIOUS
      <4>1. i - Size(n) \in 1..Len(t)
        BY <1>1, <1>2, <1>4, <2>1
      <4> QED
        BY <1>4, <4>1, ElementOfSeq
    <3>2. \A i \in 1..k : Padded(Cells(n), k)[i] \in Cell
      BY <2>3, ElementOfSeq
    <3>3. cells \in [1..k -> Cell]
      BY <3>1, <3>2
    <3> QED
      BY <2>2, <3>3
  <2>5. /\ \A i \in Size(n) + 1..sum : i \in 1..k => cells[i] = t[i - Size(n)]
        /\ \A i \in 1..k : i \notin Size(n) + 1..sum => cells[i] = Padded(Cells(n), k)[i]
    OBVIOUS
  <2> HIDE DEF cells
  <2>6. Room(n, cells, sum)
    BY <1>1, <2>1, <2>2, <2>4 DEF Room
  <2>7. Weight(n, sum) = 0 /\ Weight(n, Size(n)) = 0 /\ alive \in Int
    BY DEF Weight, IInv, Types
  <2>8. \/ Turns(n, sum, cells)
        \/ s = <<>> /\ UNCHANGED <<heap, obj, alive>>
    <3>1. CASE k # Capacity(n)
      <4>1. Replace(n, cells, sum) /\ res' = "ok" /\ alive' = alive
        BY <1>6, <3>1 DEF sum, k, t, cells
      <4> QED
        BY <1>1, <2>6, <2>7, <4>1, ReplaceInv
    <3>2. CASE k = Capacity(n)
      <4>1. /\ heap' = [b \in Buffers |-> IF b = obj[n].buffer THEN cells ELSE heap[b]]
            /\ obj' = [obj EXCEPT ![n].size = sum] /\ res' = "ok" /\ alive' = alive
        BY <1>6, <3>2 DEF sum, k, t, cells
      <4>2. heap = [b \in Buffers |-> heap[b]] /\ obj \in [Names -> Records]
        BY DEF IInv, Types
      <4>3. CASE obj[n].buffer # NoBuffer
        <5>1. obj[n].buffer \in Buffers
          BY <1>1, <4>3, Knows DEF IInv
        <5>2. heap' = [heap EXCEPT ![obj[n].buffer] = cells]
          BY <4>1, <4>2, <5>1
        <5>3. Writes(n, cells, sum) /\ Len(cells) = Capacity(n)
          BY <2>4, <3>2, <4>1, <4>3, <5>2 DEF Writes
        <5> QED
          BY <1>1, <2>6, <2>7, <4>1, <5>3, WritesInv
      <4>4. CASE obj[n].buffer = NoBuffer
        <5>1. s = <<>>
          <6>1. CASE Hollow(n)
            BY <1>6, <3>2, <6>1 DEF k, sum
          <6>2. CASE ~Hollow(n)
            <7>1. Capacity(n) = 0
              BY <1>1, <1>3, <4>4, <6>2 DEF Hollow
            <7>2. Len(s) = 0
              BY <1>1, <1>2, <2>1, <2>2, <3>2, <7>1
            <7> QED
              BY <7>2, EmptySeq
          <6> QED
            BY <6>1, <6>2
        <5>2. Len(s) = 0
          BY <5>1, EmptySeq
        <5>3. sum = Size(n)
          BY <1>1, <2>1, <5>2
        <5>4. obj' = obj
          BY <1>1, <4>1, <4>2, <5>3 DEF Size, Records
        <5>5. heap' = heap
          <6>1. \A b \in Buffers : b # obj[n].buffer
            BY <4>4, NullIsNoBuffer
          <6>2. heap' = [b \in Buffers |-> heap[b]]
            BY <4>1, <6>1
          <6> QED
            BY <4>2, <6>2
        <5> QED
          BY <4>1, <5>1, <5>4, <5>5
      <4> QED
        BY <4>3, <4>4
    <3> QED
      BY <3>1, <3>2
  <2>9. Survives(n, sum, cells)
    <3> SUFFICES ASSUME NEW i \in 1..Len(Cells(n))
                 PROVE  \/ i \in Size(n) + 1..sum
                        \/ i <= Len(cells) /\ cells[i] = Cells(n)[i]
                        \/ /\ i > Len(cells) /\ Len(cells) = sum
                           /\ sum < Len(Cells(n)) \div 2
      BY DEF Survives
    <3>1. Len(Cells(n)) = Capacity(n)
      <4>1. Cells(n) # <<>>
        BY <1>1, EmptySeq
      <4> QED
        BY <1>1, <4>1
    <3>2. CASE i <= k
      BY <2>3, <2>4, <2>5, <3>1, <3>2, <1>1
    <3>3. CASE i > k
      <4>1. k < Capacity(n)
        BY <1>1, <2>2, <3>1, <3>3
      <4> QED
        BY <2>2, <2>4, <3>1, <3>3, <4>1
    <3> QED
      BY <2>2, <3>2, <3>3
  <2>10. ASSUME Turns(n, sum, cells) PROVE Shows(n, Seen(sum, cells))
    BY <1>1, <2>9, <2>10, TurnsShown
  <2>11. Seen(sum, cells) = Kept(n) \o Seen(Len(s), t)
    <3> DEFINE a == Kept(n)
               b == Seen(Len(s), t)
    <3>1. a = Seen(Size(n), Cells(n)) /\ a \in Seq(Held) /\ Len(a) = Size(n)
      BY <1>1, <1>3, SeenIsList, RawIs DEF Held
    <3>2. b \in Seq(Held) /\ Len(b) = Len(s)
      BY <1>2, <1>4, SeenIsList DEF Held
    <3>3. Seen(sum, cells) = [i \in 1..sum |-> Seen(sum, cells)[i]]
      BY DEF Seen
    <3>4. \A i \in 1..Size(n) : Seen(sum, cells)[i] = a[i]
      <4> SUFFICES ASSUME NEW i \in 1..Size(n) PROVE Seen(sum, cells)[i] = a[i]
        OBVIOUS
      <4>1. i \in 1..k /\ i \in 1..sum /\ i \notin Size(n) + 1..sum
        BY <1>1, <1>2, <2>1, <2>2
      <4>2. /\ cells[i] = IF i <= Len(Cells(n)) THEN Cells(n)[i] ELSE Raw
            /\ ~(i > Len(cells)) /\ (i > Len(Cells(n)) <=> ~(i <= Len(Cells(n))))
        BY <1>1, <2>2, <2>3, <2>4, <2>5, <4>1
      <4> QED
        BY <3>1, <4>1, <4>2 DEF Seen
    <3>5. \A i \in 1..Len(s) : Seen(sum, cells)[Size(n) + i] = b[i]
      <4> SUFFICES ASSUME NEW i \in 1..Len(s) PROVE Seen(sum, cells)[Size(n) + i] = b[i]
        OBVIOUS
      <4> DEFINE j == Size(n) + i
      <4>1. j \in 1..k /\ j \in 1..sum /\ j \in Size(n) + 1..sum /\ j - Size(n) = i
        BY <1>1, <1>2, <2>1, <2>2
      <4> HIDE DEF j
      <4>2. cells[j] = t[i] /\ ~(j > Len(cells)) /\ ~(i > Len(t))
        BY <1>2, <1>4, <2>2, <2>4, <2>5, <4>1
      <4>3. Seen(sum, cells)[j] = b[i]
        BY <4>1, <4>2 DEF Seen
      <4> QED
        BY <4>3 DEF j
    <3> HIDE DEF a, b
    <3>6. /\ Len(a \o b) = sum /\ a \o b = [i \in 1..sum |-> (a \o b)[i]]
          /\ \A i \in 1..sum : (a \o b)[i] = IF i <= Size(n) THEN a[i] ELSE b[i - Size(n)]
      <4>1. /\ a \o b \in Seq(Held) /\ Len(a \o b) = Len(a) + Len(b)
            /\ \A i \in 1..Len(a) + Len(b) :
                   (a \o b)[i] = IF i <= Len(a) THEN a[i] ELSE b[i - Len(a)]
        BY <3>1, <3>2, ConcatProperties
      <4>2. Len(a) + Len(b) = sum /\ Len(a) = Size(n)
        BY <2>1, <3>1, <3>2
      <4> DEFINE c == a \o b
      <4>3. /\ c \in Seq(Held) /\ Len(c) = sum
            /\ \A i \in 1..sum : c[i] = IF i <= Size(n) THEN a[i] ELSE b[i - Size(n)]
        BY <4>1, <4>2
      <4> HIDE DEF c
      <4>4. c = [i \in 1..sum |-> c[i]]
        BY <4>3
      <4> QED
        BY <4>3, <4>4 DEF c
    <3>7. ASSUME NEW i \in 1..sum PROVE Seen(sum, cells)[i] = (a \o b)[i]
      <4>1. CASE i <= Size(n)
        <5>1. i \in 1..Size(n)
          BY <1>1, <4>1
        <5> QED
          BY <3>4, <3>6, <4>1, <5>1
      <4>2. CASE ~(i <= Size(n))
        <5>1. i - Size(n) \in 1..Len(s) /\ Size(n) + (i - Size(n)) = i
          BY <1>1, <1>2, <2>1, <4>2
        <5>2. Seen(sum, cells)[Size(n) + (i - Size(n))] = b[i - Size(n)]
          BY <3>5, <5>1
        <5> QED
          BY <3>6, <4>2, <5>1, <5>2
      <4> QED
        BY <4>1, <4>2
    <3> QED
      BY <3>3, <3>6, <3>7 DEF a, b
  <2> QED
    BY <1>2, <1>3, <1>4, <1>6, <2>1, <2>8, <2>10, <2>11 DEF sum, k, cells
<1> QED
  BY <1>3, <1>5, <1>6

\* Bytes that were appended, as they are seen.
LEMMA SeenFirst ==
    ASSUME IInv, NEW n \in Raws, Made(n), NEW k \in 0..Size(n)
    PROVE  /\ SubSeq(Elements(n), 1, k) \in Seq(Cell) /\ Len(SubSeq(Elements(n), 1, k)) = k
           /\ Seen(k, SubSeq(Elements(n), 1, k)) = SubSeq(Kept(n), 1, k)
           /\ Seen(Size(n), Elements(n)) = Kept(n)
           /\ Kept(n) \in Seq(Held) /\ Len(Kept(n)) = Size(n)
<1>1. /\ n \in Names /\ Size(n) \in Nat /\ k \in Nat /\ k <= Size(n)
      /\ Elements(n) \in Seq(Cell) /\ Len(Elements(n)) = Size(n)
      /\ Cells(n) \in Seq(Cell) /\ Len(Cells(n)) \in Nat
  BY RawIs
<1>2. \A i \in 1..Size(n) : Elements(n)[i] = IF i <= Len(Cells(n)) THEN Cells(n)[i] ELSE Raw
  BY <1>1, ElementsAre DEF IInv
<1> DEFINE e == Elements(n)
           s == SubSeq(e, 1, k)
<1>3. s \in Seq(Cell) /\ Len(s) = k /\ \A i \in 1..k : s[i] = e[i]
  <2>1. k \in 0..Len(e)
    BY <1>1
  <2> QED
    BY <1>1, <2>1, FirstCells
<1>4. /\ Kept(n) = Seen(Size(n), Cells(n)) /\ Kept(n) \in Seq(Held) /\ Len(Kept(n)) = Size(n)
  BY <1>1, SeenIsList, RawIs DEF Held
<1>5. \A i \in 1..Size(n) : Kept(n)[i] = IF e[i] = Raw THEN Lost ELSE e[i]
  BY <1>1, <1>2, <1>4 DEF Seen
<1> HIDE DEF e, s
<1>6. Seen(Size(n), e) = Kept(n)
  <2>1. Seen(Size(n), e) = [i \in 1..Size(n) |-> Seen(Size(n), e)[i]]
    BY DEF Seen
  <2>2. Kept(n) = [i \in 1..Size(n) |-> Kept(n)[i]]
    BY <1>4
  <2>3. \A i \in 1..Size(n) : Seen(Size(n), e)[i] = Kept(n)[i]
    BY <1>1, <1>5 DEF Seen, e
  <2> QED
    BY <2>1, <2>2, <2>3
<1>7. Seen(k, s) = SubSeq(Kept(n), 1, k)
  <2>1. Seen(k, s) = [i \in 1..k |-> Seen(k, s)[i]]
    BY DEF Seen
  <2>2. SubSeq(Kept(n), 1, k) = [i \in 1..k |-> Kept(n)[i]]
    BY <1>1, <1>4
  <2>3. \A i \in 1..k : Seen(k, s)[i] = Kept(n)[i]
    <3>1. \A i \in 1..k : i \in 1..Size(n) /\ ~(i > Len(s))
      BY <1>1, <1>3
    <3>2. \A i \in 1..k : Seen(k, s)[i] = IF s[i] = Raw THEN Lost ELSE s[i]
      BY <3>1 DEF Seen
    <3> QED
      BY <1>3, <1>5, <3>1, <3>2
  <2> QED
    BY <2>1, <2>2, <2>3
<1> QED
  BY <1>3, <1>4, <1>6, <1>7 DEF e, s

\* Copies of a value are seen as they are.
LEMMA SeenCopies ==
    ASSUME NEW k \in Nat, NEW v \in Held
    PROVE  Seen(k, Copies(k, v)) = Copies(k, v)
<1>1. v # Raw
  BY ValuesDistinct DEF Held
<1>2. Len(Copies(k, v)) = k /\ \A i \in 1..k : Copies(k, v)[i] = v
  BY CopiesAreHeld DEF Copies
<1>3. \A i \in 1..k : Seen(k, Copies(k, v))[i] = Copies(k, v)[i]
  BY <1>1, <1>2 DEF Seen
<1> QED
  BY <1>3 DEF Seen, Copies

\* The append failed, panicked or did nothing; or it is of the bytes s, or of what
\* is left of them.
Joined(n, s, own) ==
    \/ res' = "noSpace" /\ UNCHANGED <<heap, obj, alive>>
    \/ Panics /\ hollow # {}
    \/ res' = "ok" /\ UNCHANGED <<heap, obj, alive>>
    \/ /\ res' = "ok" /\ Len(Kept(n)) + Len(s) <= SizeMax
       /\ Shows(n, Kept(n) \o s) \/ (own /\ Shows(n, Kept(n) \o Copies(Len(s), Lost)))

\* append() of bytes that are seen as a list.
LEMMA AppendJoins ==
    ASSUME IInv, NEW n \in Raws, NEW s \in Seq(Cell), Len(s) <= SizeMax, NEW own \in BOOLEAN,
           NEW null \in BOOLEAN, null => hollow # {}, AppendBytes(n, s, own, null)
    PROVE  Made(n) /\ Joined(n, Seen(Len(s), s), own)
<1>1. Made(n) /\ Len(s) \in Nat
  BY AppendBytesShows, LenProperties
<1>2. Len(Seen(Len(s), s)) = Len(s) /\ Len(Kept(n)) = Size(n)
  <2>1. Size(n) \in Nat /\ Cells(n) \in Seq(Cell)
    BY RawIs
  <2> QED
    BY <1>1, <2>1, SeenIsList, RawIs
<1>3. CASE \/ res' = "noSpace" /\ UNCHANGED <<heap, obj, alive>>
           \/ Panics /\ hollow # {}
           \/ res' = "ok" /\ s = <<>> /\ UNCHANGED <<heap, obj, alive>>
  BY <1>1, <1>3 DEF Joined
<1>4. ASSUME res' = "ok", Size(n) + Len(s) <= SizeMax,
             NEW t \in Seq(Cell), Appended(s, t, own), Len(t) = Len(s),
             Shows(n, Kept(n) \o Seen(Len(s), t))
      PROVE  Joined(n, Seen(Len(s), s), own)
  <2>1. CASE t = s
    BY <1>2, <1>4, <2>1 DEF Joined
  <2>2. CASE own /\ t = [i \in DOMAIN s |-> Lost]
    <3>1. t = Copies(Len(s), Lost)
      BY <1>1, <2>2, LenProperties DEF Copies
    <3>2. Seen(Len(s), t) = Copies(Len(s), Lost)
      BY <1>1, <3>1, SeenCopies DEF Held
    <3> QED
      BY <1>2, <1>4, <2>2, <3>2 DEF Joined
  <2> QED
    BY <1>4, <2>1, <2>2 DEF Appended
<1> QED
  BY <1>1, <1>3, <1>4, AppendBytesShows

\* append() of a view.
LEMMA AppendViewShows ==
    ASSUME IInv, NEW n \in Raws, NEW k \in 0..SizeMax, NEW v \in Values, AppendView(n, k, v)
    PROVE  Made(n) /\ Joined(n, Copies(k, v), FALSE)
<1>1. k \in Nat /\ k <= SizeMax /\ v \in Held
  BY SizesAreNatural DEF Held
<1>2. Copies(k, v) \in Seq(Cell) /\ Len(Copies(k, v)) = k
  BY <1>1, CopiesAreHeld, HeldIsCell
<1>3. AppendBytes(n, Copies(k, v), FALSE, FALSE)
  BY DEF AppendView, Copies
<1> QED
  BY <1>1, <1>2, <1>3, AppendJoins, SeenCopies

\* append() of a part of the buffer itself.
LEMMA AppendOwnShows ==
    ASSUME IInv, NEW n \in Raws, NEW k \in 1..SizeMax, AppendOwn(n, k)
    PROVE  /\ Made(n) /\ k <= Len(Kept(n)) /\ Joined(n, SubSeq(Kept(n), 1, k), TRUE)
           /\ Len(SubSeq(Kept(n), 1, k)) = k
<1> DEFINE s == SubSeq(Elements(n), 1, k)
<1>1. k <= Size(n) /\ AppendBytes(n, s, TRUE, Hollow(n)) /\ Made(n)
  BY DEF AppendOwn, AppendBytes
<1>2. k \in 0..Size(n) /\ Size(n) \in Nat
  BY <1>1, RawIs
<1>3. /\ s \in Seq(Cell) /\ Len(s) = k /\ Seen(k, s) = SubSeq(Kept(n), 1, k)
      /\ Kept(n) \in Seq(Held) /\ Len(Kept(n)) = Size(n)
  BY <1>1, <1>2, SeenFirst
<1>4. Len(s) <= SizeMax
  BY <1>3, SizesAreNatural
<1>5. Len(Seen(k, s)) = k
  BY <1>2, <1>3, SeenIsList
<1> HIDE DEF s
<1>6. Joined(n, Seen(Len(s), s), TRUE)
  <2>1. Hollow(n) \in BOOLEAN /\ (Hollow(n) => hollow # {})
    BY RawIs, KindsOfNames DEF hollow, Hollow, Made
  <2> QED
    BY <1>1, <1>3, <1>4, <2>1, AppendJoins
<1> QED
  BY <1>1, <1>3, <1>5, <1>6

\* append() of another RawBuffer.
LEMMA AppendRawShows ==
    ASSUME IInv, NEW n \in Raws, NEW m \in Raws, AppendRaw(n, m)
    PROVE  /\ Made(n) /\ Made(m)
           /\ \E s \in Seq(Held) : Joined(n, s, n = m) /\ (Kept(m) # <<>> => s = Kept(m))
<1> DEFINE s == IF Size(m) > 0 THEN Elements(m) ELSE Padded(Cells(m), Capacity(m))
<1>1. Made(m) /\ AppendBytes(n, s, n = m, Hollow(m))
  BY DEF AppendRaw
<1>2. /\ Size(m) \in Nat /\ Size(m) <= SizeMax /\ Elements(m) \in Seq(Cell)
      /\ Len(Elements(m)) = Size(m) /\ Padded(Cells(m), Capacity(m)) \in Seq(Cell)
      /\ Len(Padded(Cells(m), Capacity(m))) \in Nat
      /\ Len(Padded(Cells(m), Capacity(m))) <= SizeMax
  <2>1. /\ Size(m) \in Nat /\ Size(m) <= Capacity(m) /\ Capacity(m) \in Nat
        /\ Capacity(m) <= SizeMax /\ SizeMax \in Nat /\ Cells(m) \in Seq(Cell)
        /\ Elements(m) \in Seq(Cell) /\ Len(Elements(m)) = Size(m)
    BY RawIs
  <2>2. /\ Padded(Cells(m), Capacity(m)) \in Seq(Cell)
        /\ Len(Padded(Cells(m), Capacity(m))) = Capacity(m)
    BY <2>1, PaddedCells
  <2> QED
    BY <2>1, <2>2
<1>3. s \in Seq(Cell) /\ Len(s) <= SizeMax /\ Len(s) \in Nat
  BY <1>2
<1>4. 0 \in 0..Size(m)
  BY <1>2
<1>5. /\ Kept(m) \in Seq(Held) /\ Len(Kept(m)) = Size(m)
      /\ Seen(Size(m), Elements(m)) = Kept(m)
  BY <1>1, <1>4, SeenFirst
<1>6. Kept(m) # <<>> => Size(m) > 0
  BY <1>2, <1>5, EmptySeq
<1>7. Kept(m) # <<>> => Seen(Len(s), s) = Kept(m)
  BY <1>2, <1>5, <1>6
<1> HIDE DEF s
<1>8. Made(n) /\ Joined(n, Seen(Len(s), s), n = m)
  <2>1. (n = m) \in BOOLEAN
    OBVIOUS
  <2>2. Hollow(m) \in BOOLEAN /\ (Hollow(m) => hollow # {})
    BY RawIs, KindsOfNames DEF hollow, Hollow, Made
  <2> QED
    BY <1>1, <1>3, <2>1, <2>2, AppendJoins
<1>9. Seen(Len(s), s) \in Seq(Held)
  BY <1>3, SeenIsList DEF Held
<1> QED
  BY <1>1, <1>7, <1>8, <1>9

-----------------------------------------------------------------------------
(* What a step promises.                                                    *)

\* The body of AddressesStay, and of BytesSurvive.
StaysPut(k) ==
    Made(k) /\ obj'[k].buffer # obj[k].buffer =>
        \/ obj'[k].capacity > Capacity(k) \/ res' = "panic"
        \/ Destroy(k) \/ \E m \in Names : Move(k, m) \/ Move(m, k)

BytesKept(k) ==
    \/ Made(k) /\ Made(k)' => \A i \in 1..Len(Cells(k)) :
           \/ i \in Size(k) + 1..Size(k)'
           \/ i <= Len(Cells(k)') /\ Cells(k)'[i] = Cells(k)[i]
           \/ /\ i > Len(Cells(k)') /\ Len(Cells(k)') = Size(k)'
              /\ Size(k)' < Len(Cells(k)) \div 2
           \/ i > Len(Cells(k)') /\ ResizeRaw(k, Len(Cells(k)'))
    \/ res' = "panic" \/ \E v \in Values : Fill(k, v)
    \/ \E m \in Raws : MoveRaw(k, m) \/ MoveRaw(m, k)

Steady == (\A k \in Containers : StaysPut(k)) /\ (\A k \in Raws : BytesKept(k))

\* What the lemmas above show implies what the properties say.
LEMMA StaysIsEnough ==
    /\ \A k \in Containers : Stays(k) => StaysPut(k)
    /\ \A k \in Raws : Survives(k, Size(k)', Cells(k)') => BytesKept(k)
BY DEF Stays, StaysPut, Survives, BytesKept

\* A step, as each property wants it.
Works == IInv' /\ Steady /\ Promise!Next

\* The promise names the same objects.
LEMMA NamesAreListed == Promise!Names = Names
BY DEF Promise!Names, Names, Containers

\* The mapping, object by object.
LEMMA ContentsAre ==
    ASSUME IInv
    PROVE  /\ contents = [k \in Names |-> Kept(k)]
           /\ \A k \in Names : /\ contents[k] = Kept(k) /\ (Promise!Made(k) <=> Made(k))
                               /\ Kept(k) = NotMade <=> ~Made(k)
                               /\ Made(k) => /\ Kept(k) \in Seq(Held) /\ Size(k) \in Nat
                                             /\ Len(Kept(k)) = Extent(k)
                                             /\ k \notin Arrays => Len(Kept(k)) = Size(k)
<1>1. contents = [k \in Names |-> Kept(k)]
  BY DEF contents, Contents, Kept, Seen, Extent, Made, Size, Cells
<1>2. ASSUME NEW k \in Names
      PROVE  /\ Kept(k) = NotMade <=> ~Made(k)
             /\ Made(k) => /\ Kept(k) \in Seq(Held) /\ Size(k) \in Nat
                           /\ Len(Kept(k)) = Extent(k)
                           /\ k \notin Arrays => Len(Kept(k)) = Size(k)
  <2>1. Size(k) \in Nat /\ Cells(k) \in Seq(Cell)
    BY Knows DEF IInv, Size
  <2>2. Extent(k) \in Nat /\ (k \notin Arrays => Extent(k) = Size(k))
    BY <2>1, SizesAreNatural DEF Extent
  <2>3. /\ Seen(Extent(k), Cells(k)) # NotMade /\ Seen(Extent(k), Cells(k)) \in Seq(Held)
        /\ Len(Seen(Extent(k), Cells(k))) = Extent(k)
    BY <2>1, <2>2, SeenIsList DEF Held
  <2> QED
    BY <2>1, <2>2, <2>3 DEF Kept
<1>3. \A k \in Names : contents[k] = Kept(k)
  BY <1>1
<1>4. \A k \in Names : Promise!Made(k) <=> Made(k)
  BY <1>2, <1>3 DEF Promise!Made
<1> QED
  BY <1>1, <1>2, <1>3, <1>4

\* The mapping behind a step.
LEMMA ContentsThen == contents' = [k \in Names |-> Kept(k)']
BY DEF contents, Contents, Kept, Seen, Extent, Made, Size, Cells

\* One object changes.
LEMMA ShowsBecomes ==
    ASSUME IInv, NEW n \in Names, NEW s, Shows(n, s)
    PROVE  /\ IInv' /\ Steady /\ contents' = [contents EXCEPT ![n] = s]
           /\ hollow' = hollow \ {n}
           /\ s = Kept(n) => contents' = contents
           /\ res' = "ok" => Promise!Becomes(n, s)
<1>1. IInv' /\ Steady
  BY StaysIsEnough DEF Shows, Steady
<1>2. Kept(n)' = s /\ \A k \in Names \ {n} : Kept(k)' = Kept(k)
  BY DEF Shows
<1>3. contents = [k \in Names |-> Kept(k)] /\ contents' = [k \in Names |-> Kept(k)']
  BY ContentsAre, ContentsThen
<1>4. contents' = [contents EXCEPT ![n] = s]
  BY <1>2, <1>3
<1>5. s = Kept(n) => contents' = contents
  BY <1>2, <1>3
<1>6. hollow' = hollow \ {n}
  BY DEF Shows
<1> QED
  BY <1>1, <1>4, <1>5, <1>6 DEF Promise!Becomes

\* Nothing changes but the answer.
LEMMA StutterBecomes ==
    ASSUME IInv, UNCHANGED <<heap, obj, alive>>,
           res' \in {"ok", "noSpace", "underflow", "present", "panic"}
    PROVE  IInv' /\ Steady /\ contents' = contents /\ hollow' = hollow
<1>1. /\ IInv' /\ \A k \in Names : Kept(k)' = Kept(k) /\ Made(k)' = Made(k)
      /\ hollow' = hollow
      /\ \A k \in Containers : Stays(k)
      /\ \A k \in Raws : Survives(k, Size(k)', Cells(k)')
  BY StutterShown
<1>2. Steady
  BY <1>1, StaysIsEnough DEF Steady
<1>3. contents' = contents
  BY <1>1, ContentsAre, ContentsThen
<1> QED
  BY <1>1, <1>2, <1>3

\* A call that found no memory.
LEMMA FailsWorks ==
    ASSUME IInv, res' = "noSpace", UNCHANGED <<heap, obj, alive>>
    PROVE  Works
<1>1. IInv' /\ Steady /\ contents' = contents /\ hollow' = hollow
  BY StutterBecomes
<1>2. Promise!Fails
  BY <1>1 DEF Promise!Fails
<1> QED
  BY <1>1, <1>2 DEF Works, Promise!Next

\* A call of a RawBuffer that did nothing.
LEMMA NothingWorks ==
    ASSUME IInv, NEW n \in Raws, Made(n), res' = "ok", UNCHANGED <<heap, obj, alive>>
    PROVE  Works
<1>1. IInv' /\ Steady /\ contents' = contents /\ hollow' = hollow
  BY StutterBecomes
<1>2. Promise!Made(n)
  BY KindsOfNames, ContentsAre
<1>3. Promise!Reserve(n)
  BY <1>1, <1>2 DEF Promise!Reserve
<1> QED
  BY <1>1, <1>3 DEF Works, Promise!Next

\* Nothing is there: at first, and when everything has ended.
Empty == /\ heap = [b \in Buffers |-> <<>>] /\ obj = [n \in Names |-> Absent]
         /\ alive = 0 /\ res \in {"ok", "panic"}

LEMMA EmptyHolds ==
    Empty => /\ IInv /\ contents = [n \in Names |-> NotMade] /\ hollow = {}
             /\ \A n \in Names : ~Made(n)
<1> SUFFICES ASSUME Empty
             PROVE  /\ IInv /\ contents = [n \in Names |-> NotMade] /\ hollow = {}
                    /\ \A n \in Names : ~Made(n)
  OBVIOUS
<1>1. /\ heap = [b \in Buffers |-> <<>>] /\ obj = [n \in Names |-> Absent]
      /\ alive = 0 /\ res \in {"ok", "panic"}
  BY DEF Empty
<1>2. Absent \in Records /\ ~Absent.made /\ Absent.buffer = NoBuffer
      /\ Absent.size = 0 /\ Absent.capacity = 0
  BY DEF Absent, Records
<1>3. Types
  <2>1. <<>> \in Seq(Cell)
    OBVIOUS
  <2> QED
    BY <1>1, <1>2, <2>1 DEF Types
<1>4. \A n \in Names : obj[n] = Absent /\ Cells(n) = <<>> /\ ~Made(n) /\ Size(n) = 0
  BY <1>1, <1>2 DEF Cells, Made, Size
<1>5. Fits
  <2> SUFFICES ASSUME NEW n \in Names PROVE Good(n, Absent, <<>>)
    BY <1>4 DEF Fits
  <2>1. Len(<<>>) = 0 /\ <<>> \in Seq(Cell)
    OBVIOUS
  <2>2. Filled(n, 0, <<>>)
    BY <2>1 DEF Filled
  <2> QED
    BY <1>2, <2>1, <2>2, SizesAreNatural DEF Good
<1>6. Owners
  BY <1>1, <1>2, <1>4, NullIsNoBuffer DEF Owners, Owns
<1>7. Counted
  <2>1. IsFiniteSet(Containers)
    BY FinitelyMany DEF Containers
  <2>2. \A n \in Containers : Size(n) = 0
    BY <1>4 DEF Names
  <2>3. Sizes = [n \in Containers |-> 0]
    BY <2>2 DEF Sizes
  <2> QED
    BY <1>1, <2>1, <2>3, SumOfZeros DEF Counted
<1>8. contents = [n \in Names |-> NotMade] /\ hollow = {}
  BY <1>4 DEF contents, Contents, hollow, Hollow, Made, Size, Cells
<1> QED
  BY <1>3, <1>4, <1>5, <1>6, <1>7, <1>8 DEF IInv

\* So it is behind a step that leaves nothing.
Ended == IInv /\ contents = [n \in Names |-> NotMade] /\ hollow = {}

LEMMA EmptyEnds == Empty => Ended
BY EmptyHolds DEF Ended

LEMMA EmptyThen == Empty' => Ended'
BY EmptyEnds, PTL

\* A null pointer is used, and everything ends.
LEMMA PanicsWorks ==
    ASSUME IInv, Panics, hollow # {}
    PROVE  Works
<1>1. Empty'
  BY DEF Panics, Empty
<1>2. IInv' /\ contents' = [n \in Names |-> NotMade] /\ hollow' = {}
  BY <1>1, EmptyThen DEF Ended
<1>3. res' = "panic"
  BY DEF Panics
<1>4. Steady
  BY <1>3 DEF Steady, StaysPut, BytesKept
<1>5. Promise!Panics
  BY <1>2, <1>3, NamesAreListed DEF Promise!Panics
<1> QED
  BY <1>2, <1>4, <1>5 DEF Works, Promise!Next

\* The destructor.
LEMMA DestroyWorks ==
    ASSUME IInv, NEW n \in Names, Destroy(n)
    PROVE  Works
<1>1. /\ IInv' /\ obj'[n] = Absent /\ Cells(n)' = <<>>
      /\ \A k \in Names \ {n} : obj'[k] = obj[k] /\ Cells(k)' = Cells(k)
  BY DestroyInv
<1>2. \A k \in Names \ {n} : Kept(k)' = Kept(k) /\ Stays(k) /\ Survives(k, Size(k)', Cells(k)')
  BY <1>1, SameIsKept
<1>3. Kept(n)' = NotMade /\ Made(n)
  BY <1>1 DEF Kept, Made, Absent, Destroy
<1>4. StaysPut(n) /\ BytesKept(n)
  <2>1. ~Made(n)'
    BY <1>1 DEF Made, Absent
  <2> QED
    BY <2>1 DEF StaysPut, BytesKept
<1>5. Steady
  <2>1. Containers \subseteq Names /\ Raws \subseteq Names
    BY DEF Names
  <2> QED
    BY <1>2, <1>4, <2>1, StaysIsEnough DEF Steady
<1>6. contents' = [contents EXCEPT ![n] = NotMade]
  BY <1>2, <1>3, ContentsAre, ContentsThen
<1>7. Promise!Destroy(n)
  <2>1. Promise!Made(n)
    BY <1>3, ContentsAre
  <2>2. res' = "ok"
    BY DEF Destroy
  <2>3. hollow' = hollow \ {n}
    <3>1. hollow' \ {n} = hollow \ {n}
      BY <1>1, HollowStays
    <3>2. n \notin hollow'
      BY <1>1 DEF hollow, Hollow, Made, Absent
    <3> QED
      BY <3>1, <3>2
  <2> QED
    BY <1>6, <2>1, <2>2, <2>3 DEF Promise!Destroy, Promise!Becomes
<1>8. Promise!Next
  BY <1>7, NamesAreListed DEF Promise!Next
<1> QED
  BY <1>1, <1>5, <1>8 DEF Works


\* A RawBuffer made with room for k bytes.
LEMMA MakeRawShows ==
    ASSUME IInv, NEW n \in Raws, NEW k \in 1..SizeMax, MakeWithCapacity(n, k)
    PROVE  Shows(n, <<>>) /\ ~Made(n)
<1> DEFINE e == <<>>
           s == Padded(e, k)
<1>1. n \in Names /\ n \notin Containers /\ n \notin Arrays /\ n \notin Optionals /\ Size(n) \in Nat
  BY RawIs
<1>2. ~Made(n) /\ Replace(n, s, Len(e)) /\ alive' = alive /\ res' = "ok"
  BY <1>1 DEF MakeWithCapacity, New, Occupy
<1>3. e \in Seq(Cell) /\ Len(e) = 0 /\ k \in Nat /\ k <= SizeMax
  BY SizesAreNatural
<1> HIDE DEF e
<1>4. Len(e) <= k
  BY <1>3
<1>5. Room(n, s, Len(e))
  BY <1>1, <1>3, <1>4, RoomPadded
<1> HIDE DEF s
<1>6. Weight(n, Len(e)) = 0 /\ Weight(n, Size(n)) = 0 /\ alive \in Int
  BY DEF Weight, IInv, Types
<1>7. alive' = alive + Weight(n, Len(e)) - Weight(n, Size(n))
  BY <1>2, <1>6
<1>8. Turns(n, Len(e), s)
  BY <1>1, <1>2, <1>5, <1>7, ReplaceInv
<1>9. Survives(n, Len(e), s)
  BY <1>2 DEF Survives
<1>10. Shows(n, Seen(Len(e), s))
  BY <1>1, <1>8, <1>9, TurnsShown
<1>11. Seen(Len(e), s) = <<>>
  BY <1>3, <1>5, SeenIsList DEF Room
<1> QED
  BY <1>2, <1>10, <1>11

\* One container takes what another holds.
LEMMA MoveWorks ==
    ASSUME IInv, NEW K \in {Vectors, Sets}, NEW n \in K, NEW m \in K, Move(n, m)
    PROVE  Works
<1>1. /\ n \in Containers /\ m \in Containers /\ n \in Names /\ m \in Names
      /\ n \notin Optionals /\ n \notin Raws /\ m \notin Raws
      /\ n \notin Arrays /\ m \notin Arrays
  BY KindsOfNames DEF Containers
<1>2. Alike(n, m)
  BY KindsOfNames, KindsDisjoint DEF Alike
<1>3. n # m /\ Made(m) /\ res' = "ok"
  BY DEF Move
<1>4. /\ IInv' /\ Cells(n)' = Cells(m) /\ Cells(m)' = <<>> /\ obj'[n] = obj[m] /\ obj'[m] = Bare
      /\ \A k \in Names \ {n, m} : obj'[k] = obj[k] /\ Cells(k)' = Cells(k)
  BY <1>1, <1>2, MoveInv
<1>5. \A k \in Names \ {n, m} : Kept(k)' = Kept(k) /\ Stays(k) /\ Survives(k, Size(k)', Cells(k)')
  BY <1>4, SameIsKept
<1>6. Kept(n)' = Kept(m)
  <2>1. Made(n)' = Made(m) /\ Size(n)' = Size(m)
    BY <1>4 DEF Made, Size
  <2> QED
    BY <1>1, <1>4, <2>1 DEF Kept, Extent
<1>7. Kept(m)' = <<>>
  <2>1. Made(m)' /\ Size(m)' = 0
    BY <1>4, BareIs DEF Made, Size
  <2>2. <<>> \in Seq(Cell)
    OBVIOUS
  <2>3. Seen(0, <<>>) = <<>>
    BY <2>2, SeenIsList
  <2> QED
    BY <1>1, <1>4, <2>1, <2>3 DEF Kept, Extent
<1>8. Steady
  <2>1. StaysPut(n) /\ StaysPut(m)
    BY <1>1 DEF StaysPut
  <2>2. Containers \subseteq Names /\ Raws \subseteq Names
    BY DEF Names
  <2> QED
    BY <1>1, <1>5, <2>1, <2>2, StaysIsEnough DEF Steady
<1>9. contents' = [contents EXCEPT ![n] = contents[m], ![m] = <<>>]
  BY <1>1, <1>3, <1>5, <1>6, <1>7, ContentsAre, ContentsThen
<1>10. Promise!Move(n, m)
  <2>1. hollow' \ {} = hollow \ {}
    <3>1. \A k \in Names \ {} : k \in Arrays \/ k \in Raws => obj'[k] = obj[k]
      BY <1>1, <1>4
    <3> QED
      BY <3>1, HollowStays
  <2> QED
    BY <1>1, <1>3, <1>9, <2>1, ContentsAre DEF Promise!Move
<1>11. Promise!Next
  BY <1>10 DEF Promise!Next, Promise!Kinds
<1> QED
  BY <1>4, <1>8, <1>11 DEF Works

\* One Array takes what another holds; what is left has its length, and nothing there.
LEMMA MoveArrayWorks ==
    ASSUME IInv, NEW n \in Arrays, NEW m \in Arrays, Move(n, m)
    PROVE  Works
<1>1. /\ n \in Containers /\ m \in Containers /\ n \in Names /\ m \in Names
      /\ n \notin Optionals /\ n \notin Raws /\ m \notin Raws
  BY KindsOfNames DEF Containers
<1>2. Alike(n, m)
  BY KindsOfNames, KindsDisjoint DEF Alike
<1>3. n # m /\ Made(m) /\ res' = "ok"
  BY DEF Move
<1>4. /\ IInv' /\ Cells(n)' = Cells(m) /\ Cells(m)' = <<>> /\ obj'[n] = obj[m] /\ obj'[m] = Bare
      /\ \A k \in Names \ {n, m} : obj'[k] = obj[k] /\ Cells(k)' = Cells(k)
  BY <1>1, <1>2, MoveInv
<1>5. \A k \in Names \ {n, m} : Kept(k)' = Kept(k) /\ Stays(k) /\ Survives(k, Size(k)', Cells(k)')
  BY <1>4, SameIsKept
<1>6. Kept(n)' = Kept(m)
  <2>1. Made(n)' = Made(m) /\ Extent(n)' = Extent(m)
    BY <1>4 DEF Made, Extent
  <2> QED
    BY <1>4, <2>1 DEF Kept
<1>7. Kept(m)' = [i \in DOMAIN Kept(m) |-> Lost]
  <2>1. Made(m)' /\ Extent(m)' = ArraySize
    BY <1>4, BareIs DEF Made, Extent
  <2>2. \A i \in 1..ArraySize : i > Len(<<>>)
    BY EmptySeq
  <2>3. Seen(ArraySize, <<>>) = [i \in 1..ArraySize |-> Lost]
    BY <2>2 DEF Seen
  <2>4. DOMAIN Kept(m) = 1..ArraySize
    BY <1>3 DEF Kept, Seen, Extent
  <2> QED
    BY <1>4, <2>1, <2>3, <2>4 DEF Kept
<1>8. Steady
  <2>1. StaysPut(n) /\ StaysPut(m)
    BY <1>1 DEF StaysPut
  <2>2. Containers \subseteq Names /\ Raws \subseteq Names
    BY DEF Names
  <2> QED
    BY <1>1, <1>5, <2>1, <2>2, StaysIsEnough DEF Steady
<1>9. contents' = [contents EXCEPT ![n] = contents[m], ![m] = [i \in DOMAIN contents[m] |-> Lost]]
  <2>1. contents[m] = Kept(m)
    BY <1>1, ContentsAre
  <2> DEFINE t == [i \in DOMAIN contents[m] |-> Lost]
  <2>2. Kept(m)' = t
    BY <1>7, <2>1
  <2> HIDE DEF t
  <2>3. contents' = [contents EXCEPT ![n] = contents[m], ![m] = t]
    BY <1>1, <1>3, <1>5, <1>6, <2>1, <2>2, ContentsAre, ContentsThen
  <2> QED
    BY <2>3 DEF t
<1>10. /\ hollow' \ {m} = (IF m \in hollow THEN hollow \cup {n} ELSE hollow \ {n}) \ {m}
       /\ m \in hollow'
  <2>1. hollow' \ {n, m} = hollow \ {n, m}
    BY <1>4, HollowStays
  <2>2. n \in hollow' <=> m \in hollow
    BY <1>1, <1>4 DEF hollow, Hollow, Made, Capacity
  <2>3. m \in hollow'
    BY <1>1, <1>4, BareIs DEF hollow, Hollow, Made
  <2> QED
    BY <1>3, <2>1, <2>2, <2>3
<1>11. Promise!MoveAll(n, m)
  BY <1>1, <1>3, <1>9, <1>10, ContentsAre DEF Promise!MoveAll
<1>12. Promise!Next
  BY <1>11 DEF Promise!Next
<1> QED
  BY <1>4, <1>8, <1>12 DEF Works

\* What is listed of n, and what becomes of it.
LEMMA Listed ==
    ASSUME IInv, NEW n \in Names
    PROVE  /\ contents[n] = Kept(n) /\ (Promise!Made(n) <=> Made(n))
           /\ Made(n) => /\ Kept(n) \in Seq(Held) /\ Size(n) \in Nat
                         /\ n \notin Arrays => Len(Kept(n)) = Size(n)
BY ContentsAre

\* A step that shows what the promise has it become works.
LEMMA ShowsWorks ==
    ASSUME IInv, NEW n \in Names, NEW s, Shows(n, s), res' = "ok",
           Promise!Becomes(n, s) => Promise!Next
    PROVE  Works
BY ShowsBecomes DEF Works

-----------------------------------------------------------------------------
(* Every call works.                                                        *)

\* Construction of anything but an Array.
LEMMA MakeWorks ==
    ASSUME IInv, NEW n \in Names, Shows(n, <<>>), ~Made(n), res' = "ok", n \notin Arrays
    PROVE  Works
<1>1. ~Promise!Made(n)
  BY Listed
<1>2. ASSUME Promise!Becomes(n, <<>>) PROVE Promise!Next
  <2>1. Promise!Make(n)
    BY <1>1, <1>2 DEF Promise!Make
  <2>2. n \in Vectors \cup Sets \/ n \in Raws \/ n \in Optionals
    BY DEF Names, Containers
  <2>3. CASE n \in Vectors \cup Sets
    BY <2>1, <2>3 DEF Promise!Next
  <2>4. CASE n \in Raws
    BY <2>1, <2>4 DEF Promise!Next
  <2>5. CASE n \in Optionals
    BY <2>1, <2>5 DEF Promise!Next
  <2> QED
    BY <2>2, <2>3, <2>4, <2>5
<1> QED
  BY <1>2, ShowsWorks

\* clear(), and reset() of an Optional.
LEMMA ClearWorks ==
    ASSUME IInv, NEW n \in Names, Shows(n, <<>>), Made(n), res' = "ok",
           n \notin Arrays, n \notin Raws
    PROVE  Works
<1>1. Promise!Made(n)
  BY Listed
<1>2. ASSUME Promise!Becomes(n, <<>>) PROVE Promise!Next
  <2>1. Promise!Clear(n)
    BY <1>1, <1>2 DEF Promise!Clear
  <2>2. n \in Vectors \cup Sets \/ n \in Optionals
    BY DEF Names, Containers
  <2>3. CASE n \in Vectors \cup Sets
    BY <2>1, <2>3 DEF Promise!Next
  <2>4. CASE n \in Optionals
    BY <2>1, <2>4 DEF Promise!Next
  <2> QED
    BY <2>2, <2>3, <2>4
<1> QED
  BY <1>2, ShowsWorks

\* push_back(v).
LEMMA PushBackWorks ==
    ASSUME IInv, NEW n \in Vectors, NEW v \in Values, PushBack(n, v)
    PROVE  Works
<1>1. n \in Names /\ n \in Containers /\ n \notin Arrays /\ n \notin Optionals
  BY KindsOfNames DEF Containers
<1>2. Made(n) /\ Construct(n, v) /\ res' = "ok" /\ v \in Held
  BY DEF PushBack, Construct, Held
<1>3. Shows(n, Append(Kept(n), v))
  BY <1>1, <1>2, ConstructShows
<1>4. ASSUME Promise!Becomes(n, Append(Kept(n), v)) PROVE Promise!Next
  <2>1. Promise!PushBack(n, v)
    BY <1>1, <1>2, <1>4, Listed DEF Promise!PushBack
  <2> QED
    BY <2>1 DEF Promise!Next
<1> QED
  BY <1>1, <1>2, <1>3, <1>4, ShowsWorks

\* push_back(vector[i]).
LEMMA PushAliasWorks ==
    ASSUME IInv, NEW n \in Vectors, NEW i \in 1..MaxSize, PushAlias(n, i)
    PROVE  Works
<1> DEFINE v == IF Size(n) = Capacity(n) THEN Lost ELSE Elements(n)[i]
<1>1. n \in Names /\ n \in Containers /\ n \notin Arrays /\ n \notin Optionals
  BY KindsOfNames DEF Containers
<1>2. Made(n) /\ Construct(n, v) /\ res' = "ok" /\ i <= Size(n)
  BY DEF PushAlias, Construct
<1>3. /\ Kept(n) = Elements(n) /\ Size(n) \in Nat /\ Len(Elements(n)) = Size(n)
      /\ Elements(n) \in Seq(Held) /\ \A j \in 1..Size(n) : Elements(n)[j] \in Held
  BY <1>1, <1>2, ElementsAreHeld
<1>4. i \in 1..Size(n) /\ DOMAIN Elements(n) = 1..Size(n)
  BY <1>2, <1>3, SizesAreNatural
<1>5. Elements(n)[i] \in Promise!ToSet(Kept(n)) /\ Elements(n)[i] \in Held
  BY <1>3, <1>4 DEF Promise!ToSet
<1>6. v \in Held /\ v \in Promise!ToSet(Kept(n)) \cup {Lost}
  BY <1>5 DEF Held
<1> HIDE DEF v
<1>7. Shows(n, Append(Kept(n), v))
  BY <1>1, <1>2, <1>6, ConstructShows
<1>8. ASSUME Promise!Becomes(n, Append(Kept(n), v)) PROVE Promise!Next
  <2>1. Promise!PushBack(n, v)
    BY <1>1, <1>2, <1>8, Listed DEF Promise!PushBack
  <2>2. contents[n] = Kept(n) /\ Promise!Made(n)
    BY <1>1, <1>2, Listed
  <2>3. Promise!PushAlias(n)
    BY <1>6, <2>1, <2>2 DEF Promise!PushAlias
  <2> QED
    BY <2>3 DEF Promise!Next
<1> QED
  BY <1>1, <1>2, <1>7, <1>8, ShowsWorks

\* pop_back(), of an empty Vector too.
LEMMA PopBackWorks ==
    ASSUME IInv, NEW n \in Vectors, PopBack(n)
    PROVE  Works
<1>1. n \in Names /\ Made(n) /\ n \notin Arrays /\ n \notin hollow
  BY KindsOfNames, HollowIs DEF PopBack
<1>2. /\ contents[n] = Kept(n) /\ Promise!Made(n) /\ Kept(n) \in Seq(Held)
      /\ Len(Kept(n)) = Size(n) /\ Size(n) \in Nat
  BY <1>1, Listed
<1>3. CASE Size(n) = 0 /\ res' = "underflow" /\ Shows(n, Kept(n))
  <2>1. IInv' /\ Steady /\ contents' = contents /\ hollow' = hollow
    BY <1>1, <1>3, ShowsBecomes
  <2>2. contents[n] = <<>>
    BY <1>2, <1>3, EmptySeq
  <2>3. Promise!PopBack(n)
    BY <1>2, <1>3, <2>1, <2>2 DEF Promise!PopBack
  <2>4. Promise!Next
    BY <2>3 DEF Promise!Next
  <2> QED
    BY <2>1, <2>4 DEF Works
<1>4. CASE Size(n) # 0 /\ res' = "ok" /\ Shows(n, SubSeq(Kept(n), 1, Size(n) - 1))
  <2>1. contents[n] # <<>>
    BY <1>2, <1>4, EmptySeq
  <2>2. Promise!Front(contents[n]) = SubSeq(Kept(n), 1, Size(n) - 1)
    BY <1>2 DEF Promise!Front
  <2>3. ASSUME Promise!Becomes(n, SubSeq(Kept(n), 1, Size(n) - 1)) PROVE Promise!Next
    <3>1. Promise!PopBack(n)
      BY <1>2, <2>1, <2>2, <2>3 DEF Promise!PopBack
    <3> QED
      BY <3>1 DEF Promise!Next
  <2> QED
    BY <1>1, <1>4, <2>3, ShowsWorks
<1> QED
  BY <1>3, <1>4, PopBackShows

\* reserve(), of which nothing is seen.
LEMMA ReserveWorks ==
    ASSUME IInv, NEW n \in Vectors, NEW k \in 1..MaxSize, Reserve(n, k)
    PROVE  Works
<1>1. n \in Names /\ Made(n) /\ res' = "ok" /\ k \in Nat /\ n \notin hollow
  BY KindsOfNames, SizesAreNatural, HollowIs DEF Reserve
<1>2. Shows(n, Kept(n))
  BY <1>1, ReserveShows
<1>3. IInv' /\ Steady /\ contents' = contents /\ hollow' = hollow
  BY <1>1, <1>2, ShowsBecomes
<1>4. Promise!Reserve(n)
  BY <1>1, <1>3, Listed DEF Promise!Reserve
<1>5. Promise!Next
  BY <1>4 DEF Promise!Next
<1> QED
  BY <1>3, <1>5 DEF Works

\* resize() of a Vector.
LEMMA ResizeWorks ==
    ASSUME IInv, NEW n \in Vectors, NEW k \in 0..MaxSize, Resize(n, k)
    PROVE  Works
<1>1. n \in Names /\ Made(n) /\ res' = "ok" /\ k \in Nat
  BY KindsOfNames, SizesAreNatural DEF Resize
<1>2. Shows(n, Resized(Kept(n), k))
  BY <1>1, ResizeShows
<1>3. ASSUME Promise!Becomes(n, Resized(Kept(n), k)) PROVE Promise!Next
  <2>1. Promise!Resize(n, k)
    BY <1>1, <1>3, Listed DEF Promise!Resize, Resized
  <2> QED
    BY <2>1 DEF Promise!Next
<1> QED
  BY <1>1, <1>2, <1>3, ShowsWorks

\* All calls of a Vector.
LEMMA VectorWorks ==
    ASSUME IInv, NEW n \in Vectors, VectorStep(n)
    PROVE  Works
<1>1. /\ n \in Names /\ n \in Containers /\ n \notin Arrays /\ n \notin Optionals
      /\ n \notin Raws
  BY KindsOfNames DEF Containers
<1>2. CASE Make(n)
  BY <1>1, <1>2, MakeShows, MakeWorks DEF Make, New
<1>3. CASE Clear(n)
  BY <1>1, <1>3, ClearShows, ClearWorks DEF Clear
<1>4. CASE PopBack(n)
  BY <1>4, PopBackWorks
<1>5. CASE \E v \in Values : PushBack(n, v)
  BY <1>5, PushBackWorks
<1>6. CASE \E i \in 1..MaxSize : PushAlias(n, i)
  BY <1>6, PushAliasWorks
<1>7. ASSUME NEW k \in 1..MaxSize, MakeWithCapacity(n, k) PROVE Works
  <2>1. k \in Nat
    BY SizesAreNatural
  <2>2. Shows(n, <<>>)
    BY <1>1, <1>7, <2>1, MakeWithCapacityShows
  <2>3. ~Made(n) /\ res' = "ok"
    BY <1>1, <1>7 DEF MakeWithCapacity, New
  <2> QED
    BY <1>1, <2>2, <2>3, MakeWorks
<1>8. CASE \E k \in 1..MaxSize : Reserve(n, k)
  BY <1>8, ReserveWorks
<1>9. CASE \E k \in 0..MaxSize : Resize(n, k)
  BY <1>9, ResizeWorks
<1>10. CASE \E m \in Vectors : Move(n, m)
  BY <1>10, MoveWorks
<1> QED
  BY <1>2, <1>3, <1>4, <1>5, <1>6, <1>7, <1>8, <1>9, <1>10 DEF VectorStep

\* push() of a Set, of a value that is there too.
LEMMA AddWorks ==
    ASSUME IInv, NEW n \in Sets, NEW v \in Values, Add(n, v)
    PROVE  Works
<1>1. n \in Names /\ n \in Containers /\ n \notin Arrays /\ n \notin Optionals /\ Made(n)
  BY KindsOfNames DEF Containers, Add
<1>2. Has(n, v) <=> v \in Promise!ToSet(contents[n])
  <2>1. contents[n] = Elements(n)
    BY <1>1, Listed, ElementsAreHeld
  <2> QED
    BY <2>1 DEF Has, ToSet, Promise!ToSet
<1>3. CASE Has(n, v) /\ res' = "present" /\ UNCHANGED <<heap, obj, alive>>
  <2>1. IInv' /\ Steady /\ contents' = contents /\ hollow' = hollow
    BY <1>3, StutterBecomes
  <2>2. Promise!Add(n, v)
    BY <1>1, <1>2, <1>3, <2>1, Listed DEF Promise!Add
  <2>3. Promise!Next
    BY <2>2 DEF Promise!Next
  <2> QED
    BY <2>1, <2>3 DEF Works
<1>4. CASE ~Has(n, v) /\ Size(n) < MaxSize /\ Construct(n, v)
  <2>1. res' = "ok" /\ v \in Held
    BY <1>4 DEF Construct, Held
  <2>2. Shows(n, Append(Kept(n), v))
    BY <1>1, <1>4, <2>1, ConstructShows
  <2>3. ASSUME Promise!Becomes(n, Append(Kept(n), v)) PROVE Promise!Next
    <3>1. contents[n] = Kept(n) /\ Promise!Made(n)
      BY <1>1, Listed
    <3>2. Promise!PushBack(n, v)
      BY <2>3, <3>1 DEF Promise!PushBack
    <3>3. Promise!Add(n, v)
      BY <1>2, <1>4, <3>1, <3>2 DEF Promise!Add
    <3> QED
      BY <3>3 DEF Promise!Next
  <2> QED
    BY <1>1, <2>1, <2>2, <2>3, ShowsWorks
<1> QED
  BY <1>3, <1>4 DEF Add

\* All calls of a Set.
LEMMA SetWorks ==
    ASSUME IInv, NEW n \in Sets, SetStep(n)
    PROVE  Works
<1>1. /\ n \in Names /\ n \in Containers /\ n \notin Arrays /\ n \notin Optionals
      /\ n \notin Raws
  BY KindsOfNames DEF Containers
<1>2. CASE Make(n)
  BY <1>1, <1>2, MakeShows, MakeWorks DEF Make, New
<1>3. CASE Clear(n)
  BY <1>1, <1>3, ClearShows, ClearWorks DEF Clear
<1>4. CASE \E v \in Values : Add(n, v)
  BY <1>4, AddWorks
<1>5. CASE \E m \in Sets : Move(n, m)
  BY <1>5, MoveWorks
<1> QED
  BY <1>2, <1>3, <1>4, <1>5 DEF SetStep

\* make() of an Array, of an rvalue too.
LEMMA MakeArrayWorks ==
    ASSUME IInv, NEW n \in Arrays, NEW v \in Values,
           MakeArray(n, v) \/ MakeArrayOfRvalue(n, v)
    PROVE  Works
<1>1. n \in Names /\ ArraySize \in Nat /\ v \in Held /\ Lost \in Held
  BY KindsOfNames, SizesAreNatural DEF Held
<1>2. CASE MakeArray(n, v)
  <2> DEFINE s == Copies(ArraySize, v)
  <2>1. s \in Seq(Held) /\ Len(s) = ArraySize
    BY <1>1, CopiesAreHeld
  <2>2. /\ New(n) /\ Occupy(n, s, ArraySize) /\ alive' = alive + ArraySize /\ res' = "ok"
        /\ s = [i \in 1..ArraySize |-> v]
    BY <1>2 DEF MakeArray, Copies
  <2> HIDE DEF s
  <2>3. Shows(n, s)
    BY <2>1, <2>2, MakeArrayShows
  <2>4. ASSUME Promise!Becomes(n, s) PROVE Promise!Next
    <3>1. ~Promise!Made(n)
      BY <1>1, <2>2, Listed DEF New
    <3>2. Promise!MakeArray(n, v)
      BY <2>2, <2>4, <3>1 DEF Promise!MakeArray
    <3> QED
      BY <3>2 DEF Promise!Next
  <2> QED
    BY <1>1, <2>2, <2>3, <2>4, ShowsWorks
<1>3. CASE MakeArrayOfRvalue(n, v)
  <2> DEFINE s == [i \in 1..ArraySize |-> IF i = 1 THEN v ELSE Lost]
  <2>1. s \in Seq(Held) /\ Len(s) = ArraySize
    <3>1. s \in [1..ArraySize -> Held]
      BY <1>1
    <3> QED
      BY <1>1, <3>1
  <2>2. /\ New(n) /\ Occupy(n, s, ArraySize) /\ alive' = alive + ArraySize /\ res' = "ok"
        /\ s = [i \in 1..ArraySize |-> IF i = 1 THEN v ELSE Lost]
    BY <1>3 DEF MakeArrayOfRvalue
  <2> HIDE DEF s
  <2>3. Shows(n, s)
    BY <2>1, <2>2, MakeArrayShows
  <2>4. ASSUME Promise!Becomes(n, s) PROVE Promise!Next
    <3>1. ~Promise!Made(n)
      BY <1>1, <2>2, Listed DEF New
    <3>2. Promise!MakeArrayOfRvalue(n, v)
      BY <2>2, <2>4, <3>1 DEF Promise!MakeArrayOfRvalue
    <3> QED
      BY <3>2 DEF Promise!Next
  <2> QED
    BY <1>1, <2>2, <2>3, <2>4, ShowsWorks
<1> QED
  BY <1>2, <1>3

\* fill() of an Array.
LEMMA FillArrayWorks ==
    ASSUME IInv, NEW n \in Arrays, NEW v \in Values, Fill(n, v)
    PROVE  Works
<1>1. n \in Names /\ n \notin Raws
  BY KindsOfNames DEF Containers
<1>2. CASE Hollow(n) /\ Panics
  BY <1>1, <1>2, PanicsWorks DEF hollow
<1>3. CASE Fills(n, v)
  <2>1. Made(n) /\ res' = "ok" /\ n \notin hollow
    BY <1>3, HollowIs DEF Fills
  <2>2. Shows(n, Copies(Len(Kept(n)), v))
    BY <1>3, FillArrayShows
  <2>3. ASSUME Promise!Becomes(n, Copies(Len(Kept(n)), v)) PROVE Promise!Next
    <3>1. Promise!Fill(n, v)
      BY <1>1, <2>1, <2>3, Listed DEF Promise!Fill, Copies
    <3> QED
      BY <3>1 DEF Promise!Next
  <2> QED
    BY <1>1, <2>1, <2>2, <2>3, ShowsWorks
<1> QED
  BY <1>1, <1>2, <1>3 DEF Fill, Fills

\* All calls of an Array, the make() that fails in the middle included.
LEMMA ArrayWorks ==
    ASSUME IInv, NEW n \in Arrays, ArrayStep(n)
    PROVE  Works
<1>1. CASE \E v \in Values : MakeArray(n, v) \/ MakeArrayOfRvalue(n, v)
  BY <1>1, MakeArrayWorks
<1>2. CASE \E v \in Values : Fill(n, v)
  BY <1>2, FillArrayWorks
<1>3. ASSUME NEW done \in 0..ArraySize - 1, MakeArrayFails(n, done) PROVE Works
  <2> DEFINE built == Padded([i \in 1..done |-> Default], ArraySize)
             left == Destroyed(built, done)
  <2>1. /\ alive' = alive + Cardinality({i \in DOMAIN left : left[i] # Raw})
        /\ UNCHANGED <<heap, obj>> /\ res' = "noSpace"
    BY <1>3 DEF MakeArrayFails
  <2>2. {i \in DOMAIN left : left[i] # Raw} = {}
    <3>1. done \in Nat /\ ArraySize \in Nat
      BY SizesAreNatural
    <3>2. Len([i \in 1..done |-> Default]) = done
      BY <3>1
    <3>3. DOMAIN built = 1..ArraySize /\ \A i \in 1..ArraySize : i > done => built[i] = Raw
      BY <3>1, <3>2 DEF Padded
    <3> HIDE DEF built
    <3>4. DOMAIN left = 1..ArraySize /\ \A i \in 1..ArraySize : left[i] = Raw
      BY <3>1, <3>3 DEF Destroyed
    <3> QED
      BY <3>4
  <2> HIDE DEF left
  <2>3. alive' = alive
    <3>1. Cardinality({}) = 0 /\ alive \in Int
      BY FS_EmptySet DEF IInv, Types
    <3> QED
      BY <2>1, <2>2, <3>1
  <2> QED
    BY <2>1, <2>3, FailsWorks
<1>4. CASE \E m \in Arrays : Move(n, m)
  BY <1>4, MoveArrayWorks
<1> QED
  BY <1>1, <1>2, <1>3, <1>4 DEF ArrayStep

-----------------------------------------------------------------------------
(* Every call of an Optional works.                                         *)

\* An Optional that shows a value.
LEMMA HoldsWorks ==
    ASSUME IInv, NEW n \in Optionals, NEW v \in Values, Shows(n, <<v>>), res' = "ok"
    PROVE  Works
<1>1. n \in Names
  BY KindsOfNames
<1>2. ASSUME Promise!Becomes(n, <<v>>) PROVE Promise!Next
  <2>1. Promise!Holds(n, v)
    BY <1>2 DEF Promise!Holds
  <2> QED
    BY <2>1 DEF Promise!Next
<1> QED
  BY <1>1, <1>2, ShowsWorks

\* emplace().
LEMMA EmplaceWorks ==
    ASSUME IInv, NEW n \in Optionals, NEW v \in Values, Emplace(n, v)
    PROVE  Works
<1>1. v \in Held /\ res' = "ok"
  BY DEF Held, Emplace
<1>2. Shows(n, <<v>>)
  BY <1>1, EmplaceShows
<1> QED
  BY <1>1, <1>2, HoldsWorks

\* emplace(n.value()).
LEMMA EmplaceOwnWorks ==
    ASSUME IInv, NEW n \in Optionals, EmplaceOwn(n)
    PROVE  Works
<1>1. n \in Names /\ Size(n) = 1 /\ Emplace(n, Lost) /\ res' = "ok" /\ Made(n) /\ Lost \in Held
  BY KindsOfNames DEF EmplaceOwn, Emplace, Held
<1>2. Shows(n, <<Lost>>)
  BY <1>1, EmplaceShows
<1>3. ASSUME Promise!Becomes(n, <<Lost>>) PROVE Promise!Next
  <2>1. contents[n] = Kept(n) /\ Promise!Made(n) /\ Len(Kept(n)) = 1
    BY <1>1, Listed, KindsOfNames
  <2>2. contents[n] # <<>>
    BY <2>1, OneIsSome
  <2>3. Promise!HoldsOwn(n)
    BY <1>3, <2>1, <2>2 DEF Promise!HoldsOwn, Promise!Holds
  <2> QED
    BY <2>3 DEF Promise!Next
<1> QED
  BY <1>1, <1>2, <1>3, ShowsWorks

\* Assignment of a value, of an equal one too.
LEMMA AssignValueWorks ==
    ASSUME IInv, NEW n \in Optionals, NEW v \in Values, AssignValue(n, v)
    PROVE  Works
<1>1. CASE Emplace(n, v)
  BY <1>1, EmplaceWorks
<1>2. CASE Made(n) /\ Elements(n) = <<v>> /\ res' = "ok" /\ UNCHANGED <<heap, obj, alive>>
  <2>1. IInv' /\ Steady /\ contents' = contents /\ hollow' = hollow \ {n}
    BY <1>2, StutterBecomes, HollowIs
  <2>2. n \in Names /\ contents[n] = <<v>>
    BY <1>2, KindsOfNames, OptionalIs, Listed
  <2> DEFINE s == <<v>>
  <2> HIDE DEF s
  <2>3. contents' = [contents EXCEPT ![n] = s]
    <3>1. contents[n] = s
      BY <2>2 DEF s
    <3> QED
      BY <2>1, <3>1, ContentsAre
  <2>4. Promise!Holds(n, v)
    BY <1>2, <2>1, <2>3 DEF Promise!Holds, Promise!Becomes, s
  <2>5. Promise!Next
    BY <2>4 DEF Promise!Next
  <2> QED
    BY <2>1, <2>5 DEF Works
<1> QED
  BY <1>1, <1>2 DEF AssignValue

\* Two Optionals change.
LEMMA ShowsTwoBecomes ==
    ASSUME IInv, NEW n \in Optionals, NEW m \in Optionals, NEW s, NEW t, ShowsTwo(n, m, s, t)
    PROVE  IInv' /\ Steady /\ contents' = [contents EXCEPT ![n] = s, ![m] = t] /\ hollow' = hollow
<1>1. IInv' /\ Steady /\ hollow' = hollow
  BY StaysIsEnough DEF ShowsTwo, Steady
<1>2. /\ Kept(n)' = s /\ Kept(m)' = t /\ n # m /\ n \in Names /\ m \in Names
      /\ \A k \in Names \ {n, m} : Kept(k)' = Kept(k)
  BY KindsOfNames DEF ShowsTwo
<1>3. contents = [k \in Names |-> Kept(k)] /\ contents' = [k \in Names |-> Kept(k)']
  BY ContentsAre, ContentsThen
<1>4. contents' = [contents EXCEPT ![n] = s, ![m] = t]
  BY <1>2, <1>3
<1> QED
  BY <1>1, <1>4

\* Copy construction and assignment of an Optional.
LEMMA CopyOptionalWorks ==
    ASSUME IInv, NEW n \in Optionals, NEW m \in Optionals, CopyOptional(n, m)
    PROVE  Works
<1>1. ShowsTwo(n, m, Kept(m), Kept(m)) /\ Made(m) /\ res' = "ok"
  BY CopyOptionalShows DEF CopyOptional
<1>2. /\ IInv' /\ Steady /\ contents' = [contents EXCEPT ![n] = Kept(m), ![m] = Kept(m)]
      /\ hollow' = hollow \ {n}
  BY <1>1, ShowsTwoBecomes, HollowIs
<1>3. n \in Names /\ m \in Names /\ n # m
  BY <1>1, KindsOfNames DEF ShowsTwo
<1>4. contents[m] = Kept(m) /\ Promise!Made(m)
  BY <1>1, <1>3, Listed
<1>5. contents' = [contents EXCEPT ![n] = contents[m]]
  BY <1>2, <1>3, <1>4, ContentsAre
<1>6. Promise!Becomes(n, contents[m])
  BY <1>1, <1>2, <1>5 DEF Promise!Becomes
<1>7. Promise!Copy(n, m) \/ Promise!CopyOver(n, m)
  BY <1>4, <1>6 DEF Promise!Copy, Promise!CopyOver
<1>8. Promise!Next
  BY <1>7 DEF Promise!Next
<1> QED
  BY <1>2, <1>8 DEF Works

\* Move construction and assignment of an Optional.
LEMMA MoveOptionalWorks ==
    ASSUME IInv, NEW n \in Optionals, NEW m \in Optionals, MoveOptional(n, m)
    PROVE  Works
<1>1. ShowsTwo(n, m, Kept(m), <<>>) /\ Made(m) /\ res' = "ok"
  BY MoveOptionalShows DEF MoveOptional
<1>2. /\ IInv' /\ Steady /\ contents' = [contents EXCEPT ![n] = Kept(m), ![m] = <<>>]
      /\ hollow' = hollow
  BY <1>1, ShowsTwoBecomes
<1>3. m \in Names /\ n # m
  BY <1>1, KindsOfNames DEF ShowsTwo
<1>4. Promise!Move(n, m)
  BY <1>1, <1>2, <1>3, Listed DEF Promise!Move
<1>5. Promise!Next
  BY <1>4 DEF Promise!Next, Promise!Kinds
<1> QED
  BY <1>2, <1>5 DEF Works

\* All calls of an Optional.
LEMMA OptionalWorks ==
    ASSUME IInv, NEW n \in Optionals, OptionalStep(n)
    PROVE  Works
<1>1. n \in Names /\ n \in Containers /\ n \notin Arrays /\ n \notin Raws
  BY KindsOfNames DEF Containers
<1>2. CASE MakeOptional(n)
  <2>1. MakeWithCapacity(n, 1) /\ ~Made(n) /\ res' = "ok"
    BY <1>1, <1>2 DEF MakeOptional, MakeWithCapacity, New
  <2>2. Shows(n, <<>>)
    BY <1>1, <2>1, MakeWithCapacityShows
  <2> QED
    BY <1>1, <2>1, <2>2, MakeWorks
<1>3. CASE EmplaceOwn(n)
  BY <1>3, EmplaceOwnWorks
<1>4. CASE Reset(n)
  <2>1. Made(n)
    BY <1>4 DEF Reset
  <2>2. Shows(n, <<>>) /\ res' = "ok"
    BY <1>4, ResetShows
  <2> QED
    BY <1>1, <2>1, <2>2, ClearWorks
<1>5. ASSUME NEW v \in Values, MakeOptionalOf(n, v) PROVE Works
  <2>1. v \in Held /\ res' = "ok"
    BY <1>5 DEF Held, MakeOptionalOf
  <2>2. Shows(n, <<v>>)
    BY <1>5, <2>1, MakeOptionalOfShows
  <2> QED
    BY <2>1, <2>2, HoldsWorks
<1>6. CASE \E v \in Values : Emplace(n, v)
  BY <1>6, EmplaceWorks
<1>7. CASE \E v \in Values : AssignValue(n, v)
  BY <1>7, AssignValueWorks
<1>8. CASE \E m \in Optionals : CopyOptional(n, m)
  BY <1>8, CopyOptionalWorks
<1>9. CASE \E m \in Optionals : MoveOptional(n, m)
  BY <1>9, MoveOptionalWorks
<1> QED
  BY <1>2, <1>3, <1>4, <1>5, <1>6, <1>7, <1>8, <1>9 DEF OptionalStep

-----------------------------------------------------------------------------
(* Every call of a RawBuffer works.                                         *)

\* memset() of a RawBuffer.
LEMMA FillRawWorks ==
    ASSUME IInv, NEW n \in Raws, NEW v \in Values, Fill(n, v)
    PROVE  Works
<1>1. n \in Names /\ n \notin Containers
  BY RawIs
<1>2. CASE Hollow(n) /\ Panics
  BY <1>1, <1>2, PanicsWorks DEF hollow
<1>3. CASE Fills(n, v)
  <2>2. /\ IInv' /\ Kept(n)' = Copies(Len(Kept(n)), v) /\ Made(n)
        /\ \A k \in Names \ {n} : /\ Kept(k)' = Kept(k) /\ Stays(k)
                                   /\ Survives(k, Size(k)', Cells(k)')
    BY <1>3, FillRawShows
  <2>3. Steady
    <3>1. BytesKept(n)
      BY <1>3 DEF BytesKept, Fill, Fills
    <3>2. Containers \subseteq Names \ {n} /\ Raws \subseteq Names
      BY <1>1 DEF Names
    <3> QED
      BY <2>2, <3>1, <3>2, StaysIsEnough DEF Steady
  <2>4. contents' = [contents EXCEPT ![n] = Copies(Len(Kept(n)), v)]
    BY <1>1, <2>2, ContentsAre, ContentsThen
  <2>5. Promise!Fill(n, v)
    <3>1. contents[n] = Kept(n) /\ Promise!Made(n) /\ res' = "ok"
      BY <1>1, <1>3, <2>2, Listed DEF Fills
    <3>2. n \notin hollow
      BY <1>3, HollowIs DEF Fills
    <3>3. hollow' = hollow
      BY <1>3 DEF Fills, hollow, Hollow, Made, Capacity
    <3>4. hollow' = hollow \ {n}
      BY <3>2, <3>3
    <3> QED
      BY <2>4, <3>1, <3>2, <3>4 DEF Promise!Fill, Promise!Becomes, Copies
  <2>6. Promise!Next
    BY <2>5 DEF Promise!Next
  <2> QED
    BY <2>2, <2>3, <2>6 DEF Works
<1>4. CASE Hollow(n) /\ res' = "ok" /\ UNCHANGED <<heap, obj, alive>>
  BY <1>4, NothingWorks DEF Hollow
<1> QED
  BY <1>2, <1>3, <1>4 DEF Fill, Fills

\* resize() of a RawBuffer.
LEMMA ResizeRawWorks ==
    ASSUME IInv, NEW n \in Raws, NEW k \in 0..SizeMax, ResizeRaw(n, k)
    PROVE  Works
<1>1. n \in Names /\ Size(n) \in Nat /\ Size(n) <= SizeMax /\ res' = "ok"
  BY RawIs DEF ResizeRaw
<1>2. k \in Nat /\ k <= SizeMax
  BY SizesAreNatural
<1>3. PICK j \in 0..Size(n) : Shows(n, SubSeq(Kept(n), 1, j)) /\ Made(n)
  BY <1>2, ResizeRawShows
<1>4. j \in 0..SizeMax /\ j <= Size(n)
  BY <1>1, SizesAreNatural
<1>5. ASSUME Promise!Becomes(n, SubSeq(Kept(n), 1, j)) PROVE Promise!Next
  <2>1. contents[n] = Kept(n) /\ Promise!Made(n) /\ j <= Len(Kept(n))
    BY <1>1, <1>3, <1>4, RawIs, Listed
  <2>2. Promise!Cut(n, j)
    BY <1>5, <2>1 DEF Promise!Cut
  <2> QED
    BY <1>4, <2>2 DEF Promise!Next
<1> QED
  BY <1>1, <1>3, <1>5, ShowsWorks

\* append() of a view.
LEMMA AppendViewWorks ==
    ASSUME IInv, NEW n \in Raws, NEW k \in 0..SizeMax, NEW v \in Values, AppendView(n, k, v)
    PROVE  Works
<1> DEFINE s == Copies(k, v)
<1>1. n \in Names /\ Made(n) /\ Joined(n, s, FALSE)
  BY RawIs, AppendViewShows
<1>2. CASE res' = "noSpace" /\ UNCHANGED <<heap, obj, alive>>
  BY <1>2, FailsWorks
<1>3. CASE res' = "ok" /\ Len(Kept(n)) + Len(s) <= SizeMax /\ Shows(n, Kept(n) \o s)
  <2>1. ASSUME Promise!Becomes(n, Kept(n) \o s) PROVE Promise!Next
    <3>1. contents[n] = Kept(n) /\ Promise!Made(n)
      BY <1>1, Listed
    <3>2. Promise!AppendBytes(n, s)
      BY <1>3, <2>1, <3>1 DEF Promise!AppendBytes
    <3>3. Promise!AppendBytes(n, [i \in 1..k |-> v])
      BY <3>2 DEF Copies
    <3> QED
      BY <3>3 DEF Promise!Next
  <2> QED
    BY <1>1, <1>3, <2>1, ShowsWorks
<1>4. CASE Panics /\ hollow # {}
  BY <1>4, PanicsWorks
<1>5. CASE res' = "ok" /\ UNCHANGED <<heap, obj, alive>>
  BY <1>1, <1>5, NothingWorks
<1> QED
  BY <1>1, <1>2, <1>3, <1>4, <1>5 DEF Joined

\* n and a part of itself, or what is left of that.
LEMMA AppendsOwn ==
    ASSUME IInv, NEW n \in Raws, Made(n), NEW k \in 0..SizeMax, k <= Len(Kept(n)),
           NEW s, s = SubSeq(Kept(n), 1, k), Len(s) = k, Joined(n, s, TRUE)
    PROVE  Works
<1>1. n \in Names /\ contents[n] = Kept(n) /\ Promise!Made(n)
  BY RawIs, Listed
<1>2. CASE res' = "noSpace" /\ UNCHANGED <<heap, obj, alive>>
  BY <1>2, FailsWorks
<1>3. CASE res' = "ok" /\ Len(Kept(n)) + Len(s) <= SizeMax /\ Shows(n, Kept(n) \o s)
  <2>1. ASSUME Promise!Becomes(n, Kept(n) \o s) PROVE Promise!Next
    <3>1. Promise!AppendBytes(n, SubSeq(contents[n], 1, k))
      BY <1>1, <1>3, <2>1 DEF Promise!AppendBytes
    <3>2. Promise!AppendOwn(n, k)
      BY <1>1, <3>1 DEF Promise!AppendOwn
    <3> QED
      BY <3>2 DEF Promise!Next
  <2> QED
    BY <1>1, <1>3, <2>1, ShowsWorks
<1>4. CASE /\ res' = "ok" /\ Len(Kept(n)) + Len(s) <= SizeMax
           /\ Shows(n, Kept(n) \o Copies(Len(s), Lost))
  <2> DEFINE t == Copies(Len(s), Lost)
  <2>1. ASSUME Promise!Becomes(n, Kept(n) \o t) PROVE Promise!Next
    <3>1. k \in Nat /\ Lost \in Held
      BY SizesAreNatural DEF Held
    <3>2. Len(t) = Len(s) /\ t = [i \in 1..k |-> Lost]
      BY <3>1, CopiesAreHeld DEF Copies
    <3> HIDE DEF t
    <3>3. Promise!AppendBytes(n, t)
      BY <1>1, <1>4, <2>1, <3>2 DEF Promise!AppendBytes
    <3>4. Promise!AppendOwn(n, k)
      BY <1>1, <3>2, <3>3 DEF Promise!AppendOwn
    <3> QED
      BY <3>4 DEF Promise!Next
  <2> QED
    BY <1>1, <1>4, <2>1, ShowsWorks
<1>5. CASE Panics /\ hollow # {}
  BY <1>5, PanicsWorks
<1>6. CASE res' = "ok" /\ UNCHANGED <<heap, obj, alive>>
  BY <1>6, NothingWorks
<1> QED
  BY <1>2, <1>3, <1>4, <1>5, <1>6 DEF Joined

\* append() of a part of the buffer itself.
LEMMA AppendOwnWorks ==
    ASSUME IInv, NEW n \in Raws, NEW k \in 1..SizeMax, AppendOwn(n, k)
    PROVE  Works
<1>1. /\ Made(n) /\ k <= Len(Kept(n)) /\ Joined(n, SubSeq(Kept(n), 1, k), TRUE)
      /\ Len(SubSeq(Kept(n), 1, k)) = k
  BY AppendOwnShows
<1>2. k \in 0..SizeMax
  BY SizesAreNatural
<1> DEFINE s == SubSeq(Kept(n), 1, k)
<1>3. Joined(n, s, TRUE) /\ Len(s) = k /\ s = SubSeq(Kept(n), 1, k)
  BY <1>1
<1> HIDE DEF s
<1> QED
  BY <1>1, <1>2, <1>3, AppendsOwn

\* Sequences with a common front.
LEMMA OwnPrefix ==
    ASSUME NEW q \in Seq(Held), NEW t \in Seq(Held)
    PROVE  /\ Len(q) <= Len(q \o t) /\ SubSeq(q, 1, Len(q)) = SubSeq(q \o t, 1, Len(q))
           /\ SubSeq(q, 1, Len(q)) = q
<1> DEFINE c == q \o t
           k == Len(q)
<1>1. k \in Nat /\ Len(t) \in Nat /\ \A i \in 1..k : q[i] \in Held
  BY LenProperties, ElementOfSeq
<1>2. /\ c \in Seq(Held) /\ Len(c) = k + Len(t)
      /\ \A i \in 1..k + Len(t) : c[i] = IF i <= k THEN q[i] ELSE t[i - k]
  BY ConcatProperties
<1>3. \A i \in 1..k : c[i] = q[i] /\ c[i] \in Held
  BY <1>1, <1>2
<1>4. q = [i \in 1..k |-> q[i]]
  OBVIOUS
<1> HIDE DEF c, k
<1>5. /\ SubSeq(c, 1, k) = [i \in 1..k |-> c[i]] /\ SubSeq(q, 1, k) = [i \in 1..k |-> q[i]]
  BY <1>1, <1>2, <1>3
<1> QED
  BY <1>1, <1>2, <1>3, <1>4, <1>5 DEF c, k

\* append() of another RawBuffer, or of itself.
LEMMA AppendRawWorks ==
    ASSUME IInv, NEW n \in Raws, NEW m \in Raws, AppendRaw(n, m)
    PROVE  Works
<1>1. /\ n \in Names /\ m \in Names /\ Size(m) \in Nat /\ Size(m) <= SizeMax
  BY RawIs
<1>2. Made(n) /\ Made(m)
  BY AppendRawShows
<1>3. PICK s \in Seq(Held) : Joined(n, s, n = m) /\ (Kept(m) # <<>> => s = Kept(m))
  BY AppendRawShows
<1> DEFINE Grows == /\ res' = "ok" /\ Len(Kept(n)) + Len(s) <= SizeMax
                    /\ \/ Shows(n, Kept(n) \o s)
                       \/ n = m /\ Shows(n, Kept(n) \o Copies(Len(s), Lost))
<1> HIDE DEF Grows
<1>4. /\ contents[n] = Kept(n) /\ contents[m] = Kept(m) /\ Promise!Made(n) /\ Promise!Made(m)
      /\ Kept(m) \in Seq(Held) /\ Len(Kept(m)) = Size(m) /\ Kept(n) \in Seq(Held)
  BY <1>1, <1>2, RawIs, Listed
<1>5. CASE res' = "noSpace" /\ UNCHANGED <<heap, obj, alive>>
  BY <1>5, FailsWorks
<1>6. CASE Panics /\ hollow # {}
  BY <1>6, PanicsWorks
<1>7. CASE res' = "ok" /\ UNCHANGED <<heap, obj, alive>>
  BY <1>2, <1>7, NothingWorks
<1>8. CASE n = m /\ Kept(m) # <<>>
  <2> DEFINE q == Kept(n)
  <2>1. s = q /\ Joined(n, s, TRUE)
    BY <1>3, <1>8 DEF Joined
  <2>2. q \in Seq(Held)
    BY <1>4
  <2> HIDE DEF q
  <2>3. q = SubSeq(q, 1, Len(q))
    BY <2>2, OwnPrefix
  <2>4. s = SubSeq(Kept(n), 1, Len(Kept(n))) /\ Len(s) = Len(Kept(n))
    BY <2>1, <2>3 DEF q
  <2>5. Len(Kept(n)) \in 0..SizeMax /\ Len(Kept(n)) <= Len(Kept(n))
    BY <1>1, <1>4, <1>8, SizesAreNatural
  <2> QED
    BY <1>2, <2>1, <2>4, <2>5, AppendsOwn
<1>9. CASE n # m /\ Kept(m) # <<>> /\ Grows
  <2>1. Len(Kept(n)) + Len(s) <= SizeMax /\ Shows(n, Kept(n) \o s) /\ s = Kept(m) /\ res' = "ok"
    BY <1>3, <1>9 DEF Grows
  <2>2. ASSUME Promise!Becomes(n, Kept(n) \o s) PROVE Promise!Next
    <3>1. Promise!AppendBytes(n, contents[m])
      BY <1>4, <2>1, <2>2 DEF Promise!AppendBytes
    <3>2. Promise!AppendList(n, m)
      BY <1>4, <1>9, <3>1 DEF Promise!AppendList
    <3> QED
      BY <3>2 DEF Promise!Next
  <2> QED
    BY <1>1, <2>1, <2>2, ShowsWorks
<1>10. CASE Kept(m) = <<>> /\ Grows
  <2>1. \E t \in Seq(Held) : Shows(n, Kept(n) \o t)
    <3>1. CASE Shows(n, Kept(n) \o s)
      BY <3>1
    <3>2. CASE Shows(n, Kept(n) \o Copies(Len(s), Lost))
      <4>1. Copies(Len(s), Lost) \in Seq(Held)
        BY CopiesAreHeld, LenProperties DEF Held
      <4> QED
        BY <3>2, <4>1
    <3> QED
      BY <1>10, <3>1, <3>2 DEF Grows
  <2>2. PICK t \in Seq(Held) : Shows(n, Kept(n) \o t)
    BY <2>1
  <2> DEFINE l == Kept(n) \o t
  <2>3. Shows(n, l) /\ l \in Seq(Held)
    BY <1>4, <2>2
  <2>4. Promise!IsPrefix(Kept(n), l)
    <3> DEFINE q == Kept(n)
    <3>1. q \in Seq(Held)
      BY <1>4
    <3> HIDE DEF q
    <3>2. Len(q) <= Len(q \o t) /\ SubSeq(q, 1, Len(q)) = SubSeq(q \o t, 1, Len(q))
      BY <3>1, OwnPrefix
    <3> QED
      BY <3>2 DEF Promise!IsPrefix, q
  <2> HIDE DEF l
  <2>5. ASSUME Promise!Becomes(n, l) PROVE Promise!Next
    <3>1. contents'[n] = l
      BY <1>1, <2>3, ContentsThen DEF Shows
    <3>2. Promise!Made(n)'
      BY <2>3, <3>1, NotMadeIsNoList DEF Promise!Made, Held
    <3>3. Promise!AppendList(n, m)
      BY <1>4, <1>10, <2>4, <2>5, <3>1, <3>2 DEF Promise!AppendList
    <3> QED
      BY <3>3 DEF Promise!Next
  <2>6. res' = "ok"
    BY <1>10 DEF Grows
  <2> QED
    BY <1>1, <2>3, <2>5, <2>6, ShowsWorks
<1> QED
  BY <1>3, <1>5, <1>8, <1>9, <1>10, <1>6, <1>7 DEF Joined, Grows

\* Copy construction of a RawBuffer.
LEMMA CopyRawWorks ==
    ASSUME IInv, NEW n \in Raws, NEW m \in Raws, CopyRaw(n, m)
    PROVE  Works
<1>1. n \in Names /\ m \in Names /\ res' = "ok"
  BY RawIs DEF CopyRaw
<1>2. Shows(n, Kept(m)) /\ ~Made(n) /\ Made(m)
  BY CopyRawShows
<1>3. ASSUME Promise!Becomes(n, Kept(m)) PROVE Promise!Next
  <2>1. contents[m] = Kept(m) /\ Promise!Made(m) /\ ~Promise!Made(n)
    BY <1>1, <1>2, Listed
  <2>2. Promise!Copy(n, m)
    BY <1>3, <2>1 DEF Promise!Copy
  <2> QED
    BY <2>2 DEF Promise!Next
<1> QED
  BY <1>1, <1>2, <1>3, ShowsWorks

\* The implicit move of a RawBuffer.
LEMMA MoveRawWorks ==
    ASSUME IInv, NEW n \in Raws, NEW m \in Raws, MoveRaw(n, m)
    PROVE  Works
<1>1. /\ n \in Names /\ m \in Names /\ n \notin Containers /\ m \notin Containers
      /\ n \notin Arrays /\ m \notin Arrays
  BY RawIs
<1>2. n # m /\ Made(m) /\ res' = "ok"
  BY DEF MoveRaw
<1>3. /\ IInv' /\ Cells(n)' = Cells(m) /\ Cells(m)' = <<>> /\ obj'[n] = obj[m]
      /\ obj'[m] = [obj[m] EXCEPT !.buffer = NoBuffer]
      /\ \A k \in Names \ {n, m} : obj'[k] = obj[k] /\ Cells(k)' = Cells(k)
  BY MoveRawInv
<1>4. \A k \in Names \ {n, m} : Kept(k)' = Kept(k) /\ Stays(k) /\ Survives(k, Size(k)', Cells(k)')
  BY <1>3, SameIsKept
<1>5. Size(m) \in Nat /\ Cells(m) \in Seq(Cell) /\ obj[m] \in Records
  BY <1>1, RawIs, Knows DEF IInv
<1>6. Kept(n)' = Kept(m)
  <2>1. Made(n)' = Made(m) /\ Size(n)' = Size(m)
    BY <1>3 DEF Made, Size
  <2> QED
    BY <1>1, <1>3, <2>1 DEF Kept, Extent
<1>7. Kept(m)' = Copies(Size(m), Lost)
  <2>1. Made(m)' /\ Size(m)' = Size(m)
    BY <1>2, <1>3, <1>5 DEF Made, Size, Records
  <2>2. \A i \in 1..Size(m) : i > Len(<<>>)
    BY EmptySeq
  <2>3. Seen(Size(m), <<>>) = Copies(Size(m), Lost)
    BY <2>2 DEF Seen, Copies
  <2> QED
    BY <1>1, <1>3, <2>1, <2>3 DEF Kept, Extent
<1>8. Copies(Size(m), Lost) = [i \in DOMAIN Kept(m) |-> Lost]
  <2>1. Len(Kept(m)) = Size(m) /\ Kept(m) \in Seq(Held)
    BY <1>1, <1>2, Listed
  <2> QED
    BY <2>1 DEF Copies
<1>9. BytesKept(n) /\ BytesKept(m)
  BY DEF BytesKept
<1>10. /\ hollow' \ {m} = (IF m \in hollow THEN hollow \cup {n} ELSE hollow \ {n}) \ {m}
       /\ m \in hollow' \/ Kept(m) = <<>>
  <2>1. hollow' \ {n, m} = hollow \ {n, m}
    BY <1>3, HollowStays
  <2>2. n \in hollow' <=> m \in hollow
    BY <1>1, <1>3 DEF hollow, Hollow, Made, Capacity
  <2>3. ~(m \in hollow') => Capacity(m) = 0
    <3>1. Made(m)' /\ obj'[m].buffer = NoBuffer /\ Capacity(m)' = Capacity(m) /\ Capacity(m) \in Nat
      BY <1>2, <1>3, <1>5, RawIs DEF Made, Capacity, Records
    <3>2. (Capacity(m) > 0) => Hollow(m)'
      BY <3>1 DEF Hollow
    <3> QED
      BY <1>1, <3>1, <3>2 DEF hollow
  <2>4. Capacity(m) = 0 => Kept(m) = <<>>
    <3>1. Len(Kept(m)) = Size(m) /\ Kept(m) \in Seq(Held)
      BY <1>1, <1>2, Listed
    <3> QED
      BY <3>1, RawIs, EmptySeq
  <2> QED
    BY <1>2, <2>1, <2>2, <2>3, <2>4
<1>11. Steady
  <2>1. Containers \subseteq Names \ {n, m} /\ Raws \subseteq Names
    BY <1>1 DEF Names
  <2> QED
    BY <1>4, <1>9, <2>1, StaysIsEnough DEF Steady
<1>12. contents' = [contents EXCEPT ![n] = contents[m], ![m] = [i \in DOMAIN contents[m] |-> Lost]]
  <2>1. contents[m] = Kept(m)
    BY <1>1, Listed
  <2> DEFINE t == [i \in DOMAIN contents[m] |-> Lost]
  <2>2. Kept(m)' = t
    BY <1>7, <1>8, <2>1
  <2> HIDE DEF t
  <2>3. contents' = [contents EXCEPT ![n] = contents[m], ![m] = t]
    BY <1>1, <1>2, <1>4, <1>6, <2>1, <2>2, ContentsAre, ContentsThen
  <2> QED
    BY <2>3 DEF t
<1>13. Promise!MoveAll(n, m)
  BY <1>1, <1>2, <1>10, <1>12, Listed DEF Promise!MoveAll
<1>14. Promise!Next
  BY <1>13 DEF Promise!Next
<1> QED
  BY <1>3, <1>11, <1>14 DEF Works

\* All calls of a RawBuffer.
LEMMA RawWorks ==
    ASSUME IInv, NEW n \in Raws, RawStep(n)
    PROVE  Works
<1>1. n \in Names /\ n \notin Arrays /\ n \notin Optionals
  BY RawIs
<1>2. CASE Make(n)
  BY <1>1, <1>2, MakeShows, MakeWorks DEF Make, New
<1>3. ASSUME NEW k \in 1..SizeMax, MakeWithCapacity(n, k) PROVE Works
  <2>1. Shows(n, <<>>) /\ ~Made(n) /\ res' = "ok"
    BY <1>3, MakeRawShows DEF MakeWithCapacity
  <2> QED
    BY <1>1, <2>1, MakeWorks
<1>4. CASE \E k \in 1..SizeMax : AppendOwn(n, k)
  BY <1>4, AppendOwnWorks
<1>5. CASE \E k \in 0..SizeMax : ResizeRaw(n, k)
  BY <1>5, ResizeRawWorks
<1>6. CASE \E v \in Values : Fill(n, v)
  BY <1>6, FillRawWorks
<1>7. CASE \E v \in Values : \E k \in 0..SizeMax : AppendView(n, k, v)
  BY <1>7, AppendViewWorks
<1>8. CASE \E m \in Raws : CopyRaw(n, m)
  BY <1>8, CopyRawWorks
<1>9. CASE \E m \in Raws : AppendRaw(n, m)
  BY <1>9, AppendRawWorks
<1>10. CASE \E m \in Raws : MoveRaw(n, m)
  BY <1>10, MoveRawWorks
<1> QED
  BY <1>2, <1>3, <1>4, <1>5, <1>6, <1>7, <1>8, <1>9, <1>10 DEF RawStep

-----------------------------------------------------------------------------
(* Every step works, and the system starts well.                            *)

\* Every step keeps the invariant, moves nothing that is referred to, and is
\* one the promise allows.
LEMMA NextWorks ==
    ASSUME IInv, Next
    PROVE  Works
<1>1. CASE \E n \in Vectors : VectorStep(n)
  BY <1>1, VectorWorks
<1>2. CASE \E n \in Sets : SetStep(n)
  BY <1>2, SetWorks
<1>3. CASE \E n \in Arrays : ArrayStep(n)
  BY <1>3, ArrayWorks
<1>4. CASE \E n \in Raws : RawStep(n)
  BY <1>4, RawWorks
<1>5. CASE \E n \in Optionals : OptionalStep(n)
  BY <1>5, OptionalWorks
<1>6. CASE \E n \in Names : Destroy(n)
  BY <1>6, DestroyWorks
<1>7. CASE \E n \in Names : NoMemory(n)
  BY <1>7, FailsWorks DEF NoMemory
<1> QED
  BY <1>1, <1>2, <1>3, <1>4, <1>5, <1>6, <1>7 DEF Next

\* Nothing is there at first.
LEMMA InitHolds == Init => IInv /\ contents = [n \in Names |-> NotMade] /\ hollow = {}
BY EmptyHolds DEF Init, Empty

\* The invariant is inductive.
LEMMA StepInv ==
    ASSUME IInv, [Next]_vars
    PROVE  IInv'
<1>1. CASE Next
  BY <1>1, NextWorks DEF Works
<1>2. CASE UNCHANGED vars
  <2>1. UNCHANGED <<heap, obj, alive>> /\ res' \in {"ok", "noSpace", "underflow", "present", "panic"}
    BY <1>2 DEF vars, IInv, Types
  <2> QED
    BY <2>1, StutterBecomes
<1> QED
  BY <1>1, <1>2

-----------------------------------------------------------------------------
(* Theorems.                                                                *)

\* The inductive invariant: a buffer is as long as its owner thinks, has one
\* owner at most and one if it is allocated; the elements lie in it, in front
\* and nothing behind them; those alive are counted, whatever constructed them.
THEOREM Invariant == Spec => []IInv
<1>1. Init => IInv
  BY InitHolds
<1>2. IInv /\ [Next]_vars => IInv'
  BY StepInv
<1> QED
  BY <1>1, <1>2, PTL DEF Spec

\* The invariant counts and places the elements.
LEMMA InvElements == IInv => ObjectsAreElements
<1> SUFFICES ASSUME IInv PROVE ObjectsAreElements
  OBVIOUS
<1>1. alive = SumFunction([n \in Containers |-> Size(n)])
  BY DEF IInv, Counted, Sizes
<1>2. \A n \in Containers : Filled(n, Size(n), Cells(n))
  BY Knows DEF IInv, Size, Names
<1>3. \A n \in Containers : \A i \in 1..Len(Cells(n)) :
         \/ Cells(n)[i] = Raw <=> i > Size(n)
         \/ n \in Optionals /\ Cells(n) = <<Lost>>
  BY <1>2 DEF Filled
<1> QED
  BY <1>1, <1>3 DEF ObjectsAreElements

\* Through every construction, growth, move, failure and destruction, each
\* object that was constructed is destroyed once and in its place.
THEOREM ElementsAreObjects == Spec => []ObjectsAreElements
BY Invariant, InvElements, PTL

\* The invariant gives each buffer its owner.
LEMMA InvOwner == IInv => BuffersHaveOneOwner
<1> SUFFICES ASSUME IInv PROVE BuffersHaveOneOwner
  OBVIOUS
<1>1. TypeOK
  <2>1. /\ heap \in [Buffers -> Seq(Values \cup {Lost, Raw})] /\ alive \in Int
        /\ res \in {"ok", "noSpace", "underflow", "present", "panic"}
    BY DEF IInv, Types, Cell
  <2>2. obj \in [Names -> [made : BOOLEAN, buffer : Buffers \cup {NoBuffer},
                           size : Nat, capacity : Nat]]
    BY DEF IInv, Types, Records
  <2>3. ASSUME NEW n \in Names
        PROVE  /\ Size(n) <= Capacity(n)
               /\ (n \in Raws /\ Hollow(n)) \/ Len(Cells(n)) = Capacity(n)
    <3>1. CASE n \in Containers
      BY <3>1, ElementsAreHeld
    <3>2. CASE n \in Raws
      BY <3>2, RawIs
    <3> QED
      BY <3>1, <3>2 DEF Names
  <2> QED
    BY <2>1, <2>2, <2>3 DEF TypeOK
<1>2. ASSUME NEW b \in Buffers
      PROVE  heap[b] # <<>> <=> Cardinality({n \in Names : obj[n].buffer = b}) = 1
  <2> DEFINE S == {n \in Names : obj[n].buffer = b}
  <2>1. ASSUME heap[b] # <<>> PROVE Cardinality(S) = 1
    <3>1. PICK n \in Names : obj[n].buffer = b
      BY <2>1 DEF IInv, Owners, Owns
    <3>2. S = {n}
      BY <3>1 DEF IInv, Owners, Owns
    <3> QED
      BY <3>2, FS_Singleton
  <2>2. ASSUME Cardinality(S) = 1 PROVE heap[b] # <<>>
    <3>1. Cardinality({}) = 0 /\ IsFiniteSet({})
      BY FS_EmptySet
    <3>2. PICK n \in Names : obj[n].buffer = b
      <4>1. S # {}
        BY <2>2, <3>1
      <4> QED
        BY <4>1
    <3> QED
      BY <3>2, Knows, NullIsNoBuffer DEF IInv
  <2> QED
    BY <2>1, <2>2
<1> QED
  BY <1>1, <1>2 DEF BuffersHaveOneOwner

\* A buffer that is allocated has one owner, which knows how long it is; so none
\* is leaked or freed twice.
THEOREM OwnersAreUnique == Spec => []BuffersHaveOneOwner
BY Invariant, InvOwner, PTL

\* References and iterators stay valid until the object is moved, destroyed or
\* needs more room than it has.
THEOREM AddressesAreStable == Spec => AddressesStay
<1>1. IInv /\ [Next]_vars =>
        [\A n \in Containers :
            Made(n) /\ obj'[n].buffer # obj[n].buffer =>
                \/ obj'[n].capacity > Capacity(n) \/ res' = "panic"
                \/ Destroy(n) \/ \E m \in Names : Move(n, m) \/ Move(m, n)]_vars
  BY NextWorks DEF Works, Steady, StaysPut
<1> QED
  BY <1>1, Invariant, PTL DEF Spec, AddressesStay

\* resize(), append() and the shrinking in it keep every byte of a RawBuffer,
\* appended or not, but those that they are named for.
THEOREM BytesAreKept == Spec => BytesSurvive
<1>1. IInv /\ [Next]_vars =>
        [\A n \in Raws :
            LET before == Cells(n)
                after == Cells(n)'
            IN  \/ Made(n) /\ Made(n)' => \A i \in 1..Len(before) :
                       \/ i \in Size(n) + 1..Size(n)'
                       \/ i <= Len(after) /\ after[i] = before[i]
                       \/ /\ i > Len(after) /\ Len(after) = Size(n)'
                          /\ Size(n)' < Len(before) \div 2
                       \/ i > Len(after) /\ ResizeRaw(n, Len(after))
                \/ res' = "panic" \/ \E v \in Values : Fill(n, v)
                \/ \E m \in Raws : MoveRaw(n, m) \/ MoveRaw(m, n)]_vars
  BY NextWorks DEF Works, Steady, BytesKept
<1> QED
  BY <1>1, Invariant, PTL DEF Spec, BytesSurvive

\* Vector, Set, Array, RawBuffer and Optional implement the sequences of Lists, in
\* every call, of what was moved from too: an Array is as long as before then, and a
\* RawBuffer, and who touches the elements of either panics, as a step of Lists.
THEOREM ContainersAreLists == Spec => KeepsPromise
<1>1. Init => Promise!Init
  <2> SUFFICES ASSUME Init PROVE Promise!Init
    OBVIOUS
  <2>1. contents = [n \in Names |-> NotMade] /\ hollow = {} /\ res = "ok"
    BY InitHolds DEF Init
  <2> QED
    BY <2>1, NamesAreListed DEF Promise!Init
<1>2. IInv /\ [Next]_vars => [Promise!Next]_(Promise!vars)
  <2> SUFFICES ASSUME IInv, [Next]_vars PROVE [Promise!Next]_(Promise!vars)
    OBVIOUS
  <2>1. CASE Next
    BY <2>1, NextWorks DEF Works
  <2>2. CASE UNCHANGED vars
    <3>1. UNCHANGED <<heap, obj, alive>> /\ res' \in {"ok", "noSpace", "underflow", "present", "panic"}
          /\ res' = res
      BY <2>2 DEF vars, IInv, Types
    <3>2. contents' = contents /\ hollow' = hollow
      BY <3>1, StutterBecomes
    <3> QED
      BY <3>1, <3>2 DEF Promise!vars
  <2> QED
    BY <2>1, <2>2
<1> QED
  BY <1>1, <1>2, Invariant, PTL DEF Spec, KeepsPromise, Promise!Spec
=============================================================================
