--------------------------- MODULE HandlesProofs ---------------------------
(***************************************************************************)
(* Theorems about Handles: every kernel object has one owner that frees it,*)
(* a lock's group is there until the lock is freed, a kernel thread's      *)
(* context is there as long as its Thread is left alone, and the address   *)
(* of the kernel's context is the one its function computes if that has    *)
(* the expected instructions; for all variables, addresses, kernel threads *)
(* and sizes of instruction fields.                                        *)
(***************************************************************************)
EXTENDS Handles, FiniteSetTheorems, SequenceTheorems, TLAPS

-----------------------------------------------------------------------------
(* The inductive invariant.                                                 *)

LockMaking == {"groupAttr", "group", "lockAttr", "lock", "locked"}
ThreadMaking == {"context", "start", "wrap"}
Holding == {"group", "lockAttr", "lock", "locked", "start", "wrap", "unwind"}
Labels == {"idle", "assign", "destroy", "moveContext", "terminate", "unwind"}
              \cup LockMaking \cup ThreadMaking

\* The n-th local, if there is one that owns something.
Local(n) == IF n <= Len(locals) THEN locals[n] ELSE Null

\* What a call has made so far, and what that is.
LocalsFit ==
    /\ pc \notin Holding => locals = <<>>
    /\ Len(locals) <= 4
    /\ Local(1) # Null => heap[Local(1)].kind \in {"groupAttr", "context"}
    /\ Local(2) # Null => heap[Local(2)].kind = "group"
    /\ Local(3) # Null => heap[Local(3)].kind = "lockAttr"
    /\ Local(4) # Null => heap[Local(4)].kind = "lock"
    /\ pc = "group" => Len(locals) = 1
    /\ pc = "lockAttr" => Len(locals) = 2 /\ locals[2] # Null
    /\ pc = "lock" => Len(locals) = 3 /\ locals[2] # Null
    /\ pc = "locked" => Len(locals) = 4 /\ locals[2] # Null /\ locals[4] # Null
                            /\ heap[locals[4]].link = locals[2]
    /\ pc \in {"start", "wrap"} => Len(locals) = 1 /\ locals[1] # Null
                                       /\ heap[locals[1]].kind = "context"
    /\ pc # "locked" => Local(4) = Null

\* A call that makes something is about a variable with nothing in it, a move
\* about two variables.
AboutFits ==
    /\ pc \in LockMaking => about[1] \in Locks /\ lock[about[1]] = NoLock
    /\ pc \in {"context", "start"} =>
           /\ about \in Seq(Handles) /\ Len(about) = 1
           /\ about[1] \in Handles /\ handle[about[1]] = NoThread
    /\ pc = "wrap" =>
           /\ about[1] \in Handles /\ handle[about[1]] = NoThread
           /\ about[2] \in Kthreads /\ kthread[about[2]].state # "none"
           /\ kthread[about[2]].context = locals[1]
    /\ pc = "assign" => about[1] \in Locks /\ about[2] \in Locks /\ about[1] # about[2]
    /\ pc = "destroy" => about[1] \in Locks
    /\ pc = "moveContext" => about[1] \in Handles /\ about[2] \in Handles
                                 /\ about[1] # about[2] /\ handle[about[2]].thread = Null
    /\ pc = "terminate" => about[1] \in Handles

\* A pointer is to an object of its kind.
PointersFit ==
    /\ \A o \in Locks :
         /\ lock[o].group # Null => heap[lock[o].group].kind = "group"
         /\ lock[o].rw # Null =>
              /\ heap[lock[o].rw].kind = "lock" /\ heap[lock[o].rw].link = lock[o].rwGroup
              /\ lock[o].rwGroup # Null /\ heap[lock[o].rwGroup].kind = "group"
         /\ lock[o].rw = Null => lock[o].rwGroup = Null
    /\ \A o \in Vnodes : vnode[o].vnode # Null => heap[vnode[o].vnode].kind = "vnode"
    /\ \A o \in Handles : handle[o].context # Null => heap[handle[o].context].kind = "context"

\* No two pointers are to the same object.
PointersDiffer ==
    /\ \A o, p \in Locks : o # p =>
         /\ lock[o].group # Null => lock[o].group # lock[p].group
         /\ lock[o].rw # Null => lock[o].rw # lock[p].rw
    /\ \A o, p \in Vnodes : o # p /\ vnode[o].vnode # Null => vnode[o].vnode # vnode[p].vnode
    /\ \A o, p \in Handles :
           o # p /\ handle[o].context # Null => handle[o].context # handle[p].context
    /\ Local(1) # Null => \A o \in Handles : handle[o].context # Local(1)
    /\ Local(2) # Null => \A o \in Locks : lock[o].group # Local(2)
    /\ Local(4) # Null => \A o \in Locks : lock[o].rw # Local(4)

OwnsGroup(g) == Local(2) = g \/ \E o \in Locks : lock[o].group = g
OwnsLock(i) == Local(4) = i \/ \E o \in Locks : lock[o].rw = i
OwnsVnode(i) == \E o \in Vnodes : vnode[o].vnode = i
OwnsContext(i) == Local(1) = i \/ \E o \in Handles : handle[o].context = i
Linked(g) == \E j \in Ids : heap[j].kind = "lock" /\ heap[j].link = g

\* Every object has a pointer to it; the references to a group are its owner
\* and its lock.
ObjectsOwned ==
    \A i \in Ids :
      /\ heap[i].kind = "none" => heap[i] = Nothing
      /\ heap[i].kind = "groupAttr" => Local(1) = i
      /\ heap[i].kind = "group" =>
           \/ heap[i].refs = 2 /\ OwnsGroup(i) /\ Linked(i)
           \/ heap[i].refs = 1 /\ OwnsGroup(i) /\ ~Linked(i)
           \/ heap[i].refs = 1 /\ ~OwnsGroup(i) /\ Linked(i)
      /\ heap[i].kind = "lockAttr" => Local(3) = i
      /\ heap[i].kind = "lock" => OwnsLock(i) /\ heap[i].link # Null
      /\ heap[i].kind = "vnode" => OwnsVnode(i)
      /\ heap[i].kind = "context" => OwnsContext(i)

\* No group has two locks.
LinksDiffer ==
    \A i, j \in Ids :
        heap[i].kind = "lock" /\ heap[j].kind = "lock" /\ heap[i].link = heap[j].link => i = j

\* Outside of an assignment or a destructor, a Lock has the group its lock was
\* made in; an assignment has moved the group, and a destructor freed the lock.
LocksWhole ==
    /\ \A o \in Locks :
           \/ pc = "assign" /\ o \in {about[1], about[2]}
           \/ pc = "destroy" /\ o = about[1]
           \/ lock[o].group = lock[o].rwGroup
    /\ pc = "assign" => /\ lock[about[2]].group = Null
                        /\ lock[about[1]].group = lock[about[2]].rwGroup
    /\ pc = "destroy" => lock[about[1]].rw = Null

GivenContext(o) == kthread[handle[o].thread].context

\* A kernel thread was given the context of its Thread, which a move passes on
\* after the thread, and a destructor frees before it ends the thread.
ContextsKept ==
    /\ \A o \in Handles : handle[o].thread # Null => kthread[handle[o].thread].state # "none"
    /\ \A o \in Handles :
           handle[o].thread # Null /\ ~(pc \in {"moveContext", "terminate"} /\ o = about[1]) =>
               handle[o].context # Null /\ handle[o].context = GivenContext(o)
    /\ pc = "moveContext" /\ handle[about[1]].thread # Null =>
           /\ handle[about[2]].context # Null
           /\ handle[about[2]].context = GivenContext(about[1])
    /\ pc = "terminate" => handle[about[1]].context = Null

\* A Vnode was opened with the kernel's context, once that was found.
KernelKnown ==
    /\ kernelContext # Null => kernelContext = Kernel /\ Kernel # NoAddress
    /\ \A o \in Vnodes :
           vnode[o].vnode # Null => vnode[o].context = Kernel /\ kernelContext = Kernel

IInv == /\ TypeOK
        /\ pc \in Labels
        /\ LocalsFit
        /\ AboutFits
        /\ PointersFit
        /\ PointersDiffer
        /\ ObjectsOwned
        /\ LinksDiffer
        /\ LocksWhole
        /\ ContextsKept
        /\ KernelKnown

-----------------------------------------------------------------------------
(* Addresses.                                                               *)

\* A remainder determines what it is the remainder of up to a multiple.
LEMMA DividedBy ==
    ASSUME NEW n \in Nat \ {0}, NEW a \in Int
    PROVE  a % n \in 0..n - 1 /\ \E q \in Int : a = n * q + (a % n)
<1>1. a % n \in 0..n - 1
  OBVIOUS
<1>2. a \div n \in Int /\ a = n * (a \div n) + (a % n)
  OBVIOUS
<1> QED
  BY <1>1, <1>2

LEMMA RemainderIs ==
    ASSUME NEW n \in Nat \ {0}, NEW a \in Int, NEW q \in Int, NEW r \in 0..n - 1, a = n * q + r
    PROVE  a % n = r
OBVIOUS

\* Numbers less than n apart with the same remainder are equal.
LEMMA SameRemainder ==
    ASSUME NEW n \in Nat \ {0}, NEW a \in Int, NEW b \in Int, a % n = b % n,
           a - b < n, b - a < n
    PROVE  a = b
<1>1. PICK p \in Int : a = n * p + (a % n)
  BY DividedBy
<1>2. PICK q \in Int : b = n * q + (b % n)
  BY DividedBy
<1>3. a % n \in Int
  BY DividedBy
<1>4. n * (p - q) = a - b
  BY <1>1, <1>2, <1>3
<1>5. CASE p - q >= 1
  <2>1. n * (p - q) >= n
    BY <1>5
  <2> QED
    BY <1>4, <2>1
<1>6. CASE p - q <= -1
  <2>1. n * (p - q) <= -n
    BY <1>6
  <2> QED
    BY <1>4, <2>1
<1> QED
  BY <1>4, <1>5, <1>6

\* A sum may be reduced before something is added to it.
LEMMA ReducedSum ==
    ASSUME NEW n \in Nat \ {0}, NEW a \in Int, NEW b \in Int
    PROVE  ((a % n) + b) % n = (a + b) % n
<1> DEFINE r == a % n
           t == (r + b) % n
<1>1. r \in Int /\ \E q \in Int : a = n * q + r
  <2>1. a % n \in 0..n - 1 /\ \E q \in Int : a = n * q + (a % n)
    BY DividedBy
  <2>2. r \in Int
    BY <2>1
  <2> QED
    BY <2>1, <2>2
<1>2. PICK q \in Int : a = n * q + r
  BY <1>1
<1> HIDE DEF r
<1>3. r + b \in Int
  BY <1>1
<1>4. t \in 0..n - 1 /\ \E p \in Int : r + b = n * p + t
  BY <1>3, DividedBy
<1>5. PICK p \in Int : r + b = n * p + t
  BY <1>4
<1> HIDE DEF t
<1>6. a + b = n * (q + p) + t
  BY <1>1, <1>2, <1>4, <1>5
<1>7. a + b \in Int /\ q + p \in Int
  OBVIOUS
<1>8. (a + b) % n = t
  BY <1>4, <1>6, <1>7, RemainderIs
<1> QED
  BY <1>8 DEF r, t

\* The number of pages that adrp adds is its immediate, sign-extended.
LEMMA PagesAreExtended ==
    ASSUME NEW adrp \in Adrps
    PROVE  /\ Pages(adrp) = SignExtended(adrp.immhi * 4 + adrp.immlo)
           /\ Pages(adrp) \in Int
<1> DEFINE x == adrp.immhi * 4 + adrp.immlo
           m == 4 * ImmhiSize
           s == SignExtended(x)
<1>1. ImmhiSize \in Nat \ {0} /\ adrp.immhi \in 0..ImmhiSize - 1 /\ adrp.immlo \in 0..3
  BY SizesFit DEF Adrps
<1>2. m \in Nat \ {0} /\ x \in 0..m - 1
  BY <1>1
<1>3. s \in -(2 * ImmhiSize)..(2 * ImmhiSize - 1)
  <2> HIDE DEF x
  <2> QED
    BY <1>1, <1>2 DEF SignExtended
<1>4. s % m = x
  <2>1. \E q \in Int : s = m * q + x
    <3>1. CASE x >= 2 * ImmhiSize
      <4>1. s = m * (-1) + x
        <5> HIDE DEF x
        <5> QED
          BY <1>1, <1>2, <3>1 DEF SignExtended
      <4> QED
        BY <4>1
    <3>2. CASE ~(x >= 2 * ImmhiSize)
      <4>1. s = m * 0 + x
        <5> HIDE DEF x
        <5> QED
          BY <1>1, <1>2, <3>2 DEF SignExtended
      <4> QED
        BY <4>1
    <3> QED
      BY <3>1, <3>2
  <2>2. s \in Int
    BY <1>1, <1>3
  <2> HIDE DEF x, m, s
  <2> QED
    BY <1>2, <2>1, <2>2, RemainderIs
<1>5. ASSUME NEW n \in -(2 * ImmhiSize)..(2 * ImmhiSize - 1), n % m = x
      PROVE  n = s
  <2>1. n \in Int /\ s \in Int /\ n - s < m /\ s - n < m
    <3> HIDE DEF s
    <3> QED
      BY <1>1, <1>3
  <2> HIDE DEF x, m, s
  <2> QED
    BY <1>2, <1>4, <1>5, <2>1, SameRemainder
<1>6. Pages(adrp) = CHOOSE n \in -(2 * ImmhiSize)..(2 * ImmhiSize - 1) : n % m = x
  BY DEF Pages
<1>7. s \in Int
  BY <1>1, <1>3
<1> HIDE DEF s, x, m
<1>8. Pages(adrp) = s
  BY <1>3, <1>4, <1>5, <1>6
<1> QED
  BY <1>7, <1>8 DEF s, x

\* What the processor adds in the second instruction.
LEMMA ScalesAre ==
    ASSUME NEW second \in Seconds
    PROVE  /\ second.imm12 \in 0..PageSize - 1
           /\ Scale[second.op] \in {1, 2, 4, 8, 16, PageSize}
           /\ second.op \in Accesses => (Scale[second.op] = 4 <=> second.op = "ldr32")
           /\ second.op \in Adds =>
                  (Scale[second.op] = 1 \/ second.imm12 = 0
                       <=> second.op = "add64" \/ second.imm12 = 0)
<1>1. second.imm12 \in 0..PageSize - 1 /\ second.op \in Accesses \cup Adds
  BY DEF Seconds
<1>2. PageSize \in Nat \ {0}
  BY SizesFit
<1>3. Scale["access8"] = 1 /\ Scale["access16"] = 2 /\ Scale["ldr32"] = 4 /\ Scale["access64"] = 8
        /\ Scale["access128"] = 16 /\ Scale["add64"] = 1 /\ Scale["addShifted"] = PageSize
  BY DEF Scale
<1> QED
  BY <1>1, <1>2, <1>3 DEF Accesses, Adds

\* What the code computes from an adrp and that offset is where it gets.
LEMMA ReachesTarget ==
    ASSUME NEW at \in Int, NEW adrp \in Adrps, NEW second,
           NEW offset \in Int, offset = Scale[second.op] * second.imm12
    PROVE  (PageBase(at, adrp) + offset) % AddressSpace = Target(at, adrp, second)
<1> DEFINE n == Pages(adrp)
           b == (at - (at % PageSize)) + n * PageSize
           page == at \div PageSize
<1>1. n = SignExtended(adrp.immhi * 4 + adrp.immlo) /\ n \in Int
  BY PagesAreExtended
<1>2. PageSize \in Nat \ {0} /\ AddressSpace \in Nat \ {0}
  BY SizesFit
<1>3. PageBase(at, adrp) = b % AddressSpace
  BY <1>1 DEF PageBase
<1> HIDE DEF n
<1>4. page \in Int /\ at - (at % PageSize) = page * PageSize
  BY <1>2
<1>5. b = (page + n) * PageSize
  <2> HIDE DEF page
  <2>1. (page + n) * PageSize = page * PageSize + n * PageSize
    BY <1>1, <1>2, <1>4
  <2> QED
    BY <1>4, <2>1
<1>6. b \in Int
  <2> HIDE DEF page, b
  <2> QED
    BY <1>1, <1>2, <1>4, <1>5
<1>7. Target(at, adrp, second) = (b + offset) % AddressSpace
  BY <1>5 DEF Target, n
<1> HIDE DEF b
<1> QED
  BY <1>2, <1>3, <1>6, <1>7, ReducedSum

\* An offset in other units than the instruction's leads elsewhere: the two sums
\* are less than the address space apart.
LEMMA FoundIfScaled ==
    ASSUME NEW at \in Int, NEW adrp \in Adrps, NEW second \in Seconds, NEW unit \in {1, 4}
    PROVE  (PageBase(at, adrp) + unit * second.imm12) % AddressSpace = Target(at, adrp, second)
               <=> Scale[second.op] = unit \/ second.imm12 = 0
<1> DEFINE x == second.imm12
           k == Scale[second.op]
           base == PageBase(at, adrp)
           own == k * x
<1>1. PageSize \in Nat \ {0} /\ AddressSpace \in Nat \ {0}
        /\ AddressSpace >= 16 * PageSize /\ AddressSpace >= PageSize * PageSize
  BY SizesFit
<1>2. x \in 0..PageSize - 1 /\ k \in {1, 2, 4, 8, 16, PageSize}
  BY ScalesAre
<1>3. base \in Int
  <2>1. SignExtended(adrp.immhi * 4 + adrp.immlo) \in Int
    BY PagesAreExtended
  <2>2. ((at - (at % PageSize)) + SignExtended(adrp.immhi * 4 + adrp.immlo) * PageSize) \in Int
    <3> DEFINE e == SignExtended(adrp.immhi * 4 + adrp.immlo)
    <3>1. e \in Int
      BY <2>1
    <3> HIDE DEF e
    <3>2. e * PageSize \in Int /\ at % PageSize \in Int
      BY <1>1, <3>1
    <3>3. (at - (at % PageSize)) + e * PageSize \in Int
      BY <3>2
    <3> QED
      BY <3>3 DEF e
  <2> DEFINE sum == (at - (at % PageSize)) + SignExtended(adrp.immhi * 4 + adrp.immlo) * PageSize
  <2>3. base = sum % AddressSpace
    BY DEF PageBase
  <2>4. sum \in Int
    BY <2>2
  <2> HIDE DEF sum
  <2> QED
    BY <1>1, <2>3, <2>4
<1> HIDE DEF x, k, base
<1>4. own \in Int /\ own < AddressSpace /\ own >= 0 /\ (own = unit * x <=> k = unit \/ x = 0)
  <2>1. CASE k = PageSize
    <3>1. PageSize * x <= PageSize * (PageSize - 1)
      BY <1>1, <1>2
    <3>2. PageSize * (PageSize - 1) = PageSize * PageSize - PageSize
      BY <1>1
    <3>3. own \in Int /\ own < AddressSpace /\ own >= 0
      BY <1>1, <1>2, <2>1, <3>1, <3>2
    <3>4. ASSUME PageSize * x = unit * x, x # 0
          PROVE  PageSize = unit
      <4>1. (PageSize - unit) * x = 0
        BY <1>1, <1>2, <3>4
      <4> QED
        BY <1>1, <1>2, <3>4, <4>1
    <3> QED
      BY <1>2, <2>1, <3>3, <3>4
  <2>2. CASE k \in {1, 2, 4, 8, 16}
    BY <1>1, <1>2, <2>2
  <2> QED
    BY <1>2, <2>1, <2>2
<1>5. unit * x \in Int /\ unit * x < AddressSpace /\ unit * x >= 0
  BY <1>1, <1>2
<1>6. (base + own) % AddressSpace = Target(at, adrp, second)
  BY <1>4, ReachesTarget DEF x, k, base
<1> HIDE DEF own
<1>7. (base + unit * x) % AddressSpace = (base + own) % AddressSpace <=> unit * x = own
  <2>1. ASSUME (base + unit * x) % AddressSpace = (base + own) % AddressSpace
        PROVE  unit * x = own
    <3>1. base + unit * x \in Int /\ base + own \in Int
      BY <1>3, <1>4, <1>5
    <3>2. (base + unit * x) - (base + own) < AddressSpace
            /\ (base + own) - (base + unit * x) < AddressSpace
      <4> DEFINE plain == unit * x
      <4>1. plain \in Int /\ plain < AddressSpace /\ plain >= 0
        BY <1>5
      <4> HIDE DEF plain
      <4>2. (base + plain) - (base + own) < AddressSpace
              /\ (base + own) - (base + plain) < AddressSpace
        BY <1>1, <1>3, <1>4, <4>1
      <4> QED
        BY <4>2 DEF plain
    <3>3. base + unit * x = base + own
      BY <1>1, <2>1, <3>1, <3>2, SameRemainder
    <3> QED
      BY <1>3, <1>4, <1>5, <3>3
  <2> QED
    BY <2>1
<1> QED
  BY <1>4, <1>6, <1>7 DEF x, k, base

\* The two functions find the address that the processor would get to exactly
\* from an adrp and a 32-bit access or an add without a shift, or an offset of
\* zero; from the other instructions that their masks let through they find
\* another, and they refuse all other code; for all sizes of the fields
\* (Address.cpp:22-80).
THEOREM AddressesFound == FindsTarget
<1> SUFFICES ASSUME NEW at \in 0..AddressSpace - 1,
                    NEW first \in Adrps \cup Others, NEW second \in Seconds \cup Others
             PROVE
        LET code == <<first, second>>
        IN  /\ IF first \in Adrps /\ second.op \in Accesses
                 THEN AddressFromAdrp(at, code) = Target(at, first, second)
                          <=> second.op = "ldr32" \/ second.imm12 = 0
                 ELSE AddressFromAdrp(at, code) = NoAddress
            /\ IF first \in Adrps /\ second.op \in Adds
                 THEN AddressFromAdrl(at, code) = Target(at, first, second)
                          <=> second.op = "add64" \/ second.imm12 = 0
                 ELSE AddressFromAdrl(at, code) = NoAddress
  BY DEF FindsTarget
<1> DEFINE code == <<first, second>>
<1>1. code[1] = first /\ code[2] = second
  OBVIOUS
<1>2. first \in Adrps <=> first.op = "adrp"
  BY DEF Adrps, Others
<1>3. at \in Int
  BY SizesFit
<1>4. second.op \in Accesses \cup Adds => second \in Seconds /\ second.imm12 \in Int
  <2>1. second \in Others => second.op \notin Accesses \cup Adds
    BY DEF Others, Accesses, Adds
  <2> QED
    BY <2>1, ScalesAre, SizesFit
<1>5. ASSUME first \in Adrps, second.op \in Accesses
      PROVE  AddressFromAdrp(at, code) = Target(at, first, second)
                 <=> second.op = "ldr32" \/ second.imm12 = 0
  <2>1. second.imm12 * 4 = 4 * second.imm12
    BY <1>4, <1>5
  <2>2. AddressFromAdrp(at, code) = (PageBase(at, first) + 4 * second.imm12) % AddressSpace
    BY <1>1, <1>2, <1>5, <2>1 DEF AddressFromAdrp
  <2> QED
    BY <1>3, <1>4, <1>5, <2>2, FoundIfScaled, ScalesAre
<1>6. ASSUME first \in Adrps, second.op \in Adds
      PROVE  AddressFromAdrl(at, code) = Target(at, first, second)
                 <=> second.op = "add64" \/ second.imm12 = 0
  <2>1. second.imm12 = 1 * second.imm12
    BY <1>4, <1>6
  <2>2. AddressFromAdrl(at, code) = (PageBase(at, first) + 1 * second.imm12) % AddressSpace
    BY <1>1, <1>2, <1>6, <2>1 DEF AddressFromAdrl
  <2> QED
    BY <1>3, <1>4, <1>6, <2>2, FoundIfScaled, ScalesAre
<1>7. ~(first \in Adrps /\ second.op \in Accesses) => AddressFromAdrp(at, code) = NoAddress
  BY <1>1, <1>2 DEF AddressFromAdrp
<1>8. ~(first \in Adrps /\ second.op \in Adds) => AddressFromAdrl(at, code) = NoAddress
  BY <1>1, <1>2 DEF AddressFromAdrl
<1> QED
  BY <1>5, <1>6, <1>7, <1>8

\* What the kernel's function returns, if its code is an adrp and an add that is
\* not shifted.
LEMMA KernelIsTarget ==
    ASSUME Kernel # NoAddress
    PROVE  Kernel = Target(ContextFunction, ContextCode[1], ContextCode[2])
               <=> ContextCode[2].op = "add64" \/ ContextCode[2].imm12 = 0
<1>1. ContextFunction \in 0..AddressSpace - 1 /\ ContextCode[1] \in Adrps \cup Others
        /\ ContextCode[2] \in Seconds \cup Others /\ ContextCode = <<ContextCode[1], ContextCode[2]>>
  BY CodeIsCode
<1>2. ContextCode[1].op = "adrp" /\ ContextCode[2].op \in Adds
  BY DEF Kernel, AddressFromAdrl
<1>3. ContextCode[1] \in Adrps
  BY <1>1, <1>2 DEF Others
<1> QED
  BY <1>1, <1>2, <1>3, AddressesFound DEF FindsTarget, Kernel

-----------------------------------------------------------------------------
(* The heap.                                                                *)

Objects == [kind : Kinds \cup {"none"}, refs : Nat, link : Id]

\* An id is not Null; an object of some kind is an object.
LEMMA IdIsNotNull == \A i \in Ids : i # Null
BY NullIsNoId

LEMMA NothingIsObject == Nothing \in Objects /\ Nothing.kind = "none"
BY DEF Nothing, Objects, Kinds, Id

\* A reference to a group is dropped, and with the last one the group.
LEMMA UnreferencedDrops ==
    ASSUME NEW h \in [Ids -> Objects], NEW g \in Ids, h[g].kind = "group", h[g].refs \in 1..2
    PROVE  /\ Unreferenced(h, g) \in [Ids -> Objects]
           /\ \A j \in Ids : j # g => Unreferenced(h, g)[j] = h[j]
           /\ h[g].refs = 1 => Unreferenced(h, g)[g] = Nothing
           /\ h[g].refs = 2 => /\ Unreferenced(h, g)[g].kind = "group"
                               /\ Unreferenced(h, g)[g].refs = 1
<1>1. Nothing \in Objects
  BY NothingIsObject
<1>2. [h[g] EXCEPT !.refs = @ - 1] \in Objects
  BY DEF Objects
<1>3. [h[g] EXCEPT !.refs = @ - 1].kind = "group" /\ [h[g] EXCEPT !.refs = @ - 1].refs = h[g].refs - 1
  BY DEF Objects
<1> HIDE DEF Objects
<1> QED
  BY <1>1, <1>2, <1>3 DEF Unreferenced

\* The deleter of anything but a lock.
LEMMA FreedDrops ==
    ASSUME NEW h \in [Ids -> Objects], NEW i \in Id,
           i # Null /\ h[i].kind = "group" => h[i].refs \in 1..2
    PROVE  /\ Freed(h, i) \in [Ids -> Objects]
           /\ i = Null => Freed(h, i) = h
           /\ \A j \in Ids : j # i => Freed(h, i)[j] = h[j]
           /\ i # Null /\ h[i].kind # "group" => Freed(h, i)[i] = Nothing
           /\ i # Null /\ h[i].kind = "group" =>
                /\ h[i].refs = 1 => Freed(h, i)[i] = Nothing
                /\ h[i].refs = 2 => Freed(h, i)[i].kind = "group" /\ Freed(h, i)[i].refs = 1
<1>1. Nothing \in Objects
  BY NothingIsObject
<1> HIDE DEF Objects, Nothing
<1>2. CASE i = Null
  BY <1>2, NullIsNoId DEF Freed
<1>3. CASE i # Null /\ h[i].kind = "group"
  <2>1. i \in Ids /\ Freed(h, i) = Unreferenced(h, i)
    BY <1>3 DEF Freed, Id
  <2> QED
    BY <1>3, <2>1, UnreferencedDrops
<1>4. CASE i # Null /\ h[i].kind # "group"
  <2>1. i \in Ids /\ Freed(h, i) = [h EXCEPT ![i] = Nothing]
    BY <1>4 DEF Freed, Id
  <2> QED
    BY <1>1, <1>4, <2>1
<1> QED
  BY <1>2, <1>3, <1>4

\* The deleter of a lock, which refers to its group.
LEMMA LockFreedDrops ==
    ASSUME NEW h \in [Ids -> Objects], NEW i \in Id, NEW g \in Id,
           i # Null => /\ g # Null /\ i # g /\ h[g].kind = "group" /\ h[g].refs \in 1..2
    PROVE  /\ LockFreed(h, i, g) \in [Ids -> Objects]
           /\ i = Null => LockFreed(h, i, g) = h
           /\ i # Null =>
                /\ \A j \in Ids : j # i /\ j # g => LockFreed(h, i, g)[j] = h[j]
                /\ LockFreed(h, i, g)[i] = Nothing
                /\ h[g].refs = 1 => LockFreed(h, i, g)[g] = Nothing
                /\ h[g].refs = 2 => /\ LockFreed(h, i, g)[g].kind = "group"
                                    /\ LockFreed(h, i, g)[g].refs = 1
<1>1. Nothing \in Objects
  BY NothingIsObject
<1> HIDE DEF Objects, Nothing
<1>2. CASE i = Null
  BY <1>2 DEF LockFreed
<1>3. CASE i # Null
  <2> DEFINE n == [h EXCEPT ![i] = Nothing]
  <2>1. i \in Ids /\ g \in Ids /\ LockFreed(h, i, g) = Unreferenced(n, g)
    BY <1>3 DEF LockFreed, Id
  <2>2. n \in [Ids -> Objects] /\ n[g] = h[g] /\ n[i] = Nothing
          /\ \A j \in Ids : j # i => n[j] = h[j]
    BY <1>1, <1>3, <2>1
  <2> HIDE DEF n
  <2> QED
    BY <1>3, <2>1, <2>2, UnreferencedDrops
<1> QED
  BY <1>2, <1>3

\* What IInv says of the objects and pointers, in the form the steps need it.
LEMMA HeapFacts ==
    ASSUME IInv
    PROVE  /\ heap \in [Ids -> Objects]
           /\ \A i \in Ids : heap[i].kind = "group" => heap[i].refs \in 1..2
           /\ \A o \in Locks : lock[o].group \in Id /\ lock[o].rw \in Id /\ lock[o].rwGroup \in Id
           /\ \A o \in Locks : lock[o].rw # Null =>
                /\ lock[o].rwGroup # Null /\ heap[lock[o].rwGroup].kind = "group"
                /\ lock[o].rw # lock[o].rwGroup
           /\ \A o \in Vnodes : vnode[o].vnode \in Id
           /\ \A o \in Handles : handle[o].context \in Id /\ handle[o].thread \in Kthreads \cup {Null}
           /\ locals \in Seq(Id)
           /\ \A n \in 1..4 : Local(n) \in Id
<1>1. heap \in [Ids -> Objects]
  BY DEF IInv, TypeOK, Objects
<1>2. \A i \in Ids : heap[i].kind = "group" => heap[i].refs \in 1..2
  BY DEF IInv, ObjectsOwned
<1>3. \A o \in Locks : lock[o].group \in Id /\ lock[o].rw \in Id /\ lock[o].rwGroup \in Id
  BY DEF IInv, TypeOK
<1>4. \A o \in Locks : lock[o].rw # Null =>
                /\ lock[o].rwGroup # Null /\ heap[lock[o].rwGroup].kind = "group"
                /\ lock[o].rw # lock[o].rwGroup
  BY DEF IInv, PointersFit
<1>5. \A o \in Vnodes : vnode[o].vnode \in Id
  BY DEF IInv, TypeOK
<1>6. \A o \in Handles : handle[o].context \in Id /\ handle[o].thread \in Kthreads \cup {Null}
  BY DEF IInv, TypeOK
<1>7. locals \in Seq(Id)
  BY DEF IInv, TypeOK
<1>8. \A n \in 1..4 : Local(n) \in Id
  BY <1>7 DEF Local, Id
<1> QED
  BY <1>1, <1>2, <1>3, <1>4, <1>5, <1>6, <1>7, <1>8

-----------------------------------------------------------------------------
(* The first state, and the steps that only move a call along.              *)

LEMMA InitEstablishes == Init => IInv
<1> SUFFICES ASSUME Init PROVE IInv
  OBVIOUS
<1> USE DEF Init, Nothing, NoLock, NoVnode, NoThread
<1>1. TypeOK
  BY DEF TypeOK, Id, Kinds
<1>2. pc \in Labels
  BY DEF Labels
<1>3. LocalsFit
  BY DEF LocalsFit, Local, Holding
<1>4. AboutFits
  BY DEF AboutFits, LockMaking
<1>5. PointersFit /\ PointersDiffer
  BY DEF PointersFit, PointersDiffer, Local
<1>6. ObjectsOwned /\ LinksDiffer
  BY DEF ObjectsOwned, LinksDiffer
<1>7. LocksWhole /\ ContextsKept
  BY DEF LocksWhole, ContextsKept
<1>8. KernelKnown
  BY DEF KernelKnown
<1> QED
  BY <1>1, <1>2, <1>3, <1>4, <1>5, <1>6, <1>7, <1>8 DEF IInv

\* A step that changes no pointer and no object.
LEMMA PointersStay ==
    ASSUME IInv, UNCHANGED <<heap, lock, vnode, kernelContext, handle, locals>>
    PROVE  /\ PointersFit' /\ PointersDiffer' /\ ObjectsOwned' /\ LinksDiffer' /\ KernelKnown'
           /\ \A n \in 1..4 : Local(n)' = Local(n)
<1>1. PointersFit'
  BY DEF IInv, PointersFit
<1>2. PointersDiffer'
  BY DEF IInv, PointersDiffer, Local
<1>3. ObjectsOwned'
  BY DEF IInv, ObjectsOwned, OwnsGroup, OwnsLock, OwnsVnode, OwnsContext, Linked, Local
<1>4. LinksDiffer'
  BY DEF IInv, LinksDiffer
<1>5. KernelKnown'
  BY DEF IInv, KernelKnown
<1>6. \A n \in 1..4 : Local(n)' = Local(n)
  BY DEF Local
<1> QED
  BY <1>1, <1>2, <1>3, <1>4, <1>5, <1>6

LEMMA MakeLockKeeps ==
    ASSUME IInv, NEW o \in Locks, MakeLock(o)
    PROVE  IInv'
<1> USE DEF MakeLock, Goto
<1>1. TypeOK'
  BY DEF IInv, TypeOK
<1>2. (pc \in Labels)'
  BY DEF Labels, LockMaking
<1>3. PointersFit' /\ PointersDiffer' /\ ObjectsOwned' /\ LinksDiffer' /\ KernelKnown'
        /\ \A n \in 1..4 : Local(n)' = Local(n)
  BY PointersStay
<1>4. LocalsFit'
  BY <1>3 DEF IInv, LocalsFit, Holding
<1>5. AboutFits'
  BY DEF IInv, AboutFits
<1>6. LocksWhole'
  BY DEF IInv, LocksWhole
<1>7. ContextsKept'
  BY DEF IInv, ContextsKept, GivenContext
<1> QED
  BY <1>1, <1>2, <1>3, <1>4, <1>5, <1>6, <1>7 DEF IInv

LEMMA MakeThreadKeeps ==
    ASSUME IInv, NEW o \in Handles, MakeThread(o)
    PROVE  IInv'
<1> USE DEF MakeThread, Goto
<1>1. TypeOK'
  BY DEF IInv, TypeOK
<1>2. (pc \in Labels)'
  BY DEF Labels, ThreadMaking
<1>3. PointersFit' /\ PointersDiffer' /\ ObjectsOwned' /\ LinksDiffer' /\ KernelKnown'
        /\ \A n \in 1..4 : Local(n)' = Local(n)
  BY PointersStay
<1>4. LocalsFit'
  BY <1>3 DEF IInv, LocalsFit, Holding
<1>5. AboutFits'
  BY DEF IInv, AboutFits, LockMaking
<1>6. LocksWhole'
  BY DEF IInv, LocksWhole
<1>7. ContextsKept'
  BY DEF IInv, ContextsKept, GivenContext
<1> QED
  BY <1>1, <1>2, <1>3, <1>4, <1>5, <1>6, <1>7 DEF IInv

LEMMA MakeFailsKeeps ==
    ASSUME IInv, MakeFails
    PROVE  IInv'
<1> USE DEF MakeFails, Goto
<1>1. TypeOK'
  BY DEF IInv, TypeOK
<1>2. (pc \in Labels)'
  BY DEF Labels
<1>3. PointersFit' /\ PointersDiffer' /\ ObjectsOwned' /\ LinksDiffer' /\ KernelKnown'
        /\ \A n \in 1..4 : Local(n)' = Local(n)
  BY PointersStay
<1>4. LocalsFit'
  BY <1>3 DEF IInv, LocalsFit, Holding
<1>5. AboutFits'
  BY DEF IInv, AboutFits, LockMaking
<1>6. LocksWhole'
  BY DEF IInv, LocksWhole
<1>7. ContextsKept'
  BY DEF IInv, ContextsKept, GivenContext
<1> QED
  BY <1>1, <1>2, <1>3, <1>4, <1>5, <1>6, <1>7 DEF IInv

LEMMA ReturnedKeeps ==
    ASSUME IInv, Returned
    PROVE  IInv'
<1> USE DEF Returned, Goto
<1>1. TypeOK'
  BY DEF IInv, TypeOK
<1>2. (pc \in Labels)'
  BY DEF Labels
<1>3. PointersFit' /\ PointersDiffer' /\ ObjectsOwned' /\ LinksDiffer' /\ KernelKnown'
        /\ \A n \in 1..4 : Local(n)' = Local(n)
  BY PointersStay
<1>4. LocalsFit'
  BY <1>3 DEF IInv, LocalsFit, Holding
<1>5. AboutFits'
  BY DEF IInv, AboutFits, LockMaking
<1>6. LocksWhole'
  BY DEF IInv, LocksWhole
<1>7. ContextsKept'
  BY DEF IInv, ContextsKept, GivenContext
<1> QED
  BY <1>1, <1>2, <1>3, <1>4, <1>5, <1>6, <1>7 DEF IInv

-----------------------------------------------------------------------------
(* What the kernel makes.                                                   *)

\* The lock of a group has a pointer to it: that of a Lock with the same group,
\* or the one that Lock::make is about to put there.
LEMMA LinkIsGroup ==
    ASSUME IInv, NEW j \in Ids, heap[j].kind = "lock"
    PROVE  /\ heap[j].link \in Ids /\ heap[heap[j].link].kind = "group"
           /\ \/ \E o \in Locks : lock[o].rw = j /\ lock[o].rwGroup = heap[j].link
              \/ pc = "locked" /\ Local(4) = j /\ Local(2) = heap[j].link
<1>1. heap[j].link # Null /\ heap[j].link \in Id /\ OwnsLock(j)
  BY HeapFacts DEF IInv, ObjectsOwned, Objects
<1>2. heap[j].link \in Ids
  BY <1>1 DEF Id
<1>3. CASE Local(4) = j
  <2>1. pc = "locked" /\ Len(locals) = 4 /\ locals[2] # Null /\ heap[locals[4]].link = locals[2]
    BY <1>3, NullIsNoId DEF IInv, LocalsFit
  <2>2. Local(2) = locals[2] /\ Local(4) = locals[4]
    BY <2>1 DEF Local
  <2> QED
    BY <1>2, <1>3, <2>1, <2>2 DEF IInv, LocalsFit
<1>4. CASE \E o \in Locks : lock[o].rw = j
  BY <1>2, <1>4, NullIsNoId DEF IInv, PointersFit
<1> QED
  BY <1>1, <1>3, <1>4 DEF OwnsLock

\* There is no pointer to a free address.
LEMMA NothingIsUnowned ==
    ASSUME IInv, NEW i \in Ids, heap[i].kind = "none"
    PROVE  /\ \A o \in Locks : lock[o].group # i /\ lock[o].rw # i /\ lock[o].rwGroup # i
           /\ \A o \in Vnodes : vnode[o].vnode # i
           /\ \A o \in Handles : handle[o].context # i
           /\ \A n \in 1..4 : Local(n) # i
           /\ ~Linked(i)
<1>0. i # Null
  BY NullIsNoId
<1>1. \A o \in Locks : lock[o].group # i /\ lock[o].rw # i /\ lock[o].rwGroup # i
  BY <1>0 DEF IInv, PointersFit
<1>2. \A o \in Vnodes : vnode[o].vnode # i
  BY <1>0 DEF IInv, PointersFit
<1>3. \A o \in Handles : handle[o].context # i
  BY <1>0 DEF IInv, PointersFit
<1>4. \A n \in 1..4 : Local(n) # i
  BY <1>0 DEF IInv, LocalsFit
<1>5. ~Linked(i)
  BY LinkIsGroup DEF Linked
<1> QED
  BY <1>1, <1>2, <1>3, <1>4, <1>5

Allocated(i, kind, link) ==
    /\ heap[i] = Nothing
    /\ heap' = [j \in Ids |->
                  IF j = i THEN [kind |-> kind, refs |-> 1, link |-> link]
                  ELSE IF kind = "lock" /\ j = link THEN [heap[j] EXCEPT !.refs = @ + 1]
                  ELSE heap[j]]
    /\ locals' = Append(locals, i)

HeapAdds(i, kind, link) ==
    /\ heap' \in [Ids -> Objects]
    /\ heap'[i] = [kind |-> kind, refs |-> 1, link |-> link]
    /\ \A j \in Ids : j # i =>
         /\ heap'[j].kind = heap[j].kind /\ heap'[j].link = heap[j].link
         /\ kind # "lock" \/ j # link => heap'[j] = heap[j]
         /\ kind = "lock" /\ j = link => heap'[j].refs = heap[j].refs + 1
    /\ heap[i].kind = "none"

LocalsAdd(i) ==
    /\ locals' \in Seq(Id) /\ Len(locals') = Len(locals) + 1
    /\ \A n \in 1..4 : IF n = Len(locals) + 1 THEN Local(n)' = i /\ Local(n) = Null
                       ELSE Local(n)' = Local(n)

\* An object is made at a free address, held by the next local.
LEMMA AllocatedFacts ==
    ASSUME IInv, NEW kind \in Kinds, NEW link \in Id, NEW i \in Ids,
           Allocated(i, kind, link), Len(locals) <= 3
    PROVE  HeapAdds(i, kind, link) /\ LocalsAdd(i)
<1> USE DEF Allocated
<1>1. heap \in [Ids -> Objects]
  BY HeapFacts
<1>2. [kind |-> kind, refs |-> 1, link |-> link] \in Objects
  BY DEF Objects
<1>3. \A j \in Ids : /\ [heap[j] EXCEPT !.refs = @ + 1] \in Objects
                     /\ [heap[j] EXCEPT !.refs = @ + 1].kind = heap[j].kind
                     /\ [heap[j] EXCEPT !.refs = @ + 1].link = heap[j].link
                     /\ [heap[j] EXCEPT !.refs = @ + 1].refs = heap[j].refs + 1
  <2>1. ASSUME NEW x \in Objects
        PROVE  /\ [x EXCEPT !.refs = @ + 1] \in Objects
               /\ [x EXCEPT !.refs = @ + 1].kind = x.kind
               /\ [x EXCEPT !.refs = @ + 1].link = x.link
               /\ [x EXCEPT !.refs = @ + 1].refs = x.refs + 1
    BY DEF Objects
  <2> HIDE DEF Objects
  <2> QED
    BY <1>1, <2>1
<1>4. /\ heap'[i] = [kind |-> kind, refs |-> 1, link |-> link]
      /\ \A j \in Ids : j # i =>
           IF kind = "lock" /\ j = link THEN heap'[j] = [heap[j] EXCEPT !.refs = @ + 1]
           ELSE heap'[j] = heap[j]
  <2> HIDE DEF Objects
  <2> QED
    OBVIOUS
<1>5. heap' \in [Ids -> Objects]
  <2> HIDE DEF Objects
  <2> QED
    BY <1>1, <1>2, <1>3
<1>6. locals \in Seq(Id) /\ i \in Id
  BY HeapFacts DEF Id
<1>7. locals' \in Seq(Id) /\ Len(locals') = Len(locals) + 1
        /\ \A n \in 1..Len(locals) : locals'[n] = locals[n]
        /\ locals'[Len(locals) + 1] = i
  BY <1>6
<1>8. \A n \in 1..4 : IF n = Len(locals) + 1 THEN Local(n)' = i /\ Local(n) = Null
                      ELSE Local(n)' = Local(n)
  <2>1. Len(locals) \in Nat
    BY <1>6
  <2> QED
    BY <1>7, <2>1 DEF Local
<1>9. heap[i].kind = "none"
  BY NothingIsObject
<1>10. \A j \in Ids : j # i =>
         /\ heap'[j].kind = heap[j].kind /\ heap'[j].link = heap[j].link
         /\ kind # "lock" \/ j # link => heap'[j] = heap[j]
         /\ kind = "lock" /\ j = link => heap'[j].refs = heap[j].refs + 1
  BY <1>3, <1>4
<1>11. HeapAdds(i, kind, link)
  BY <1>4, <1>5, <1>9, <1>10 DEF HeapAdds
<1>12. LocalsAdd(i)
  BY <1>7, <1>8 DEF LocalsAdd
<1> QED
  BY <1>11, <1>12

\* The pointers of variables stay apart from the new one.
LEMMA AllocatedPointers ==
    ASSUME IInv, NEW kind \in Kinds, NEW link \in Id, NEW i \in Ids,
           Allocated(i, kind, link), Len(locals) <= 3,
           UNCHANGED <<lock, vnode, handle, kernelContext>>
    PROVE  PointersFit' /\ PointersDiffer' /\ KernelKnown'
<1>0a. HeapAdds(i, kind, link) /\ LocalsAdd(i)
  BY AllocatedFacts
<1>0. \A n \in 1..4 : IF n = Len(locals) + 1 THEN Local(n)' = i /\ Local(n) = Null
                      ELSE Local(n)' = Local(n)
  BY <1>0a DEF LocalsAdd
<1>1. /\ \A j \in Ids : j # i => heap'[j].kind = heap[j].kind /\ heap'[j].link = heap[j].link
      /\ heap[i].kind = "none"
  BY <1>0a DEF HeapAdds
<1>2. /\ \A o \in Locks : lock[o].group # i /\ lock[o].rw # i /\ lock[o].rwGroup # i
      /\ \A o \in Vnodes : vnode[o].vnode # i
      /\ \A o \in Handles : handle[o].context # i
  BY <1>1, NothingIsUnowned
<1>3. PointersFit'
  <2>1. ASSUME NEW o \in Locks
        PROVE  /\ lock[o].group # Null => heap'[lock[o].group].kind = "group"
               /\ lock[o].rw # Null =>
                    /\ heap'[lock[o].rw].kind = "lock" /\ heap'[lock[o].rw].link = lock[o].rwGroup
                    /\ lock[o].rwGroup # Null /\ heap'[lock[o].rwGroup].kind = "group"
               /\ lock[o].rw = Null => lock[o].rwGroup = Null
    <3>1. lock[o].group \in Id /\ lock[o].rw \in Id /\ lock[o].rwGroup \in Id
      BY HeapFacts
    <3>2. /\ lock[o].group # Null => heap[lock[o].group].kind = "group"
          /\ lock[o].rw # Null =>
               /\ heap[lock[o].rw].kind = "lock" /\ heap[lock[o].rw].link = lock[o].rwGroup
               /\ lock[o].rwGroup # Null /\ heap[lock[o].rwGroup].kind = "group"
          /\ lock[o].rw = Null => lock[o].rwGroup = Null
      BY DEF IInv, PointersFit
    <3> QED
      BY <1>1, <1>2, <3>1, <3>2 DEF Id
  <2>2. ASSUME NEW o \in Vnodes, vnode[o].vnode # Null
        PROVE  heap'[vnode[o].vnode].kind = "vnode"
    BY <1>1, <1>2, <2>2, HeapFacts DEF IInv, PointersFit, Id
  <2>3. ASSUME NEW o \in Handles, handle[o].context # Null
        PROVE  heap'[handle[o].context].kind = "context"
    BY <1>1, <1>2, <2>3, HeapFacts DEF IInv, PointersFit, Id
  <2> QED
    BY <2>1, <2>2, <2>3 DEF PointersFit
<1>4. PointersDiffer'
  <2>1. \A n \in 1..4 : Local(n)' = Local(n) \/ Local(n)' = i
    BY <1>0
  <2>2. /\ Local(1)' # Null => \A o \in Handles : handle[o].context # Local(1)'
        /\ Local(2)' # Null => \A o \in Locks : lock[o].group # Local(2)'
        /\ Local(4)' # Null => \A o \in Locks : lock[o].rw # Local(4)'
    BY <1>2, <2>1 DEF IInv, PointersDiffer
  <2> QED
    BY <2>2 DEF IInv, PointersDiffer
<1>5. KernelKnown'
  BY DEF IInv, KernelKnown
<1> QED
  BY <1>3, <1>4, <1>5

\* Where a local of that kind is.
Place(kind) == CASE kind = "groupAttr" -> 1 [] kind = "group" -> 2 [] kind = "lockAttr" -> 3
                 [] kind = "lock" -> 4 [] kind = "context" -> 1 [] OTHER -> 0

\* Every object but a lock comes without ties to others.
LEMMA AllocatedOwned ==
    ASSUME IInv, NEW kind \in Kinds \ {"lock"}, NEW link \in Id, NEW i \in Ids,
           Allocated(i, kind, link), Len(locals) <= 3, Place(kind) = Len(locals) + 1,
           UNCHANGED <<lock, vnode, handle>>
    PROVE  ObjectsOwned' /\ LinksDiffer'
<1>0a. HeapAdds(i, kind, link) /\ LocalsAdd(i)
  BY AllocatedFacts
<1>1. /\ heap' \in [Ids -> Objects]
      /\ heap'[i] = [kind |-> kind, refs |-> 1, link |-> link]
      /\ \A j \in Ids : j # i => heap'[j] = heap[j]
      /\ \A n \in 1..4 : IF n = Len(locals) + 1 THEN Local(n)' = i /\ Local(n) = Null
                         ELSE Local(n)' = Local(n)
      /\ heap[i].kind = "none"
  BY <1>0a DEF HeapAdds, LocalsAdd
<1>2. ~Linked(i)
  BY <1>1, NothingIsUnowned
<1>3. \A g \in Ids : Linked(g)' <=> Linked(g)
  BY <1>1 DEF Linked
<1>4. \A j \in Ids : j # i =>
        /\ OwnsGroup(j)' <=> OwnsGroup(j)
        /\ OwnsLock(j)' <=> OwnsLock(j)
        /\ OwnsVnode(j)' <=> OwnsVnode(j)
        /\ OwnsContext(j)' <=> OwnsContext(j)
        /\ Local(1)' = j <=> Local(1) = j
        /\ Local(3)' = j <=> Local(3) = j
  BY <1>1, NullIsNoId DEF OwnsGroup, OwnsLock, OwnsVnode, OwnsContext
<1>5. kind # "none" /\ kind # "vnode"
  BY DEF Kinds, Place
<1>6. /\ kind = "groupAttr" => Local(1)' = i
      /\ kind = "group" => OwnsGroup(i)'
      /\ kind = "lockAttr" => Local(3)' = i
      /\ kind = "context" => OwnsContext(i)'
  BY <1>1 DEF Place, OwnsGroup, OwnsContext
<1>7. ASSUME NEW j \in Ids
      PROVE  /\ heap'[j].kind = "none" => heap'[j] = Nothing
             /\ heap'[j].kind = "groupAttr" => Local(1)' = j
             /\ heap'[j].kind = "group" =>
                  \/ heap'[j].refs = 2 /\ OwnsGroup(j)' /\ Linked(j)'
                  \/ heap'[j].refs = 1 /\ OwnsGroup(j)' /\ ~Linked(j)'
                  \/ heap'[j].refs = 1 /\ ~OwnsGroup(j)' /\ Linked(j)'
             /\ heap'[j].kind = "lockAttr" => Local(3)' = j
             /\ heap'[j].kind = "lock" => OwnsLock(j)' /\ heap'[j].link # Null
             /\ heap'[j].kind = "vnode" => OwnsVnode(j)'
             /\ heap'[j].kind = "context" => OwnsContext(j)'
  <2>1. CASE j = i
    BY <1>1, <1>2, <1>3, <1>5, <1>6, <2>1
  <2>2. CASE j # i
    BY <1>1, <1>3, <1>4, <2>2 DEF IInv, ObjectsOwned
  <2> QED
    BY <2>1, <2>2
<1>8. LinksDiffer'
  BY <1>1 DEF IInv, LinksDiffer
<1> QED
  BY <1>7, <1>8 DEF ObjectsOwned

\* The steps of Lock::make and Thread::make that make something but the lock.
LEMMA MadeKeeps ==
    ASSUME IInv, NEW kind \in Kinds \ {"lock"}, NEW i \in Ids, Allocated(i, kind, Null),
           NEW then, <<pc, kind, then>> \in {<<"groupAttr", "groupAttr", "group">>,
                                             <<"group", "group", "lockAttr">>,
                                             <<"lockAttr", "lockAttr", "lock">>,
                                             <<"context", "context", "start">>},
           pc' = then, about' = about,
           UNCHANGED <<lock, vnode, kernelContext, handle, kthread>>
    PROVE  IInv'
<1>0. Null \in Id /\ Len(locals) <= 3 /\ Place(kind) = Len(locals) + 1
  <2>1. Len(locals) = CASE pc = "group" -> 1 [] pc = "lockAttr" -> 2 [] OTHER -> 0
    BY DEF IInv, LocalsFit, Holding
  <2> QED
    BY <2>1 DEF Place, Id
<1>4a. HeapAdds(i, kind, Null) /\ LocalsAdd(i)
  BY <1>0, AllocatedFacts
<1>1. \A n \in 1..4 : IF n = Len(locals) + 1 THEN Local(n)' = i /\ Local(n) = Null
                      ELSE Local(n)' = Local(n)
  BY <1>4a DEF LocalsAdd
<1>2. /\ heap' \in [Ids -> Objects]
      /\ heap'[i] = [kind |-> kind, refs |-> 1, link |-> Null]
      /\ \A j \in Ids : j # i => heap'[j] = heap[j]
      /\ heap[i].kind = "none"
      /\ locals' \in Seq(Id) /\ Len(locals') = Len(locals) + 1
  BY <1>4a DEF HeapAdds, LocalsAdd
<1>3. ObjectsOwned' /\ LinksDiffer'
  BY <1>0, AllocatedOwned
<1>4. PointersFit' /\ PointersDiffer' /\ KernelKnown'
  BY <1>0, AllocatedPointers
<1>5. TypeOK'
  BY <1>2 DEF IInv, TypeOK, Objects
<1>6. (pc \in Labels)'
  BY DEF Labels, LockMaking, ThreadMaking
<1>7. LocalsFit'
  <2>1. \A n \in 1..4 : Local(n) # i
    BY <1>2, NothingIsUnowned
  <2>2. \A n \in 1..4 : Local(n) \in Id
    BY HeapFacts
  <2>3. \A n \in 1..4 : n # Len(locals) + 1 /\ Local(n) # Null =>
            heap'[Local(n)'].kind = heap[Local(n)].kind
    BY <1>1, <1>2, <2>1, <2>2 DEF Id
  <2>4. i # Null /\ heap'[i].kind = kind
    BY <1>2, NullIsNoId
  <2>5. /\ Local(1)' # Null => heap'[Local(1)'].kind \in {"groupAttr", "context"}
        /\ Local(2)' # Null => heap'[Local(2)'].kind = "group"
        /\ Local(3)' # Null => heap'[Local(3)'].kind = "lockAttr"
        /\ Local(4)' = Null
    BY <1>0, <1>1, <2>3, <2>4 DEF IInv, LocalsFit, Place
  <2>6. Len(locals') <= 4 /\ Len(locals') \in Nat /\ \A n \in 1..Len(locals') : Local(n)' = locals'[n]
    BY <1>0, <1>2 DEF Local
  <2>7. pc = "group" => locals'[2] = i
    BY <1>0, <1>1, <1>2, <2>6 DEF Place
  <2>8. pc = "lockAttr" => locals'[2] = locals[2]
    BY <1>0, <1>1, <1>2, <2>6 DEF Place, Local
  <2>9. pc = "context" => locals'[1] = i
    BY <1>0, <1>1, <1>2, <2>6 DEF Place
  <2> QED
    BY <1>0, <1>2, <2>4, <2>5, <2>6, <2>7, <2>8, <2>9 DEF IInv, LocalsFit, Holding, Place
<1>8. AboutFits'
  BY DEF IInv, AboutFits, LockMaking
<1>9. LocksWhole'
  BY DEF IInv, LocksWhole
<1>10. ContextsKept'
  BY DEF IInv, ContextsKept, GivenContext
<1> QED
  BY <1>3, <1>4, <1>5, <1>6, <1>7, <1>8, <1>9, <1>10 DEF IInv

LEMMA MakeStepKeeps ==
    ASSUME IInv, AllocGroupAttr \/ AllocGroup \/ AllocLockAttr \/ AllocContext
    PROVE  IInv'
<1> USE DEF MakeStep, Goto
<1>1. ASSUME NEW kind \in Kinds, Allocates(kind, Null)
      PROVE  \E i \in Ids : Allocated(i, kind, Null)
  BY <1>1 DEF Allocates, Allocated
<1>2. CASE AllocGroupAttr
  <2>1. PICK i \in Ids : Allocated(i, "groupAttr", Null)
    BY <1>1, <1>2 DEF AllocGroupAttr, Kinds
  <2> QED
    BY <1>2, <2>1, MadeKeeps DEF AllocGroupAttr, Kinds
<1>3. CASE AllocGroup
  <2>1. PICK i \in Ids : Allocated(i, "group", Null)
    BY <1>1, <1>3 DEF AllocGroup, Kinds
  <2> QED
    BY <1>3, <2>1, MadeKeeps DEF AllocGroup, Kinds
<1>4. CASE AllocLockAttr
  <2>1. PICK i \in Ids : Allocated(i, "lockAttr", Null)
    BY <1>1, <1>4 DEF AllocLockAttr, Kinds
  <2> QED
    BY <1>4, <2>1, MadeKeeps DEF AllocLockAttr, Kinds
<1>5. CASE AllocContext
  <2>1. PICK i \in Ids : Allocated(i, "context", Null)
    BY <1>1, <1>5 DEF AllocContext, Kinds
  <2> QED
    BY <1>5, <2>1, MadeKeeps DEF AllocContext, Kinds
<1> QED
  BY <1>2, <1>3, <1>4, <1>5

\* The lock is made in a group that has none yet, and is counted by it.
LEMMA AllocLockKeeps ==
    ASSUME IInv, AllocLock
    PROVE  IInv'
<1>0. /\ pc = "lock" /\ pc' = "locked" /\ about' = about
      /\ UNCHANGED <<lock, vnode, kernelContext, handle, kthread>>
  BY DEF AllocLock, MakeStep, Goto
<1>1a. Len(locals) = 3 /\ locals[2] \in Ids
  <2>1. Len(locals) = 3 /\ locals[2] # Null
    BY <1>0 DEF IInv, LocalsFit
  <2>2. locals \in Seq(Id)
    BY HeapFacts
  <2> QED
    BY <2>1, <2>2 DEF Id
<1>1b. PICK g \in Ids : g = locals[2]
  BY <1>1a
<1>1. PICK i \in Ids : Allocated(i, "lock", g)
  BY <1>1b DEF AllocLock, MakeStep, Allocates, Allocated
<1>2. Len(locals) = 3 /\ g # Null /\ Local(2) = g /\ Local(4) = Null /\ "lock" \in Kinds
  BY <1>0, <1>1a, <1>1b, NullIsNoId DEF Local, Kinds
<1>3. g \in Ids /\ g \in Id /\ heap[g].kind = "group"
  BY <1>2, HeapFacts DEF Id, IInv, LocalsFit
<1>4a. HeapAdds(i, "lock", g) /\ LocalsAdd(i)
  BY <1>1, <1>2, <1>3, AllocatedFacts
<1>4. \A n \in 1..4 : IF n = Len(locals) + 1 THEN Local(n)' = i /\ Local(n) = Null
                      ELSE Local(n)' = Local(n)
  BY <1>4a DEF LocalsAdd
<1>5. /\ heap' \in [Ids -> Objects]
      /\ heap'[i] = [kind |-> "lock", refs |-> 1, link |-> g]
      /\ \A j \in Ids : j # i =>
           /\ heap'[j].kind = heap[j].kind /\ heap'[j].link = heap[j].link
           /\ j # g => heap'[j] = heap[j]
           /\ j = g => heap'[j].refs = heap[j].refs + 1
      /\ locals' \in Seq(Id) /\ Len(locals') = Len(locals) + 1
      /\ heap[i].kind = "none"
  BY <1>4a DEF HeapAdds, LocalsAdd
<1>6. Local(1)' = Local(1) /\ Local(2)' = g /\ Local(3)' = Local(3) /\ Local(4)' = i
  BY <1>2, <1>4
<1>7. PointersFit' /\ PointersDiffer' /\ KernelKnown'
  BY <1>0, <1>1, <1>2, <1>3, AllocatedPointers
<1>8. i # g /\ i # Null
  BY <1>3, <1>5, NullIsNoId
<1>9. ~Linked(g) /\ OwnsGroup(g)
  <2>1. \A o \in Locks : lock[o].group # g
    BY <1>2 DEF IInv, PointersDiffer
  <2>2. \A o \in Locks : lock[o].group = lock[o].rwGroup
    BY <1>0 DEF IInv, LocksWhole
  <2> QED
    BY <1>0, <1>2, <2>1, <2>2, LinkIsGroup DEF Linked, OwnsGroup
<1>10. ~Linked(i)
  BY <1>5, NothingIsUnowned
<1>11. LinksDiffer'
  BY <1>5, <1>9 DEF IInv, LinksDiffer, Linked
<1>12. ObjectsOwned'
  <2>1. \A j \in Ids : j # g => (Linked(j)' <=> Linked(j))
    BY <1>5, <1>10 DEF Linked
  <2>2. Linked(g)'
    <3>1. heap'[i].kind = "lock" /\ heap'[i].link = g
      BY <1>5
    <3> QED
      BY <3>1 DEF Linked
  <2>3. \A j \in Ids : j # i =>
          /\ OwnsGroup(j)' <=> OwnsGroup(j)
          /\ OwnsLock(j)' <=> OwnsLock(j)
          /\ OwnsVnode(j)' <=> OwnsVnode(j)
          /\ OwnsContext(j)' <=> OwnsContext(j)
          /\ Local(1)' = j <=> Local(1) = j
          /\ Local(3)' = j <=> Local(3) = j
    BY <1>0, <1>2, <1>6, NullIsNoId DEF OwnsGroup, OwnsLock, OwnsVnode, OwnsContext
  <2>4. OwnsLock(i)'
    BY <1>6 DEF OwnsLock
  <2>5. heap[g].refs = 1
    BY <1>3, <1>9 DEF IInv, ObjectsOwned
  <2>6. ASSUME NEW j \in Ids
        PROVE  /\ heap'[j].kind = "none" => heap'[j] = Nothing
               /\ heap'[j].kind = "groupAttr" => Local(1)' = j
               /\ heap'[j].kind = "group" =>
                    \/ heap'[j].refs = 2 /\ OwnsGroup(j)' /\ Linked(j)'
                    \/ heap'[j].refs = 1 /\ OwnsGroup(j)' /\ ~Linked(j)'
                    \/ heap'[j].refs = 1 /\ ~OwnsGroup(j)' /\ Linked(j)'
               /\ heap'[j].kind = "lockAttr" => Local(3)' = j
               /\ heap'[j].kind = "lock" => OwnsLock(j)' /\ heap'[j].link # Null
               /\ heap'[j].kind = "vnode" => OwnsVnode(j)'
               /\ heap'[j].kind = "context" => OwnsContext(j)'
    <3>1. CASE j = i
      BY <1>2, <1>5, <2>4, <3>1
    <3>2. CASE j = g
      BY <1>3, <1>5, <1>8, <1>9, <2>2, <2>3, <2>5, <3>2
    <3>3. CASE j # i /\ j # g
      BY <1>0, <1>5, <2>1, <2>3, <3>3 DEF IInv, ObjectsOwned
    <3> QED
      BY <3>1, <3>2, <3>3
  <2> QED
    BY <2>6 DEF ObjectsOwned
<1>13. TypeOK'
  BY <1>0, <1>5 DEF IInv, TypeOK, Objects
<1>14. (pc \in Labels)'
  BY <1>0 DEF Labels, LockMaking
<1>15. LocalsFit'
  <2>1. \A n \in 1..4 : Local(n) # i /\ Local(n) \in Id
    BY <1>5, NothingIsUnowned, HeapFacts
  <2>2. /\ Local(1)' # Null => heap'[Local(1)'].kind \in {"groupAttr", "context"}
        /\ heap'[Local(2)'].kind = "group"
        /\ Local(3)' # Null => heap'[Local(3)'].kind = "lockAttr"
        /\ heap'[Local(4)'].kind = "lock"
    BY <1>2, <1>3, <1>5, <1>6, <1>8, <2>1 DEF IInv, LocalsFit, Id
  <2>3. Len(locals') = 4 /\ Local(2)' = locals'[2] /\ Local(4)' = locals'[4]
    BY <1>2, <1>5 DEF Local
  <2> QED
    BY <1>0, <1>2, <1>5, <1>6, <1>8, <2>2, <2>3, NullIsNoId DEF LocalsFit, Holding
<1>16. AboutFits'
  BY <1>0 DEF IInv, AboutFits, LockMaking
<1>17. LocksWhole'
  BY <1>0 DEF IInv, LocksWhole
<1>18. ContextsKept'
  BY <1>0 DEF IInv, ContextsKept, GivenContext
<1> QED
  BY <1>7, <1>11, <1>12, <1>13, <1>14, <1>15, <1>16, <1>17, <1>18 DEF IInv

-----------------------------------------------------------------------------
(* What is freed and moved.                                                 *)

\* But for x, what had an owner has one, and nothing else.
OwnersBut(x) ==
    \A j \in Ids : j # x =>
      /\ OwnsGroup(j)' <=> OwnsGroup(j)
      /\ OwnsLock(j)' <=> OwnsLock(j)
      /\ OwnsVnode(j)' <=> OwnsVnode(j)
      /\ OwnsContext(j)' <=> OwnsContext(j)
      /\ Local(1)' = j <=> Local(1) = j
      /\ Local(3)' = j <=> Local(3) = j

\* What a step that frees or moves leaves of the heap: all but x, and a group as
\* long as it has an owner or a lock.
HeapKept(x) ==
    /\ heap' \in [Ids -> Objects]
    /\ \A j \in Ids : j # x =>
         /\ heap[j].kind # "group" => heap'[j] = heap[j]
         /\ heap[j].kind = "group" /\ OwnsGroup(j) => heap'[j].kind = "group"
    /\ \A j \in Ids : heap[j].kind = "lock" /\ j # x =>
            heap[j].link \in Ids /\ heap'[heap[j].link].kind = "group"

LEMMA FreedKeeps ==
    ASSUME IInv, NEW x \in Id,
           x # Null => /\ heap[x].kind # "lock" /\ ~OwnsGroup(x)'
                       /\ heap[x].kind = "group" => OwnsGroup(x),
           heap' = Freed(heap, x), OwnersBut(x)
    PROVE  ObjectsOwned' /\ LinksDiffer' /\ HeapKept(x)
<1>0. heap \in [Ids -> Objects] /\ \A i \in Ids : heap[i].kind = "group" => heap[i].refs \in 1..2
  BY HeapFacts
<1>1. x # Null => x \in Ids
  BY DEF Id
<1>2. /\ heap' \in [Ids -> Objects]
      /\ x = Null => heap' = heap
      /\ \A j \in Ids : j # x => heap'[j] = heap[j]
      /\ x # Null /\ heap[x].kind # "group" => heap'[x] = Nothing
      /\ x # Null /\ heap[x].kind = "group" =>
           /\ heap[x].refs = 1 => heap'[x] = Nothing
           /\ heap[x].refs = 2 => heap'[x].kind = "group" /\ heap'[x].refs = 1
  BY <1>0, <1>1, FreedDrops
<1>3. x # Null => heap'[x] = Nothing \/ heap'[x].kind = "group"
  BY <1>0, <1>1, <1>2
<1>4. Nothing.kind = "none"
  BY NothingIsObject
<1>5. \A j \in Ids : Linked(j)' <=> Linked(j)
  <2>1. \A j \in Ids : /\ heap'[j].kind = "lock" <=> heap[j].kind = "lock"
                       /\ heap[j].kind = "lock" => heap'[j].link = heap[j].link
    BY <1>2, <1>3, <1>4, NullIsNoId
  <2> QED
    BY <2>1 DEF Linked
<1>6. LinksDiffer'
  BY <1>2, <1>3, <1>4, NullIsNoId DEF IInv, LinksDiffer
<1>7. ObjectsOwned'
  <2>1. ASSUME NEW j \in Ids
        PROVE  /\ heap'[j].kind = "none" => heap'[j] = Nothing
               /\ heap'[j].kind = "groupAttr" => Local(1)' = j
               /\ heap'[j].kind = "group" =>
                    \/ heap'[j].refs = 2 /\ OwnsGroup(j)' /\ Linked(j)'
                    \/ heap'[j].refs = 1 /\ OwnsGroup(j)' /\ ~Linked(j)'
                    \/ heap'[j].refs = 1 /\ ~OwnsGroup(j)' /\ Linked(j)'
               /\ heap'[j].kind = "lockAttr" => Local(3)' = j
               /\ heap'[j].kind = "lock" => OwnsLock(j)' /\ heap'[j].link # Null
               /\ heap'[j].kind = "vnode" => OwnsVnode(j)'
               /\ heap'[j].kind = "context" => OwnsContext(j)'
    <3>1. CASE j # x
      BY <1>2, <1>5, <3>1 DEF OwnersBut, IInv, ObjectsOwned
    <3>2. CASE j = x
      <4>1. j # Null
        BY NullIsNoId
      <4>2. CASE heap'[j] = Nothing
        BY <1>4, <4>2
      <4>3. CASE heap'[j] # Nothing
        <5>1. heap[j].kind = "group" /\ heap'[j].kind = "group" /\ heap'[j].refs = 1 /\ heap[j].refs = 2
          BY <1>0, <1>2, <3>2, <4>1, <4>3
        <5>2. Linked(j)'
          BY <1>5, <5>1 DEF IInv, ObjectsOwned
        <5> QED
          BY <3>2, <4>1, <5>1, <5>2
      <4> QED
        BY <4>2, <4>3
    <3> QED
      BY <3>1, <3>2
  <2> QED
    BY <2>1 DEF ObjectsOwned
<1>8. ASSUME NEW j \in Ids, heap[j].kind = "lock", j # x
      PROVE  heap[j].link \in Ids /\ heap'[heap[j].link].kind = "group"
  <2>1. heap[j].link \in Ids /\ heap[heap[j].link].kind = "group"
    BY <1>8, LinkIsGroup
  <2>2. CASE heap[j].link = x
    <3>1. Linked(x)
      BY <1>8, <2>2 DEF Linked
    <3>2. x \in Ids /\ x # Null /\ heap[x].kind = "group" /\ OwnsGroup(x)
      BY <2>1, <2>2, NullIsNoId
    <3>3. heap[x].refs = 2
      BY <3>1, <3>2 DEF IInv, ObjectsOwned
    <3> QED
      BY <1>2, <2>1, <2>2, <3>2, <3>3
  <2> QED
    BY <1>2, <2>1, <2>2
<1>9. HeapKept(x)
  BY <1>2, <1>8 DEF HeapKept
<1> QED
  BY <1>6, <1>7, <1>9

\* A lock is freed, and its group let go.
LEMMA LockFreedKeeps ==
    ASSUME IInv, NEW o \in Locks, NEW x, NEW g, x = lock[o].rw, g = lock[o].rwGroup,
           heap' = LockFreed(heap, x, g), OwnersBut(x)
    PROVE  ObjectsOwned' /\ LinksDiffer' /\ HeapKept(x)
<1>0. heap \in [Ids -> Objects] /\ x \in Id /\ g \in Id
        /\ \A i \in Ids : heap[i].kind = "group" => heap[i].refs \in 1..2
  BY HeapFacts
<1>1. CASE x = Null
  <2>1. heap' = Freed(heap, x)
    BY <1>1 DEF Freed, LockFreed
  <2> QED
    BY <1>0, <1>1, <2>1, FreedKeeps
<1>2. CASE x # Null
  <2>1. /\ x \in Ids /\ g \in Ids /\ x # g /\ heap[g].kind = "group"
        /\ heap[x].kind = "lock" /\ heap[x].link = g
    BY <1>0, <1>2 DEF IInv, PointersFit, Id
  <2>2. Linked(g)
    BY <2>1 DEF Linked
  <2>3. /\ heap' \in [Ids -> Objects]
        /\ \A j \in Ids : j # x /\ j # g => heap'[j] = heap[j]
        /\ heap'[x] = Nothing
        /\ heap[g].refs = 1 => heap'[g] = Nothing
        /\ heap[g].refs = 2 => heap'[g].kind = "group" /\ heap'[g].refs = 1
    BY <1>0, <1>2, <2>1, NullIsNoId, LockFreedDrops
  <2>4. heap'[g] = Nothing \/ heap'[g].kind = "group"
    BY <1>0, <2>1, <2>3
  <2>5. Nothing.kind = "none"
    BY NothingIsObject
  <2>6. \A j \in Ids : heap'[j].kind = "lock" =>
            j # x /\ heap[j].kind = "lock" /\ heap'[j].link = heap[j].link
    BY <2>1, <2>3, <2>4, <2>5
  <2>7. \A j \in Ids : j # x /\ heap[j].kind = "lock" =>
            heap'[j] = heap[j] /\ heap[j].link # g
    BY <2>1, <2>3 DEF IInv, LinksDiffer
  <2>8. LinksDiffer'
    BY <2>6 DEF IInv, LinksDiffer
  <2>9. ~Linked(g)' /\ \A j \in Ids : j # g => (Linked(j)' <=> Linked(j))
    <3>1. ~Linked(g)'
      BY <2>6, <2>7 DEF Linked
    <3>2. ASSUME NEW j \in Ids, j # g PROVE Linked(j)' <=> Linked(j)
      BY <2>1, <2>6, <2>7, <3>2 DEF Linked
    <3> QED
      BY <3>1, <3>2
  <2>10. ~Linked(x)
    <3>1. \A j \in Ids : heap[j].kind = "lock" => heap[heap[j].link].kind = "group"
      BY LinkIsGroup
    <3> QED
      BY <2>1, <3>1 DEF Linked
  <2>11. ASSUME NEW j \in Ids
         PROVE  /\ heap'[j].kind = "none" => heap'[j] = Nothing
                /\ heap'[j].kind = "groupAttr" => Local(1)' = j
                /\ heap'[j].kind = "group" =>
                     \/ heap'[j].refs = 2 /\ OwnsGroup(j)' /\ Linked(j)'
                     \/ heap'[j].refs = 1 /\ OwnsGroup(j)' /\ ~Linked(j)'
                     \/ heap'[j].refs = 1 /\ ~OwnsGroup(j)' /\ Linked(j)'
                /\ heap'[j].kind = "lockAttr" => Local(3)' = j
                /\ heap'[j].kind = "lock" => OwnsLock(j)' /\ heap'[j].link # Null
                /\ heap'[j].kind = "vnode" => OwnsVnode(j)'
                /\ heap'[j].kind = "context" => OwnsContext(j)'
    <3>1. CASE j # x /\ j # g
      BY <2>3, <2>9, <3>1 DEF OwnersBut, IInv, ObjectsOwned
    <3>2. CASE j = x
      BY <2>3, <2>5, <3>2
    <3>3. CASE j = g
      <4>1. CASE heap'[g] = Nothing
        BY <2>5, <3>3, <4>1
      <4>2. CASE heap'[g] # Nothing
        <5>1. heap'[g].kind = "group" /\ heap'[g].refs = 1 /\ heap[g].refs = 2
          BY <1>0, <2>1, <2>3, <4>2
        <5>2. OwnsGroup(g)
          BY <2>1, <5>1 DEF IInv, ObjectsOwned
        <5>3. OwnsGroup(g)'
          BY <2>1, <5>2 DEF OwnersBut
        <5> QED
          BY <2>9, <3>3, <5>1, <5>3
      <4> QED
        BY <4>1, <4>2
    <3> QED
      BY <3>1, <3>2, <3>3
  <2>12. ObjectsOwned'
    BY <2>11 DEF ObjectsOwned
  <2>13. ASSUME NEW j \in Ids, heap[j].kind = "lock", j # x
         PROVE  heap[j].link \in Ids /\ heap'[heap[j].link].kind = "group"
    <3>1. heap[j].link \in Ids /\ heap[heap[j].link].kind = "group"
      BY <2>13, LinkIsGroup
    <3>2. heap[j].link # g /\ heap[j].link # x
      BY <2>1, <2>7, <2>13, <3>1
    <3> QED
      BY <2>3, <3>1, <3>2
  <2>14. OwnsGroup(g) => heap'[g].kind = "group"
    <3>1. OwnsGroup(g) => heap[g].refs = 2
      BY <2>1, <2>2 DEF IInv, ObjectsOwned
    <3> QED
      BY <2>3, <3>1
  <2>15. HeapKept(x)
    BY <2>1, <2>3, <2>13, <2>14 DEF HeapKept
  <2> QED
    BY <2>8, <2>12, <2>15
<1> QED
  BY <1>1, <1>2

\* A pointer to anything but x is still to an object of its kind.
StillFit(x) ==
    /\ \A o \in Locks :
         /\ lock[o].group # Null /\ lock[o].group # x => heap'[lock[o].group].kind = "group"
         /\ lock[o].rw # Null /\ lock[o].rw # x =>
              /\ heap'[lock[o].rw].kind = "lock" /\ heap'[lock[o].rw].link = lock[o].rwGroup
              /\ lock[o].rwGroup # Null /\ heap'[lock[o].rwGroup].kind = "group"
    /\ \A o \in Vnodes :
         vnode[o].vnode # Null /\ vnode[o].vnode # x => heap'[vnode[o].vnode].kind = "vnode"
    /\ \A o \in Handles :
         handle[o].context # Null /\ handle[o].context # x =>
             heap'[handle[o].context].kind = "context"
    /\ \A n \in 1..4 : Local(n) # Null /\ Local(n) # x =>
         /\ heap'[Local(n)].kind = heap[Local(n)].kind
         /\ heap[Local(n)].kind = "lock" => heap'[Local(n)].link = heap[Local(n)].link

LEMMA KeptFits ==
    ASSUME IInv, NEW x \in Id, HeapKept(x)
    PROVE  StillFit(x)
<1>1. /\ \A o \in Locks : lock[o].group \in Id /\ lock[o].rw \in Id /\ lock[o].rwGroup \in Id
      /\ \A o \in Vnodes : vnode[o].vnode \in Id
      /\ \A o \in Handles : handle[o].context \in Id
      /\ \A n \in 1..4 : Local(n) \in Id
  BY HeapFacts
<1>2. /\ \A j \in Ids : j # x =>
         /\ heap[j].kind # "group" => heap'[j] = heap[j]
         /\ heap[j].kind = "group" /\ OwnsGroup(j) => heap'[j].kind = "group"
      /\ \A j \in Ids : heap[j].kind = "lock" /\ j # x =>
            heap[j].link \in Ids /\ heap'[heap[j].link].kind = "group"
  BY DEF HeapKept
<1>3. ASSUME NEW o \in Locks
      PROVE  /\ lock[o].group # Null /\ lock[o].group # x => heap'[lock[o].group].kind = "group"
             /\ lock[o].rw # Null /\ lock[o].rw # x =>
                  /\ heap'[lock[o].rw].kind = "lock" /\ heap'[lock[o].rw].link = lock[o].rwGroup
                  /\ lock[o].rwGroup # Null /\ heap'[lock[o].rwGroup].kind = "group"
  <2>1. /\ lock[o].group # Null => heap[lock[o].group].kind = "group" /\ OwnsGroup(lock[o].group)
        /\ lock[o].rw # Null =>
              /\ heap[lock[o].rw].kind = "lock" /\ heap[lock[o].rw].link = lock[o].rwGroup
              /\ lock[o].rwGroup # Null
    BY DEF IInv, PointersFit, OwnsGroup
  <2> QED
    BY <1>1, <1>2, <2>1 DEF Id
<1>4. \A o \in Vnodes :
         vnode[o].vnode # Null /\ vnode[o].vnode # x => heap'[vnode[o].vnode].kind = "vnode"
  BY <1>1, <1>2 DEF IInv, PointersFit, Id
<1>5. \A o \in Handles :
         handle[o].context # Null /\ handle[o].context # x =>
             heap'[handle[o].context].kind = "context"
  BY <1>1, <1>2 DEF IInv, PointersFit, Id
<1>6. ASSUME NEW n \in 1..4, Local(n) # Null, Local(n) # x
      PROVE  /\ heap'[Local(n)].kind = heap[Local(n)].kind
             /\ heap[Local(n)].kind = "lock" => heap'[Local(n)].link = heap[Local(n)].link
  <2>1. heap[Local(n)].kind = "group" => n = 2
    BY <1>6 DEF IInv, LocalsFit
  <2>2. Local(n) \in Ids
    BY <1>1, <1>6 DEF Id
  <2>3. heap[Local(n)].kind = "group" => OwnsGroup(Local(n))
    BY <2>1 DEF OwnsGroup
  <2> QED
    BY <1>2, <1>6, <2>2, <2>3
<1> QED
  BY <1>3, <1>4, <1>5, <1>6 DEF StillFit

-----------------------------------------------------------------------------
(* The steps on Locks.                                                      *)

\* The Lock is made: the locals' group and lock become its own.
LEMMA ReturnLockKeeps ==
    ASSUME IInv, ReturnLock
    PROVE  IInv'
<1>0. /\ pc = "locked" /\ pc' = "unwind" /\ about' = <<>>
      /\ UNCHANGED <<heap, vnode, kernelContext, handle, kthread>>
      /\ Len(locals) = 4 /\ locals \in Seq(Id) /\ locals[2] # Null /\ locals[4] # Null
      /\ heap[locals[4]].link = locals[2]
      /\ about[1] \in Locks /\ lock[about[1]] = NoLock
  BY HeapFacts DEF ReturnLock, Goto, IInv, LocalsFit, AboutFits, LockMaking
<1>1. PICK o \in Locks, g \in Ids, r \in Ids : o = about[1] /\ g = locals[2] /\ r = locals[4]
  <2>1. locals[2] \in Ids /\ locals[4] \in Ids
    BY <1>0 DEF Id
  <2> QED
    BY <1>0, <2>1
<1>2. /\ lock' = [lock EXCEPT ![o] = [group |-> g, rw |-> r, rwGroup |-> g]]
      /\ locals' = [locals EXCEPT ![2] = Null, ![4] = Null]
      /\ lock[o] = NoLock
  BY <1>0, <1>1 DEF ReturnLock
<1>3. g # Null /\ r # Null /\ Null \in Id
  BY NullIsNoId DEF Id
<1>4. /\ locals' \in Seq(Id) /\ Len(locals') = 4
      /\ locals'[1] = locals[1] /\ locals'[2] = Null /\ locals'[3] = locals[3] /\ locals'[4] = Null
  BY <1>0, <1>2, <1>3
<1>5. /\ Local(1)' = Local(1) /\ Local(2)' = Null /\ Local(3)' = Local(3) /\ Local(4)' = Null
      /\ Local(2) = g /\ Local(4) = r
  BY <1>0, <1>1, <1>4 DEF Local
<1>6. lock \in [Locks -> [group : Id, rw : Id, rwGroup : Id]]
  BY DEF IInv, TypeOK
<1>7. /\ lock' \in [Locks -> [group : Id, rw : Id, rwGroup : Id]]
      /\ lock'[o].group = g /\ lock'[o].rw = r /\ lock'[o].rwGroup = g
      /\ \A p \in Locks : p # o => lock'[p] = lock[p]
  BY <1>2, <1>6 DEF Id
<1>8. lock[o].group = Null /\ lock[o].rw = Null
  BY <1>2 DEF NoLock
<1>9. heap[g].kind = "group" /\ heap[r].kind = "lock" /\ heap[r].link = g
  BY <1>0, <1>1, <1>3, <1>5 DEF IInv, LocalsFit
<1>10. TypeOK'
  BY <1>0, <1>4, <1>7 DEF IInv, TypeOK
<1>11. (pc \in Labels)'
  BY <1>0 DEF Labels
<1>12. LocalsFit'
  BY <1>0, <1>4, <1>5 DEF IInv, LocalsFit, Holding
<1>13. AboutFits'
  BY <1>0 DEF AboutFits, LockMaking
<1>14. PointersFit'
  BY <1>0, <1>3, <1>7, <1>9 DEF IInv, PointersFit
<1>15. PointersDiffer'
  <2>1. \A p \in Locks : lock[p].group # g /\ lock[p].rw # r
    BY <1>3, <1>5 DEF IInv, PointersDiffer
  <2> QED
    BY <1>0, <1>5, <1>7, <2>1 DEF IInv, PointersDiffer
<1>16. ObjectsOwned' /\ LinksDiffer'
  <2>1. ASSUME NEW j \in Ids, j # Null
        PROVE  (OwnsGroup(j)' <=> OwnsGroup(j)) /\ (OwnsLock(j)' <=> OwnsLock(j))
    BY <1>3, <1>5, <1>7, <1>8, <2>1 DEF OwnsGroup, OwnsLock
  <2>2. OwnersBut(Null)
    BY <1>0, <1>5, <2>1 DEF OwnersBut, OwnsVnode, OwnsContext
  <2>3. heap' = Freed(heap, Null)
    BY <1>0 DEF Freed
  <2> QED
    BY <1>3, <2>2, <2>3, FreedKeeps
<1>17. LocksWhole'
  BY <1>0, <1>7 DEF IInv, LocksWhole
<1>18. ContextsKept'
  BY <1>0 DEF IInv, ContextsKept, GivenContext
<1>19. KernelKnown'
  BY <1>0 DEF IInv, KernelKnown
<1> QED
  BY <1>10, <1>11, <1>12, <1>13, <1>14, <1>15, <1>16, <1>17, <1>18, <1>19 DEF IInv

LEMMA MoveLockKeeps ==
    ASSUME IInv, NEW o \in Locks, NEW p \in Locks, MoveLock(o, p)
    PROVE  IInv'
<1>0. /\ pc = "idle" /\ o # p /\ lock[o] = NoLock
      /\ lock' = [lock EXCEPT ![o] = lock[p], ![p] = NoLock]
      /\ UNCHANGED <<heap, vnode, kernelContext, handle, kthread, pc, about, locals>>
  BY DEF MoveLock
<1>1. lock \in [Locks -> [group : Id, rw : Id, rwGroup : Id]] /\ Null \in Id
        /\ NoLock \in [group : Id, rw : Id, rwGroup : Id]
  BY DEF IInv, TypeOK, NoLock, Id
<1>2. /\ lock' \in [Locks -> [group : Id, rw : Id, rwGroup : Id]]
      /\ lock'[o] = lock[p] /\ lock'[p] = lock[o]
      /\ \A q \in Locks : q # o /\ q # p => lock'[q] = lock[q]
  BY <1>0, <1>1
<1>3. \A n \in 1..4 : Local(n)' = Local(n)
  BY <1>0 DEF Local
<1>4. TypeOK'
  BY <1>0, <1>2 DEF IInv, TypeOK
<1>5. (pc \in Labels)' /\ LocalsFit'
  BY <1>0, <1>3 DEF IInv, LocalsFit
<1>6. AboutFits'
  BY <1>0 DEF IInv, AboutFits, LockMaking
<1>7. PointersFit'
  BY <1>0, <1>2 DEF IInv, PointersFit
<1>8. PointersDiffer'
  BY <1>0, <1>2, <1>3 DEF IInv, PointersDiffer
<1>9. ObjectsOwned' /\ LinksDiffer'
  <2>1. ASSUME NEW j \in Ids
        PROVE  (OwnsGroup(j)' <=> OwnsGroup(j)) /\ (OwnsLock(j)' <=> OwnsLock(j))
    BY <1>2, <1>3 DEF OwnsGroup, OwnsLock
  <2>2. OwnersBut(Null)
    BY <1>0, <1>3, <2>1 DEF OwnersBut, OwnsVnode, OwnsContext
  <2>3. heap' = Freed(heap, Null)
    BY <1>0 DEF Freed
  <2> QED
    BY <1>1, <2>2, <2>3, FreedKeeps
<1>10. LocksWhole'
  BY <1>0, <1>2 DEF IInv, LocksWhole
<1>11. ContextsKept'
  BY <1>0 DEF IInv, ContextsKept, GivenContext
<1>12. KernelKnown'
  BY <1>0 DEF IInv, KernelKnown
<1> QED
  BY <1>4, <1>5, <1>6, <1>7, <1>8, <1>9, <1>10, <1>11, <1>12 DEF IInv

\* Between two calls there are no locals.
LEMMA NoLocals ==
    ASSUME IInv, pc \notin Holding
    PROVE  locals = <<>> /\ \A n \in 1..4 : Local(n) = Null
<1>1. locals = <<>>
  BY DEF IInv, LocalsFit
<1> QED
  BY <1>1 DEF Local

\* The first half of an assignment replaces the group.
LEMMA AssignGroupKeeps ==
    ASSUME IInv, NEW o \in Locks, NEW p \in Locks, AssignGroup(o, p)
    PROVE  IInv'
<1>0. /\ pc = "idle" /\ o # p /\ pc' = "assign" /\ about' = <<o, p>>
      /\ heap' = Freed(heap, lock[o].group)
      /\ lock' = [lock EXCEPT ![o].group = lock[p].group, ![p].group = Null]
      /\ UNCHANGED <<vnode, kernelContext, handle, kthread, locals>>
      /\ about'[1] = o /\ about'[2] = p
  BY DEF AssignGroup, Goto
<1>1. PICK x \in Id, g \in Id : x = lock[o].group /\ g = lock[p].group
  BY HeapFacts
<1>2. lock \in [Locks -> [group : Id, rw : Id, rwGroup : Id]] /\ Null \in Id
  BY DEF IInv, TypeOK, Id
<1>3. /\ lock' \in [Locks -> [group : Id, rw : Id, rwGroup : Id]]
      /\ lock'[o].group = g /\ lock'[p].group = Null
      /\ \A q \in Locks : /\ lock'[q].rw = lock[q].rw /\ lock'[q].rwGroup = lock[q].rwGroup
                          /\ q # o /\ q # p => lock'[q].group = lock[q].group
  BY <1>0, <1>1, <1>2
<1>4. (\A n \in 1..4 : Local(n)' = Local(n)) /\ \A n \in 1..4 : Local(n) = Null
  BY <1>0, NoLocals DEF Local, Holding
<1>5. x # Null => heap[x].kind = "group" /\ OwnsGroup(x)
  BY <1>1 DEF IInv, PointersFit, OwnsGroup
<1>6. /\ \A q \in Locks : q # o /\ x # Null => lock[q].group # x
      /\ \A q \in Locks : q # p /\ g # Null => lock[q].group # g
  BY <1>1 DEF IInv, PointersDiffer
<1>7. x # Null => ~OwnsGroup(x)'
  BY <1>0, <1>1, <1>3, <1>4, <1>6 DEF OwnsGroup
<1>8. OwnersBut(x)
  <2>1. ASSUME NEW j \in Ids, j # x
        PROVE  OwnsGroup(j)' <=> OwnsGroup(j)
    <3>1. j # Null
      BY NullIsNoId
    <3> QED
      BY <1>0, <1>1, <1>3, <1>4, <2>1, <3>1 DEF OwnsGroup
  <2> QED
    BY <1>0, <1>3, <1>4, <2>1 DEF OwnersBut, OwnsLock, OwnsVnode, OwnsContext
<1>9. ObjectsOwned' /\ LinksDiffer' /\ HeapKept(x)
  BY <1>0, <1>1, <1>5, <1>7, <1>8, FreedKeeps
<1>10. StillFit(x)
  BY <1>9, KeptFits
<1>11. TypeOK'
  BY <1>0, <1>3, <1>9 DEF IInv, TypeOK, HeapKept, Objects
<1>12. (pc \in Labels)'
  BY <1>0 DEF Labels
<1>13. LocalsFit'
  BY <1>0, <1>4, NoLocals DEF LocalsFit, Holding
<1>14. AboutFits'
  BY <1>0 DEF AboutFits, LockMaking
<1>15. PointersFit'
  <2>1. ASSUME NEW q \in Locks
        PROVE  /\ lock'[q].group # Null => heap'[lock'[q].group].kind = "group"
               /\ lock'[q].rw # Null =>
                    /\ heap'[lock'[q].rw].kind = "lock" /\ heap'[lock'[q].rw].link = lock'[q].rwGroup
                    /\ lock'[q].rwGroup # Null /\ heap'[lock'[q].rwGroup].kind = "group"
               /\ lock'[q].rw = Null => lock'[q].rwGroup = Null
    <3>1. lock[q].rw # Null => lock[q].rw # x
      BY <1>5 DEF IInv, PointersFit
    <3>2. lock'[q].group # Null => lock'[q].group # x /\ heap'[lock'[q].group].kind = "group"
      <4>1. CASE q = o
        <5>1. g # Null => g # x /\ heap'[g].kind = "group"
          BY <1>0, <1>1, <1>6, <1>10 DEF StillFit
        <5> QED
          BY <1>3, <4>1, <5>1
      <4>2. CASE q = p
        BY <1>3, <4>2
      <4>3. CASE q # o /\ q # p
        <5>1. lock[q].group # Null => lock[q].group # x
          BY <1>6, <4>3
        <5>2. lock[q].group # Null => heap'[lock[q].group].kind = "group"
          BY <1>10, <5>1 DEF StillFit
        <5> QED
          BY <1>3, <4>3, <5>1, <5>2
      <4> QED
        BY <4>1, <4>2, <4>3
    <3> QED
      BY <1>3, <1>10, <3>1, <3>2 DEF StillFit, IInv, PointersFit
  <2>2. \A q \in Vnodes : vnode[q].vnode # Null => vnode[q].vnode # x
    BY <1>5 DEF IInv, PointersFit
  <2>3. \A q \in Handles : handle[q].context # Null => handle[q].context # x
    BY <1>5 DEF IInv, PointersFit
  <2>4. \A q \in Vnodes : vnode'[q].vnode # Null => heap'[vnode'[q].vnode].kind = "vnode"
    BY <1>0, <1>10, <2>2 DEF StillFit
  <2>5. \A q \in Handles : handle'[q].context # Null => heap'[handle'[q].context].kind = "context"
    BY <1>0, <1>10, <2>3 DEF StillFit
  <2> QED
    BY <2>1, <2>4, <2>5 DEF PointersFit
<1>16. PointersDiffer'
  BY <1>0, <1>3, <1>4, <1>6 DEF IInv, PointersDiffer
<1>17. LocksWhole'
  <2>1. \A q \in Locks : lock[q].group = lock[q].rwGroup
    BY <1>0 DEF IInv, LocksWhole
  <2> QED
    BY <1>0, <1>1, <1>3, <2>1 DEF LocksWhole
<1>18. ContextsKept'
  BY <1>0 DEF IInv, ContextsKept, GivenContext
<1>19. KernelKnown'
  BY <1>0 DEF IInv, KernelKnown
<1> QED
  BY <1>9, <1>11, <1>12, <1>13, <1>14, <1>15, <1>16, <1>17, <1>18, <1>19 DEF IInv

\* The second half frees the old lock, in the group that it was made in.
LEMMA AssignLockKeeps ==
    ASSUME IInv, AssignLock
    PROVE  IInv'
<1>1. PICK o \in Locks, p \in Locks : o = about[1] /\ p = about[2] /\ o # p
  BY DEF AssignLock, IInv, AboutFits
<1>0. /\ pc = "assign" /\ pc' = "idle" /\ about' = <<>>
      /\ heap' = LockFreed(heap, lock[o].rw, lock[o].rwGroup)
      /\ lock' = [lock EXCEPT ![o].rw = lock[p].rw, ![o].rwGroup = lock[p].rwGroup,
                              ![p] = NoLock]
      /\ UNCHANGED <<vnode, kernelContext, handle, kthread, locals>>
  BY <1>1 DEF AssignLock, Goto
<1>2. lock \in [Locks -> [group : Id, rw : Id, rwGroup : Id]] /\ Null \in Id
        /\ NoLock \in [group : Id, rw : Id, rwGroup : Id]
  BY DEF IInv, TypeOK, Id, NoLock
<1>3. PICK x \in Id, r \in Id, g \in Id, k \in Id :
          x = lock[o].rw /\ k = lock[o].rwGroup /\ r = lock[p].rw /\ g = lock[p].rwGroup
  BY <1>2
<1>4. lock[p].group = Null /\ lock[o].group = g
  BY <1>0, <1>1, <1>3 DEF IInv, LocksWhole
<1>5. /\ lock' \in [Locks -> [group : Id, rw : Id, rwGroup : Id]]
      /\ lock'[o].group = g /\ lock'[o].rw = r /\ lock'[o].rwGroup = g
      /\ lock'[p].group = Null /\ lock'[p].rw = Null /\ lock'[p].rwGroup = Null
      /\ \A q \in Locks : q # o /\ q # p => lock'[q] = lock[q]
  BY <1>0, <1>1, <1>2, <1>3, <1>4, SMTT(60) DEF NoLock
<1>6. \A q \in Locks : lock'[q].group = lock[q].group
  BY <1>4, <1>5
<1>7. (\A n \in 1..4 : Local(n)' = Local(n)) /\ \A n \in 1..4 : Local(n) = Null
  BY <1>0, NoLocals DEF Local, Holding
<1>8. OwnersBut(x)
  <2>1. ASSUME NEW j \in Ids, j # x
        PROVE  (OwnsGroup(j)' <=> OwnsGroup(j)) /\ (OwnsLock(j)' <=> OwnsLock(j))
    <3>1. j # Null
      BY NullIsNoId
    <3>2. OwnsGroup(j)' <=> OwnsGroup(j)
      BY <1>6, <1>7 DEF OwnsGroup
    <3>3. OwnsLock(j)' <=> OwnsLock(j)
      BY <1>1, <1>3, <1>5, <1>7, <2>1, <3>1 DEF OwnsLock
    <3> QED
      BY <3>2, <3>3
  <2> QED
    BY <1>0, <1>7, <2>1 DEF OwnersBut, OwnsVnode, OwnsContext
<1>9. ObjectsOwned' /\ LinksDiffer' /\ HeapKept(x)
  BY <1>0, <1>3, <1>8, LockFreedKeeps
<1>10. StillFit(x)
  BY <1>9, KeptFits
<1>11. TypeOK'
  BY <1>0, <1>5, <1>9 DEF IInv, TypeOK, HeapKept, Objects
<1>12. (pc \in Labels)'
  BY <1>0 DEF Labels
<1>13. LocalsFit'
  BY <1>0, <1>7, NoLocals DEF LocalsFit, Holding
<1>14. AboutFits'
  BY <1>0 DEF AboutFits, LockMaking
<1>15. x # Null => /\ heap[x].kind = "lock"
                   /\ \A q \in Locks : q # o => lock[q].rw # x
  BY <1>3 DEF IInv, PointersFit, PointersDiffer
<1>16. PointersFit'
  <2>1. ASSUME NEW q \in Locks
        PROVE  /\ lock'[q].group # Null => heap'[lock'[q].group].kind = "group"
               /\ lock'[q].rw # Null =>
                    /\ heap'[lock'[q].rw].kind = "lock" /\ heap'[lock'[q].rw].link = lock'[q].rwGroup
                    /\ lock'[q].rwGroup # Null /\ heap'[lock'[q].rwGroup].kind = "group"
               /\ lock'[q].rw = Null => lock'[q].rwGroup = Null
    <3>1. lock[q].group # Null => lock[q].group # x
      BY <1>15 DEF IInv, PointersFit
    <3>2. lock'[q].group # Null => heap'[lock'[q].group].kind = "group"
      BY <1>6, <1>10, <3>1 DEF StillFit
    <3>3. ASSUME q # p, q # o
          PROVE  /\ lock'[q].rw # Null =>
                      /\ heap'[lock'[q].rw].kind = "lock" /\ heap'[lock'[q].rw].link = lock'[q].rwGroup
                      /\ lock'[q].rwGroup # Null /\ heap'[lock'[q].rwGroup].kind = "group"
                 /\ lock'[q].rw = Null => lock'[q].rwGroup = Null
      BY <1>5, <1>10, <1>15, <3>3 DEF StillFit, IInv, PointersFit
    <3>4. /\ r # Null => r # x /\ heap'[r].kind = "lock" /\ heap'[r].link = g
                           /\ g # Null /\ heap'[g].kind = "group"
          /\ r = Null => g = Null
      BY <1>1, <1>3, <1>10, <1>15 DEF StillFit, IInv, PointersFit
    <3> QED
      BY <1>5, <3>2, <3>3, <3>4
  <2>2. \A q \in Vnodes : vnode[q].vnode # Null => vnode[q].vnode # x
    BY <1>15 DEF IInv, PointersFit
  <2>3. \A q \in Handles : handle[q].context # Null => handle[q].context # x
    BY <1>15 DEF IInv, PointersFit
  <2>4. \A q \in Vnodes : vnode'[q].vnode # Null => heap'[vnode'[q].vnode].kind = "vnode"
    BY <1>0, <1>10, <2>2 DEF StillFit
  <2>5. \A q \in Handles : handle'[q].context # Null => heap'[handle'[q].context].kind = "context"
    BY <1>0, <1>10, <2>3 DEF StillFit
  <2> QED
    BY <2>1, <2>4, <2>5 DEF PointersFit
<1>17. PointersDiffer'
  <2>1. \A q \in Locks : q # p /\ r # Null => lock[q].rw # r
    BY <1>3 DEF IInv, PointersDiffer
  <2> QED
    BY <1>0, <1>5, <1>6, <1>7, <2>1 DEF IInv, PointersDiffer
<1>18. LocksWhole'
  <2>1. \A q \in Locks : q # o /\ q # p => lock[q].group = lock[q].rwGroup
    BY <1>0, <1>1 DEF IInv, LocksWhole
  <2> QED
    BY <1>0, <1>5, <2>1 DEF LocksWhole
<1>19. ContextsKept'
  BY <1>0 DEF IInv, ContextsKept, GivenContext
<1>20. KernelKnown'
  BY <1>0 DEF IInv, KernelKnown
<1> QED
  BY <1>9, <1>11, <1>12, <1>13, <1>14, <1>16, <1>17, <1>18, <1>19, <1>20 DEF IInv

\* The destructor frees the lock first.
LEMMA DestroyLockKeeps ==
    ASSUME IInv, NEW o \in Locks, DestroyLock(o)
    PROVE  IInv'
<1>0. /\ pc = "idle" /\ pc' = "destroy" /\ about' = <<o>> /\ about'[1] = o
      /\ heap' = LockFreed(heap, lock[o].rw, lock[o].rwGroup)
      /\ lock' = [lock EXCEPT ![o].rw = Null, ![o].rwGroup = Null]
      /\ UNCHANGED <<vnode, kernelContext, handle, kthread, locals>>
  BY DEF DestroyLock, Goto
<1>2. lock \in [Locks -> [group : Id, rw : Id, rwGroup : Id]] /\ Null \in Id
  BY DEF IInv, TypeOK, Id
<1>3. PICK x \in Id, k \in Id : x = lock[o].rw /\ k = lock[o].rwGroup
  BY <1>2
<1>5. /\ lock' \in [Locks -> [group : Id, rw : Id, rwGroup : Id]]
      /\ lock'[o].rw = Null /\ lock'[o].rwGroup = Null
      /\ \A q \in Locks : q # o => lock'[q] = lock[q]
      /\ \A q \in Locks : lock'[q].group = lock[q].group
  BY <1>0, <1>2
<1>7. (\A n \in 1..4 : Local(n)' = Local(n)) /\ \A n \in 1..4 : Local(n) = Null
  BY <1>0, NoLocals DEF Local, Holding
<1>8. OwnersBut(x)
  <2>1. ASSUME NEW j \in Ids, j # x
        PROVE  (OwnsGroup(j)' <=> OwnsGroup(j)) /\ (OwnsLock(j)' <=> OwnsLock(j))
    <3>1. j # Null
      BY NullIsNoId
    <3>2. OwnsGroup(j)' <=> OwnsGroup(j)
      BY <1>5, <1>7 DEF OwnsGroup
    <3>3. OwnsLock(j)' <=> OwnsLock(j)
      BY <1>3, <1>5, <1>7, <2>1, <3>1 DEF OwnsLock
    <3> QED
      BY <3>2, <3>3
  <2> QED
    BY <1>0, <1>7, <2>1 DEF OwnersBut, OwnsVnode, OwnsContext
<1>9. ObjectsOwned' /\ LinksDiffer' /\ HeapKept(x)
  BY <1>0, <1>3, <1>8, LockFreedKeeps
<1>10. StillFit(x)
  BY <1>9, KeptFits
<1>11. TypeOK'
  BY <1>0, <1>5, <1>9 DEF IInv, TypeOK, HeapKept, Objects
<1>12. (pc \in Labels)'
  BY <1>0 DEF Labels
<1>13. LocalsFit'
  BY <1>0, <1>7, NoLocals DEF LocalsFit, Holding
<1>14. AboutFits'
  BY <1>0 DEF AboutFits, LockMaking
<1>15. x # Null => /\ heap[x].kind = "lock"
                   /\ \A q \in Locks : q # o => lock[q].rw # x
  BY <1>3 DEF IInv, PointersFit, PointersDiffer
<1>16. PointersFit'
  <2>1. ASSUME NEW q \in Locks
        PROVE  /\ lock'[q].group # Null => heap'[lock'[q].group].kind = "group"
               /\ lock'[q].rw # Null =>
                    /\ heap'[lock'[q].rw].kind = "lock" /\ heap'[lock'[q].rw].link = lock'[q].rwGroup
                    /\ lock'[q].rwGroup # Null /\ heap'[lock'[q].rwGroup].kind = "group"
               /\ lock'[q].rw = Null => lock'[q].rwGroup = Null
    <3>1. lock[q].group # Null => lock[q].group # x
      BY <1>15 DEF IInv, PointersFit
    <3>2. lock'[q].group # Null => heap'[lock'[q].group].kind = "group"
      BY <1>5, <1>10, <3>1 DEF StillFit
    <3>3. ASSUME q # o
          PROVE  /\ lock'[q].rw # Null =>
                      /\ heap'[lock'[q].rw].kind = "lock" /\ heap'[lock'[q].rw].link = lock'[q].rwGroup
                      /\ lock'[q].rwGroup # Null /\ heap'[lock'[q].rwGroup].kind = "group"
                 /\ lock'[q].rw = Null => lock'[q].rwGroup = Null
      BY <1>5, <1>10, <1>15, <3>3 DEF StillFit, IInv, PointersFit
    <3> QED
      BY <1>5, <3>2, <3>3
  <2>2. \A q \in Vnodes : vnode[q].vnode # Null => vnode[q].vnode # x
    BY <1>15 DEF IInv, PointersFit
  <2>3. \A q \in Handles : handle[q].context # Null => handle[q].context # x
    BY <1>15 DEF IInv, PointersFit
  <2> QED
    BY <1>0, <1>10, <2>1, <2>2, <2>3 DEF StillFit, PointersFit
<1>17. PointersDiffer'
  BY <1>0, <1>5, <1>7 DEF IInv, PointersDiffer
<1>18. LocksWhole'
  <2>1. \A q \in Locks : q # o => lock[q].group = lock[q].rwGroup
    BY <1>0 DEF IInv, LocksWhole
  <2> QED
    BY <1>0, <1>5, <2>1 DEF LocksWhole
<1>19. ContextsKept'
  BY <1>0 DEF IInv, ContextsKept, GivenContext
<1>20. KernelKnown'
  BY <1>0 DEF IInv, KernelKnown
<1> QED
  BY <1>9, <1>11, <1>12, <1>13, <1>14, <1>16, <1>17, <1>18, <1>19, <1>20 DEF IInv

\* Then its group.
LEMMA DestroyGroupKeeps ==
    ASSUME IInv, DestroyGroup
    PROVE  IInv'
<1>1. PICK o \in Locks : o = about[1]
  BY DEF DestroyGroup, IInv, AboutFits
<1>0. /\ pc = "destroy" /\ pc' = "idle" /\ about' = <<>>
      /\ heap' = Freed(heap, lock[o].group)
      /\ lock' = [lock EXCEPT ![o] = NoLock]
      /\ UNCHANGED <<vnode, kernelContext, handle, kthread, locals>>
  BY <1>1 DEF DestroyGroup, Goto
<1>2. lock \in [Locks -> [group : Id, rw : Id, rwGroup : Id]] /\ Null \in Id
        /\ NoLock \in [group : Id, rw : Id, rwGroup : Id]
  BY DEF IInv, TypeOK, Id, NoLock
<1>3. PICK x \in Id : x = lock[o].group
  BY <1>2
<1>4. lock[o].rw = Null
  BY <1>0, <1>1 DEF IInv, LocksWhole
<1>5. /\ lock' \in [Locks -> [group : Id, rw : Id, rwGroup : Id]]
      /\ lock'[o].group = Null /\ lock'[o].rw = Null /\ lock'[o].rwGroup = Null
      /\ \A q \in Locks : q # o => lock'[q] = lock[q]
  BY <1>0, <1>2 DEF NoLock
<1>6. x # Null => /\ heap[x].kind = "group" /\ OwnsGroup(x)
                  /\ \A q \in Locks : q # o => lock[q].group # x
  BY <1>3 DEF IInv, PointersFit, PointersDiffer, OwnsGroup
<1>7. (\A n \in 1..4 : Local(n)' = Local(n)) /\ \A n \in 1..4 : Local(n) = Null
  BY <1>0, NoLocals DEF Local, Holding
<1>8. x # Null => ~OwnsGroup(x)'
  BY <1>5, <1>6, <1>7 DEF OwnsGroup
<1>8a. OwnersBut(x)
  <2>1. ASSUME NEW j \in Ids, j # x
        PROVE  (OwnsGroup(j)' <=> OwnsGroup(j)) /\ (OwnsLock(j)' <=> OwnsLock(j))
    <3>1. j # Null
      BY NullIsNoId
    <3>2. OwnsGroup(j)' <=> OwnsGroup(j)
      BY <1>3, <1>5, <1>7, <2>1, <3>1 DEF OwnsGroup
    <3>3. OwnsLock(j)' <=> OwnsLock(j)
      BY <1>4, <1>5, <1>7, <3>1 DEF OwnsLock
    <3> QED
      BY <3>2, <3>3
  <2> QED
    BY <1>0, <1>7, <2>1 DEF OwnersBut, OwnsVnode, OwnsContext
<1>9. ObjectsOwned' /\ LinksDiffer' /\ HeapKept(x)
  BY <1>0, <1>3, <1>6, <1>8, <1>8a, FreedKeeps
<1>10. StillFit(x)
  BY <1>9, KeptFits
<1>11. TypeOK'
  BY <1>0, <1>5, <1>9 DEF IInv, TypeOK, HeapKept, Objects
<1>12. (pc \in Labels)'
  BY <1>0 DEF Labels
<1>13. LocalsFit'
  BY <1>0, <1>7, NoLocals DEF LocalsFit, Holding
<1>14. AboutFits'
  BY <1>0 DEF AboutFits, LockMaking
<1>16. PointersFit'
  <2>1. ASSUME NEW q \in Locks
        PROVE  /\ lock'[q].group # Null => heap'[lock'[q].group].kind = "group"
               /\ lock'[q].rw # Null =>
                    /\ heap'[lock'[q].rw].kind = "lock" /\ heap'[lock'[q].rw].link = lock'[q].rwGroup
                    /\ lock'[q].rwGroup # Null /\ heap'[lock'[q].rwGroup].kind = "group"
               /\ lock'[q].rw = Null => lock'[q].rwGroup = Null
    <3>1. CASE q = o
      BY <1>5, <3>1
    <3>2. CASE q # o
      <4>1. (lock[q].rw # Null => lock[q].rw # x) /\ (lock[q].group # Null => lock[q].group # x)
        BY <1>6, <3>2 DEF IInv, PointersFit
      <4>2. lock'[q] = lock[q]
        BY <1>5, <3>2
      <4> QED
        BY <1>10, <4>1, <4>2 DEF StillFit, IInv, PointersFit
    <3> QED
      BY <3>1, <3>2
  <2>2. \A q \in Vnodes : vnode[q].vnode # Null => vnode[q].vnode # x
    BY <1>6 DEF IInv, PointersFit
  <2>3. \A q \in Handles : handle[q].context # Null => handle[q].context # x
    BY <1>6 DEF IInv, PointersFit
  <2> QED
    BY <1>0, <1>10, <2>1, <2>2, <2>3 DEF StillFit, PointersFit
<1>17. PointersDiffer'
  BY <1>0, <1>5, <1>7 DEF IInv, PointersDiffer
<1>18. LocksWhole'
  <2>1. \A q \in Locks : q # o => lock[q].group = lock[q].rwGroup
    BY <1>0, <1>1 DEF IInv, LocksWhole
  <2> QED
    BY <1>0, <1>5, <2>1 DEF LocksWhole
<1>19. ContextsKept'
  BY <1>0 DEF IInv, ContextsKept, GivenContext
<1>20. KernelKnown'
  BY <1>0 DEF IInv, KernelKnown
<1> QED
  BY <1>9, <1>11, <1>12, <1>13, <1>14, <1>16, <1>17, <1>18, <1>19, <1>20 DEF IInv

-----------------------------------------------------------------------------
(* What a make() did not return is freed.                                   *)

LEMMA UnwindKeeps ==
    ASSUME IInv, Unwind
    PROVE  IInv'
<1>0. /\ pc = "unwind" /\ pc' = pc /\ about' = about /\ locals # <<>>
      /\ heap' = Freed(heap, Last(locals)) /\ locals' = Front(locals)
      /\ UNCHANGED <<lock, vnode, kernelContext, handle, kthread>>
  BY DEF Unwind
<1>1. locals \in Seq(Id) /\ Len(locals) <= 4 /\ Len(locals) \in 1..4
  <2>1. locals \in Seq(Id) /\ Len(locals) <= 4
    BY HeapFacts DEF IInv, LocalsFit
  <2>2. Len(locals) # 0
    BY <1>0, <2>1, EmptySeq
  <2>3. Len(locals) \in Nat
    BY <2>1, LenProperties
  <2>4. \A l \in Nat : l <= 4 /\ l # 0 => l \in 1..4
    OBVIOUS
  <2> QED
    BY <2>1, <2>2, <2>3, <2>4
<1>2. PICK n \in 1..4 : n = Len(locals)
  BY <1>1
<1>3. PICK x \in Id : x = Last(locals) /\ x = Local(n)
  <2>1. Last(locals) = locals[n] /\ locals[n] \in Id
    BY <1>1, <1>2 DEF Last
  <2> QED
    BY <1>2, <2>1 DEF Local
<1>4. locals' \in Seq(Id) /\ Len(locals') = n - 1 /\ \A m \in 1..n - 1 : locals'[m] = locals[m]
  <2>1. locals' = SubSeq(locals, 1, n - 1)
    BY <1>0, <1>2 DEF Front
  <2> QED
    BY <1>1, <1>2, <2>1
<1>5. \A m \in 1..4 : IF m = n THEN Local(m)' = Null ELSE Local(m)' = Local(m)
  BY <1>1, <1>2, <1>4 DEF Local
<1>6. \A m \in 1..4 : m = n \/ Local(m) = Null \/ Local(m) # x
  BY <1>2, <1>3, SMTT(30) DEF IInv, LocalsFit
<1>7. x # Null => /\ heap[x].kind \in {"groupAttr", "context", "group", "lockAttr"}
                  /\ heap[x].kind = "group" => n = 2
  BY <1>0, <1>3 DEF IInv, LocalsFit
<1>8. x # Null => \A o \in Locks : lock[o].group # x /\ lock[o].rw # x
  <2>1. n = 2 /\ x # Null => \A o \in Locks : lock[o].group # x
    BY <1>3 DEF IInv, PointersDiffer
  <2>2. n # 2 /\ x # Null => \A o \in Locks : lock[o].group # x
    BY <1>7 DEF IInv, PointersFit
  <2>3. x # Null => \A o \in Locks : lock[o].rw # x
    BY <1>7 DEF IInv, PointersFit
  <2> QED
    BY <2>1, <2>2, <2>3
<1>9. x # Null => \A o \in Vnodes : vnode[o].vnode # x
  BY <1>7 DEF IInv, PointersFit
<1>10. x # Null => \A o \in Handles : handle[o].context # x
  <2>1. n = 1 /\ x # Null => \A o \in Handles : handle[o].context # x
    BY <1>3 DEF IInv, PointersDiffer
  <2>2. n # 1 /\ x # Null => heap[x].kind # "context"
    BY <1>0, <1>3 DEF IInv, LocalsFit
  <2> QED
    BY <2>1, <2>2 DEF IInv, PointersFit
<1>11. x # Null /\ heap[x].kind = "group" => OwnsGroup(x)
  BY <1>3, <1>7 DEF OwnsGroup
<1>12. x # Null => ~OwnsGroup(x)'
  <2>1. x # Null => Local(2)' # x
    BY <1>5, <1>6
  <2> QED
    BY <1>0, <1>8, <2>1 DEF OwnsGroup
<1>13. OwnersBut(x)
  <2>1. ASSUME NEW j \in Ids, j # x, NEW m \in 1..4
        PROVE  Local(m)' = j <=> Local(m) = j
    BY <1>3, <1>5, <2>1, NullIsNoId
  <2> QED
    BY <1>0, <2>1 DEF OwnersBut, OwnsGroup, OwnsLock, OwnsVnode, OwnsContext
<1>14. ObjectsOwned' /\ LinksDiffer' /\ HeapKept(x)
  BY <1>0, <1>3, <1>7, <1>11, <1>12, <1>13, FreedKeeps
<1>15. StillFit(x)
  BY <1>14, KeptFits
<1>16. TypeOK'
  BY <1>0, <1>4, <1>14 DEF IInv, TypeOK, HeapKept, Objects
<1>17. (pc \in Labels)'
  BY <1>0 DEF Labels
<1>18. LocalsFit'
  <2>1. \A m \in 1..4 : Local(m)' # Null =>
          /\ Local(m)' = Local(m) /\ Local(m) # x
          /\ heap'[Local(m)].kind = heap[Local(m)].kind
    BY <1>3, <1>5, <1>6, <1>15 DEF StillFit
  <2>2. /\ Local(1)' # Null => heap'[Local(1)'].kind \in {"groupAttr", "context"}
        /\ Local(2)' # Null => heap'[Local(2)'].kind = "group"
        /\ Local(3)' # Null => heap'[Local(3)'].kind = "lockAttr"
        /\ Local(4)' = Null
    <3>1. Local(4)' = Null
      BY <1>0, <1>5 DEF IInv, LocalsFit
    <3> QED
      BY <2>1, <3>1 DEF IInv, LocalsFit
  <2> QED
    BY <1>0, <1>4, <2>2 DEF LocalsFit, Holding
<1>19. AboutFits'
  BY <1>0 DEF AboutFits, LockMaking
<1>20. PointersFit'
  <2>1. ASSUME NEW o \in Locks
        PROVE  /\ lock[o].group # Null => heap'[lock[o].group].kind = "group"
               /\ lock[o].rw # Null =>
                    /\ heap'[lock[o].rw].kind = "lock" /\ heap'[lock[o].rw].link = lock[o].rwGroup
                    /\ lock[o].rwGroup # Null /\ heap'[lock[o].rwGroup].kind = "group"
               /\ lock[o].rw = Null => lock[o].rwGroup = Null
    BY <1>8, <1>15 DEF StillFit, IInv, PointersFit
  <2>2. \A o \in Vnodes : vnode[o].vnode # Null => heap'[vnode[o].vnode].kind = "vnode"
    BY <1>9, <1>15 DEF StillFit
  <2>3. \A o \in Handles : handle[o].context # Null => heap'[handle[o].context].kind = "context"
    BY <1>10, <1>15 DEF StillFit
  <2> QED
    BY <1>0, <2>1, <2>2, <2>3 DEF PointersFit
<1>21. PointersDiffer'
  <2>1. \A m \in 1..4 : Local(m)' # Null => Local(m)' = Local(m)
    BY <1>5
  <2> QED
    BY <1>0, <2>1 DEF IInv, PointersDiffer
<1>22. LocksWhole'
  BY <1>0 DEF IInv, LocksWhole
<1>23. ContextsKept'
  BY <1>0 DEF IInv, ContextsKept, GivenContext
<1>24. KernelKnown'
  BY <1>0 DEF IInv, KernelKnown
<1> QED
  BY <1>14, <1>16, <1>17, <1>18, <1>19, <1>20, <1>21, <1>22, <1>23, <1>24 DEF IInv

-----------------------------------------------------------------------------
(* The steps on Vnodes.                                                     *)

VnodeOnly == UNCHANGED <<lock, handle, kthread, pc, about, locals>>

\* A step on Vnodes disturbs nothing that Locks, Threads and calls rely on.
LEMMA VnodeStepKeeps ==
    ASSUME IInv, pc = "idle", VnodeOnly
    PROVE  /\ (pc \in Labels)' /\ LocalsFit' /\ AboutFits' /\ LocksWhole' /\ ContextsKept'
           /\ \A n \in 1..4 : Local(n)' = Local(n) /\ Local(n) = Null
<1> USE DEF VnodeOnly
<1>1. \A n \in 1..4 : Local(n)' = Local(n) /\ Local(n) = Null
  BY NoLocals DEF Local, Holding
<1>2. (pc \in Labels)'
  BY DEF Labels
<1>3. LocalsFit'
  BY <1>1, NoLocals DEF LocalsFit, Holding
<1>4. AboutFits'
  BY DEF AboutFits, LockMaking
<1>5. LocksWhole'
  BY DEF IInv, LocksWhole
<1>6. ContextsKept'
  BY DEF IInv, ContextsKept, GivenContext
<1> QED
  BY <1>1, <1>2, <1>3, <1>4, <1>5, <1>6

LEMMA OpenFailsKeeps ==
    ASSUME IInv, OpenFails
    PROVE  IInv'
<1> USE DEF OpenFails, FindsContext
<1>1. (pc \in Labels)' /\ LocalsFit' /\ AboutFits' /\ LocksWhole' /\ ContextsKept'
        /\ \A n \in 1..4 : Local(n)' = Local(n) /\ Local(n) = Null
  BY VnodeStepKeeps DEF VnodeOnly
<1>2. TypeOK'
  BY DEF IInv, TypeOK
<1>3. PointersFit' /\ LinksDiffer'
  BY DEF IInv, PointersFit, LinksDiffer
<1>4. PointersDiffer'
  BY <1>1 DEF IInv, PointersDiffer
<1>5. ObjectsOwned'
  BY <1>1 DEF IInv, ObjectsOwned, OwnsGroup, OwnsLock, OwnsVnode, OwnsContext, Linked
<1>6. KernelKnown'
  BY DEF IInv, KernelKnown
<1> QED
  BY <1>1, <1>2, <1>3, <1>4, <1>5, <1>6 DEF IInv

LEMMA OpenKeeps ==
    ASSUME IInv, NEW o \in Vnodes, Open(o)
    PROVE  IInv'
<1>0. /\ pc = "idle" /\ vnode[o] = NoVnode /\ Kernel # NoAddress /\ kernelContext' = Kernel
      /\ UNCHANGED <<lock, handle, kthread, pc, about, locals>>
  BY DEF Open, FindsContext
<1>1. PICK i \in Ids :
         /\ heap[i] = Nothing
         /\ heap' = [heap EXCEPT ![i] = [kind |-> "vnode", refs |-> 1, link |-> Null]]
         /\ vnode' = [vnode EXCEPT ![o] = [vnode |-> i, context |-> Kernel]]
  BY <1>0 DEF Open
<1>2. (pc \in Labels)' /\ LocalsFit' /\ AboutFits' /\ LocksWhole' /\ ContextsKept'
        /\ \A n \in 1..4 : Local(n)' = Local(n) /\ Local(n) = Null
  BY <1>0, VnodeStepKeeps DEF VnodeOnly
<1>3. heap \in [Ids -> Objects] /\ [kind |-> "vnode", refs |-> 1, link |-> Null] \in Objects
  BY HeapFacts DEF Objects, Kinds, Id
<1>4. /\ heap' \in [Ids -> Objects]
      /\ heap'[i] = [kind |-> "vnode", refs |-> 1, link |-> Null]
      /\ \A j \in Ids : j # i => heap'[j] = heap[j]
  <2> HIDE DEF Objects
  <2> QED
    BY <1>1, <1>3
<1>5. heap[i].kind = "none" /\ i # Null
  BY <1>1, NothingIsObject, NullIsNoId
<1>6. /\ \A q \in Locks : lock[q].group # i /\ lock[q].rw # i /\ lock[q].rwGroup # i
      /\ \A q \in Vnodes : vnode[q].vnode # i
      /\ \A q \in Handles : handle[q].context # i
      /\ ~Linked(i)
  BY <1>5, NothingIsUnowned
<1>7. vnode \in [Vnodes -> [vnode : Id, context : {Null, Kernel}]] /\ i \in Id
  BY DEF IInv, TypeOK, Id
<1>8. /\ vnode' \in [Vnodes -> [vnode : Id, context : {Null, Kernel}]]
      /\ vnode'[o].vnode = i /\ vnode'[o].context = Kernel
      /\ \A q \in Vnodes : q # o => vnode'[q] = vnode[q]
  BY <1>1, <1>7
<1>9. TypeOK'
  BY <1>0, <1>4, <1>8 DEF IInv, TypeOK, Objects
<1>10. PointersFit'
  <2>1. ASSUME NEW q \in Locks
        PROVE  /\ lock[q].group # Null => heap'[lock[q].group].kind = "group"
               /\ lock[q].rw # Null =>
                    /\ heap'[lock[q].rw].kind = "lock" /\ heap'[lock[q].rw].link = lock[q].rwGroup
                    /\ lock[q].rwGroup # Null /\ heap'[lock[q].rwGroup].kind = "group"
               /\ lock[q].rw = Null => lock[q].rwGroup = Null
    <3>1. lock[q].group \in Id /\ lock[q].rw \in Id /\ lock[q].rwGroup \in Id
      BY HeapFacts
    <3> QED
      BY <1>4, <1>6, <3>1 DEF IInv, PointersFit, Id
  <2>2. ASSUME NEW q \in Vnodes, vnode'[q].vnode # Null
        PROVE  heap'[vnode'[q].vnode].kind = "vnode"
    <3>1. CASE q = o
      BY <1>4, <1>8, <3>1
    <3>2. CASE q # o
      BY <1>4, <1>6, <1>8, <2>2, <3>2, HeapFacts DEF IInv, PointersFit, Id
    <3> QED
      BY <3>1, <3>2
  <2>3. ASSUME NEW q \in Handles, handle[q].context # Null
        PROVE  heap'[handle[q].context].kind = "context"
    BY <1>4, <1>6, <2>3, HeapFacts DEF IInv, PointersFit, Id
  <2> QED
    BY <1>0, <2>1, <2>2, <2>3 DEF PointersFit
<1>11. PointersDiffer'
  BY <1>0, <1>2, <1>6, <1>8 DEF IInv, PointersDiffer
<1>12. ObjectsOwned'
  <2>1. \A j \in Ids : Linked(j)' <=> Linked(j)
    BY <1>4, <1>5 DEF Linked
  <2>2. \A j \in Ids : /\ OwnsGroup(j)' <=> OwnsGroup(j)
                       /\ OwnsLock(j)' <=> OwnsLock(j)
                       /\ OwnsContext(j)' <=> OwnsContext(j)
    BY <1>0, <1>2 DEF OwnsGroup, OwnsLock, OwnsContext
  <2>3. OwnsVnode(i)' /\ \A j \in Ids : j # i => (OwnsVnode(j)' <=> OwnsVnode(j))
    <3>1. vnode[o].vnode = Null
      BY <1>0 DEF NoVnode
    <3> QED
      BY <1>8, <3>1, NullIsNoId DEF OwnsVnode
  <2>4. ASSUME NEW j \in Ids
        PROVE  /\ heap'[j].kind = "none" => heap'[j] = Nothing
               /\ heap'[j].kind = "groupAttr" => Local(1)' = j
               /\ heap'[j].kind = "group" =>
                    \/ heap'[j].refs = 2 /\ OwnsGroup(j)' /\ Linked(j)'
                    \/ heap'[j].refs = 1 /\ OwnsGroup(j)' /\ ~Linked(j)'
                    \/ heap'[j].refs = 1 /\ ~OwnsGroup(j)' /\ Linked(j)'
               /\ heap'[j].kind = "lockAttr" => Local(3)' = j
               /\ heap'[j].kind = "lock" => OwnsLock(j)' /\ heap'[j].link # Null
               /\ heap'[j].kind = "vnode" => OwnsVnode(j)'
               /\ heap'[j].kind = "context" => OwnsContext(j)'
    <3>1. CASE j = i
      BY <1>4, <2>3, <3>1
    <3>2. CASE j # i
      BY <1>2, <1>4, <2>1, <2>2, <2>3, <3>2 DEF IInv, ObjectsOwned
    <3> QED
      BY <3>1, <3>2
  <2> QED
    BY <2>4 DEF ObjectsOwned
<1>13. LinksDiffer'
  BY <1>4 DEF IInv, LinksDiffer
<1>14. KernelKnown'
  BY <1>0, <1>8 DEF IInv, KernelKnown
<1> QED
  BY <1>2, <1>9, <1>10, <1>11, <1>12, <1>13, <1>14 DEF IInv

\* What a Vnode had open is closed.
LEMMA ClosedKeeps ==
    ASSUME IInv, NEW x \in Id, x # Null => heap[x].kind = "vnode",
           heap' = Freed(heap, x), pc = "idle", VnodeOnly, kernelContext' = kernelContext,
           vnode' \in [Vnodes -> [vnode : Id, context : {Null, Kernel}]],
           \A j \in Ids : j # x => (OwnsVnode(j)' <=> OwnsVnode(j)),
           \A q \in Vnodes : vnode'[q].vnode # Null =>
               /\ vnode'[q].vnode # x
               /\ \E r \in Vnodes : vnode'[q] = vnode[r],
           \A q, r \in Vnodes :
               q # r /\ vnode'[q].vnode # Null => vnode'[q].vnode # vnode'[r].vnode
    PROVE  IInv'
<1>1. (pc \in Labels)' /\ LocalsFit' /\ AboutFits' /\ LocksWhole' /\ ContextsKept'
        /\ \A n \in 1..4 : Local(n)' = Local(n) /\ Local(n) = Null
  BY VnodeStepKeeps
<1>2. \A o \in Locks : /\ lock[o].group # Null => lock[o].group # x
                       /\ lock[o].rw # Null => lock[o].rw # x
  BY DEF IInv, PointersFit
<1>3. \A o \in Handles : handle[o].context # Null => handle[o].context # x
  BY DEF IInv, PointersFit
<1>4. OwnersBut(x)
  BY <1>1 DEF OwnersBut, OwnsGroup, OwnsLock, OwnsContext, VnodeOnly
<1>5. x # Null => ~OwnsGroup(x)'
  BY <1>1, <1>2 DEF OwnsGroup, VnodeOnly
<1>6. ObjectsOwned' /\ LinksDiffer' /\ HeapKept(x)
  BY <1>4, <1>5, FreedKeeps
<1>7. StillFit(x)
  BY <1>6, KeptFits
<1>8. TypeOK'
  BY <1>6 DEF IInv, TypeOK, HeapKept, Objects, VnodeOnly
<1>9. PointersFit'
  <2>1. ASSUME NEW o \in Locks
        PROVE  /\ lock[o].group # Null => heap'[lock[o].group].kind = "group"
               /\ lock[o].rw # Null =>
                    /\ heap'[lock[o].rw].kind = "lock" /\ heap'[lock[o].rw].link = lock[o].rwGroup
                    /\ lock[o].rwGroup # Null /\ heap'[lock[o].rwGroup].kind = "group"
               /\ lock[o].rw = Null => lock[o].rwGroup = Null
    BY <1>2, <1>7 DEF StillFit, IInv, PointersFit
  <2>2. ASSUME NEW q \in Vnodes, vnode'[q].vnode # Null
        PROVE  heap'[vnode'[q].vnode].kind = "vnode"
    <3>1. PICK r \in Vnodes : vnode'[q] = vnode[r]
      BY <2>2
    <3>2. vnode[r].vnode # Null /\ vnode[r].vnode # x
      BY <2>2, <3>1
    <3> QED
      BY <1>7, <3>1, <3>2 DEF StillFit
  <2>3. \A o \in Handles : handle[o].context # Null => heap'[handle[o].context].kind = "context"
    BY <1>3, <1>7 DEF StillFit
  <2> QED
    BY <2>1, <2>2, <2>3 DEF PointersFit, VnodeOnly
<1>10. PointersDiffer'
  BY <1>1 DEF IInv, PointersDiffer, VnodeOnly
<1>11. KernelKnown'
  BY DEF IInv, KernelKnown
<1> QED
  BY <1>1, <1>6, <1>8, <1>9, <1>10, <1>11 DEF IInv

LEMMA CloseKeeps ==
    ASSUME IInv, NEW o \in Vnodes, Close(o)
    PROVE  IInv'
<1>0. /\ pc = "idle" /\ heap' = Freed(heap, vnode[o].vnode)
      /\ vnode' = [vnode EXCEPT ![o] = NoVnode]
      /\ kernelContext' = kernelContext /\ VnodeOnly
  BY DEF Close, VnodeOnly
<1>1. vnode \in [Vnodes -> [vnode : Id, context : {Null, Kernel}]]
        /\ NoVnode \in [vnode : Id, context : {Null, Kernel}] /\ NoVnode.vnode = Null
  BY DEF IInv, TypeOK, NoVnode, Id
<1>2. PICK x \in Id : x = vnode[o].vnode
  BY <1>1
<1>3. /\ vnode' \in [Vnodes -> [vnode : Id, context : {Null, Kernel}]]
      /\ vnode'[o].vnode = Null
      /\ \A q \in Vnodes : q # o => vnode'[q] = vnode[q]
  BY <1>0, <1>1
<1>4. x # Null => heap[x].kind = "vnode" /\ \A q \in Vnodes : q # o => vnode[q].vnode # x
  BY <1>2 DEF IInv, PointersFit, PointersDiffer
<1>5. \A j \in Ids : j # x => (OwnsVnode(j)' <=> OwnsVnode(j))
  BY <1>2, <1>3, NullIsNoId DEF OwnsVnode
<1>6. \A q \in Vnodes : vnode'[q].vnode # Null =>
               /\ vnode'[q].vnode # x
               /\ \E r \in Vnodes : vnode'[q] = vnode[r]
  BY <1>3, <1>4
<1>7. \A q, r \in Vnodes : q # r /\ vnode'[q].vnode # Null => vnode'[q].vnode # vnode'[r].vnode
  BY <1>3 DEF IInv, PointersDiffer
<1>8. (x # Null => heap[x].kind = "vnode") /\ heap' = Freed(heap, x)
  BY <1>0, <1>2, <1>4
<1> QED
  BY <1>0, <1>3, <1>5, <1>6, <1>7, <1>8, ClosedKeeps

LEMMA MoveVnodeKeeps ==
    ASSUME IInv, NEW o \in Vnodes, NEW p \in Vnodes, MoveVnode(o, p)
    PROVE  IInv'
<1>0. /\ pc = "idle" /\ o # p /\ heap' = Freed(heap, vnode[o].vnode)
      /\ vnode' = [vnode EXCEPT ![o] = vnode[p], ![p] = NoVnode]
      /\ kernelContext' = kernelContext /\ VnodeOnly
  BY DEF MoveVnode, VnodeOnly
<1>1. vnode \in [Vnodes -> [vnode : Id, context : {Null, Kernel}]]
        /\ NoVnode \in [vnode : Id, context : {Null, Kernel}] /\ NoVnode.vnode = Null
  BY DEF IInv, TypeOK, NoVnode, Id
<1>2. PICK x \in Id : x = vnode[o].vnode
  BY <1>1
<1>3. /\ vnode' \in [Vnodes -> [vnode : Id, context : {Null, Kernel}]]
      /\ vnode'[o] = vnode[p] /\ vnode'[p].vnode = Null
      /\ \A q \in Vnodes : q # o /\ q # p => vnode'[q] = vnode[q]
  BY <1>0, <1>1
<1>4. x # Null => heap[x].kind = "vnode" /\ \A q \in Vnodes : q # o => vnode[q].vnode # x
  BY <1>2 DEF IInv, PointersFit, PointersDiffer
<1>5. ASSUME NEW j \in Ids, j # x PROVE OwnsVnode(j)' <=> OwnsVnode(j)
  <2>1. j # Null
    BY NullIsNoId
  <2>2. ASSUME NEW q \in Vnodes, vnode[q].vnode = j PROVE \E r \in Vnodes : vnode'[r].vnode = j
    BY <1>0, <1>2, <1>3, <1>5, <2>2
  <2>3. ASSUME NEW q \in Vnodes, vnode'[q].vnode = j PROVE \E r \in Vnodes : vnode[r].vnode = j
    BY <1>3, <2>1, <2>3
  <2> QED
    BY <2>2, <2>3 DEF OwnsVnode
<1>6. \A q \in Vnodes : vnode'[q].vnode # Null =>
               /\ vnode'[q].vnode # x
               /\ \E r \in Vnodes : vnode'[q] = vnode[r]
  BY <1>0, <1>3, <1>4
<1>7. \A q, r \in Vnodes : q # r /\ vnode'[q].vnode # Null => vnode'[q].vnode # vnode'[r].vnode
  BY <1>3 DEF IInv, PointersDiffer
<1>8. (x # Null => heap[x].kind = "vnode") /\ heap' = Freed(heap, x)
  BY <1>0, <1>2, <1>4
<1> QED
  BY <1>0, <1>3, <1>5, <1>6, <1>7, <1>8, ClosedKeeps

-----------------------------------------------------------------------------
(* The steps on Threads.                                                    *)

\* A step that changes Threads only, or a kernel thread.
ThreadOnly == UNCHANGED <<heap, lock, vnode, kernelContext, locals>>

LEMMA StartKeeps ==
    ASSUME IInv, NEW k \in Kthreads, Start(k)
    PROVE  IInv'
<1>0. /\ pc = "start" /\ pc' = "wrap" /\ about' = Append(about, k)
      /\ kthread[k].state = "none"
      /\ kthread' = [kthread EXCEPT ![k] = [state |-> "started", context |-> locals[1]]]
      /\ UNCHANGED <<heap, lock, vnode, kernelContext, handle, locals>>
  BY DEF Start, Goto
<1>1. PICK o \in Handles : o = about[1] /\ handle[o] = NoThread /\ about \in Seq(Handles)
                             /\ Len(about) = 1
  BY <1>0 DEF IInv, AboutFits
<1>2. about'[1] = o /\ about'[2] = k
  <2> DEFINE S == Handles \cup Kthreads
  <2>1. about \in Seq(S) /\ k \in S
    BY <1>1
  <2>2. /\ Len(Append(about, k)) = Len(about) + 1
        /\ \A i \in 1..Len(about) : Append(about, k)[i] = about[i]
        /\ Append(about, k)[Len(about) + 1] = k
    BY <2>1, AppendProperties
  <2> QED
    BY <1>0, <1>1, <2>2
<1>3. Len(locals) = 1 /\ locals[1] # Null /\ locals \in Seq(Id) /\ heap[locals[1]].kind = "context"
  BY <1>0, HeapFacts DEF IInv, LocalsFit
<1>4. locals[1] \in Id
  BY <1>3, ElementOfSeq
<1>5. kthread \in [Kthreads -> [state : {"none", "started", "runs", "ended"}, context : Id]]
  BY DEF IInv, TypeOK
<1>6. /\ kthread' \in [Kthreads -> [state : {"none", "started", "runs", "ended"}, context : Id]]
      /\ kthread'[k].state = "started" /\ kthread'[k].context = locals[1]
      /\ \A t \in Kthreads : t # k => kthread'[t] = kthread[t]
  BY <1>0, <1>4, <1>5
<1>7. PointersFit' /\ PointersDiffer' /\ ObjectsOwned' /\ LinksDiffer' /\ KernelKnown'
        /\ \A n \in 1..4 : Local(n)' = Local(n)
  BY <1>0, PointersStay
<1>8. TypeOK'
  BY <1>0, <1>6 DEF IInv, TypeOK
<1>9. (pc \in Labels)'
  BY <1>0 DEF Labels, ThreadMaking
<1>10. LocalsFit'
  BY <1>0, <1>3, <1>7 DEF IInv, LocalsFit, Holding
<1>11. AboutFits'
  <2>1. handle'[o] = NoThread
          /\ kthread'[k].state # "none" /\ kthread'[k].context = locals'[1]
    BY <1>0, <1>1, <1>2, <1>6
  <2> QED
    BY <1>0, <1>2, <2>1 DEF AboutFits, LockMaking
<1>12. LocksWhole'
  BY <1>0 DEF IInv, LocksWhole
<1>13. ContextsKept'
  <2>1. \A q \in Handles : handle[q].thread # Null =>
            handle[q].thread \in Kthreads /\ handle[q].thread # k
    BY <1>0, HeapFacts DEF IInv, ContextsKept
  <2>2. \A q \in Handles : handle[q].thread # Null => GivenContext(q)' = GivenContext(q)
    BY <1>0, <1>6, <2>1 DEF GivenContext
  <2> QED
    BY <1>0, <1>6, <2>1, <2>2 DEF IInv, ContextsKept
<1> QED
  BY <1>7, <1>8, <1>9, <1>10, <1>11, <1>12, <1>13 DEF IInv

\* The context becomes the Thread's.
LEMMA WrapKeeps ==
    ASSUME IInv, Wrap
    PROVE  IInv'
<1>0. /\ pc = "wrap" /\ pc' = "unwind" /\ about' = <<>>
      /\ handle' = [handle EXCEPT ![about[1]] = [thread |-> about[2], context |-> locals[1]]]
      /\ locals' = <<Null>>
      /\ UNCHANGED <<heap, lock, vnode, kernelContext, kthread>>
  BY DEF Wrap, Goto
<1>1. PICK o \in Handles, k \in Kthreads :
          /\ o = about[1] /\ k = about[2] /\ handle[o] = NoThread
          /\ kthread[k].state # "none" /\ kthread[k].context = locals[1]
  BY <1>0 DEF IInv, AboutFits
<1>2. Len(locals) = 1 /\ locals[1] # Null /\ locals \in Seq(Id) /\ heap[locals[1]].kind = "context"
  BY <1>0, HeapFacts DEF IInv, LocalsFit
<1>3. PICK c \in Id : c = locals[1]
  <2>1. 1 \in 1..Len(locals)
    BY <1>2
  <2>2. locals[1] \in Id
    BY <1>2, <2>1, ElementOfSeq
  <2> QED
    BY <2>2
<1>4. c # Null /\ heap[c].kind = "context" /\ kthread[k].context = c /\ Local(1) = c /\ Null \in Id
  BY <1>1, <1>2, <1>3 DEF Local, Id
<1>5. handle \in [Handles -> [thread : Kthreads \cup {Null}, context : Id]]
  BY DEF IInv, TypeOK
<1>6. /\ handle' \in [Handles -> [thread : Kthreads \cup {Null}, context : Id]]
      /\ handle'[o].thread = k /\ handle'[o].context = c
      /\ \A q \in Handles : q # o => handle'[q] = handle[q]
  BY <1>0, <1>1, <1>3, <1>5
<1>7. \A n \in 1..4 : Local(n)' = Null /\ (n # 1 => Local(n) = Null)
  BY <1>0, <1>2 DEF Local
<1>8. TypeOK'
  BY <1>0, <1>4, <1>6 DEF IInv, TypeOK
<1>9. (pc \in Labels)'
  BY <1>0 DEF Labels
<1>10. LocalsFit'
  BY <1>0, <1>7 DEF LocalsFit, Holding
<1>11. AboutFits'
  BY <1>0 DEF AboutFits, LockMaking
<1>12. PointersFit'
  BY <1>0, <1>4, <1>6 DEF IInv, PointersFit
<1>13. PointersDiffer'
  <2>1. \A q \in Handles : handle[q].context # c
    BY <1>4 DEF IInv, PointersDiffer
  <2> QED
    BY <1>0, <1>6, <1>7, <2>1 DEF IInv, PointersDiffer
<1>14. ObjectsOwned' /\ LinksDiffer'
  <2>1. ASSUME NEW j \in Ids
        PROVE  j = c \/ ((OwnsContext(j)' <=> OwnsContext(j)) /\ (Local(1)' = j <=> Local(1) = j))
    <3>1. j # Null /\ handle[o].context = Null
      BY <1>1, NullIsNoId DEF NoThread
    <3> QED
      BY <1>4, <1>6, <1>7, <3>1 DEF OwnsContext
  <2>2. c \in Ids
    BY <1>4 DEF Id
  <2>3. OwnsContext(c)'
    BY <1>6 DEF OwnsContext
  <2>4. ASSUME NEW j \in Ids
        PROVE  /\ OwnsGroup(j)' <=> OwnsGroup(j)
               /\ OwnsLock(j)' <=> OwnsLock(j)
               /\ OwnsVnode(j)' <=> OwnsVnode(j)
               /\ Linked(j)' <=> Linked(j)
               /\ Local(3)' = j <=> Local(3) = j
    BY <1>0, <1>7 DEF OwnsGroup, OwnsLock, OwnsVnode, Linked
  <2>5. ASSUME NEW j \in Ids
        PROVE  /\ heap'[j].kind = "none" => heap'[j] = Nothing
               /\ heap'[j].kind = "groupAttr" => Local(1)' = j
               /\ heap'[j].kind = "group" =>
                    \/ heap'[j].refs = 2 /\ OwnsGroup(j)' /\ Linked(j)'
                    \/ heap'[j].refs = 1 /\ OwnsGroup(j)' /\ ~Linked(j)'
                    \/ heap'[j].refs = 1 /\ ~OwnsGroup(j)' /\ Linked(j)'
               /\ heap'[j].kind = "lockAttr" => Local(3)' = j
               /\ heap'[j].kind = "lock" => OwnsLock(j)' /\ heap'[j].link # Null
               /\ heap'[j].kind = "vnode" => OwnsVnode(j)'
               /\ heap'[j].kind = "context" => OwnsContext(j)'
    BY <1>0, <1>4, <2>1, <2>3, <2>4 DEF IInv, ObjectsOwned
  <2>6. LinksDiffer'
    BY <1>0 DEF IInv, LinksDiffer
  <2> QED
    BY <2>5, <2>6 DEF ObjectsOwned
<1>15. LocksWhole'
  BY <1>0 DEF IInv, LocksWhole
<1>16. ContextsKept'
  <2>1. k # Null
    BY NullIsNoId
  <2>2. \A q \in Handles : q # o => GivenContext(q)' = GivenContext(q)
    BY <1>0, <1>6 DEF GivenContext
  <2>3. GivenContext(o)' = c
    BY <1>0, <1>4, <1>6 DEF GivenContext
  <2> QED
    BY <1>0, <1>1, <1>4, <1>6, <2>1, <2>2, <2>3 DEF IInv, ContextsKept
<1>17. KernelKnown'
  BY <1>0 DEF IInv, KernelKnown
<1> QED
  BY <1>8, <1>9, <1>10, <1>11, <1>12, <1>13, <1>14, <1>15, <1>16, <1>17 DEF IInv

\* A step that only changes which kernel threads Threads have, and their states.
LEMMA KthreadStepKeeps ==
    ASSUME IInv, ThreadOnly,
           kthread' \in [Kthreads -> [state : {"none", "started", "runs", "ended"}, context : Id]],
           \A t \in Kthreads : /\ kthread'[t].context = kthread[t].context
                               /\ kthread[t].state # "none" => kthread'[t].state # "none",
           handle' \in [Handles -> [thread : Kthreads \cup {Null}, context : Id]],
           \A q \in Handles : handle'[q].context = handle[q].context
    PROVE  /\ TypeOK' /\ PointersFit' /\ PointersDiffer' /\ ObjectsOwned' /\ LinksDiffer'
           /\ KernelKnown'
           /\ \A n \in 1..4 : Local(n)' = Local(n)
<1> USE DEF ThreadOnly
<1>1. \A n \in 1..4 : Local(n)' = Local(n)
  BY DEF Local
<1>2. TypeOK'
  BY DEF IInv, TypeOK
<1>3. PointersFit' /\ LinksDiffer' /\ KernelKnown'
  BY DEF IInv, PointersFit, LinksDiffer, KernelKnown
<1>4. PointersDiffer'
  BY <1>1 DEF IInv, PointersDiffer
<1>5. ObjectsOwned'
  <2>1. \A j \in Ids : OwnsContext(j)' <=> OwnsContext(j)
    BY <1>1 DEF OwnsContext
  <2> QED
    BY <1>1, <2>1 DEF IInv, ObjectsOwned, OwnsGroup, OwnsLock, OwnsVnode, Linked
<1> QED
  BY <1>1, <1>2, <1>3, <1>4, <1>5

\* A kernel thread's state moves on, and its context stays the same.
LEMMA StateMoves ==
    ASSUME IInv, NEW k \in Kthreads, NEW s \in {"runs", "ended"},
           kthread' = [kthread EXCEPT ![k].state = s]
    PROVE  /\ kthread' \in [Kthreads -> [state : {"none", "started", "runs", "ended"}, context : Id]]
           /\ \A t \in Kthreads : /\ kthread'[t].context = kthread[t].context
                                  /\ kthread[t].state # "none" => kthread'[t].state # "none"
<1>1. kthread \in [Kthreads -> [state : {"none", "started", "runs", "ended"}, context : Id]]
  BY DEF IInv, TypeOK
<1>2. /\ kthread'[k] = [kthread[k] EXCEPT !.state = s]
      /\ \A t \in Kthreads : t # k => kthread'[t] = kthread[t]
  BY <1>1
<1>3. /\ kthread'[k].context = kthread[k].context /\ kthread'[k].state = s
      /\ kthread'[k] \in [state : {"none", "started", "runs", "ended"}, context : Id]
  BY <1>1, <1>2
<1>4. kthread' \in [Kthreads -> [state : {"none", "started", "runs", "ended"}, context : Id]]
  BY <1>1, <1>2, <1>3
<1> QED
  BY <1>2, <1>3, <1>4

LEMMA TerminateFacts ==
    ASSUME IInv, NEW k \in Kthreads \cup {Null}, Terminate(k)
    PROVE  /\ kthread' \in [Kthreads -> [state : {"none", "started", "runs", "ended"}, context : Id]]
           /\ \A t \in Kthreads : /\ kthread'[t].context = kthread[t].context
                                  /\ kthread[t].state # "none" => kthread'[t].state # "none"
<1>1. CASE UNCHANGED kthread
  BY <1>1 DEF IInv, TypeOK
<1>2. CASE \E j \in Kthreads : kthread' = [kthread EXCEPT ![j].state = "ended"]
  BY <1>2, StateMoves
<1> QED
  BY <1>1, <1>2 DEF Terminate

\* A kernel thread goes on by itself.
LEMMA KthreadKeeps ==
    ASSUME IInv, NEW k \in Kthreads, Reads(k) \/ Ends(k)
    PROVE  IInv'
<1>0. /\ UNCHANGED <<heap, lock, vnode, kernelContext, handle, pc, about, locals>>
      /\ kthread' \in [Kthreads -> [state : {"none", "started", "runs", "ended"}, context : Id]]
      /\ \A t \in Kthreads : /\ kthread'[t].context = kthread[t].context
                             /\ kthread[t].state # "none" => kthread'[t].state # "none"
  BY StateMoves DEF Reads, Ends
<1>1. handle' \in [Handles -> [thread : Kthreads \cup {Null}, context : Id]]
        /\ \A q \in Handles : handle'[q].context = handle[q].context
  BY <1>0 DEF IInv, TypeOK
<1>2. /\ TypeOK' /\ PointersFit' /\ PointersDiffer' /\ ObjectsOwned' /\ LinksDiffer'
      /\ KernelKnown'
      /\ \A n \in 1..4 : Local(n)' = Local(n)
  BY <1>0, <1>1, KthreadStepKeeps DEF ThreadOnly
<1>3. (pc \in Labels)' /\ LocalsFit' /\ LocksWhole'
  BY <1>0, <1>2 DEF IInv, LocalsFit, LocksWhole
<1>4. AboutFits'
  BY <1>0 DEF IInv, AboutFits
<1>5. ContextsKept'
  <2>1. \A q \in Handles : handle[q].thread # Null =>
            handle[q].thread \in Kthreads /\ GivenContext(q)' = GivenContext(q)
    BY <1>0, HeapFacts DEF GivenContext
  <2>2. pc = "moveContext" => about[1] \in Handles /\ about[2] \in Handles
    BY DEF IInv, AboutFits
  <2>3. pc = "moveContext" /\ handle[about[1]].thread # Null =>
            GivenContext(about[1])' = GivenContext(about[1])
    BY <1>0, <2>1, <2>2 DEF GivenContext
  <2>4. (\A q \in Handles : handle[q].thread # Null => kthread[handle[q].thread].state # "none")'
    BY <1>0, <2>1 DEF IInv, ContextsKept
  <2>5. (\A q \in Handles :
           handle[q].thread # Null /\ ~(pc \in {"moveContext", "terminate"} /\ q = about[1]) =>
               handle[q].context # Null /\ handle[q].context = GivenContext(q))'
    BY <1>0, <2>1 DEF IInv, ContextsKept
  <2>6. (pc = "moveContext" /\ handle[about[1]].thread # Null =>
           /\ handle[about[2]].context # Null
           /\ handle[about[2]].context = GivenContext(about[1]))'
    BY <1>0, <2>2, <2>3 DEF IInv, ContextsKept
  <2> QED
    BY <1>0, <2>4, <2>5, <2>6 DEF IInv, ContextsKept
<1> QED
  BY <1>2, <1>3, <1>4, <1>5 DEF IInv

\* A move passes on the thread first.
LEMMA MoveThreadKeeps ==
    ASSUME IInv, NEW o \in Handles, NEW p \in Handles, MoveThread(o, p)
    PROVE  IInv'
<1>0. /\ pc = "idle" /\ o # p /\ pc' = "moveContext" /\ about' = <<o, p>>
      /\ about'[1] = o /\ about'[2] = p
      /\ Terminate(handle[o].thread)
      /\ handle' = [handle EXCEPT ![o].thread = handle[p].thread, ![p].thread = Null]
      /\ ThreadOnly
  BY DEF MoveThread, Goto, ThreadOnly
<1>1. handle \in [Handles -> [thread : Kthreads \cup {Null}, context : Id]]
  BY DEF IInv, TypeOK
<1>2. PICK k \in Kthreads \cup {Null}, t \in Kthreads \cup {Null} :
          k = handle[o].thread /\ t = handle[p].thread
  BY <1>1
<1>3. /\ kthread' \in [Kthreads -> [state : {"none", "started", "runs", "ended"}, context : Id]]
      /\ \A s \in Kthreads : /\ kthread'[s].context = kthread[s].context
                             /\ kthread[s].state # "none" => kthread'[s].state # "none"
  BY <1>0, <1>2, TerminateFacts
<1>4. /\ handle' \in [Handles -> [thread : Kthreads \cup {Null}, context : Id]]
      /\ handle'[o].thread = t /\ handle'[p].thread = Null
      /\ \A q \in Handles : /\ handle'[q].context = handle[q].context
                            /\ q # o /\ q # p => handle'[q].thread = handle[q].thread
  BY <1>0, <1>1, <1>2
<1>5. /\ TypeOK' /\ PointersFit' /\ PointersDiffer' /\ ObjectsOwned' /\ LinksDiffer'
      /\ KernelKnown'
      /\ \A n \in 1..4 : Local(n)' = Local(n)
  BY <1>0, <1>3, <1>4, KthreadStepKeeps
<1>6. (pc \in Labels)'
  BY <1>0 DEF Labels
<1>7. LocalsFit'
  <2>1. locals' = <<>> /\ \A n \in 1..4 : Local(n)' = Null
    BY <1>0, <1>5, NoLocals DEF Holding, ThreadOnly
  <2> QED
    BY <1>0, <2>1 DEF LocalsFit, Holding
<1>8. AboutFits'
  BY <1>0, <1>4 DEF AboutFits, LockMaking
<1>9. LocksWhole'
  BY <1>0 DEF IInv, LocksWhole, ThreadOnly
<1>10. ContextsKept'
  <2>1. \A q \in Handles : handle[q].thread # Null =>
            /\ handle[q].thread \in Kthreads /\ kthread[handle[q].thread].state # "none"
            /\ handle[q].context # Null
            /\ handle[q].context = kthread[handle[q].thread].context
    BY <1>0, HeapFacts DEF IInv, ContextsKept, GivenContext
  <2>2. t # Null => /\ t \in Kthreads /\ kthread'[t].state # "none"
                    /\ handle'[p].context # Null /\ handle'[p].context = kthread'[t].context
    BY <1>2, <1>3, <1>4, <2>1
  <2>3. ASSUME NEW q \in Handles, handle'[q].thread # Null
        PROVE  /\ kthread'[handle'[q].thread].state # "none"
               /\ q # o => /\ handle'[q].context # Null
                           /\ handle'[q].context = kthread'[handle'[q].thread].context
    <3>1. CASE q = o
      BY <1>4, <2>2, <2>3, <3>1
    <3>2. CASE q # o
      BY <1>3, <1>4, <2>1, <2>3, <3>2
    <3> QED
      BY <3>1, <3>2
  <2> QED
    BY <1>0, <1>4, <2>2, <2>3 DEF ContextsKept, GivenContext
<1> QED
  BY <1>5, <1>6, <1>7, <1>8, <1>9, <1>10 DEF IInv

\* The destructor's second half, after the context was freed.
LEMMA DestroyThreadKeeps ==
    ASSUME IInv, DestroyThread
    PROVE  IInv'
<1>1. PICK o \in Handles : o = about[1]
  BY DEF DestroyThread, IInv, AboutFits
<1>0. /\ pc = "terminate" /\ pc' = "idle" /\ about' = <<>>
      /\ Terminate(handle[o].thread)
      /\ handle' = [handle EXCEPT ![o] = NoThread]
      /\ ThreadOnly
  BY <1>1 DEF DestroyThread, Goto, ThreadOnly
<1>2. handle \in [Handles -> [thread : Kthreads \cup {Null}, context : Id]]
        /\ NoThread \in [thread : Kthreads \cup {Null}, context : Id]
        /\ NoThread.thread = Null /\ NoThread.context = Null
  BY DEF IInv, TypeOK, NoThread, Id
<1>3. PICK k \in Kthreads \cup {Null} : k = handle[o].thread
  BY <1>2
<1>4. /\ kthread' \in [Kthreads -> [state : {"none", "started", "runs", "ended"}, context : Id]]
      /\ \A s \in Kthreads : /\ kthread'[s].context = kthread[s].context
                             /\ kthread[s].state # "none" => kthread'[s].state # "none"
  BY <1>0, <1>3, TerminateFacts
<1>5. handle[o].context = Null
  BY <1>0, <1>1 DEF IInv, ContextsKept
<1>6. /\ handle' \in [Handles -> [thread : Kthreads \cup {Null}, context : Id]]
      /\ handle'[o].thread = Null
      /\ \A q \in Handles : /\ handle'[q].context = handle[q].context
                            /\ q # o => handle'[q] = handle[q]
  BY <1>0, <1>2, <1>5
<1>7. /\ TypeOK' /\ PointersFit' /\ PointersDiffer' /\ ObjectsOwned' /\ LinksDiffer'
      /\ KernelKnown'
      /\ \A n \in 1..4 : Local(n)' = Local(n)
  BY <1>0, <1>4, <1>6, KthreadStepKeeps
<1>8. (pc \in Labels)'
  BY <1>0 DEF Labels
<1>9. LocalsFit'
  <2>1. locals' = <<>> /\ \A n \in 1..4 : Local(n)' = Null
    BY <1>0, <1>7, NoLocals DEF Holding, ThreadOnly
  <2> QED
    BY <1>0, <2>1 DEF LocalsFit, Holding
<1>10. AboutFits'
  BY <1>0 DEF AboutFits, LockMaking
<1>11. LocksWhole'
  BY <1>0 DEF IInv, LocksWhole, ThreadOnly
<1>12. ContextsKept'
  <2>1. \A q \in Handles : q # o /\ handle[q].thread # Null =>
            /\ handle[q].thread \in Kthreads /\ kthread[handle[q].thread].state # "none"
            /\ handle[q].context # Null
            /\ handle[q].context = kthread[handle[q].thread].context
    BY <1>0, <1>1, HeapFacts DEF IInv, ContextsKept, GivenContext
  <2>2. ASSUME NEW q \in Handles, handle'[q].thread # Null
        PROVE  /\ kthread'[handle'[q].thread].state # "none"
               /\ handle'[q].context # Null
               /\ handle'[q].context = kthread'[handle'[q].thread].context
    BY <1>4, <1>6, <2>1, <2>2
  <2> QED
    BY <1>0, <2>2 DEF ContextsKept, GivenContext
<1> QED
  BY <1>7, <1>8, <1>9, <1>10, <1>11, <1>12 DEF IInv

\* A context is freed that only the Thread o had.
LEMMA ContextFreedKeeps ==
    ASSUME IInv, NEW x \in Id, x # Null => heap[x].kind = "context",
           heap' = Freed(heap, x), pc \notin Holding,
           UNCHANGED <<lock, vnode, kernelContext, kthread, locals>>,
           handle' \in [Handles -> [thread : Kthreads \cup {Null}, context : Id]],
           \A j \in Ids : j # x => (OwnsContext(j)' <=> OwnsContext(j)),
           \A q \in Handles : handle'[q].context # Null =>
               /\ handle'[q].context # x
               /\ \E r \in Handles : handle'[q].context = handle[r].context,
           \A q, r \in Handles :
               q # r /\ handle'[q].context # Null => handle'[q].context # handle'[r].context
    PROVE  /\ TypeOK' /\ PointersFit' /\ PointersDiffer' /\ ObjectsOwned' /\ LinksDiffer'
           /\ KernelKnown'
           /\ locals' = <<>> /\ \A n \in 1..4 : Local(n)' = Null
<1>1. locals = <<>> /\ \A n \in 1..4 : Local(n)' = Local(n) /\ Local(n) = Null
  BY NoLocals DEF Local
<1>2. \A o \in Locks : /\ lock[o].group # Null => lock[o].group # x
                       /\ lock[o].rw # Null => lock[o].rw # x
  BY DEF IInv, PointersFit
<1>3. \A o \in Vnodes : vnode[o].vnode # Null => vnode[o].vnode # x
  BY DEF IInv, PointersFit
<1>4. OwnersBut(x)
  BY <1>1 DEF OwnersBut, OwnsGroup, OwnsLock, OwnsVnode
<1>5. x # Null => ~OwnsGroup(x)'
  BY <1>1, <1>2 DEF OwnsGroup
<1>6. ObjectsOwned' /\ LinksDiffer' /\ HeapKept(x)
  BY <1>4, <1>5, FreedKeeps
<1>7. StillFit(x)
  BY <1>6, KeptFits
<1>8. TypeOK'
  BY <1>6 DEF IInv, TypeOK, HeapKept, Objects
<1>9. PointersFit'
  <2>1. ASSUME NEW o \in Locks
        PROVE  /\ lock[o].group # Null => heap'[lock[o].group].kind = "group"
               /\ lock[o].rw # Null =>
                    /\ heap'[lock[o].rw].kind = "lock" /\ heap'[lock[o].rw].link = lock[o].rwGroup
                    /\ lock[o].rwGroup # Null /\ heap'[lock[o].rwGroup].kind = "group"
               /\ lock[o].rw = Null => lock[o].rwGroup = Null
    BY <1>2, <1>7 DEF StillFit, IInv, PointersFit
  <2>2. ASSUME NEW q \in Handles, handle'[q].context # Null
        PROVE  heap'[handle'[q].context].kind = "context"
    <3>1. PICK r \in Handles : handle'[q].context = handle[r].context
      BY <2>2
    <3>2. handle[r].context # Null /\ handle[r].context # x
      BY <2>2, <3>1
    <3> QED
      BY <1>7, <3>1, <3>2 DEF StillFit
  <2>3. \A o \in Vnodes : vnode[o].vnode # Null => heap'[vnode[o].vnode].kind = "vnode"
    BY <1>3, <1>7 DEF StillFit
  <2> QED
    BY <2>1, <2>2, <2>3 DEF PointersFit
<1>10. PointersDiffer'
  BY <1>1 DEF IInv, PointersDiffer
<1>11. KernelKnown'
  BY DEF IInv, KernelKnown
<1> QED
  BY <1>1, <1>6, <1>8, <1>9, <1>10, <1>11

\* A move passes on the context after the thread.
LEMMA MoveContextKeeps ==
    ASSUME IInv, MoveContext
    PROVE  IInv'
<1>1. PICK o \in Handles, p \in Handles : o = about[1] /\ p = about[2] /\ o # p
  BY DEF MoveContext, IInv, AboutFits
<1>0. /\ pc = "moveContext" /\ pc' = "idle" /\ about' = <<>>
      /\ heap' = Freed(heap, handle[o].context)
      /\ handle' = [handle EXCEPT ![o].context = handle[p].context, ![p] = NoThread]
      /\ UNCHANGED <<lock, vnode, kernelContext, kthread, locals>>
  BY <1>1 DEF MoveContext, Goto
<1>2. handle \in [Handles -> [thread : Kthreads \cup {Null}, context : Id]]
        /\ NoThread \in [thread : Kthreads \cup {Null}, context : Id]
        /\ NoThread.thread = Null /\ NoThread.context = Null
  BY DEF IInv, TypeOK, NoThread, Id
<1>3. PICK x \in Id, c \in Id : x = handle[o].context /\ c = handle[p].context
  BY <1>2
<1>4. /\ handle' \in [Handles -> [thread : Kthreads \cup {Null}, context : Id]]
      /\ handle'[o].context = c /\ handle'[o].thread = handle[o].thread
      /\ handle'[p].context = Null /\ handle'[p].thread = Null
      /\ \A q \in Handles : q # o /\ q # p => handle'[q] = handle[q]
  BY <1>0, <1>1, <1>2, <1>3
<1>5. x # Null => heap[x].kind = "context" /\ \A q \in Handles : q # o => handle[q].context # x
  BY <1>3 DEF IInv, PointersFit, PointersDiffer
<1>6. pc \notin Holding /\ \A n \in 1..4 : Local(n)' = Local(n)
  BY <1>0 DEF Holding, Local
<1>7. ASSUME NEW j \in Ids, j # x PROVE OwnsContext(j)' <=> OwnsContext(j)
  <2>1. j # Null
    BY NullIsNoId
  <2>2. ASSUME NEW q \in Handles, handle[q].context = j
        PROVE  \E r \in Handles : handle'[r].context = j
    BY <1>1, <1>3, <1>4, <1>7, <2>2
  <2>3. ASSUME NEW q \in Handles, handle'[q].context = j
        PROVE  \E r \in Handles : handle[r].context = j
    BY <1>3, <1>4, <2>1, <2>3
  <2> QED
    BY <1>6, <2>2, <2>3 DEF OwnsContext
<1>8. \A q \in Handles : handle'[q].context # Null =>
               /\ handle'[q].context # x
               /\ \E r \in Handles : handle'[q].context = handle[r].context
  BY <1>1, <1>3, <1>4, <1>5
<1>9. \A q, r \in Handles :
          q # r /\ handle'[q].context # Null => handle'[q].context # handle'[r].context
  <2>1. \A q \in Handles : q # p /\ c # Null => handle[q].context # c
    BY <1>3 DEF IInv, PointersDiffer
  <2> QED
    BY <1>4, <2>1 DEF IInv, PointersDiffer
<1>10. (x # Null => heap[x].kind = "context") /\ heap' = Freed(heap, x)
  BY <1>0, <1>3, <1>5
<1>11. /\ TypeOK' /\ PointersFit' /\ PointersDiffer' /\ ObjectsOwned' /\ LinksDiffer'
       /\ KernelKnown'
       /\ locals' = <<>> /\ \A n \in 1..4 : Local(n)' = Null
  BY <1>0, <1>4, <1>6, <1>7, <1>8, <1>9, <1>10, ContextFreedKeeps
<1>12. (pc \in Labels)'
  BY <1>0 DEF Labels
<1>13. LocalsFit'
  BY <1>0, <1>11 DEF LocalsFit, Holding
<1>14. AboutFits'
  BY <1>0 DEF AboutFits, LockMaking
<1>15. LocksWhole'
  BY <1>0 DEF IInv, LocksWhole
<1>16. ContextsKept'
  <2>1. \A q \in Handles : q # o /\ handle[q].thread # Null =>
            /\ handle[q].context # Null
            /\ handle[q].context = kthread[handle[q].thread].context
    BY <1>0, <1>1 DEF IInv, ContextsKept, GivenContext
  <2>2. handle[o].thread # Null => c # Null /\ c = kthread[handle[o].thread].context
    BY <1>0, <1>1, <1>3 DEF IInv, ContextsKept, GivenContext
  <2>3. \A q \in Handles : handle[q].thread # Null => kthread[handle[q].thread].state # "none"
    BY DEF IInv, ContextsKept
  <2>4. ASSUME NEW q \in Handles, handle'[q].thread # Null
        PROVE  /\ kthread'[handle'[q].thread].state # "none"
               /\ handle'[q].context # Null
               /\ handle'[q].context = kthread'[handle'[q].thread].context
    <3>1. CASE q = o
      BY <1>0, <1>4, <2>2, <2>3, <2>4, <3>1
    <3>2. CASE q # o
      <4>1. q # p /\ handle'[q] = handle[q]
        BY <1>4, <2>4, <3>2
      <4> QED
        BY <1>0, <2>1, <2>3, <2>4, <3>2, <4>1
    <3> QED
      BY <3>1, <3>2
  <2> QED
    BY <1>0, <2>4 DEF ContextsKept, GivenContext
<1> QED
  BY <1>11, <1>12, <1>13, <1>14, <1>15, <1>16 DEF IInv

\* The destructor's first half.
LEMMA DestroyContextKeeps ==
    ASSUME IInv, NEW o \in Handles, DestroyContext(o)
    PROVE  IInv'
<1>0. /\ pc = "idle" /\ pc' = "terminate" /\ about' = <<o>> /\ about'[1] = o
      /\ heap' = Freed(heap, handle[o].context)
      /\ handle' = [handle EXCEPT ![o].context = Null]
      /\ UNCHANGED <<lock, vnode, kernelContext, kthread, locals>>
  BY DEF DestroyContext, Goto
<1>2. handle \in [Handles -> [thread : Kthreads \cup {Null}, context : Id]] /\ Null \in Id
  BY DEF IInv, TypeOK, Id
<1>3. PICK x \in Id : x = handle[o].context
  BY <1>2
<1>4. /\ handle' \in [Handles -> [thread : Kthreads \cup {Null}, context : Id]]
      /\ handle'[o].context = Null
      /\ \A q \in Handles : /\ handle'[q].thread = handle[q].thread
                            /\ q # o => handle'[q] = handle[q]
  BY <1>0, <1>2
<1>5. x # Null => heap[x].kind = "context" /\ \A q \in Handles : q # o => handle[q].context # x
  BY <1>3 DEF IInv, PointersFit, PointersDiffer
<1>6. pc \notin Holding /\ \A n \in 1..4 : Local(n)' = Local(n)
  BY <1>0 DEF Holding, Local
<1>7. \A j \in Ids : j # x => (OwnsContext(j)' <=> OwnsContext(j))
  BY <1>3, <1>4, <1>6, NullIsNoId DEF OwnsContext
<1>8. \A q \in Handles : handle'[q].context # Null =>
               /\ handle'[q].context # x
               /\ \E r \in Handles : handle'[q].context = handle[r].context
  BY <1>4, <1>5
<1>9. \A q, r \in Handles :
          q # r /\ handle'[q].context # Null => handle'[q].context # handle'[r].context
  BY <1>4 DEF IInv, PointersDiffer
<1>10. (x # Null => heap[x].kind = "context") /\ heap' = Freed(heap, x)
  BY <1>0, <1>3, <1>5
<1>11. /\ TypeOK' /\ PointersFit' /\ PointersDiffer' /\ ObjectsOwned' /\ LinksDiffer'
       /\ KernelKnown'
       /\ locals' = <<>> /\ \A n \in 1..4 : Local(n)' = Null
  BY <1>0, <1>4, <1>6, <1>7, <1>8, <1>9, <1>10, ContextFreedKeeps
<1>12. (pc \in Labels)'
  BY <1>0 DEF Labels
<1>13. LocalsFit'
  BY <1>0, <1>11 DEF LocalsFit, Holding
<1>14. AboutFits'
  BY <1>0 DEF AboutFits, LockMaking
<1>15. LocksWhole'
  BY <1>0 DEF IInv, LocksWhole
<1>16. ContextsKept'
  <2>1. \A q \in Handles : handle[q].thread # Null =>
            /\ kthread[handle[q].thread].state # "none"
            /\ handle[q].context # Null
            /\ handle[q].context = kthread[handle[q].thread].context
    BY <1>0 DEF IInv, ContextsKept, GivenContext
  <2>2. ASSUME NEW q \in Handles, handle'[q].thread # Null
        PROVE  /\ kthread'[handle'[q].thread].state # "none"
               /\ q # o => /\ handle'[q].context # Null
                           /\ handle'[q].context = kthread'[handle'[q].thread].context
    BY <1>0, <1>4, <2>1, <2>2
  <2> QED
    BY <1>0, <1>4, <2>2 DEF ContextsKept, GivenContext
<1> QED
  BY <1>11, <1>12, <1>13, <1>14, <1>15, <1>16 DEF IInv

-----------------------------------------------------------------------------
(* Every step keeps the invariant.                                          *)

LEMMA StutterKeeps ==
    ASSUME IInv, UNCHANGED vars
    PROVE  IInv'
<1> USE DEF vars
<1>1. PointersFit' /\ PointersDiffer' /\ ObjectsOwned' /\ LinksDiffer' /\ KernelKnown'
        /\ \A n \in 1..4 : Local(n)' = Local(n)
  BY PointersStay
<1>2. TypeOK'
  BY DEF IInv, TypeOK
<1>3. (pc \in Labels)' /\ LocalsFit'
  BY <1>1 DEF IInv, LocalsFit
<1>4. AboutFits' /\ LocksWhole'
  BY DEF IInv, AboutFits, LocksWhole
<1>5. ContextsKept'
  BY DEF IInv, ContextsKept, GivenContext
<1> QED
  BY <1>1, <1>2, <1>3, <1>4, <1>5 DEF IInv

LEMMA NextKeeps ==
    ASSUME IInv, [Next]_vars
    PROVE  IInv'
<1>1. CASE MakeNext
  <2>1. CASE AllocGroupAttr \/ AllocGroup \/ AllocLockAttr \/ AllocContext
    BY <2>1, MakeStepKeeps
  <2>2. CASE AllocLock
    BY <2>2, AllocLockKeeps
  <2>3. CASE ReturnLock
    BY <2>3, ReturnLockKeeps
  <2>4. CASE \E k \in Kthreads : Start(k)
    BY <2>4, StartKeeps
  <2>5. CASE Wrap
    BY <2>5, WrapKeeps
  <2>6. CASE MakeFails
    BY <2>6, MakeFailsKeeps
  <2>7. CASE Unwind
    BY <2>7, UnwindKeeps
  <2>8. CASE Returned
    BY <2>8, ReturnedKeeps
  <2> QED
    BY <1>1, <2>1, <2>2, <2>3, <2>4, <2>5, <2>6, <2>7, <2>8 DEF MakeNext
<1>2. CASE LockNext
  <2>1. CASE \E o \in Locks : MakeLock(o)
    BY <2>1, MakeLockKeeps
  <2>2. CASE \E o \in Locks : DestroyLock(o)
    BY <2>2, DestroyLockKeeps
  <2>3. CASE \E o, p \in Locks : MoveLock(o, p)
    BY <2>3, MoveLockKeeps
  <2>4. CASE \E o, p \in Locks : AssignGroup(o, p)
    BY <2>4, AssignGroupKeeps
  <2>5. CASE AssignLock
    BY <2>5, AssignLockKeeps
  <2>6. CASE DestroyGroup
    BY <2>6, DestroyGroupKeeps
  <2> QED
    BY <1>2, <2>1, <2>2, <2>3, <2>4, <2>5, <2>6 DEF LockNext
<1>3. CASE VnodeNext
  <2>1. CASE \E o \in Vnodes : Open(o)
    BY <2>1, OpenKeeps
  <2>2. CASE \E o \in Vnodes : Close(o)
    BY <2>2, CloseKeeps
  <2>3. CASE OpenFails
    BY <2>3, OpenFailsKeeps
  <2>4. CASE \E o, p \in Vnodes : MoveVnode(o, p)
    BY <2>4, MoveVnodeKeeps
  <2> QED
    BY <1>3, <2>1, <2>2, <2>3, <2>4 DEF VnodeNext
<1>4. CASE ThreadNext
  <2>1. CASE \E o \in Handles : MakeThread(o)
    BY <2>1, MakeThreadKeeps
  <2>2. CASE \E o \in Handles : DestroyContext(o)
    BY <2>2, DestroyContextKeeps
  <2>3. CASE \E o, p \in Handles : MoveThread(o, p)
    BY <2>3, MoveThreadKeeps
  <2>4. CASE MoveContext
    BY <2>4, MoveContextKeeps
  <2>5. CASE DestroyThread
    BY <2>5, DestroyThreadKeeps
  <2>6. CASE \E k \in Kthreads : Reads(k) \/ Ends(k)
    BY <2>6, KthreadKeeps
  <2> QED
    BY <1>4, <2>1, <2>2, <2>3, <2>4, <2>5, <2>6 DEF ThreadNext
<1>5. CASE UNCHANGED vars
  BY <1>5, StutterKeeps
<1> QED
  BY <1>1, <1>2, <1>3, <1>4, <1>5 DEF Next

\* The inductive invariant holds throughout: types, what a call under way holds,
\* one pointer of its kind to every object, groups counted by their owner and
\* their one lock, contexts passed on with their threads.
THEOREM Invariant == Spec => []IInv
<1>1. Init => IInv
  BY InitEstablishes
<1>2. IInv /\ [Next]_vars => IInv'
  BY NextKeeps
<1> QED
  BY <1>1, <1>2, PTL DEF Spec

-----------------------------------------------------------------------------
(* From pointers to the number of owners.                                   *)

\* A set with no two elements.
LEMMA AtMostOne ==
    ASSUME NEW S, \A a, b \in S : a = b
    PROVE  /\ S = {} => Cardinality(S) = 0
           /\ S # {} => Cardinality(S) = 1
<1>1. ASSUME S # {} PROVE Cardinality(S) = 1
  <2>1. PICK a : a \in S
    BY <1>1
  <2>2. S = {a}
    BY <2>1
  <2> QED
    BY <2>2, FS_Singleton
<1> QED
  BY <1>1, FS_EmptySet

\* No two pointers of a kind are to the same object, so their number is 0 or 1.
LEMMA PointersCounted ==
    ASSUME IInv, NEW i \in Ids
    PROVE  /\ Cardinality({o \in Locks : lock[o].group = i}) =
                  IF \E o \in Locks : lock[o].group = i THEN 1 ELSE 0
           /\ Cardinality({o \in Locks : lock[o].rw = i}) =
                  IF \E o \in Locks : lock[o].rw = i THEN 1 ELSE 0
           /\ Cardinality({o \in Vnodes : vnode[o].vnode = i}) =
                  IF OwnsVnode(i) THEN 1 ELSE 0
           /\ Cardinality({o \in Handles : handle[o].context = i}) =
                  IF \E o \in Handles : handle[o].context = i THEN 1 ELSE 0
           /\ Cardinality({n \in DOMAIN locals : locals[n] = i}) =
                  IF \E n \in 1..4 : Local(n) = i THEN 1 ELSE 0
<1>0. i # Null
  BY NullIsNoId
<1>1. \A a, b \in {o \in Locks : lock[o].group = i} : a = b
  BY <1>0 DEF IInv, PointersDiffer
<1>2. \A a, b \in {o \in Locks : lock[o].rw = i} : a = b
  BY <1>0 DEF IInv, PointersDiffer
<1>3. \A a, b \in {o \in Vnodes : vnode[o].vnode = i} : a = b
  BY <1>0 DEF IInv, PointersDiffer
<1>4. \A a, b \in {o \in Handles : handle[o].context = i} : a = b
  BY <1>0 DEF IInv, PointersDiffer
<1>5. {n \in DOMAIN locals : locals[n] = i} = {n \in 1..4 : Local(n) = i}
  <2>1. locals \in Seq(Id) /\ Len(locals) <= 4
    BY HeapFacts DEF IInv, LocalsFit
  <2>2. Len(locals) \in Nat /\ DOMAIN locals = 1..Len(locals)
    BY <2>1, LenProperties
  <2>3. \A n \in 1..4 : n \in 1..Len(locals) /\ locals[n] = i <=> Local(n) = i
    BY <1>0, <2>2 DEF Local
  <2>4. 1..Len(locals) \subseteq 1..4
    BY <2>1, <2>2
  <2> QED
    BY <2>2, <2>3, <2>4
<1>6. \A a, b \in {n \in 1..4 : Local(n) = i} : a = b
  <2>1. \A a, b \in 1..4 : Local(a) = i /\ Local(b) = i => a = b
    BY <1>0 DEF IInv, LocalsFit
  <2> QED
    BY <2>1
<1>7. Cardinality({o \in Locks : lock[o].group = i}) =
          IF \E o \in Locks : lock[o].group = i THEN 1 ELSE 0
  BY <1>1, AtMostOne
<1>8. Cardinality({o \in Locks : lock[o].rw = i}) =
          IF \E o \in Locks : lock[o].rw = i THEN 1 ELSE 0
  BY <1>2, AtMostOne
<1>9. Cardinality({o \in Vnodes : vnode[o].vnode = i}) = IF OwnsVnode(i) THEN 1 ELSE 0
  BY <1>3, AtMostOne DEF OwnsVnode
<1>10. Cardinality({o \in Handles : handle[o].context = i}) =
           IF \E o \in Handles : handle[o].context = i THEN 1 ELSE 0
  BY <1>4, AtMostOne
<1>11. Cardinality({n \in 1..4 : Local(n) = i}) = IF \E n \in 1..4 : Local(n) = i THEN 1 ELSE 0
  BY <1>6, AtMostOne
<1> QED
  BY <1>5, <1>7, <1>8, <1>9, <1>10, <1>11

\* The pointers to an object are those that may be to its kind.
LEMMA OwnersOfKinds ==
    ASSUME IInv, NEW i \in Ids
    PROVE  /\ heap[i].kind = "none" => Owners(i) = 0
           /\ heap[i].kind = "group" => Owners(i) = IF OwnsGroup(i) THEN 1 ELSE 0
           /\ heap[i].kind \notin {"none", "group"} => Owners(i) = 1
<1> DEFINE A == \E o \in Locks : lock[o].group = i
           B == \E o \in Locks : lock[o].rw = i
           C == OwnsVnode(i)
           D == \E o \in Handles : handle[o].context = i
           E == \E n \in 1..4 : Local(n) = i
           One(b) == IF b THEN 1 ELSE 0
<1>1. Owners(i) = One(A) + One(B) + One(C) + One(D) + One(E)
  BY PointersCounted DEF Owners
<1>0. i # Null
  BY NullIsNoId
<1>2. A => heap[i].kind = "group"
  BY <1>0 DEF IInv, PointersFit
<1>3. B => heap[i].kind = "lock"
  BY <1>0 DEF IInv, PointersFit
<1>4. C => heap[i].kind = "vnode"
  BY <1>0 DEF IInv, PointersFit, OwnsVnode
<1>5. D => heap[i].kind = "context"
  BY <1>0 DEF IInv, PointersFit
<1>6. /\ Local(1) = i => heap[i].kind \in {"groupAttr", "context"} /\ ~D
      /\ Local(2) = i => heap[i].kind = "group" /\ ~A
      /\ Local(3) = i => heap[i].kind = "lockAttr"
      /\ Local(4) = i => heap[i].kind = "lock" /\ ~B
  BY <1>0 DEF IInv, LocalsFit, PointersDiffer
<1>7. E => Local(1) = i \/ Local(2) = i \/ Local(3) = i \/ Local(4) = i
  <2>1. \A n \in 1..4 : n = 1 \/ n = 2 \/ n = 3 \/ n = 4
    OBVIOUS
  <2> QED
    BY <2>1
<1>8. Local(1) = i \/ Local(2) = i \/ Local(3) = i \/ Local(4) = i => E
  OBVIOUS
<1>9. heap[i].kind \in Kinds \cup {"none"}
  BY DEF IInv, TypeOK
<1>10. /\ heap[i].kind = "groupAttr" => Local(1) = i
       /\ heap[i].kind = "lockAttr" => Local(3) = i
       /\ heap[i].kind = "lock" => Local(4) = i \/ B
       /\ heap[i].kind = "vnode" => C
       /\ heap[i].kind = "context" => Local(1) = i \/ D
  BY DEF IInv, ObjectsOwned, OwnsLock, OwnsContext
<1>11. OwnsGroup(i) <=> Local(2) = i \/ A
  BY DEF OwnsGroup
<1> HIDE DEF A, B, C, D, E
<1>12. CASE heap[i].kind = "none"
  <2>1. ~A /\ ~B /\ ~C /\ ~D /\ ~E
    BY <1>2, <1>3, <1>4, <1>5, <1>6, <1>7, <1>12
  <2> QED
    BY <1>1, <1>12, <2>1
<1>13. CASE heap[i].kind = "group"
  <2>1. ~B /\ ~C /\ ~D /\ ~(A /\ E) /\ (OwnsGroup(i) <=> A \/ E)
    BY <1>3, <1>4, <1>5, <1>6, <1>7, <1>8, <1>11, <1>13
  <2> QED
    BY <1>1, <1>13, <2>1
<1>14. CASE heap[i].kind = "lock"
  <2>1. ~A /\ ~C /\ ~D /\ ~(B /\ E) /\ (B \/ E)
    BY <1>2, <1>4, <1>5, <1>6, <1>7, <1>8, <1>10, <1>14
  <2> QED
    BY <1>1, <1>14, <2>1
<1>15. CASE heap[i].kind = "vnode"
  <2>1. ~A /\ ~B /\ C /\ ~D /\ ~E
    BY <1>2, <1>3, <1>5, <1>6, <1>7, <1>10, <1>15
  <2> QED
    BY <1>1, <1>15, <2>1
<1>16. CASE heap[i].kind = "context"
  <2>1. ~A /\ ~B /\ ~C /\ ~(D /\ E) /\ (D \/ E)
    BY <1>2, <1>3, <1>4, <1>6, <1>7, <1>8, <1>10, <1>16
  <2> QED
    BY <1>1, <1>16, <2>1
<1>17. CASE heap[i].kind \in {"groupAttr", "lockAttr"}
  <2>1. ~A /\ ~B /\ ~C /\ ~D /\ E
    BY <1>2, <1>3, <1>4, <1>5, <1>8, <1>10, <1>17
  <2> QED
    BY <1>1, <1>17, <2>1
<1> QED
  BY <1>9, <1>12, <1>13, <1>14, <1>15, <1>16, <1>17 DEF Kinds

\* Only an assignment leaves a group without an owner, until it frees its lock.
LEMMA GroupsOwned ==
    ASSUME IInv, NEW i \in Ids, heap[i].kind = "group", pc # "assign"
    PROVE  OwnsGroup(i)
<1>1. CASE Linked(i)
  <2>1. PICK j \in Ids : heap[j].kind = "lock" /\ heap[j].link = i
    BY <1>1 DEF Linked
  <2>2. CASE \E o \in Locks : lock[o].rw = j /\ lock[o].rwGroup = i
    <3>1. PICK o \in Locks : lock[o].rw = j /\ lock[o].rwGroup = i
      BY <2>2
    <3>2. lock[o].group = i
      BY <3>1, NullIsNoId DEF IInv, LocksWhole
    <3> QED
      BY <3>2 DEF OwnsGroup
  <2>3. CASE Local(2) = i
    BY <2>3 DEF OwnsGroup
  <2> QED
    BY <2>1, <2>2, <2>3, LinkIsGroup
<1>2. CASE ~Linked(i)
  BY <1>2 DEF IInv, ObjectsOwned
<1> QED
  BY <1>1, <1>2

LEMMA OwnedOnce == IInv => OneOwner
<1> SUFFICES ASSUME IInv PROVE OneOwner
  OBVIOUS
<1>1. ASSUME NEW i \in Ids
      PROVE  Owners(i) = IF heap[i] = Nothing THEN 0
                         ELSE IF heap[i].kind = "group" /\ pc = "assign" /\ Owners(i) = 0 THEN 0
                         ELSE 1
  <2>1. heap[i] = Nothing <=> heap[i].kind = "none"
    BY NothingIsObject DEF IInv, ObjectsOwned
  <2>2. CASE heap[i].kind = "none"
    BY <2>1, <2>2, OwnersOfKinds
  <2>3. CASE heap[i].kind = "group"
    <3>1. Owners(i) = IF OwnsGroup(i) THEN 1 ELSE 0
      BY <2>3, OwnersOfKinds
    <3>2. pc # "assign" => OwnsGroup(i)
      BY <2>3, GroupsOwned
    <3> QED
      BY <2>1, <2>3, <3>1, <3>2
  <2>4. CASE heap[i].kind \notin {"none", "group"}
    BY <2>1, <2>4, OwnersOfKinds
  <2> QED
    BY <2>2, <2>3, <2>4
<1> QED
  BY <1>1 DEF OneOwner, IInv

LEMMA GroupsLast == IInv => GroupOutlivesLock
<1> SUFFICES ASSUME IInv PROVE GroupOutlivesLock
  OBVIOUS
<1>1. ASSUME NEW i \in Ids, heap[i].kind = "group"
      PROVE  heap[i].refs = Owners(i) + Cardinality({j \in Ids : heap[j].kind = "lock"
                                                                 /\ heap[j].link = i})
  <2> DEFINE S == {j \in Ids : heap[j].kind = "lock" /\ heap[j].link = i}
  <2>1. \A a, b \in S : a = b
    BY DEF IInv, LinksDiffer
  <2>2. Linked(i) <=> S # {}
    BY DEF Linked
  <2> HIDE DEF S
  <2>3. /\ Linked(i) => Cardinality(S) = 1
        /\ ~Linked(i) => Cardinality(S) = 0
    BY <2>1, <2>2, AtMostOne
  <2>4. Owners(i) = IF OwnsGroup(i) THEN 1 ELSE 0
    BY <1>1, OwnersOfKinds
  <2>5. heap[i].refs = Owners(i) + Cardinality(S)
    BY <1>1, <2>3, <2>4 DEF IInv, ObjectsOwned
  <2> QED
    BY <2>5 DEF S
<1>2. ASSUME NEW o \in Locks, lock[o].rw # Null
      PROVE  /\ heap[lock[o].rw].kind = "lock" /\ heap[lock[o].rw].link = lock[o].rwGroup
             /\ heap[lock[o].rwGroup].kind = "group"
             /\ lock[o].group = lock[o].rwGroup \/ pc = "assign"
  <2>1. /\ heap[lock[o].rw].kind = "lock" /\ heap[lock[o].rw].link = lock[o].rwGroup
        /\ heap[lock[o].rwGroup].kind = "group"
    BY <1>2 DEF IInv, PointersFit
  <2>2. lock[o].group = lock[o].rwGroup \/ pc = "assign"
    BY <1>2 DEF IInv, LocksWhole
  <2> QED
    BY <2>1, <2>2
<1> QED
  BY <1>1, <1>2 DEF GroupOutlivesLock, GroupsAreCounted

LEMMA ContextsThere == IInv => HandleKeepsContext
<1> SUFFICES ASSUME IInv PROVE HandleKeepsContext
  OBVIOUS
<1>1. ASSUME pc \notin {"moveContext", "terminate"}, NEW o \in Handles, handle[o].thread # Null
      PROVE  /\ handle[o].context = kthread[handle[o].thread].context
             /\ heap[handle[o].context].kind = "context"
  BY <1>1 DEF IInv, ContextsKept, GivenContext, PointersFit
<1>2. ASSUME NEW o \in Vnodes, vnode[o].vnode # Null
      PROVE  vnode[o].context = kernelContext
  BY <1>2 DEF IInv, KernelKnown
<1> QED
  BY <1>1, <1>2 DEF HandleKeepsContext

LEMMA ContextFound == IInv => ContextIsTarget
<1> SUFFICES ASSUME IInv PROVE ContextIsTarget
  OBVIOUS
<1>1. kernelContext # Null =>
          (kernelContext = Target(ContextFunction, ContextCode[1], ContextCode[2])
               <=> ContextCode[2].op = "add64" \/ ContextCode[2].imm12 = 0)
  BY KernelIsTarget DEF IInv, KernelKnown
<1> QED
  BY <1>1, AddressesFound DEF ContextIsTarget

-----------------------------------------------------------------------------
\* Whatever step of a make() fails, and through all moves, assignments and
\* destructors, every kernel object has the one owner that will free it.
THEOREM EveryObjectHasOneOwner == Spec => []OneOwner
BY Invariant, OwnedOnce, PTL

\* The kernel counts a group's owner and its lock, and a lock's group is there
\* when the lock is freed, also when an assignment replaced the group first.
THEOREM GroupsOutliveTheirLocks == Spec => []GroupOutlivesLock
BY Invariant, GroupsLast, PTL

\* The context a kernel thread was given is there as long as its Thread is left
\* alone, and an open Vnode has the context to close it with.
THEOREM ContextsAreKept == Spec => []HandleKeepsContext
BY Invariant, ContextsThere, PTL

\* The kernel's context is where its function's code says, whatever the sizes of
\* the instructions' fields, exactly if the add in it is not shifted.
THEOREM KernelContextIsTarget == Spec => []ContextIsTarget
BY Invariant, ContextFound, PTL

=============================================================================
