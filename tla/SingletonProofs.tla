-------------------------- MODULE SingletonProofs --------------------------
(***************************************************************************)
(* Theorems about Singleton: a guard has its object, whatever get() and    *)
(* moves of guards do meanwhile, and nothing is left behind.               *)
(***************************************************************************)
EXTENDS Singleton, SequenceTheorems, FiniteSetTheorems, TLAPS

\* In make() or the guard's destructor.
Owning(t) == InCall(t) /\ op[t] # "get"

\* What the Optional holds, also before there is one.
Cell == IF instance = 0 THEN EmptyOptional ELSE cells[1]
CellIs(has, obj) == Cell.has = has /\ Cell.obj = obj

NoGuards == \A t \in Threads : guards[t] = {}

OneGuard == \A t, u \in Threads : \A g \in guards[t], h \in guards[u] : t = u /\ g = h

\* There is one Optional at most: who finds none is alone until it is there.
StorageInv ==
    /\ instance = 0 =>
         /\ cells = <<>>
         /\ \A t \in Threads : pc[t] \in {"idle", "storage", "allocate"}
         /\ \A t, u \in Threads : InCall(t) /\ InCall(u) => t = u
         /\ \A t \in Threads : InCall(t) => op[t] \in {"make", "get"}
    /\ instance # 0 =>
         /\ instance = 1 /\ Len(cells) = 1
         /\ \A t \in Threads : /\ pc[t] # "allocate"
                               /\ pc[t] \notin {"idle", "storage"} => ptr[t] = 1

\* Where each call may be, and that one thread at a time makes or drops.
CallInv ==
    /\ \A t \in Threads :
         /\ op[t] = "get" => pc[t] \in {"idle", "using", "storage", "allocate", "available", "value"}
         /\ op[t] = "make" => pc[t] \in {"idle", "storage", "allocate", "exists"}
         /\ op[t] = "emplace" => pc[t] \in {"idle", "storage", "reset", "resetting", "place", "placing"}
         /\ op[t] = "drop" => pc[t] \in {"idle", "storage", "reset", "resetting", "dropped"}
         /\ op[t] \in {"make", "emplace"} => mine[t] \in 1..makes
    /\ \A t, u \in Threads : Owning(t) /\ Owning(u) => t = u

\* While nobody makes or drops, the object is that of the guard.
Settled == /\ \A t \in Threads : \A g \in guards[t] : CellIs(TRUE, g)
           /\ NoGuards => CellIs(FALSE, NoObject)

\* What t has made visible of its object, while it places it.
Placed(t) ==
    IF pc[t] = "placing"
      THEN CellIs("has" \notin todo[t], IF "obj" \in todo[t] THEN NoObject ELSE mine[t])
      ELSE CellIs(FALSE, NoObject)

\* What is left of the object whose guard t drops.
Left(t) ==
    IF pc[t] = "dropped" THEN CellIs(FALSE, NoObject)
    ELSE IF pc[t] = "resetting"
      THEN CellIs("has" \in todo[t], IF "obj" \in todo[t] THEN mine[t] ELSE NoObject)
      ELSE CellIs(TRUE, mine[t])

ObjectInv ==
    /\ OneGuard
    /\ instance = 0 => NoGuards
    /\ \A t \in Threads : Owning(t) /\ op[t] = "emplace" =>
           NoGuards /\ Placed(t) /\ pc[t] # "resetting"
    /\ \A t \in Threads : Owning(t) /\ op[t] = "drop" => mine[t] \in guards[t] /\ Left(t)
    /\ (\A t \in Threads : Owning(t) => op[t] = "make") => Settled

IInv == TypeOK /\ StorageInv /\ CallInv /\ ObjectInv

-----------------------------------------------------------------------------
LEMMA InitHolds == Init => IInv
    BY BoundsAreNatural DEF Init, IInv, TypeOK, Labels, StorageInv, CallInv, ObjectInv, OneGuard,
       NoGuards, Owning, InCall, Settled, CellIs, Cell, EmptyOptional, NoObject, Optionals

\* A reference that storage() returned is that of the only Optional.
LEMMA HasReference ==
    ASSUME TypeOK, StorageInv,
           NEW t \in Threads, pc[t] \notin {"idle", "storage", "allocate"}
    PROVE  /\ ptr[t] = 1 /\ instance = 1
           /\ ptr[t] \in 1..Len(cells)
           /\ cells[1] \in Optionals(makes) /\ DOMAIN cells = 1..1
<1>1. instance # 0
  BY DEF StorageInv
<1>2. ptr[t] = 1 /\ instance = 1 /\ Len(cells) = 1
  BY <1>1 DEF StorageInv
<1>3. 1 \in 1..Len(cells)
  BY <1>2
<1>4. cells \in Seq(Optionals(makes))
  BY DEF TypeOK
<1>5. cells[1] \in Optionals(makes)
  BY <1>3, <1>4, ElementOfSeq
<1>6. DOMAIN cells = 1..1
  BY <1>2, <1>4, LenProperties
<1> QED
  BY <1>2, <1>3, <1>5, <1>6

\* What emplace and reset write into an Optional leaves it one.
LEMMA ObjectReplaced ==
    ASSUME NEW n \in Nat, NEW c \in Optionals(n), NEW o \in 0..n
    PROVE  /\ [c EXCEPT !.obj = o] \in Optionals(n)
           /\ [c EXCEPT !.obj = o].obj = o /\ [c EXCEPT !.obj = o].has = c.has
BY DEF Optionals

LEMMA FlagReplaced ==
    ASSUME NEW n \in Nat, NEW c \in Optionals(n), NEW b \in BOOLEAN
    PROVE  /\ [c EXCEPT !.has = b] \in Optionals(n)
           /\ [c EXCEPT !.has = b].has = b /\ [c EXCEPT !.has = b].obj = c.obj
BY DEF Optionals

\* More objects have been made by then: an Optional is still an Optional.
LEMMA OptionalsGrow ==
    ASSUME NEW m \in Nat, NEW n \in Nat, m <= n, NEW s \in Seq(Optionals(m))
    PROVE  s \in Seq(Optionals(n))
<1>1. Optionals(m) \subseteq Optionals(n)
  BY DEF Optionals
<1> QED
  BY <1>1, SeqMonotonic

\* Types, for any number of threads and of makes.
LEMMA TypeStep ==
    ASSUME TypeOK, StorageInv, CallInv, [Next]_vars PROVE TypeOK'
<1>1. ASSUME NEW t \in Threads, ReadInstance(t) PROVE TypeOK'
  BY <1>1 DEF ReadInstance, Goto, AfterStorage, TypeOK, Labels, CallInv
<1>2. ASSUME NEW t \in Threads, SeesNoInstance(t) PROVE TypeOK'
  BY <1>2 DEF SeesNoInstance, Goto, TypeOK, Labels
<1>3. ASSUME NEW t \in Threads, Allocate(t) PROVE TypeOK'
  <2>1. EmptyOptional \in Optionals(makes)
    BY DEF EmptyOptional, NoObject, Optionals, TypeOK
  <2>2. cells' \in Seq(Optionals(makes)) /\ Len(cells') = Len(cells) + 1
    BY <1>3, <2>1, AppendProperties DEF Allocate, TypeOK
  <2>3. Len(cells) \in Nat /\ Len(cells) < MaxCells
    BY <1>3, LenProperties DEF Allocate, TypeOK
  <2> QED
    BY <1>3, <2>2, <2>3, BoundsAreNatural DEF Allocate, Goto, TypeOK, Labels
<1>4. ASSUME NEW t \in Threads, BeginMake(t) PROVE TypeOK'
  <2>1. makes \in Nat /\ makes' = makes + 1 /\ makes' <= MaxMakes
    BY <1>4, BoundsAreNatural DEF BeginMake, TypeOK
  <2>2. cells' \in Seq(Optionals(makes'))
    BY <1>4, <2>1, OptionalsGrow DEF BeginMake, TypeOK
  <2> QED
    BY <1>4, <2>1, <2>2 DEF BeginMake, EntersStorage, Goto, TypeOK, Labels
<1>5. ASSUME NEW t \in Threads, ReturnsEexist(t) PROVE TypeOK'
  BY <1>5 DEF ReturnsEexist, Goto, TypeOK, Labels
<1>6. ASSUME NEW t \in Threads, BeginConstruct(t) PROVE TypeOK'
  BY <1>6 DEF BeginConstruct, EntersStorage, Goto, TypeOK, Labels
<1>7. ASSUME NEW t \in Threads, ConstructFails(t) PROVE TypeOK'
  BY <1>7 DEF ConstructFails, Goto, TypeOK, Labels
<1>8. ASSUME NEW t \in Threads, Place(t) PROVE TypeOK'
  BY <1>8 DEF Place, Goto, TypeOK, Labels
<1>9. ASSUME NEW t \in Threads, MakeReturns(t) PROVE TypeOK'
  BY <1>9 DEF MakeReturns, Goto, TypeOK, Labels, CallInv
<1>10. ASSUME NEW t \in Threads, NothingToReset(t) PROVE TypeOK'
  BY <1>10 DEF NothingToReset, Goto, AfterReset, TypeOK, Labels, CallInv
<1>11. ASSUME NEW t \in Threads, Reset(t) PROVE TypeOK'
  BY <1>11 DEF Reset, Goto, TypeOK, Labels
<1>12. ASSUME NEW t \in Threads, WriteObject(t) PROVE TypeOK'
  <2>1. pc[t] \notin {"idle", "storage", "allocate"}
    BY <1>12 DEF WriteObject
  <2>2. ptr[t] \in 1..Len(cells) /\ cells[ptr[t]] \in Optionals(makes) /\ makes \in Nat
    BY <2>1, HasReference, BoundsAreNatural DEF TypeOK
  <2> DEFINE value == IF pc[t] = "placing" THEN mine[t] ELSE NoObject
             after == [cells[ptr[t]] EXCEPT !.obj = value]
  <2>3. value \in 0..makes
    BY DEF TypeOK, NoObject
  <2>4. cells' = [cells EXCEPT ![ptr[t]] = after]
    BY <1>12 DEF WriteObject
  <2> HIDE DEF value
  <2>5. after \in Optionals(makes)
    BY <2>2, <2>3, ObjectReplaced
  <2> HIDE DEF after
  <2>6. cells' \in Seq(Optionals(makes)) /\ Len(cells') = Len(cells)
    BY <2>2, <2>4, <2>5, ExceptSeq DEF TypeOK
  <2> QED
    BY <1>12, <2>6 DEF WriteObject, TypeOK
<1>13. ASSUME NEW t \in Threads, WriteFlag(t) PROVE TypeOK'
  <2>1. pc[t] \notin {"idle", "storage", "allocate"}
    BY <1>13 DEF WriteFlag
  <2>2. ptr[t] \in 1..Len(cells) /\ cells[ptr[t]] \in Optionals(makes) /\ makes \in Nat
    BY <2>1, HasReference, BoundsAreNatural DEF TypeOK
  <2> DEFINE value == (pc[t] = "placing")
             after == [cells[ptr[t]] EXCEPT !.has = value]
  <2>3. value \in BOOLEAN
    BY DEF TypeOK, NoObject
  <2>4. cells' = [cells EXCEPT ![ptr[t]] = after]
    BY <1>13 DEF WriteFlag
  <2> HIDE DEF value
  <2>5. after \in Optionals(makes)
    BY <2>2, <2>3, FlagReplaced
  <2> HIDE DEF after
  <2>6. cells' \in Seq(Optionals(makes)) /\ Len(cells') = Len(cells)
    BY <2>2, <2>4, <2>5, ExceptSeq DEF TypeOK
  <2> QED
    BY <1>13, <2>6 DEF WriteFlag, TypeOK
<1>14. ASSUME NEW t \in Threads, ResetDone(t) PROVE TypeOK'
  BY <1>14 DEF ResetDone, Goto, AfterReset, TypeOK, Labels, CallInv
<1>15. ASSUME NEW t \in Threads, GuardDropped(t) PROVE TypeOK'
  BY <1>15 DEF GuardDropped, Goto, TypeOK, Labels
<1>16. ASSUME NEW t \in Threads, BeginGet(t) PROVE TypeOK'
  BY <1>16 DEF BeginGet, EntersStorage, Goto, MayCall, InCall, TypeOK, Labels
<1>17. ASSUME NEW t \in Threads, ReturnsEnoent(t) PROVE TypeOK'
  BY <1>17 DEF ReturnsEnoent, Goto, TypeOK, Labels
<1>18. ASSUME NEW t \in Threads, HasInstance(t) PROVE TypeOK'
  BY <1>18 DEF HasInstance, Goto, TypeOK, Labels
<1>19. ASSUME NEW t \in Threads, GetReturns(t) PROVE TypeOK'
  <2>1. cells[ptr[t]] \in Optionals(makes)
    BY <1>19, HasReference DEF GetReturns
  <2>2. cells[ptr[t]].obj \in 0..makes
    BY <2>1 DEF Optionals
  <2> QED
    BY <1>19, <2>2 DEF GetReturns, Goto, Labels, TypeOK
<1>20. ASSUME NEW t \in Threads, StopsUsing(t) PROVE TypeOK'
  BY <1>20 DEF StopsUsing, Goto, TypeOK, Labels
<1>21. ASSUME NEW t \in Threads, NEW g \in guards[t], BeginDrop(t, g) PROVE TypeOK'
  BY <1>21 DEF BeginDrop, EntersStorage, Goto, MayOwn, MayCall, InCall, TypeOK, Labels,
     CallInv
<1>22. ASSUME NEW t \in Threads, NEW g \in guards[t], NEW u \in Threads, MoveGuard(t, u, g)
      PROVE  TypeOK'
  BY <1>22 DEF MoveGuard, MayOwn, MayCall, InCall, TypeOK, Labels, CallInv
<1>23. CASE UNCHANGED vars
  BY <1>23 DEF vars, TypeOK, Labels
<1> QED
  BY <1>1, <1>2, <1>3, <1>4, <1>5, <1>6, <1>7, <1>8, <1>9, <1>10, <1>11, <1>12, <1>13,
     <1>14, <1>15, <1>16, <1>17, <1>18, <1>19, <1>20, <1>21, <1>22, <1>23
     DEF Next, StorageStep, MakeStep, ResetStep, GuardStep, GetStep

\* The first call allocates the only Optional.
LEMMA StorageHolds ==
    ASSUME TypeOK, StorageInv, CallInv, ObjectInv, [Next]_vars PROVE StorageInv'
<1>1. ASSUME NEW t \in Threads, ReadInstance(t) PROVE StorageInv'
  BY <1>1 DEF ReadInstance, Goto, AfterStorage, InCall, StorageInv, CallInv, TypeOK
<1>2. ASSUME NEW t \in Threads, SeesNoInstance(t) PROVE StorageInv'
  BY <1>2 DEF SeesNoInstance, Goto, InCall, StorageInv, CallInv, TypeOK
<1>3. ASSUME NEW t \in Threads, Allocate(t) PROVE StorageInv'
  <2>1. instance = 0 /\ cells = <<>> /\ \A u \in Threads : InCall(u) => u = t
    BY <1>3 DEF Allocate, StorageInv, InCall
  <2>2. instance' = 1 /\ Len(cells') = 1
    BY <1>3, <2>1 DEF Allocate
  <2>3. \A u \in Threads : pc'[u] \in {"idle", "storage"}
    BY <1>3, <2>1 DEF Allocate, StorageInv, InCall, Goto, TypeOK
  <2> QED
    BY <2>2, <2>3 DEF StorageInv
<1>4. ASSUME NEW t \in Threads, BeginMake(t) PROVE StorageInv'
  BY <1>4 DEF BeginMake, EntersStorage, Goto, MayOwn, MayCall, InCall, StorageInv, CallInv,
     TypeOK
<1>5. ASSUME NEW t \in Threads, ReturnsEexist(t) PROVE StorageInv'
  BY <1>5 DEF ReturnsEexist, Goto, InCall, StorageInv, CallInv, TypeOK
<1>6. ASSUME NEW t \in Threads, BeginConstruct(t) PROVE StorageInv'
  BY <1>6 DEF BeginConstruct, EntersStorage, Goto, InCall, StorageInv, CallInv, TypeOK
<1>7. ASSUME NEW t \in Threads, ConstructFails(t) PROVE StorageInv'
  BY <1>7 DEF ConstructFails, Goto, InCall, StorageInv, CallInv, TypeOK
<1>8. ASSUME NEW t \in Threads, Place(t) PROVE StorageInv'
  BY <1>8 DEF Place, Goto, InCall, StorageInv, CallInv, TypeOK
<1>9. ASSUME NEW t \in Threads, MakeReturns(t) PROVE StorageInv'
  BY <1>9 DEF MakeReturns, Goto, InCall, StorageInv, CallInv, TypeOK
<1>10. ASSUME NEW t \in Threads, NothingToReset(t) PROVE StorageInv'
  BY <1>10 DEF NothingToReset, Goto, AfterReset, InCall, StorageInv, CallInv, TypeOK
<1>11. ASSUME NEW t \in Threads, Reset(t) PROVE StorageInv'
  BY <1>11 DEF Reset, Goto, InCall, StorageInv, CallInv, TypeOK
<1>12. ASSUME NEW t \in Threads, WriteObject(t) PROVE StorageInv'
  BY <1>12 DEF WriteObject, NoObject, InCall, StorageInv, CallInv, TypeOK
<1>13. ASSUME NEW t \in Threads, WriteFlag(t) PROVE StorageInv'
  BY <1>13 DEF WriteFlag, InCall, StorageInv, CallInv, TypeOK
<1>14. ASSUME NEW t \in Threads, ResetDone(t) PROVE StorageInv'
  BY <1>14 DEF ResetDone, Goto, AfterReset, InCall, StorageInv, CallInv, TypeOK
<1>15. ASSUME NEW t \in Threads, GuardDropped(t) PROVE StorageInv'
  BY <1>15 DEF GuardDropped, Goto, InCall, StorageInv, CallInv, TypeOK
<1>16. ASSUME NEW t \in Threads, BeginGet(t) PROVE StorageInv'
  BY <1>16 DEF BeginGet, EntersStorage, Goto, MayCall, InCall, StorageInv, CallInv, TypeOK
<1>17. ASSUME NEW t \in Threads, ReturnsEnoent(t) PROVE StorageInv'
  BY <1>17 DEF ReturnsEnoent, Goto, InCall, StorageInv, CallInv, TypeOK
<1>18. ASSUME NEW t \in Threads, HasInstance(t) PROVE StorageInv'
  BY <1>18 DEF HasInstance, Goto, InCall, StorageInv, CallInv, TypeOK
<1>19. ASSUME NEW t \in Threads, GetReturns(t) PROVE StorageInv'
  BY <1>19 DEF GetReturns, Goto, InCall, StorageInv, CallInv, TypeOK
<1>20. ASSUME NEW t \in Threads, StopsUsing(t) PROVE StorageInv'
  BY <1>20 DEF StopsUsing, Goto, InCall, StorageInv, CallInv, TypeOK
<1>21. ASSUME NEW t \in Threads, NEW g \in guards[t], BeginDrop(t, g) PROVE StorageInv'
  BY <1>21 DEF BeginDrop, EntersStorage, Goto, MayOwn, MayCall, InCall, StorageInv, CallInv,
     TypeOK, ObjectInv, NoGuards
<1>22. ASSUME NEW t \in Threads, NEW g \in guards[t], NEW u \in Threads, MoveGuard(t, u, g)
      PROVE  StorageInv'
  BY <1>22 DEF MoveGuard, MayOwn, MayCall, InCall, StorageInv, CallInv, TypeOK
<1>23. CASE UNCHANGED vars
  BY <1>23 DEF vars, InCall, StorageInv, CallInv, TypeOK
<1> QED
  BY <1>1, <1>2, <1>3, <1>4, <1>5, <1>6, <1>7, <1>8, <1>9, <1>10, <1>11, <1>12, <1>13,
     <1>14, <1>15, <1>16, <1>17, <1>18, <1>19, <1>20, <1>21, <1>22, <1>23
     DEF Next, StorageStep, MakeStep, ResetStep, GuardStep, GetStep

\* One call of make() or of a destructor at a time.
LEMMA CallHolds ==
    ASSUME TypeOK, StorageInv, CallInv, [Next]_vars PROVE CallInv'
<1>1. ASSUME NEW t \in Threads, ReadInstance(t) PROVE CallInv'
  BY <1>1 DEF ReadInstance, Goto, AfterStorage, Owning, InCall, CallInv, StorageInv, TypeOK
<1>2. ASSUME NEW t \in Threads, SeesNoInstance(t) PROVE CallInv'
  BY <1>2 DEF SeesNoInstance, Goto, Owning, InCall, CallInv, StorageInv, TypeOK
<1>3. ASSUME NEW t \in Threads, Allocate(t) PROVE CallInv'
  BY <1>3 DEF Allocate, Goto, EmptyOptional, NoObject, Owning, InCall, CallInv, StorageInv,
     TypeOK
<1>4. ASSUME NEW t \in Threads, BeginMake(t) PROVE CallInv'
  BY <1>4 DEF BeginMake, EntersStorage, Goto, MayOwn, MayCall, InCall, Owning, CallInv,
     StorageInv, TypeOK
<1>5. ASSUME NEW t \in Threads, ReturnsEexist(t) PROVE CallInv'
  BY <1>5 DEF ReturnsEexist, Goto, Owning, InCall, CallInv, StorageInv, TypeOK
<1>6. ASSUME NEW t \in Threads, BeginConstruct(t) PROVE CallInv'
  BY <1>6, SMTT(30) DEF BeginConstruct, EntersStorage, Goto, Owning, InCall, CallInv, StorageInv,
     TypeOK
<1>7. ASSUME NEW t \in Threads, ConstructFails(t) PROVE CallInv'
  BY <1>7 DEF ConstructFails, Goto, Owning, InCall, CallInv, StorageInv, TypeOK
<1>8. ASSUME NEW t \in Threads, Place(t) PROVE CallInv'
  BY <1>8 DEF Place, Goto, Owning, InCall, CallInv, StorageInv, TypeOK
<1>9. ASSUME NEW t \in Threads, MakeReturns(t) PROVE CallInv'
  BY <1>9 DEF MakeReturns, Goto, Owning, InCall, CallInv, StorageInv, TypeOK
<1>10. ASSUME NEW t \in Threads, NothingToReset(t) PROVE CallInv'
  BY <1>10 DEF NothingToReset, Goto, AfterReset, Owning, InCall, CallInv, StorageInv, TypeOK
<1>11. ASSUME NEW t \in Threads, Reset(t) PROVE CallInv'
  BY <1>11 DEF Reset, Goto, Owning, InCall, CallInv, StorageInv, TypeOK
<1>12. ASSUME NEW t \in Threads, WriteObject(t) PROVE CallInv'
  BY <1>12 DEF WriteObject, NoObject, Owning, InCall, CallInv, StorageInv, TypeOK
<1>13. ASSUME NEW t \in Threads, WriteFlag(t) PROVE CallInv'
  BY <1>13 DEF WriteFlag, Owning, InCall, CallInv, StorageInv, TypeOK
<1>14. ASSUME NEW t \in Threads, ResetDone(t) PROVE CallInv'
  BY <1>14 DEF ResetDone, Goto, AfterReset, Owning, InCall, CallInv, StorageInv, TypeOK
<1>15. ASSUME NEW t \in Threads, GuardDropped(t) PROVE CallInv'
  BY <1>15 DEF GuardDropped, Goto, Owning, InCall, CallInv, StorageInv, TypeOK
<1>16. ASSUME NEW t \in Threads, BeginGet(t) PROVE CallInv'
  BY <1>16 DEF BeginGet, EntersStorage, Goto, MayCall, InCall, Owning, CallInv, StorageInv,
     TypeOK
<1>17. ASSUME NEW t \in Threads, ReturnsEnoent(t) PROVE CallInv'
  BY <1>17 DEF ReturnsEnoent, Goto, Owning, InCall, CallInv, StorageInv, TypeOK
<1>18. ASSUME NEW t \in Threads, HasInstance(t) PROVE CallInv'
  BY <1>18 DEF HasInstance, Goto, Owning, InCall, CallInv, StorageInv, TypeOK
<1>19. ASSUME NEW t \in Threads, GetReturns(t) PROVE CallInv'
  BY <1>19 DEF GetReturns, Goto, Owning, InCall, CallInv, StorageInv, TypeOK
<1>20. ASSUME NEW t \in Threads, StopsUsing(t) PROVE CallInv'
  BY <1>20 DEF StopsUsing, Goto, Owning, InCall, CallInv, StorageInv, TypeOK
<1>21. ASSUME NEW t \in Threads, NEW g \in guards[t], BeginDrop(t, g) PROVE CallInv'
  BY <1>21 DEF BeginDrop, EntersStorage, Goto, MayOwn, MayCall, InCall, Owning, CallInv,
     StorageInv, TypeOK
<1>22. ASSUME NEW t \in Threads, NEW g \in guards[t], NEW u \in Threads, MoveGuard(t, u, g)
      PROVE  CallInv'
  BY <1>22 DEF MoveGuard, MayOwn, MayCall, InCall, Owning, CallInv, StorageInv, TypeOK
<1>23. CASE UNCHANGED vars
  BY <1>23 DEF vars, Owning, InCall, CallInv, StorageInv, TypeOK
<1> QED
  BY <1>1, <1>2, <1>3, <1>4, <1>5, <1>6, <1>7, <1>8, <1>9, <1>10, <1>11, <1>12, <1>13,
     <1>14, <1>15, <1>16, <1>17, <1>18, <1>19, <1>20, <1>21, <1>22, <1>23
     DEF Next, StorageStep, MakeStep, ResetStep, GuardStep, GetStep

\* What is to be shown of a step after which t is the only owner and emplaces.
LEMMA StillEmplacing ==
    ASSUME NEW t \in Threads, Owning(t)', \A u \in Threads : Owning(u)' => u = t,
           op'[t] = "emplace", pc'[t] # "resetting", NoGuards', Placed(t)'
    PROVE  ObjectInv'
BY DEF ObjectInv, OneGuard, NoGuards

\* The same when it drops its guard.
LEMMA StillDropping ==
    ASSUME NEW t \in Threads, Owning(t)', \A u \in Threads : Owning(u)' => u = t,
           op'[t] = "drop", mine'[t] \in guards'[t], Left(t)',
           OneGuard', instance' # 0
    PROVE  ObjectInv'
BY DEF ObjectInv

\* The same when nobody emplaces or drops.
LEMMA NowSettled ==
    ASSUME \A u \in Threads : Owning(u)' => op'[u] = "make",
           OneGuard', instance' = 0 => NoGuards', Settled'
    PROVE  ObjectInv'
BY DEF ObjectInv

\* What is in the Optional, whoever is making or dropping it.
LEMMA ObjectHolds ==
    ASSUME TypeOK, StorageInv, CallInv, ObjectInv, [Next]_vars PROVE ObjectInv'
<1>1. ASSUME NEW t \in Threads, ReadInstance(t) PROVE ObjectInv'
  BY <1>1 DEF ReadInstance, Goto, AfterStorage, ObjectInv, OneGuard, NoGuards, Settled,
     Placed, Left, CellIs, Cell, Owning, InCall, CallInv, StorageInv, TypeOK
<1>2. ASSUME NEW t \in Threads, SeesNoInstance(t) PROVE ObjectInv'
  BY <1>2 DEF SeesNoInstance, Goto, ObjectInv, OneGuard, NoGuards, Settled, Placed, Left,
     CellIs, Cell, Owning, InCall, CallInv, StorageInv, TypeOK
<1>3. ASSUME NEW t \in Threads, Allocate(t) PROVE ObjectInv'
  <2>1. instance = 0 /\ NoGuards /\ NoGuards'
    BY <1>3 DEF Allocate, StorageInv, ObjectInv, NoGuards
  <2>2. \A u \in Threads : Owning(u)' => op'[u] = "make"
    BY <1>3, <2>1 DEF Allocate, Goto, Owning, InCall, StorageInv, TypeOK
  <2>3. cells' = <<EmptyOptional>>
    BY <1>3, <2>1 DEF Allocate, StorageInv
  <2>4. CellIs(FALSE, NoObject)'
    BY <2>3 DEF CellIs, Cell, EmptyOptional
  <2> QED
    BY <2>1, <2>2, <2>4, NowSettled DEF NoGuards, OneGuard, Settled
<1>4. ASSUME NEW t \in Threads, BeginMake(t) PROVE ObjectInv'
  BY <1>4, SMTT(30) DEF BeginMake, EntersStorage, Goto, MayOwn, MayCall, InCall, ObjectInv, OneGuard,
     NoGuards, Settled, Placed, Left, CellIs, Cell, Owning, CallInv, StorageInv, TypeOK
<1>5. ASSUME NEW t \in Threads, ReturnsEexist(t) PROVE ObjectInv'
  BY <1>5, SMTT(30) DEF ReturnsEexist, Goto, ObjectInv, OneGuard, NoGuards, Settled, Placed, Left,
     CellIs, Cell, Owning, InCall, CallInv, StorageInv, TypeOK
<1>6. ASSUME NEW t \in Threads, BeginConstruct(t) PROVE ObjectInv'
  <2>1. Owning(t) /\ op[t] = "make" /\ op'[t] = "emplace" /\ pc'[t] = "storage"
    BY <1>6 DEF BeginConstruct, EntersStorage, Goto, CallInv, Owning, InCall, TypeOK
  <2>2. Owning(t)' /\ \A u \in Threads : Owning(u)' => u = t
    BY <1>6, <2>1 DEF BeginConstruct, EntersStorage, Goto, CallInv, Owning, InCall, TypeOK
  <2>3. Settled /\ Cell.has = FALSE
    BY <1>6, <2>1, HasReference DEF BeginConstruct, ObjectInv, CallInv, Cell
  <2>4. NoGuards /\ CellIs(FALSE, NoObject)
    BY <2>3 DEF Settled, NoGuards, CellIs
  <2>5. NoGuards' /\ Placed(t)'
    BY <1>6, <2>1, <2>4 DEF BeginConstruct, NoGuards, Placed, CellIs, Cell
  <2> QED
    BY <2>1, <2>2, <2>5, StillEmplacing
<1>7. ASSUME NEW t \in Threads, ConstructFails(t) PROVE ObjectInv'
  BY <1>7, SMTT(30) DEF ConstructFails, Goto, ObjectInv, OneGuard, NoGuards, Settled, Placed, Left,
     CellIs, Cell, Owning, InCall, CallInv, StorageInv, TypeOK
<1>8. ASSUME NEW t \in Threads, Place(t) PROVE ObjectInv'
  <2>1. Owning(t) /\ op[t] = "emplace" /\ op' = op /\ pc'[t] = "placing" /\ todo'[t] = {"has", "obj"}
    BY <1>8 DEF Place, Goto, CallInv, Owning, InCall, TypeOK
  <2>2. Owning(t)' /\ \A u \in Threads : Owning(u)' => u = t
    BY <1>8, <2>1, SMTT(30) DEF Place, Goto, CallInv, Owning, InCall, TypeOK
  <2>3. NoGuards /\ CellIs(FALSE, NoObject)
    BY <1>8, <2>1 DEF Place, ObjectInv, Placed
  <2>4. NoGuards' /\ Placed(t)'
    BY <1>8, <2>1, <2>3 DEF Place, NoGuards, Placed, CellIs, Cell
  <2> QED
    BY <2>1, <2>2, <2>4, StillEmplacing
<1>9. ASSUME NEW t \in Threads, MakeReturns(t) PROVE ObjectInv'
  <2>1. Owning(t) /\ op[t] = "emplace"
    BY <1>9 DEF MakeReturns, CallInv, Owning, InCall, TypeOK
  <2>2. \A u \in Threads : ~Owning(u)'
    BY <1>9, <2>1 DEF MakeReturns, Goto, CallInv, Owning, InCall, TypeOK
  <2>3. NoGuards /\ CellIs(TRUE, mine[t])
    BY <1>9, <2>1 DEF MakeReturns, ObjectInv, Placed
  <2>4. guards'[t] = {mine[t]} /\ \A u \in Threads \ {t} : guards'[u] = {}
    BY <1>9, <2>3 DEF MakeReturns, NoGuards, TypeOK
  <2>5. OneGuard' /\ Settled'
    BY <1>9, <2>3, <2>4 DEF MakeReturns, OneGuard, NoGuards, Settled, CellIs, Cell
  <2>6. instance' # 0
    BY <1>9, HasReference DEF MakeReturns
  <2> QED
    BY <2>2, <2>5, <2>6, NowSettled
<1>10. ASSUME NEW t \in Threads, NothingToReset(t) PROVE ObjectInv'
  <2>1. Owning(t) /\ op[t] \in {"emplace", "drop"}
    BY <1>10 DEF NothingToReset, CallInv, Owning, InCall, TypeOK
  <2>2. ~Cell.has
    BY <1>10, HasReference DEF NothingToReset, Cell
  <2>3. op[t] = "emplace"
    BY <1>10, <2>1, <2>2 DEF NothingToReset, ObjectInv, Left, CellIs
  <2>4. Owning(t)' /\ op' = op /\ pc'[t] = "place" /\ \A u \in Threads : Owning(u)' => u = t
    BY <1>10, <2>1, <2>3 DEF NothingToReset, Goto, AfterReset, CallInv, Owning, InCall, TypeOK
  <2>5. NoGuards' /\ Placed(t)'
    BY <1>10, <2>1, <2>3, <2>4 DEF NothingToReset, ObjectInv, NoGuards, Placed, CellIs, Cell
  <2> QED
    BY <2>3, <2>4, <2>5, StillEmplacing
<1>11. ASSUME NEW t \in Threads, Reset(t) PROVE ObjectInv'
  <2>1. Owning(t) /\ op[t] \in {"emplace", "drop"}
    BY <1>11 DEF Reset, CallInv, Owning, InCall, TypeOK
  <2>2. Cell.has
    BY <1>11, HasReference DEF Reset, Cell
  <2>3. op[t] = "drop"
    BY <1>11, <2>1, <2>2 DEF Reset, ObjectInv, Placed, CellIs
  <2>4. Owning(t)' /\ op' = op /\ \A u \in Threads : Owning(u)' => u = t
    BY <1>11, <2>1 DEF Reset, Goto, CallInv, Owning, InCall, TypeOK
  <2>5. mine[t] \in guards[t] /\ CellIs(TRUE, mine[t])
    BY <1>11, <2>1, <2>3 DEF Reset, ObjectInv, Left
  <2>6. pc'[t] = "resetting" /\ todo'[t] = {"has", "obj"}
    BY <1>11 DEF Reset, Goto, TypeOK
  <2>7. Left(t)'
    BY <1>11, <2>5, <2>6 DEF Reset, Left, CellIs, Cell
  <2>8. mine'[t] \in guards'[t] /\ OneGuard' /\ instance' # 0
    BY <1>11, <2>5, HasReference DEF Reset, ObjectInv, OneGuard
  <2> QED
    BY <2>3, <2>4, <2>7, <2>8, StillDropping
<1>12. ASSUME NEW t \in Threads, WriteObject(t) PROVE ObjectInv'
  <2>1. pc[t] \in {"resetting", "placing"} /\ op[t] \in {"emplace", "drop"} /\ Owning(t)
    BY <1>12 DEF WriteObject, CallInv, Owning, InCall, TypeOK
  <2>2. Owning(t)' /\ \A u \in Threads : Owning(u)' => u = t
    BY <1>12, <2>1 DEF WriteObject, CallInv, Owning, InCall
  <2>3. Cell = cells[1] /\ Cell' = cells'[1] /\ instance' # 0
    BY <1>12, HasReference DEF WriteObject, Cell
  <2> DEFINE value == (IF pc[t] = "placing" THEN mine[t] ELSE NoObject)
  <2>4. value \in 0..makes /\ makes \in Nat
    BY BoundsAreNatural DEF TypeOK, NoObject
  <2>5. cells'[1] = [cells[1] EXCEPT !.obj = value]
    BY <1>12, <2>1, HasReference DEF WriteObject
  <2> HIDE DEF value
  <2>6. Cell'.obj = value /\ Cell'.has = Cell.has
    BY <2>1, <2>3, <2>4, <2>5, HasReference, ObjectReplaced
  <2> USE DEF value
  <2>7. CASE op[t] = "emplace"
    <3>1. pc[t] = "placing" /\ NoGuards /\ Placed(t)
      BY <1>12, <2>1, <2>7 DEF ObjectInv
    <3>2. NoGuards' /\ Placed(t)'
      BY <1>12, <2>6, <3>1 DEF WriteObject, TypeOK, NoGuards, Placed, CellIs
    <3> QED
      BY <1>12, <2>2, <2>7, <3>1, <3>2, StillEmplacing DEF WriteObject
  <2>8. CASE op[t] = "drop"
    <3>1. pc[t] = "resetting" /\ mine[t] \in guards[t] /\ Left(t) /\ OneGuard
      BY <1>12, <2>1, <2>8 DEF ObjectInv, CallInv
    <3>2. mine'[t] \in guards'[t] /\ OneGuard'
      BY <1>12, <3>1 DEF WriteObject, OneGuard
    <3>3. Left(t)'
      BY <1>12, <2>6, <3>1 DEF WriteObject, TypeOK, Left, CellIs
    <3> QED
      BY <1>12, <2>2, <2>3, <2>8, <3>2, <3>3, StillDropping DEF WriteObject
  <2> QED
    BY <2>1, <2>7, <2>8
<1>13. ASSUME NEW t \in Threads, WriteFlag(t) PROVE ObjectInv'
  <2>1. pc[t] \in {"resetting", "placing"} /\ op[t] \in {"emplace", "drop"} /\ Owning(t)
    BY <1>13 DEF WriteFlag, CallInv, Owning, InCall, TypeOK
  <2>2. Owning(t)' /\ \A u \in Threads : Owning(u)' => u = t
    BY <1>13, <2>1 DEF WriteFlag, CallInv, Owning, InCall
  <2>3. Cell = cells[1] /\ Cell' = cells'[1] /\ instance' # 0
    BY <1>13, HasReference DEF WriteFlag, Cell
  <2> DEFINE value == (pc[t] = "placing")
  <2>4. value \in BOOLEAN /\ makes \in Nat
    BY BoundsAreNatural DEF TypeOK, NoObject
  <2>5. cells'[1] = [cells[1] EXCEPT !.has = value]
    BY <1>13, <2>1, HasReference DEF WriteFlag
  <2> HIDE DEF value
  <2>6. Cell'.has = value /\ Cell'.obj = Cell.obj
    BY <2>1, <2>3, <2>4, <2>5, HasReference, FlagReplaced
  <2> USE DEF value
  <2>7. CASE op[t] = "emplace"
    <3>1. pc[t] = "placing" /\ NoGuards /\ Placed(t)
      BY <1>13, <2>1, <2>7 DEF ObjectInv
    <3>2. NoGuards' /\ Placed(t)'
      BY <1>13, <2>6, <3>1 DEF WriteFlag, TypeOK, NoGuards, Placed, CellIs
    <3> QED
      BY <1>13, <2>2, <2>7, <3>1, <3>2, StillEmplacing DEF WriteFlag
  <2>8. CASE op[t] = "drop"
    <3>1. pc[t] = "resetting" /\ mine[t] \in guards[t] /\ Left(t) /\ OneGuard
      BY <1>13, <2>1, <2>8 DEF ObjectInv, CallInv
    <3>2. mine'[t] \in guards'[t] /\ OneGuard'
      BY <1>13, <3>1 DEF WriteFlag, OneGuard
    <3>3. Left(t)'
      BY <1>13, <2>6, <3>1 DEF WriteFlag, TypeOK, Left, CellIs
    <3> QED
      BY <1>13, <2>2, <2>3, <2>8, <3>2, <3>3, StillDropping DEF WriteFlag
  <2> QED
    BY <2>1, <2>7, <2>8
<1>14. ASSUME NEW t \in Threads, ResetDone(t) PROVE ObjectInv'
  <2>1. Owning(t) /\ op[t] = "drop" /\ op' = op
    BY <1>14 DEF ResetDone, CallInv, ObjectInv, Owning, InCall, TypeOK
  <2>2. Owning(t)' /\ pc'[t] = "dropped" /\ \A u \in Threads : Owning(u)' => u = t
    BY <1>14, <2>1 DEF ResetDone, Goto, AfterReset, CallInv, Owning, InCall, TypeOK
  <2>3. mine[t] \in guards[t] /\ Left(t)
    BY <2>1 DEF ObjectInv
  <2>4. CellIs(FALSE, NoObject)
    <3>1. ("has" \in todo[t]) = FALSE /\ ("obj" \in todo[t]) = FALSE /\ pc[t] = "resetting"
      BY <1>14 DEF ResetDone
    <3> QED
      BY <2>3, <3>1 DEF Left, CellIs
  <2>5. Left(t)'
    BY <1>14, <2>2, <2>4 DEF ResetDone, Left, CellIs, Cell
  <2>6. mine'[t] \in guards'[t] /\ OneGuard' /\ instance' # 0
    BY <1>14, <2>3, HasReference DEF ResetDone, ObjectInv, OneGuard
  <2> QED
    BY <2>1, <2>2, <2>5, <2>6, StillDropping
<1>15. ASSUME NEW t \in Threads, GuardDropped(t) PROVE ObjectInv'
  <2>1. Owning(t) /\ op[t] = "drop"
    BY <1>15 DEF GuardDropped, CallInv, Owning, InCall, TypeOK
  <2>2. \A u \in Threads : ~Owning(u)'
    BY <1>15, <2>1 DEF GuardDropped, Goto, CallInv, Owning, InCall, TypeOK
  <2>3. mine[t] \in guards[t] /\ CellIs(FALSE, NoObject)
    BY <1>15, <2>1 DEF GuardDropped, ObjectInv, Left
  <2>4. NoGuards'
    BY <1>15, <2>3 DEF GuardDropped, ObjectInv, OneGuard, NoGuards, TypeOK
  <2>5. OneGuard' /\ Settled'
    BY <1>15, <2>3, <2>4 DEF GuardDropped, OneGuard, NoGuards, Settled, CellIs, Cell
  <2> QED
    BY <2>2, <2>4, <2>5, NowSettled
<1>16. ASSUME NEW t \in Threads, BeginGet(t) PROVE ObjectInv'
  BY <1>16, SMTT(30) DEF BeginGet, EntersStorage, Goto, MayCall, InCall, ObjectInv, OneGuard,
     NoGuards, Settled, Placed, Left, CellIs, Cell, Owning, CallInv, StorageInv, TypeOK
<1>17. ASSUME NEW t \in Threads, ReturnsEnoent(t) PROVE ObjectInv'
  BY <1>17, SMTT(30) DEF ReturnsEnoent, Goto, ObjectInv, OneGuard, NoGuards, Settled, Placed, Left,
     CellIs, Cell, Owning, InCall, CallInv, StorageInv, TypeOK
<1>18. ASSUME NEW t \in Threads, HasInstance(t) PROVE ObjectInv'
  BY <1>18 DEF HasInstance, Goto, ObjectInv, OneGuard, NoGuards, Settled, Placed, Left,
     CellIs, Cell, Owning, InCall, CallInv, StorageInv, TypeOK
<1>19. ASSUME NEW t \in Threads, GetReturns(t) PROVE ObjectInv'
  <2>1. UNCHANGED <<instance, cells, op, todo, guards>> /\ ~Owning(t) /\ ~Owning(t)'
    BY <1>19 DEF GetReturns, Goto, CallInv, Owning, InCall, TypeOK
  <2>2. \A u \in Threads \ {t} : pc'[u] = pc[u] /\ mine'[u] = mine[u]
    BY <1>19 DEF GetReturns, Goto, TypeOK
  <2>3. /\ \A u \in Threads : Owning(u)' <=> Owning(u)
        /\ \A u \in Threads : Owning(u) => (Placed(u)' <=> Placed(u)) /\ (Left(u)' <=> Left(u))
    BY <2>1, <2>2 DEF Owning, InCall, Placed, Left, CellIs, Cell
  <2> QED
    BY <2>1, <2>2, <2>3 DEF ObjectInv, OneGuard, NoGuards, Settled, CellIs, Cell
<1>20. ASSUME NEW t \in Threads, StopsUsing(t) PROVE ObjectInv'
  BY <1>20, SMTT(30) DEF StopsUsing, Goto, ObjectInv, OneGuard, NoGuards, Settled, Placed, Left,
     CellIs, Cell, Owning, InCall, CallInv, StorageInv, TypeOK
<1>21. ASSUME NEW t \in Threads, NEW g \in guards[t], BeginDrop(t, g) PROVE ObjectInv'
  BY <1>21 DEF BeginDrop, EntersStorage, Goto, MayOwn, MayCall, InCall, ObjectInv, OneGuard,
     NoGuards, Settled, Placed, Left, CellIs, Cell, Owning, CallInv, StorageInv, TypeOK
<1>22. ASSUME NEW t \in Threads, NEW g \in guards[t], NEW u \in Threads, MoveGuard(t, u, g)
      PROVE  ObjectInv'
  BY <1>22, SMTT(30) DEF MoveGuard, MayOwn, MayCall, InCall, ObjectInv, OneGuard, NoGuards, Settled,
     Placed, Left, CellIs, Cell, Owning, CallInv, StorageInv, TypeOK
<1>23. CASE UNCHANGED vars
  BY <1>23 DEF vars, ObjectInv, OneGuard, NoGuards, Settled, Placed, Left, CellIs, Cell,
     Owning, InCall, CallInv, StorageInv, TypeOK
<1> QED
  BY <1>1, <1>2, <1>3, <1>4, <1>5, <1>6, <1>7, <1>8, <1>9, <1>10, <1>11, <1>12, <1>13,
     <1>14, <1>15, <1>16, <1>17, <1>18, <1>19, <1>20, <1>21, <1>22, <1>23
     DEF Next, StorageStep, MakeStep, ResetStep, GuardStep, GetStep

-----------------------------------------------------------------------------
(* The theorems.                                                            *)

\* IInv is inductive.
LEMMA StepHolds == IInv /\ [Next]_vars => IInv'
<1> SUFFICES ASSUME IInv, [Next]_vars PROVE IInv'
  OBVIOUS
<1>1. TypeOK /\ StorageInv /\ CallInv /\ ObjectInv
  BY DEF IInv
<1>2. TypeOK'
  BY <1>1, TypeStep
<1>3. StorageInv'
  BY <1>1, StorageHolds
<1>4. CallInv'
  BY <1>1, CallHolds
<1>5. ObjectInv'
  BY <1>1, ObjectHolds
<1> QED
  BY <1>2, <1>3, <1>4, <1>5 DEF IInv

\* In every reachable state there is one Optional at most, one thread at a time
\* makes or drops, and the Optional holds what the owner's writes have left.
THEOREM Invariant == Spec => []IInv
<1>1. Init => IInv
  BY InitHolds
<1> QED
  BY <1>1, StepHolds, PTL DEF Spec

\* Two guards are never held at once, by whichever threads.
LEMMA OneGuardMeansSecondMakeFails == TypeOK /\ OneGuard => SecondMakeFails
<1> SUFFICES ASSUME TypeOK, OneGuard PROVE SecondMakeFails
  OBVIOUS
<1> DEFINE held == {p \in Threads \X (1..makes) : p[2] \in guards[p[1]]}
<1>1. ASSUME NEW p \in held, NEW q \in held PROVE p = q
  <2>1. p[1] = q[1] /\ p[2] = q[2]
    BY <1>1 DEF OneGuard
  <2>2. p = <<p[1], p[2]>> /\ q = <<q[1], q[2]>>
    BY <1>1
  <2> QED
    BY <2>1, <2>2
<1>2. CASE held = {}
  BY <1>2, FS_EmptySet DEF SecondMakeFails
<1>3. CASE held # {}
  <2>1. PICK p : p \in held
    BY <1>3
  <2>2. held = {p}
    BY <1>1, <2>1
  <2> QED
    BY <2>2, FS_Singleton DEF SecondMakeFails
<1> QED
  BY <1>2, <1>3

\* The object of a guard nobody drops is there, and is that of the guard.
LEMMA GuardedObject ==
    ASSUME IInv, NEW g \in 1..makes, Guarded(g)
    PROVE  instance = 1 /\ Len(cells) = 1 /\ CellIs(TRUE, g)
<1>1. PICK t \in Threads : g \in guards[t] /\ ~Dropping(t, g)
  BY DEF Guarded
<1>2. OneGuard /\ ~NoGuards /\ instance # 0
  BY <1>1 DEF IInv, ObjectInv, NoGuards
<1>3. instance = 1 /\ Len(cells) = 1
  BY <1>2 DEF IInv, StorageInv
<1>4. ASSUME NEW u \in Threads, Owning(u) PROVE op[u] = "make"
  <2>1. op[u] # "emplace"
    BY <1>2, <1>4 DEF IInv, ObjectInv
  <2>2. CASE op[u] = "drop"
    <3>1. mine[u] \in guards[u]
      BY <1>4, <2>2 DEF IInv, ObjectInv
    <3>2. t = u /\ mine[u] = g
      BY <1>1, <1>2, <3>1 DEF OneGuard
    <3> QED
      BY <1>1, <1>4, <2>2, <3>2 DEF Dropping, Owning, InCall
  <2> QED
    BY <1>4, <2>1, <2>2 DEF IInv, TypeOK, Owning
<1>5. Settled
  BY <1>4 DEF IInv, ObjectInv
<1> QED
  BY <1>1, <1>3, <1>5 DEF Settled

\* While a guard is held there is one Optional, with the object of that guard,
\* and no second make() has returned a guard: for any threads and makes.
THEOREM GuardMeansObjectAlways == Spec => []GuardMeansObject
<1>1. ASSUME IInv PROVE GuardMeansObject
  <2>1. TypeOK /\ SecondMakeFails
    BY <1>1, OneGuardMeansSecondMakeFails DEF IInv, ObjectInv
  <2>2. ASSUME NEW g \in 1..makes, Guarded(g)
        PROVE  instance # 0 /\ cells[instance] = [has |-> TRUE, obj |-> g]
    <3>1. instance = 1 /\ Len(cells) = 1 /\ CellIs(TRUE, g)
      BY <1>1, <2>2, GuardedObject
    <3>2. 1 \in 1..Len(cells)
      BY <3>1
    <3>3. cells[1] \in Optionals(makes)
      BY <2>1, <3>2, ElementOfSeq DEF TypeOK
    <3>4. cells[1].has = TRUE /\ cells[1].obj = g
      BY <3>1 DEF CellIs, Cell
    <3>5. cells[1] = [has |-> cells[1].has, obj |-> cells[1].obj]
      BY <3>3 DEF Optionals
    <3> QED
      BY <3>1, <3>4, <3>5
  <2> QED
    BY <2>1, <2>2 DEF GuardMeansObject
<1> QED
  BY <1>1, Invariant, PTL

\* When the last guard is gone and no call is under way, the object is destroyed.
THEOREM NothingLeaks == Spec => []NoLeak
<1>1. ASSUME IInv PROVE NoLeak
  <2> SUFFICES ASSUME \A t \in Threads : guards[t] = {} /\ pc[t] \in {"idle", "using"},
                      NEW c \in 1..Len(cells)
               PROVE  cells[c] = EmptyOptional
    BY DEF NoLeak
  <2>1. CellIs(FALSE, NoObject)
    BY <1>1 DEF IInv, ObjectInv, Settled, NoGuards, Owning, InCall
  <2>2. instance = 1 /\ c = 1
    BY <1>1 DEF IInv, StorageInv
  <2>3. cells[1] \in Optionals(makes)
    BY <1>1, <2>2, ElementOfSeq DEF IInv, TypeOK
  <2>4. cells[1].has = FALSE /\ cells[1].obj = NoObject
    BY <2>1, <2>2 DEF CellIs, Cell
  <2>5. cells[1] = [has |-> cells[1].has, obj |-> cells[1].obj]
    BY <2>3 DEF Optionals
  <2> QED
    BY <2>2, <2>4, <2>5 DEF EmptyOptional
<1> QED
  BY <1>1, Invariant, PTL
=============================================================================
