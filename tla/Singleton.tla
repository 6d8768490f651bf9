----------------------------- MODULE Singleton -----------------------------
(***************************************************************************)
(* dstd::Singleton<T> and SingletonGuard (dstd/DataStructures/Singleton.hpp)*)
(* over Optional<T> (dstd/Optional.hpp): a process-wide object that make() *)
(* constructs, get() hands out by address and the guard destroys.  Nothing *)
(* is locked, so a step here is one access to memory threads share, and    *)
(* the two writes of emplace and reset become visible in either order.     *)
(***************************************************************************)
EXTENDS Integers, Sequences, FiniteSets

CONSTANTS
    Threads,   \* every thread may call get()
    Makers,    \* those that may call make() and hold guards
    MaxMakes,  \* bound: calls of make()
    MaxCells   \* bound: Optionals that storage() allocates

ASSUME MakersAreThreads == Makers \subseteq Threads
ASSUME BoundsAreNatural == MaxMakes \in Nat /\ MaxCells \in Nat

VARIABLES
    instance,  \* the static pointer of storage(): an index of cells, 0 = nullptr
    cells,     \* the Optionals: [has : m_hasValue, obj : the make that built it, 0 = none]
    pc,        \* where each thread is
    op,        \* the call it is in: "make", "emplace" (inside make), "get", "drop"
    ptr,       \* the reference storage() returned to it
    todo,      \* its writes of emplace or reset that others do not see yet
    mine,      \* the make it is in; for "get", the object it was given
    guards,    \* the guards each thread holds, by the make that returned them
    makes      \* bound: calls of make() so far

vars == <<instance, cells, pc, op, ptr, todo, mine, guards, makes>>

NoObject == 0
EmptyOptional == [has |-> FALSE, obj |-> NoObject]

Goto(t, label) == pc' = [pc EXCEPT ![t] = label]

Init == /\ cells = <<>>
        /\ instance = 0
        /\ pc = [t \in Threads |-> "idle"]
        /\ op = [t \in Threads |-> "get"]
        /\ ptr = [t \in Threads |-> 0]
        /\ todo = [t \in Threads |-> {}]
        /\ mine = [t \in Threads |-> NoObject]
        /\ guards = [t \in Threads |-> {}]
        /\ makes = 0

\* A thread that uses an object it got is not in a call.
InCall(t) == pc[t] \notin {"idle", "using"}

\* The first call of all has returned from storage() before another begins.
MayCall(t) == /\ pc[t] = "idle"
              /\ instance = 0 => \A u \in Threads : ~InCall(u)

\* Whoever makes a singleton, or drops or moves a guard, does it while nobody
\* else does.  Calls of get() overlap these, and each other.
MayOwn(t) == /\ MayCall(t)
             /\ \A u \in Threads : InCall(u) => op[u] = "get"

-----------------------------------------------------------------------------
(* storage()                                                                *)

\* make(), constructInstance(), get() and destroyInstance() begin with it.
EntersStorage(t, call) == /\ op' = [op EXCEPT ![t] = call]
                          /\ Goto(t, "storage")

AfterStorage(call) == CASE call = "make"    -> "exists"
                        [] call = "emplace" -> "reset"
                        [] call = "get"     -> "available"
                        [] call = "drop"    -> "reset"

ReadInstance(t) ==
    /\ pc[t] = "storage" /\ instance # 0
    /\ ptr' = [ptr EXCEPT ![t] = instance]
    /\ Goto(t, AfterStorage(op[t]))
    /\ UNCHANGED <<instance, cells, op, todo, mine, guards, makes>>

SeesNoInstance(t) ==
    /\ pc[t] = "storage" /\ instance = 0
    /\ Goto(t, "allocate")
    /\ UNCHANGED <<instance, cells, op, ptr, todo, mine, guards, makes>>

\* The pointer is written, then read again by the return statement.
Allocate(t) ==
    /\ pc[t] = "allocate" /\ Len(cells) < MaxCells
    /\ cells' = Append(cells, EmptyOptional)
    /\ instance' = Len(cells) + 1
    /\ Goto(t, "storage")
    /\ UNCHANGED <<op, ptr, todo, mine, guards, makes>>

-----------------------------------------------------------------------------
(* make()                                                                   *)

BeginMake(t) ==
    /\ MayOwn(t) /\ t \in Makers /\ makes < MaxMakes
    /\ makes' = makes + 1
    /\ mine' = [mine EXCEPT ![t] = makes + 1]
    /\ EntersStorage(t, "make")
    /\ UNCHANGED <<instance, cells, ptr, todo, guards>>

ReturnsEexist(t) ==
    /\ pc[t] = "exists" /\ cells[ptr[t]].has
    /\ Goto(t, "idle")
    /\ UNCHANGED <<instance, cells, op, ptr, todo, mine, guards, makes>>

\* T::make succeeds; emplace looks storage() up again.
BeginConstruct(t) ==
    /\ pc[t] = "exists" /\ ~cells[ptr[t]].has
    /\ EntersStorage(t, "emplace")
    /\ UNCHANGED <<instance, cells, ptr, todo, mine, guards, makes>>

\* T::make fails, and make() with it.
ConstructFails(t) ==
    /\ pc[t] = "exists" /\ ~cells[ptr[t]].has
    /\ Goto(t, "idle")
    /\ UNCHANGED <<instance, cells, op, ptr, todo, mine, guards, makes>>

-----------------------------------------------------------------------------
(* Optional::reset() and emplace(), called by make() and by the guard.       *)

\* What the caller of reset() does after it.
AfterReset(call) == IF call = "emplace" THEN "place" ELSE "dropped"

\* reset() of an empty Optional does nothing.
NothingToReset(t) ==
    /\ pc[t] = "reset" /\ ~cells[ptr[t]].has
    /\ Goto(t, AfterReset(op[t]))
    /\ UNCHANGED <<instance, cells, op, ptr, todo, mine, guards, makes>>

Reset(t) ==
    /\ pc[t] = "reset" /\ cells[ptr[t]].has
    /\ todo' = [todo EXCEPT ![t] = {"has", "obj"}]
    /\ Goto(t, "resetting")
    /\ UNCHANGED <<instance, cells, op, ptr, mine, guards, makes>>

Place(t) ==
    /\ pc[t] = "place"
    /\ todo' = [todo EXCEPT ![t] = {"has", "obj"}]
    /\ Goto(t, "placing")
    /\ UNCHANGED <<instance, cells, op, ptr, mine, guards, makes>>

\* The destructor or constructor of T takes effect.
WriteObject(t) ==
    /\ pc[t] \in {"resetting", "placing"} /\ "obj" \in todo[t]
    /\ cells' = [cells EXCEPT ![ptr[t]].obj =
                    IF pc[t] = "placing" THEN mine[t] ELSE NoObject]
    /\ todo' = [todo EXCEPT ![t] = @ \ {"obj"}]
    /\ UNCHANGED <<instance, pc, op, ptr, mine, guards, makes>>

\* Mutant of WriteFlag: reset() leaves m_hasValue alone.
WriteFlagNever(t) ==
    /\ pc[t] \in {"resetting", "placing"} /\ "has" \in todo[t]
    /\ cells' = [cells EXCEPT ![ptr[t]].has = @ \/ pc[t] = "placing"]
    /\ todo' = [todo EXCEPT ![t] = @ \ {"has"}]
    /\ UNCHANGED <<instance, pc, op, ptr, mine, guards, makes>>

\* m_hasValue takes its new value.
WriteFlag(t) ==
    /\ pc[t] \in {"resetting", "placing"} /\ "has" \in todo[t]
    /\ cells' = [cells EXCEPT ![ptr[t]].has = (pc[t] = "placing")]
    /\ todo' = [todo EXCEPT ![t] = @ \ {"has"}]
    /\ UNCHANGED <<instance, pc, op, ptr, mine, guards, makes>>

ResetDone(t) ==
    /\ pc[t] = "resetting" /\ todo[t] = {}
    /\ Goto(t, AfterReset(op[t]))
    /\ UNCHANGED <<instance, cells, op, ptr, todo, mine, guards, makes>>

\* make() returns a guard for what it constructed.
MakeReturns(t) ==
    /\ pc[t] = "placing" /\ todo[t] = {}
    /\ guards' = [guards EXCEPT ![t] = @ \cup {mine[t]}]
    /\ Goto(t, "idle")
    /\ UNCHANGED <<instance, cells, op, ptr, todo, mine, makes>>

-----------------------------------------------------------------------------
(* SingletonGuard                                                           *)

\* ~SingletonGuard() calls destroyInstance() while the guard is still active.
BeginDrop(t, g) ==
    /\ MayOwn(t) /\ g \in guards[t]
    /\ mine' = [mine EXCEPT ![t] = g]
    /\ EntersStorage(t, "drop")
    /\ UNCHANGED <<instance, cells, ptr, todo, guards, makes>>

GuardDropped(t) ==
    /\ pc[t] = "dropped"
    /\ guards' = [guards EXCEPT ![t] = @ \ {mine[t]}]
    /\ Goto(t, "idle")
    /\ UNCHANGED <<instance, cells, op, ptr, todo, mine, makes>>

\* Mutant of MoveGuard: the source keeps its m_destroyFunction.
CopyGuard(t, u, g) ==
    /\ MayOwn(t) /\ MayOwn(u) /\ u \in Makers /\ g \in guards[t]
    /\ guards' = [guards EXCEPT ![u] = @ \cup {g}]
    /\ UNCHANGED <<instance, cells, pc, op, ptr, todo, mine, makes>>

\* A guard is moved to where another thread will drop it.
MoveGuard(t, u, g) ==
    /\ MayOwn(t) /\ MayOwn(u) /\ u \in Makers /\ g \in guards[t]
    /\ guards' = [w \in Threads |->
                    IF w = u THEN guards[w] \cup {g} ELSE guards[w] \ {g}]
    /\ UNCHANGED <<instance, cells, pc, op, ptr, todo, mine, makes>>

-----------------------------------------------------------------------------
(* get()                                                                    *)

BeginGet(t) ==
    /\ MayCall(t)
    /\ EntersStorage(t, "get")
    /\ UNCHANGED <<instance, cells, ptr, todo, mine, guards, makes>>

ReturnsEnoent(t) ==
    /\ pc[t] = "available" /\ ~cells[ptr[t]].has
    /\ Goto(t, "idle")
    /\ UNCHANGED <<instance, cells, op, ptr, todo, mine, guards, makes>>

HasInstance(t) ==
    /\ pc[t] = "available" /\ cells[ptr[t]].has
    /\ Goto(t, "value")
    /\ UNCHANGED <<instance, cells, op, ptr, todo, mine, guards, makes>>

\* instance.value(): the caller has the address of the object.
GetReturns(t) ==
    /\ pc[t] = "value"
    /\ mine' = [mine EXCEPT ![t] = cells[ptr[t]].obj]
    /\ Goto(t, "using")
    /\ UNCHANGED <<instance, cells, op, ptr, todo, guards, makes>>

StopsUsing(t) ==
    /\ pc[t] = "using"
    /\ Goto(t, "idle")
    /\ UNCHANGED <<instance, cells, op, ptr, todo, mine, guards, makes>>

-----------------------------------------------------------------------------
StorageStep(t) == ReadInstance(t) \/ SeesNoInstance(t) \/ Allocate(t)

MakeStep(t) == \/ BeginMake(t) \/ ReturnsEexist(t) \/ BeginConstruct(t)
               \/ ConstructFails(t) \/ Place(t) \/ MakeReturns(t)

ResetStep(t) == \/ NothingToReset(t) \/ Reset(t) \/ WriteObject(t)
                \/ WriteFlag(t) \/ ResetDone(t)

GuardStep(t) == \/ GuardDropped(t)
                \/ \E g \in guards[t] : \/ BeginDrop(t, g)
                                        \/ \E u \in Threads : MoveGuard(t, u, g)

GetStep(t) == \/ BeginGet(t) \/ ReturnsEnoent(t) \/ HasInstance(t)
              \/ GetReturns(t) \/ StopsUsing(t)

Next == \E t \in Threads : \/ StorageStep(t) \/ MakeStep(t) \/ ResetStep(t)
                           \/ GuardStep(t) \/ GetStep(t)

Spec == Init /\ [][Next]_vars

-----------------------------------------------------------------------------
Labels == {"idle", "storage", "allocate", "exists", "available", "value", "using",
           "reset", "resetting", "place", "placing", "dropped"}

\* What an Optional may be after n calls of make().
Optionals(n) == [has : BOOLEAN, obj : 0..n]

\* Every variable has its type; references point at allocated Optionals.
TypeOK == /\ instance \in 0..Len(cells) /\ Len(cells) <= MaxCells
          /\ cells \in Seq(Optionals(makes))
          /\ pc \in [Threads -> Labels]
          /\ op \in [Threads -> {"make", "emplace", "get", "drop"}]
          /\ ptr \in [Threads -> 0..Len(cells)]
          /\ todo \in [Threads -> SUBSET {"has", "obj"}]
          /\ mine \in [Threads -> 0..makes]
          /\ guards \in [Threads -> SUBSET (1..makes)]
          /\ makes \in 0..MaxMakes

Dropping(t, g) == op[t] = "drop" /\ pc[t] # "idle" /\ mine[t] = g

\* A guard that nobody drops: the owner relies on its object.
Guarded(g) == \E t \in Threads : g \in guards[t] /\ ~Dropping(t, g)

\* There is never a second guard, whose end would destroy the object of the
\* first.
SecondMakeFails ==
    Cardinality({p \in Threads \X (1..makes) : p[2] \in guards[p[1]]}) <= 1

\* "Singleton should survive init scope" (SingletonTest.cpp:57-58): while a
\* guard is held, get() finds the object that was made with it; and "Second
\* singleton make should fail" (line 106).
GuardMeansObject ==
    /\ TypeOK
    /\ SecondMakeFails
    /\ \A g \in 1..makes : Guarded(g) =>
           /\ instance # 0
           /\ cells[instance] = [has |-> TRUE, obj |-> g]

\* "All singleton payload instances should be destroyed" (SingletonTest.cpp:122):
\* when no guard is left and no call is under way, no object is.
NoLeak ==
    (\A t \in Threads : guards[t] = {} /\ pc[t] \in {"idle", "using"})
        => \A c \in 1..Len(cells) : cells[c] = EmptyOptional

\* BREAK_IF_DEBUGGER_PRESENT(hasValue()) in Optional::value() (Optional.hpp:154).
ValueIsPresent == \A t \in Threads : pc[t] = "value" => cells[ptr[t]].has
=============================================================================
