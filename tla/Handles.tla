------------------------------ MODULE Handles ------------------------------
(***************************************************************************)
(* The move-only owners of kernel objects: Lock with its lock group, Vnode,*)
(* Thread with the context that its kernel thread reads.                   *)
(* One thread uses them; what it makes holds UniquePtrs in local variables *)
(* that are freed, last one first, when a step fails or when it returns.   *)
(* The kernel threads that it starts run on their own.                     *)
(***************************************************************************)
EXTENDS Address, Sequences, SequencesExt

CONSTANTS
    Locks, Vnodes, Handles,     \* variables of type Lock, Vnode and Thread
    Ids, Null,                  \* addresses of kernel objects and contexts
    ContextFunction,            \* where vfs_context_kernel() is, and
    ContextCode,                \* the two instructions it begins with
    Kthreads                    \* bound: the kernel threads ever started

ASSUME NullIsNoId == Null \notin Ids \cup Kthreads
ASSUME CodeIsCode ==
    /\ ContextFunction \in 0..AddressSpace - 1
    /\ ContextCode \in (Adrps \cup Others) \X (Seconds \cup Others)

VARIABLES
    heap,       \* what is at each address
    lock,       \* each Lock: m_group, m_lock and the m_group of its deleter
    vnode,      \* each Vnode: m_vnode and m_context
    kernelContext,  \* what VnodeContext::make() found
    handle,     \* each Thread: m_thread and m_context
    kthread,    \* each kernel thread: its state, and the context it was given
    pc, about,  \* where the thread is in a call, and what it is about
    locals      \* its UniquePtrs, in the order of their declarations

vars == <<heap, lock, vnode, kernelContext, handle, kthread, pc, about, locals>>

Nothing == [kind |-> "none", refs |-> 0, link |-> Null]
NoVnode == [vnode |-> Null, context |-> Null]
NoLock == [group |-> Null, rw |-> Null, rwGroup |-> Null]
NoThread == [thread |-> Null, context |-> Null]

Init == /\ heap = [i \in Ids |-> Nothing]
        /\ lock = [o \in Locks |-> NoLock]
        /\ vnode = [o \in Vnodes |-> NoVnode] /\ kernelContext = Null
        /\ handle = [o \in Handles |-> NoThread]
        /\ kthread = [k \in Kthreads |-> [state |-> "none", context |-> Null]]
        /\ pc = "idle" /\ about = <<>> /\ locals = <<>>

Goto(label, objects) == pc' = label /\ about' = objects

-----------------------------------------------------------------------------
(* Objects of the kernel, which counts the references to a lock group.      *)

Unreferenced(h, g) ==
    [h EXCEPT ![g] = IF h[g].refs = 1 THEN Nothing ELSE [h[g] EXCEPT !.refs = @ - 1]]

\* lck_rw_free(lock, group), unless there is no lock.
LockFreed(h, i, g) == IF i = Null THEN h ELSE Unreferenced([h EXCEPT ![i] = Nothing], g)

\* The other deleters.
Freed(h, i) == IF i = Null THEN h
               ELSE IF h[i].kind = "group" THEN Unreferenced(h, i)
               ELSE [h EXCEPT ![i] = Nothing]

\* An object of that kind at a free address, held by the next local.
Allocates(kind, link) ==
    \E i \in Ids :
        /\ heap[i] = Nothing
        /\ heap' = [j \in Ids |->
                      IF j = i THEN [kind |-> kind, refs |-> 1, link |-> link]
                      ELSE IF kind = "lock" /\ j = link THEN [heap[j] EXCEPT !.refs = @ + 1]
                      ELSE heap[j]]
        /\ locals' = Append(locals, i)

-----------------------------------------------------------------------------
(* Lock::make.                                                              *)

MakeLock(o) ==
    /\ pc = "idle" /\ lock[o] = NoLock
    /\ Goto("groupAttr", <<o>>)
    /\ UNCHANGED <<heap, lock, vnode, kernelContext, handle, kthread, locals>>

MakeStep(label, kind, link, then) ==
    /\ pc = label /\ Allocates(kind, link) /\ Goto(then, about)
    /\ UNCHANGED <<lock, vnode, kernelContext, handle, kthread>>

AllocGroupAttr == MakeStep("groupAttr", "groupAttr", Null, "group")
AllocGroup == MakeStep("group", "group", Null, "lockAttr")
AllocLockAttr == MakeStep("lockAttr", "lockAttr", Null, "lock")
AllocLock == MakeStep("lock", "lock", locals[2], "locked")

\* The group and the lock are moved into the Lock.
ReturnLock ==
    /\ pc = "locked" /\ Goto("unwind", <<>>)
    /\ lock' = [lock EXCEPT ![about[1]] =
                    [group |-> locals[2], rw |-> locals[4], rwGroup |-> locals[2]]]
    /\ locals' = [locals EXCEPT ![2] = Null, ![4] = Null]
    /\ UNCHANGED <<heap, vnode, kernelContext, handle, kthread>>

\* An allocation fails; so may those of Thread::make.
MakeFails ==
    /\ pc \in {"groupAttr", "group", "lockAttr", "lock", "context", "start", "wrap"}
    /\ Goto("unwind", <<>>)
    /\ UNCHANGED <<heap, lock, vnode, kernelContext, handle, kthread, locals>>

\* Mutant of Unwind: only the last local is freed.
UnwindLast ==
    /\ pc = "unwind" /\ locals # <<>>
    /\ heap' = Freed(heap, Last(locals)) /\ locals' = <<>>
    /\ UNCHANGED <<lock, vnode, kernelContext, handle, kthread, pc, about>>

\* The last local is destroyed.
Unwind ==
    /\ pc = "unwind" /\ locals # <<>>
    /\ heap' = Freed(heap, Last(locals)) /\ locals' = Front(locals)
    /\ UNCHANGED <<lock, vnode, kernelContext, handle, kthread, pc, about>>

Returned ==
    /\ pc = "unwind" /\ locals = <<>> /\ Goto("idle", <<>>)
    /\ UNCHANGED <<heap, lock, vnode, kernelContext, handle, kthread, locals>>

-----------------------------------------------------------------------------
(* What else happens to a Lock.  Its members are assigned in the order of   *)
(* their declarations and destroyed in the other.                           *)

MoveLock(o, p) ==
    /\ pc = "idle" /\ o # p /\ lock[o] = NoLock
    /\ lock' = [lock EXCEPT ![o] = lock[p], ![p] = NoLock]
    /\ UNCHANGED <<heap, vnode, kernelContext, handle, kthread, pc, about, locals>>

AssignGroup(o, p) ==
    /\ pc = "idle" /\ o # p /\ Goto("assign", <<o, p>>)
    /\ heap' = Freed(heap, lock[o].group)
    /\ lock' = [lock EXCEPT ![o].group = lock[p].group, ![p].group = Null]
    /\ UNCHANGED <<vnode, kernelContext, handle, kthread, locals>>

\* Mutant of AssignLock: the deleter is not assigned.
AssignLockOnly ==
    LET o == about[1]
        p == about[2]
    IN  /\ pc = "assign" /\ Goto("idle", <<>>)
        /\ heap' = LockFreed(heap, lock[o].rw, lock[o].rwGroup)
        /\ lock' = [lock EXCEPT ![o].rw = lock[p].rw, ![p] = NoLock]
        /\ UNCHANGED <<vnode, kernelContext, handle, kthread, locals>>

AssignLock ==
    LET o == about[1]
        p == about[2]
    IN  /\ pc = "assign" /\ Goto("idle", <<>>)
        /\ heap' = LockFreed(heap, lock[o].rw, lock[o].rwGroup)
        /\ lock' = [lock EXCEPT ![o].rw = lock[p].rw, ![o].rwGroup = lock[p].rwGroup,
                                ![p] = NoLock]
        /\ UNCHANGED <<vnode, kernelContext, handle, kthread, locals>>

DestroyLock(o) ==
    /\ pc = "idle" /\ Goto("destroy", <<o>>)
    /\ heap' = LockFreed(heap, lock[o].rw, lock[o].rwGroup)
    /\ lock' = [lock EXCEPT ![o].rw = Null, ![o].rwGroup = Null]
    /\ UNCHANGED <<vnode, kernelContext, handle, kthread, locals>>

DestroyGroup ==
    LET o == about[1]
    IN  /\ pc = "destroy" /\ Goto("idle", <<>>)
        /\ heap' = Freed(heap, lock[o].group)
        /\ lock' = [lock EXCEPT ![o] = NoLock]
        /\ UNCHANGED <<vnode, kernelContext, handle, kthread, locals>>

-----------------------------------------------------------------------------
(* Vnode.                                                                   *)

\* The kernel's own VFS context, from the code of a function that returns it.
Kernel == AddressFromAdrl(ContextFunction, ContextCode)

\* VnodeContext::make(): it is found once, kept, and never released.
FindsContext == Kernel # NoAddress /\ kernelContext' = Kernel

\* openWithFlags().
Open(o) ==
    /\ pc = "idle" /\ vnode[o] = NoVnode
    /\ FindsContext
    /\ \E i \in Ids :
         /\ heap[i] = Nothing
         /\ heap' = [heap EXCEPT ![i] = [kind |-> "vnode", refs |-> 1, link |-> Null]]
         /\ vnode' = [vnode EXCEPT ![o] = [vnode |-> i, context |-> kernelContext']]
    /\ UNCHANGED <<lock, handle, kthread, pc, about, locals>>

OpenFails ==
    /\ pc = "idle" /\ FindsContext
    /\ UNCHANGED <<heap, lock, vnode, handle, kthread, pc, about, locals>>

\* Construction of o, or assignment to it, which closes what it has open.
MoveVnode(o, p) ==
    /\ pc = "idle" /\ o # p
    /\ heap' = Freed(heap, vnode[o].vnode)
    /\ vnode' = [vnode EXCEPT ![o] = vnode[p], ![p] = NoVnode]
    /\ UNCHANGED <<lock, kernelContext, handle, kthread, pc, about, locals>>

\* The destructor.
Close(o) ==
    /\ pc = "idle" /\ heap' = Freed(heap, vnode[o].vnode)
    /\ vnode' = [vnode EXCEPT ![o] = NoVnode]
    /\ UNCHANGED <<lock, kernelContext, handle, kthread, pc, about, locals>>


-----------------------------------------------------------------------------
(* Thread.                                                                  *)

MakeThread(o) ==
    /\ pc = "idle" /\ handle[o] = NoThread /\ Goto("context", <<o>>)
    /\ UNCHANGED <<heap, lock, vnode, kernelContext, handle, kthread, locals>>

AllocContext == MakeStep("context", "context", Null, "start")

\* kernel_thread_start() gives the thread the address of the context.
Start(k) ==
    /\ pc = "start" /\ kthread[k].state = "none"
    /\ kthread' = [kthread EXCEPT ![k] = [state |-> "started", context |-> locals[1]]]
    /\ Goto("wrap", Append(about, k))
    /\ UNCHANGED <<heap, lock, vnode, kernelContext, handle, locals>>

\* Mutant of Wrap: the context stays with make(), which frees it.
WrapKeepsContext ==
    /\ pc = "wrap" /\ Goto("unwind", <<>>)
    /\ handle' = [handle EXCEPT ![about[1]] = [thread |-> about[2], context |-> locals[1]]]
    /\ UNCHANGED <<heap, lock, vnode, kernelContext, kthread, locals>>

\* The reference to the thread is dropped, and its address kept.
Wrap ==
    /\ pc = "wrap" /\ Goto("unwind", <<>>)
    /\ handle' = [handle EXCEPT ![about[1]] = [thread |-> about[2], context |-> locals[1]]]
    /\ locals' = <<Null>>
    /\ UNCHANGED <<heap, lock, vnode, kernelContext, kthread>>

\* thread_terminate(), which a kernel thread need not obey.  make() gave back the
\* only reference: a thread that ended is freed, and its address may be that of
\* any other.
Terminate(k) ==
    \/ UNCHANGED kthread
    \/ /\ k # Null
       /\ \E j \in Kthreads :
            /\ kthread[j].state # "none" /\ (j = k \/ kthread[k].state = "ended")
            /\ kthread' = [kthread EXCEPT ![j].state = "ended"]

\* Construction of o, or assignment to it: what it had is terminated, and then
\* its context freed.
MoveThread(o, p) ==
    /\ pc = "idle" /\ o # p /\ Goto("moveContext", <<o, p>>)
    /\ Terminate(handle[o].thread)
    /\ handle' = [handle EXCEPT ![o].thread = handle[p].thread, ![p].thread = Null]
    /\ UNCHANGED <<heap, lock, vnode, kernelContext, locals>>

MoveContext ==
    LET o == about[1]
        p == about[2]
    IN  /\ pc = "moveContext" /\ Goto("idle", <<>>)
        /\ heap' = Freed(heap, handle[o].context)
        /\ handle' = [handle EXCEPT ![o].context = handle[p].context, ![p] = NoThread]
        /\ UNCHANGED <<lock, vnode, kernelContext, kthread, locals>>

\* The destructor frees the context, and then terminates the thread.
DestroyContext(o) ==
    /\ pc = "idle" /\ Goto("terminate", <<o>>)
    /\ heap' = Freed(heap, handle[o].context)
    /\ handle' = [handle EXCEPT ![o].context = Null]
    /\ UNCHANGED <<lock, vnode, kernelContext, kthread, locals>>

DestroyThread ==
    LET o == about[1]
    IN  /\ pc = "terminate" /\ Goto("idle", <<>>)
        /\ Terminate(handle[o].thread)
        /\ handle' = [handle EXCEPT ![o] = NoThread]
        /\ UNCHANGED <<heap, lock, vnode, kernelContext, locals>>

\* continuation() reads the context and calls the entry point.
Reads(k) ==
    /\ kthread[k].state = "started"
    /\ kthread' = [kthread EXCEPT ![k].state = "runs"]
    /\ UNCHANGED <<heap, lock, vnode, kernelContext, handle, pc, about, locals>>

\* The entry point returns; the flusher's never does.
Ends(k) ==
    /\ kthread[k].state = "runs"
    /\ kthread' = [kthread EXCEPT ![k].state = "ended"]
    /\ UNCHANGED <<heap, lock, vnode, kernelContext, handle, pc, about, locals>>

-----------------------------------------------------------------------------
MakeNext == \/ AllocGroupAttr \/ AllocGroup \/ AllocLockAttr \/ AllocLock \/ ReturnLock
            \/ AllocContext \/ (\E k \in Kthreads : Start(k)) \/ Wrap
            \/ MakeFails \/ Unwind \/ Returned

LockNext == \/ \E o \in Locks : MakeLock(o) \/ DestroyLock(o)
            \/ \E o, p \in Locks : MoveLock(o, p) \/ AssignGroup(o, p)
            \/ AssignLock \/ DestroyGroup

VnodeNext == \/ \E o \in Vnodes : Open(o) \/ Close(o)
             \/ OpenFails \/ \E o, p \in Vnodes : MoveVnode(o, p)

ThreadNext == \/ \E o \in Handles : MakeThread(o) \/ DestroyContext(o)
              \/ \E o, p \in Handles : MoveThread(o, p)
              \/ MoveContext \/ DestroyThread
              \/ \E k \in Kthreads : Reads(k) \/ Ends(k)

Next == MakeNext \/ LockNext \/ VnodeNext \/ ThreadNext

Spec == Init /\ [][Next]_vars

-----------------------------------------------------------------------------
Kinds == {"groupAttr", "group", "lockAttr", "lock", "vnode", "context"}
Id == Ids \cup {Null}

TypeOK ==
    /\ heap \in [Ids -> [kind : Kinds \cup {"none"}, refs : Nat, link : Id]]
    /\ lock \in [Locks -> [group : Id, rw : Id, rwGroup : Id]]
    /\ vnode \in [Vnodes -> [vnode : Id, context : {Null, Kernel}]]
    /\ kernelContext \in {Null, Kernel}
    /\ handle \in [Handles -> [thread : Kthreads \cup {Null}, context : Id]]
    /\ kthread \in [Kthreads -> [state : {"none", "started", "runs", "ended"}, context : Id]]
    /\ locals \in Seq(Id)

\* The pointers that will free address i.
Owners(i) ==
    Cardinality({o \in Locks : lock[o].group = i}) + Cardinality({o \in Locks : lock[o].rw = i})
        + Cardinality({o \in Vnodes : vnode[o].vnode = i})
        + Cardinality({o \in Handles : handle[o].context = i})
        + Cardinality({n \in DOMAIN locals : locals[n] = i})

\* Whatever step of a make() fails, and through all moves, every object is
\* freed exactly once: it has one owner as long as it is there, but for a group
\* whose owner went first and which its lock still refers to.
OneOwner ==
    /\ TypeOK
    /\ \A i \in Ids :
        Owners(i) = IF heap[i] = Nothing THEN 0
                    ELSE IF heap[i].kind = "group" /\ pc = "assign" /\ Owners(i) = 0 THEN 0
                    ELSE 1

\* The kernel counts a group's owner and its lock, nothing else.
GroupsAreCounted ==
    \A i \in Ids : heap[i].kind = "group" =>
        heap[i].refs = Owners(i) + Cardinality({j \in Ids : heap[j].kind = "lock"
                                                            /\ heap[j].link = i})

\* A lock is freed with the group it was made in, and that is still there: the
\* deleter's pointer goes with the lock's (Lock.cpp:57, UniquePtr.hpp:49-50),
\* also when the group of the Lock was replaced first (Lock.cpp:78).
GroupOutlivesLock ==
    /\ GroupsAreCounted
    /\ \A o \in Locks : lock[o].rw # Null =>
        /\ heap[lock[o].rw].kind = "lock" /\ heap[lock[o].rw].link = lock[o].rwGroup
        /\ heap[lock[o].rwGroup].kind = "group"
        /\ lock[o].group = lock[o].rwGroup \/ pc = "assign"

\* As long as a Thread is not being moved or destroyed, the context that its
\* kernel thread was given is there to be read (Thread.cpp:25-30), and a Vnode
\* that is open has the context to close it with (Vnode.cpp:165).
HandleKeepsContext ==
    /\ pc \notin {"moveContext", "terminate"} =>
           \A o \in Handles : handle[o].thread # Null =>
               /\ handle[o].context = kthread[handle[o].thread].context
               /\ heap[handle[o].context].kind = "context"
    /\ \A o \in Vnodes : vnode[o].vnode # Null => vnode[o].context = kernelContext

\* Before the kernel's context is found, code leads to what the processor
\* computes from it exactly if its second instruction is of the expected width;
\* once it is found, it is what the kernel's function returns exactly if that
\* ends in an add without a shift (VnodeContext.cpp:27-41, Address.cpp:22-80).
ContextIsTarget ==
    /\ kernelContext = Null => FindsTarget
    /\ kernelContext # Null =>
           (kernelContext = Target(ContextFunction, ContextCode[1], ContextCode[2])
                <=> ContextCode[2].op = "add64" \/ ContextCode[2].imm12 = 0)
=============================================================================
