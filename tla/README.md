# mikMac: models and proofs

TLA+ models of the concurrent and stateful parts of mikMac: `dstd`, a small
standard library for macOS kernel extensions (`src/dstd`), the extension
`ProcessCreationPreventor`, a tool that prints addresses, and a kext of unit
tests. Paths below are relative to the repository; file names without a path
are unique in it.

## 1. The system

| Part | State | Operations | Who calls it |
|---|---|---|---|
| `FileLogger` (Files/FileLogger.cpp) | open file, `m_writeOffset`, `m_unloggedMessages`, `m_lock` | `make`, `log`, `flushUnlogged`, destructor | every thread, by `LOG` and the check macros; the flusher |
| `FileLoggerFlusher` | a `Thread` that never ends | `make`, `threadEntry` (flush, sleep one second) | created once |
| `LOG`, `GENERIC_CHECK`, `CHECK_RESULT` (Logger.hpp, Checkers.hpp) | none | print, then `Singleton<FileLogger>::get()->log` | everything in dstd, **FileLogger and Vnode included** |
| `Vnode`, `File`, `VnodeContext` | a vnode reference, the kernel's context | `open`, `read`, `write`, `close`, moves; the context is found by `Address` | FileLogger |
| `Lock`, `Locker<T>`, its guards | lock group, rw-lock; an object and its lock; the Locker a guard refers to | make, lock and unlock, shared and exclusive; guards moved, assigned, dropped; Lockers moved | FileLogger; any thread |
| `Singleton<T>`, `SingletonGuard` | a static `Optional<T>*` | `make`, `get`, guard moved and dropped | any thread |
| `Optional<T>`, `Result<T>` | an object and a flag, an error | construct, reset, move | everywhere |
| `Map` | slots, size, capacity | `insert` (with rehash), `find`, `remove`, `clear`, iterate, move | one thread |
| `Vector`, `Set`, `Array`, `RawBuffer` | buffers | growth, append, resize, copy, move | one thread |
| `SharedPtr`, `UniquePtr`, `String` | counted or owned pointers; shared characters | copy, move, `c_str()` with copy on write | any thread |
| `Thread` | kernel thread, context | `make`, destructor | FileLoggerFlusher |
| `KauthCallback`, ProcessCreationPreventor | a kernel listener and the data it is given | start, stop, the callback | the kernel, on any thread |
| `Address` | none | the address an adrp and its second instruction compute | VnodeContext, addressPrinter |
| addressPrinter | none | clears one flag of the kernel | its start |
| `Tuple`, type traits | none | compile time | everywhere |
| tests kext | none | unit tests | its start |

The parts meet in five places. `LOG` hides a call from every failing check into
the singleton logger, so the logger calls itself. The logger holds its lock over
`Vnode::write`. `Singleton` hands out addresses whose life only a guard decides.
The kernel runs a callback with a pointer that `KauthCallback` owns, while start
and stop go on. A kernel thread reads a context that its `Thread` owns.

What is hard, part by part, and what makes each part correct:

- **FileLogger.** A write may fail after some bytes; lines that could not be
  written wait, in order, and are retried by two kinds of actor; memory may be
  short between any two steps; the machine may stop between a write and the
  update of the offset. Correct: acknowledged bytes are whole lines and stay
  where they are; a thread's lines keep their order; each line is written at
  most once; no line vanishes without a trace; calls return; what waits is
  written once it can be.
- **Singleton.** Nothing is locked. Correct: one guard, and while it is held the
  object is there for everyone who gets it; without guards nothing is left.
- **Map.** Tombstones, wrap-around, and a rehash that moves entries one by one
  and may fail. Correct: it is a finite function; every entry can be found; the
  size is right; a rehash loses nothing; an iterator visits what stays there.
- **Vector, Set, Array.** Objects live in raw buffers that are freed without
  destructors; growth moves them; allocation and an element's `make` may fail.
  Correct: they are sequences (a Set without repetition); each object
  constructed is destroyed once; a buffer has one owner through every move.
- **RawBuffer, Optional.** A buffer that an `append` may grow, shrink or leave,
  arithmetic that may overflow, and objects that are moved from but never
  destroyed. Correct: no byte is lost while there is room for it; an Optional is
  a container of one element.
- **Locker and its guards.** Two threads, exclusive and shared guards that may
  be moved and assigned over, and a kernel lock that knows nothing of guards.
  Correct: a writer is alone; what is locked is unlocked once; no update is lost
  and no reader sees half of one; who asks is granted.
- **String, SharedPtr.** Copies share a buffer across threads, and the first
  write detaches it, which may fail. Correct: Strings behave as if each had its
  own text; a buffer is freed once, when the last String lets go of it.
- **Lock, Vnode, Thread.** Owners of kernel objects, made in several steps that
  may fail, moved member by member. Correct: one owner for each object, a group
  that outlives its lock, a context that outlives its reader.
- **Address.** Two's complement in two fields, added modulo 2^64. Correct: it
  finds where the processor would go.
- **KauthCallback and its String.** Registration happens before start is over, and
  four steps of start may fail; the callback's `c_str()` may write to a string
  several threads read. Correct: the listener always has an owner; a callback
  reads a live string; callbacks do not write to what they share.

## 2. Modules

| Module | Models | Extends |
|---|---|---|
| `LogPromise` | abstract: lines accepted, waiting, written | |
| `FileLogger` | FileLogger.cpp, the flusher's loop, Vnode read and write, the lock, `LOG` | |
| `FileLoggerProofs` | theorems about `FileLogger` | `FileLogger`, `TLAPS` |
| `Singleton` | Singleton.hpp over Optional.hpp | |
| `SingletonProofs` | theorems about `Singleton` | `Singleton`, `TLAPS` |
| `Dictionary` | abstract: a finite function with results | |
| `Map` | Map.hpp | |
| `MapProofs` | theorems about `Map` | `Map`, `TLAPS` |
| `Lists` | abstract: finite sequences with results | |
| `Arrays` | Vector.hpp, Set.hpp, Array.hpp, RawBuffer.cpp, Optional.hpp | |
| `ArraysProofs` | theorems about `Arrays` | `Arrays`, `TLAPS` |
| `Locker` | Locker.hpp over the kernel's rw-lock | |
| `LockerProofs` | theorems about `Locker` | `Locker`, `TLAPS` |
| `Texts` | abstract: independent texts | |
| `Strings` | String.cpp, SharedPtr.hpp | |
| `StringsProofs` | theorems about `Strings` | `Strings`, `TLAPS` |
| `Address` | Address.cpp, as functions | |
| `Handles` | Lock.cpp, Vnode.cpp and VnodeContext.cpp, Thread.cpp, over UniquePtr.hpp | `Address` |
| `HandlesProofs` | theorems about `Handles` and `Address` | `Handles`, `TLAPS` |
| `ExecutionPreventor` | the preventor's start, stop and callback, KauthCallback, SharedPtr, copy on write | |
| `ExecutionPreventorProofs` | theorems about `ExecutionPreventor` | `ExecutionPreventor`, `TLAPS` |
| `MC...` | instances for TLC | the module they are named after |

`FileLogger` implements `LogPromise`, `Map` implements `Dictionary`, `Arrays`
implements `Lists` and `Strings` implements `Texts`: each has an
`INSTANCE Promise` with its refinement mapping and the property
`KeepsPromise == Promise!Spec`.

### FileLogger

Each caller of `log()` is a thread of `Threads`; `Flusher` runs `threadEntry`.
`pc` says where an actor is:

| pc | code |
|---|---|
| `idle` | outside of any call |
| `acquire` | at `m_lock.lockExclusive()` |
| `locked` | holds the lock; `log` copies the queue and its line (`Collect`), `flushUnlogged` takes the queue (`Take`) or finds none (`FlushNothing`) |
| `build` | in the loop of `buildBufferFromLines`, one step per line, then `Vnode::write` |
| `commit` | the write returned; `m_writeOffset` is next |
| `failed` | `tryWriteLines` failed; lines go (back) to the queue |
| `print` | unlocked, before `printf` |
| `relock` | waits for a lock that the same thread holds: LOG was reached under `m_lock` |

Bytes are pairs of a line and a position, so a torn or misplaced byte is
visible. A failing write may have written any prefix. `Panic` leaves any prefix
of the file, for vn_rdwr is called without IO_SYNC: acknowledged bytes are
promised to stay until then only. `base`, `sealed`, `acked`, `printed` and `done`
are ghosts that no guard reads.
`RoutesToSelf` says that LOG finds this very logger, as it does for the
singleton; with FALSE it is a logger of its own that LOG does not reach.
The spare capacity of the queue's Vector is left out: any `push_back` may find
no memory when memory can be short at all. The text and time stamps of lines
are lengths only; a line that does not fit `k_logLineCapacity` is discarded as
in the code, and `NoLineWithoutTrace` does not speak of it. Moving a FileLogger is
not modelled: only `Singleton::make` does it, before anyone can log. Neither is
what `log()` does before it locks: it formats its line with `m_driverId.c_str()`
(FileLogger.cpp:187), which is not the const one and may detach a String that
all threads share; `ExecutionPreventor` shows that race where it has an end.

### Singleton

A step is one access to memory that threads share. The two writes of `emplace`
and of `reset` become visible to other threads in either order, for nothing
orders them. `op` remembers which of the four calls the thread is in, since all
of them begin with `storage()`. `mine` is the object a thread makes, drops or
was given; objects are numbered by the `make` that built them. `MayCall` and
`MayOwn` say what callers do, and the code does not check it: the first call of
all has left `storage()` before another begins, and `make` and the guard are
used by one thread at a time. `get()` overlaps everything. Nothing keeps the
object alive for a caller of `get()`: who has its address goes on using it after
the guard has dropped it, in the model as in the code, and no property excludes
that. `new Optional` in `storage()` always succeeds here; the code does not look
at its result.

### Map

The rehash loop is one step per slot, so that a failure or a nested rehash in
the middle would show; every other call is a step. `Hash` is any function from
keys to numbers. `Reinsert` has no branch for a nested rehash or a full new
table and `Place` none for "Map is full": the invariants `RehashNeverNests` and
`InsertFindsSlot` show that neither branch can be reached. `Contents` joins the
old and the new table during a rehash, which makes every step of the loop a
stutter of `Dictionary`. `clear()` leaves all slots empty because the destructor
of `MapEntry` stores `Empty`. `InsertElement` is `insert(k, *find(j))`: when the
table must grow, the value refers into the buffer that the rehash frees, and
`Lost` is inserted. A key that refers into the map needs no action of its own: a
rehash leaves any key of it, and the key of an insert is any key. For the same
reason the refinement does not tell an insert of a key from one of another:
`Dictionary` is told what was done and not what was asked.

### Arrays

`heap` holds the cells of every buffer: a value, or `Raw` where no object is
constructed. `obj` is an object's `m_buffer`, `m_size` and `m_capacity`; an
Array has size `ArraySize` while `m_active` and 0 afterwards, which is what its
destructor goes by; its `size()` is the constant all the same, and so is the
length of `Contents`, with `Lost` for each element. `alive` counts constructors
less destructors, so that an object that is freed without its destructor, or
destroyed twice, shows. A call is one step, for its loops have no exit but their
end: what can fail in a call (allocation, `T::make` of an element of an Array)
fails before it has changed the object. `PushAlias` is `push_back(vector[i])`:
when the vector must grow, the argument refers into the buffer that was freed
and `Lost` is pushed. `MakeArrayOfRvalue` is `make(args)` that forwards one
rvalue to every element. `Hollow` is what was moved from and does not know it:
an Array, and a RawBuffer whose implicit move left `m_size` and `m_used`
(`MoveRaw`). `fill()` of such an Array, and `append()` to or of such a RawBuffer
unless it gets a new buffer first, access a null pointer; `Panics` says that
this ends everything, and `Lists` allows it for a hollow object only.

A RawBuffer on its own has `m_used` as its size and `m_size` as its capacity.
`Fitted` is `resizeIfNeeded`: `append` may also shrink. Sums and products are
taken modulo `SizeMax + 1`. A buffer that shrinks under `append` loses what was
written behind `m_used`: `BytesSurvive` names this as one of four ways in which
bytes go, and says that there is no fifth.

An Optional is a buffer of one cell that nobody allocates. Its move leaves the
object it moved from without destroying it: that husk is the one exception in
`ObjectsAreElements`.

### Locker

`guard` is `m_locker` of each guard, `rw` the kernel's lock: `want` once a
writer claims it, and the count of readers inside. A thread in a constructor is
at `exclusive` or `shared` until the kernel grants the lock; a writer is at
`claimed` while it waits for readers to leave. `Move` is move construction and
move assignment in one, as unlocking nothing changes nothing. The object under
a Locker is the `Counter` of the repository's tests, updated field by field
(`WriteFirst`, `WriteSecond`), so that a lost or a half update shows; `updates`
is a ghost that counts them. Two things the code does not enforce are conditions
on its users: Lockers are asked for in one order (`MayAsk`), and a Locker is
moved only while no guard refers to it (`MoveLocker`).

### Strings

A thread uses the Strings it owns and may hand one over (`Hand`); their buffers
are shared with Strings of other threads. Every access to a shared counter is a
step, so that two threads may detach or let go of one buffer at once. A `call`
holds where a thread is and what its local variables hold: `release` decrements
the counter, `delete` frees the block, and `copy`, `take`, `drop` or `install`
is what the call does next with `m_data`. `c_str()` ignores a failed detach:
`unsure` marks a write that then reaches other Strings, which `Texts` allows for
Strings of the same text only. `operator+` measures its texts, measures and
copies the first, and measures the first again and copies the second, in three
steps (`BeginJoin`, `CopyFirst`, `Join`): a write that reaches one of them in
between is a write behind a failed copy by another thread, since anyone else
would have detached. `shaken` is a ghost that says in whose `operator+` that
happened; such a call may write behind the buffer it allocated, goes `Astray`,
and then nothing more is said of anything. `Equal`, `EqualRaw` and `Strstr` are
the comparisons, as functions of buffers. Conditions on users: nobody copies a
String that was moved from, and a pointer from `c_str()` is written through in
the call that got it only.

### Handles and Address

`heap` is what the kernel has at each address, with the references it counts to
a lock group. `locals` are the UniquePtrs of the `make` under way, in the order
of their declarations; `Unwind` destroys the last one, after a failure and after
success alike. `Lock::operator=` assigns `m_group` before `m_lock`, so it is two
steps (`AssignGroup`, `AssignLock`) with the old group freed first; destruction
goes the other way. The deleter of `m_lock` carries the group, and moves with
it. `Thread` has a thread and a context, which its assignment treats one after
the other; `kthread` is what the kernel runs: it reads its context some time
after `Start`, and `thread_terminate` may come too late. The kernel's own thread
object is not in the heap: `Thread::make` gives back the one reference it has
(Thread.cpp:49), so `thread_terminate` may be given a thread that is gone, or
another one at its address, which `Terminate` allows and no property speaks of.
ThreadResource, which `Thread::make` allocates, is declared nowhere in the
repository; it is taken for what holds the thread.

`VnodeContext::make` finds the kernel's context by decoding the first
instructions of `vfs_context_kernel`: `Handles` extends `Address` for that, and
`kernelContext` is what was found. `Address` takes instructions as records of
their fields and has the widths as constants; the authentication bits that are
stripped from a pointer are left out. `Target` is what the processor computes: an
access scales its offset by its width, a shifted add by a page (`Scale`). The
masks of the code let through accesses of any width and the shifted add, and
`FindsTarget` says that for these, and for these only, the code finds a wrong
address, unless the offset is zero.

### ExecutionPreventor

`kext` is where start or stop is, with one step for every operation that can
fail or that callbacks can fall between. `strings` are the heap Strings given to
the kernel, `blocks` the character blocks Strings share, with their counters.
`KauthCallback::make` passes its argument to `UniquePtr::make` by name, so the
String is copied and its block is used twice until `startImp` returns. A
callback copies the block when it sees that (`Copy`, `ResetOld`, `Install`).
From a deleted block a counter or a comparison gives any result; a callback
whose String itself is deleted goes `astray` and is not followed.

An index of `blocks` is the life of a block, not its address: `NewBlock` may
have got the memory of a block deleted before. So a `reset()` of a pointer to a
deleted block decrements what is there now, the dead counter or that of any
later block that lives (`AtAddress`), and may delete that a second time or under
its users. Two callbacks that race in start can do this: both have found the
count above one, one resets the String's pointer, and the other resets it again
before the first has moved its copy there. `startImp` may then drop a reference
to a block that is gone, and the damage stays for callbacks and restarts to
come. `damaged` is a ghost that says that something deleted was counted down,
copied or written, `raced` that a callback used a pointer another was replacing.
`SettledOnlyReads` is about runs without damage, and `DamageHasCause` says that
damage has one of two causes: such a race, or a callback whose String was
deleted under it. The code nulls a pointer after the reset that deletes; the
model lets a second `reset()` in that window find the old one, which is one
outcome of the race. The two pointers of a SharedPtr are written in one step: a
finer grain changes only callbacks that race in start. Callbacks for other
actions than execution return before they touch anything, so they are left out,
as are their credentials and the handling of `error`.

## 3. Runs

| Run | Shows | Bounds |
|---|---|---|
| `logger_faults` | `TypeOK`, `SealedInPlace`, `WholeLines`, `PerThreadOrder`, `NoLineWithoutTrace`, `KeepsPromise` with failing and short writes and want of memory anywhere | 2 threads of 2 lines and the flusher; queue of 2; lengths 1 and 2 |
| `logger_limit` | `TornTailIsExplained`, `WaitingIsKept`, `CallsReturn` with write errors that may never end, `WaitingIsWritten` if they do, LOG routed to the same logger | 2 threads of 2 lines; queue of 1, so that it is full; length 2 |
| `logger_restart` | `SealedInPlace` over unload and panic at any step | 2 ends; lengths 1 to 3, where 3 is too long; chunk of 2, so that the file's length is 0, a multiple of it, or not |
| `logger_incomplete_write` | finding: `NoSelfDeadlock` fails | 2 threads of 1 line |
| `singleton_overlaps` | `GuardMeansObject` (with `SecondMakeFails`), `NoLeak` from unused storage, with `get()` at any time | 3 threads, 2 of which make; 3 calls of `make`; 2 Optionals |
| `singleton_get_races_drop` | finding: `ValueIsPresent` fails | one maker, one getter |
| `map_collisions` | `TableIsSound` (`EntriesReachable`, `SizeIsCount`), `IterationVisitsOnce`, `InsertSucceeds` (`InsertFindsSlot`, `RehashNeverNests`), `KeepsPromise` | 3 keys that collide at the end of a table of 4, tables of 1 to 8 slots, one value and what is lost of one |
| `arrays_lifetimes` | `ObjectsAreElements`, `BuffersHaveOneOwner`, `AddressesStay`, `BytesSurvive`, `KeepsPromise` | two of each kind, 2 objects of one kind at a time; 2 values; sizes up to 3, so capacities 0, 1, 2 and 4 by doubling and all up to 3 by reserve; buffers of up to 4 bytes, two of at most 4 cells together; `SIZE_MAX` of 4 |
| `strings_sharing` | `CountsAreReferences`, `ReadsAsText` (`ComparesTexts`, `FindsFirst`), `ConcatenationJoins`, `KeepsPromise` | 2 threads, 3 Strings, 4 blocks; one char and Nul, capacity up to 2 |
| `handles_ownership` | `OneOwner`, `GroupOutlivesLock` (with `GroupsAreCounted`), `HandleKeepsContext`, and `ContextIsTarget` for every pair of instructions | 2 Locks, 2 Vnodes, 2 Threads, 2 kernel threads, 6 addresses; pages of 4, immhi of 1 bit, 64 addresses |
| `locker_guards` | `TypeOK`, `Exclusion`, `LockMatchesGuards`, `UpdatesKept` (`ObjectCounts`, `ReadsWhole`), `RequestsGranted` | 2 threads with 2 exclusive and 2 shared guards each, 2 Lockers, 2 updates of an object |
| `preventor_callbacks` | `TypeOK`, `ListenerIsOwned`, `SettledOnlyReads` (`SettledReadsLive`, `SettledNeverCopies`), `DamageHasCause` | 2 callbacks at once, 4 blocks: two detached copies and a second start |

A property in parentheses is a part of the one before it: a run checks the
conjunction. `TypeOK` is such a part of `GuardMeansObject`, `TableIsSound`,
`BuffersHaveOneOwner`, `CountsAreReferences` and `OneOwner`, because in those
modules the shape of the state and the property say one thing together (a table
as long as its capacity, a buffer as long as its owner thinks).

Why the bounds are enough. Interference in the logger is between one call that
failed, one that comes behind it, and the flusher that retries; two threads of
two lines and the flusher have all of these, and a queue of two tells order from
loss. In the map three keys with two homes at the end of a table of four give
every shape of a probe chain: home, displaced, wrapped, through a tombstone, to
a reused tombstone. One to eight slots contain each edge of the load formula
(capacity 0, 1, 2, 4, 8). For the arrays two objects at a time suffice, since a
move involves two and nothing else more than one; kinds share no state, so
objects at a time are of one kind. With sizes modulo 5 the sums of `append`
overflow, and so does the doubling of a buffer of 3 (to 1), and a buffer of 4
shrinks to 1 with a byte in it. Three Strings let two threads share a buffer while
one thread assigns over its own; the fourth block is a detached copy beside
three others. Two Locks of two objects each, and the four locals of a `make`,
need the six addresses. In widths of 2 bits every combination of sign, page
offset, carry and wrap-around of `Address` occurs. Two guards of a kind let a
guard be assigned over while it holds another Locker, and two Lockers are the
least that can be asked for in the wrong order. In the preventor two callbacks
are the least that race, and after them a block is left for a restart.

Deadlock is checked except in two runs. In the preventor's the bound on blocks
(`MaxBlocks`) and callbacks that went astray stop the model; in that of Strings
nothing follows a write behind a buffer. Symmetry among
threads, callbacks, objects, buffers or addresses is used in runs without
liveness properties only.

**Fairness.** `FairCalls` has weak fairness for each actor that is in a call
(the kernel schedules runnable threads, `delay(hz)` ends) and strong fairness
for `Acquire` (a sleeping rw-lock that is released again and again is granted).
No thread has to call `log()`, and no write has to succeed: `CallsReturn` holds
with a disk that fails for ever. `DiskRecovers`, strong fairness of `WriteAll`,
is a hypothesis of `WaitingIsWritten` alone.
In `Locker`, threads run on (weak fairness of `Continue` and of a writer whose
readers are gone), the kernel starves nobody who waits (strong fairness of
`Claim` and `GrantShared`), and whoever holds a lock comes to drop the guard
that has it by then (`Leave`). The last is what RAII users do: a guard is a
local variable. Nobody has to ask, update or read.

## 4. Findings

1. **A short write deadlocks the logger** (`logger_incomplete_write`). The check
   at Vnode.cpp:155 calls LOG, LOG gets the singleton logger, and its `log()`
   asks for the exclusive lock that its caller holds. The trace is: log, lock,
   build, short write. A failed allocation under the lock does the same. A
   plain error of vn_rdwr does not, for it is returned without LOG.
2. **get() may return a destroyed object** (`singleton_get_races_drop`). The
   guard may be dropped between `hasValue()` and `value()`, against the
   assertion in `Optional::value()`.

Seen while modelling, without a run of its own:

- Paths with "evil" anywhere are denied (`String::strstr`), where Example.cpp:51
  and Example.hpp:15 say "ends with".
- `addressFromAdrp` accepts second instructions of any width (the mask of
  Address.cpp:55) and scales their offset by 4, where the message says "not
  32-bit LDR"; `addressFromAdrl` accepts an add with a shifted immediate (72).
  `FindsTarget` says that both find a wrong address for these.
- When the wrapper of a thread cannot be allocated, `Thread::make` frees the
  context under the kernel thread that was started (Thread.cpp:51). Destruction
  frees the context before it terminates the thread.
- A String that cannot be detached for want of memory is written where it is,
  and every String that shares its buffer changes (String.cpp:91). If one of
  these is being concatenated by another thread meanwhile, `operator+` may copy
  more than it allocated (String.cpp:80-83).
- An Array that was moved from has a `size()` and no elements (Array.hpp:209).
  `append()` to a RawBuffer that is less than half used cuts off bytes that were
  written behind `m_used` (RawBuffer.cpp:85).
- `push_back(v[i])`, `insert(k, *find(j))`, `append` of a view of the buffer
  itself, `emplace(o.value())` read an argument that the call has freed; a second
  element of `Array::make(move(x))` gets what the first left of `x`. Tests and
  docs claim nothing else, so `Lists` and `Dictionary` allow exactly that loss.
- Two `make()` of a singleton at once can both succeed, and a first `get()`
  during the first `make()` can replace the storage.
- Two callbacks that run before `startImp` returns can delete each other's
  detached copy, and the block `startImp` still refers to, which it then counts
  down, and may delete, a second time; stop frees the callback's data before it
  unlistens; the deleter of the listener does not free the cell that
  `UniquePtr::make` allocated for it; start succeeds when `new Context` failed.

## 5. Proofs

Every invariant, action property and refinement that a passing run checks is
proved, for every value of the constants that satisfies the named ASSUMEs of the
modules, and so is `FindsTarget` for every width of the fields. Each of the eight
proof modules goes the same way: a strengthening `IInv` of the properties;
`Init => IInv`; one lemma for each action, or for each action and conjunct, with
`IInv'` as its goal; and the properties from `IInv`, or, for an action property
and a refinement, from `IInv` and a step. The long modules begin with the lemmas
about their operators.

Library operators defined by recursion over a CHOOSE (`FlattenSeq`,
`SumFunction`) say nothing until some function satisfies the recursion. Their
lemmas (`JoinExists` and `JoinsAgree`, `SumsExist` and `SumsAgree`) prove that one
does, and that it does not matter which: a least counterexample
(`LeastNumber`, `SmallestSet`) takes the place of induction.

### FileLoggerProofs

For every set of threads, every bound, every set of faults, and with `LOG`
routed to the logger or not.

| Theorem | States |
|---|---|
| `TypeCorrect` | `[]TypeOK` |
| `AcknowledgedBytesStay` | `[]SealedInPlace` |
| `OnlyWholeLines` | `[]WholeLines` |
| `ThreadsStayInOrder` | `[]PerThreadOrder` |
| `LinesLeaveATrace` | `[]NoLineWithoutTrace` |
| `TornTailsAreExplained` | `[]TornTailIsExplained` |
| `NothingWaitingIsLost` | `WaitingIsKept` |
| `LoggerKeepsPromise` | `KeepsPromise`, the refinement of `LogPromise` |

`Invariant` is about bytes: `IInv == CallsInv /\ FileInv`, where `CallsInv` says
who is in a call and that the actor between lock and unlock is the owner, and
`FileInv` that the offset is within the file, that at `commit` the buffer lies
right behind it, and `SealedInPlace`. `SealedInPlace` alone is not inductive:
`Commit` lengthens `sealed` by the buffer, so the buffer must have been written
at the offset and stayed there; the latter needs mutual exclusion, and that
Unload and Panic forget the file's history only when no actor is at `commit`.

`LinesInvariant` is about lines. To `IInv` it adds

- `WorkInv`: what an actor builds is the bytes of the lines it took, and these
  are what waits (and, for a thread, its own line behind them);
- `OrderInv`: lines in the file or waiting belong to calls made, in the order of
  the calls of each thread, no more waiting than allowed;
- `TraceInv`: a waiting line was printed, or its thread is at `print`; a line of
  a finished call was printed or is in the file;
- `WholeLines`, for which `WorkInv` is needed at `Commit`;
- `TailIsPending`: while no line was given up and nobody waits for its own lock,
  no more bytes lie behind the offset than what is to be written next has. This
  holds at rest and in the middle of a write, and survives a failing write, which
  may leave any prefix, and the next one over it.

The refinement is a case for each action: a thread's commit is `WriteLine`, the
flusher's `WriteWaiting`, `KeepLine` is `Keep`, a requeue that finds no memory is
`Forget`, Unload and Panic are `Restart`, all others stutter.
Assumed: distinct actors, natural bounds (`ActorsAreDistinct`,
`BoundsAreNatural`, `RoutesIsBoolean`).

### SingletonProofs

`GuardMeansObjectAlways` and `NothingLeaks`, for any number of threads, makers
and calls. `IInv == TypeOK /\ StorageInv /\ CallInv /\ ObjectInv`: once there is
storage there is one Optional and everybody's reference is to it; at each label
of a call which of the four calls it is, and that one thread at a time makes or
drops; and, per label of the one that does, what of its object is visible
already (`Placed`) or still (`Left`). The properties say nothing of a call under
way, and a step of `emplace` or `reset` cannot be judged without it.

### MapProofs

For any hash function, any keys and values, any capacities.

| Theorem | States |
|---|---|
| `TableAlwaysSound` | `[]TableIsSound` |
| `InsertAlwaysSucceeds` | `[]InsertSucceeds` |
| `IterationAlwaysVisitsOnce` | `[]IterationVisitsOnce` |
| `MapIsDictionary` | `KeepsPromise`, the refinement of `Dictionary` |

`IInv == TypeOK /\ OneTable /\ TwoTables /\ Inserting /\ Iterating`. In the
middle of `rehash` an entry is in one of two tables, the old one is no longer
sound (its chains are cut), and the new one must have room for what is left:
`TwoTables` counts both. `Inserting` carries the free slot from the load check
to the probe. Lemmas say what the minima over probe sequences find (`find`'s
slot is the key's, the first stop of `insert` is free or the key's, putting an
entry there or a tombstone elsewhere leaves every other entry reachable), that
the rounding of `normalizeCapacity` meets a power of two, and that a table below
its load bound has a free slot.

### ArraysProofs

For any set of Vectors, Sets, Arrays, RawBuffers and Optionals of any size.

| Theorem | States |
|---|---|
| `ElementsAreObjects` | `[]ObjectsAreElements` |
| `OwnersAreUnique` | `[]BuffersHaveOneOwner` |
| `AddressesAreStable` | `AddressesStay` |
| `BytesAreKept` | `BytesSurvive` |
| `ContainersAreLists` | `KeepsPromise`, the refinement of `Lists` |

`IInv == Types /\ Fits /\ Owners /\ Counted`: each record fits its buffer (as
long as its capacity, the first `size` cells filled and no others, save in an
Optional that was moved from), a buffer has one owner, and the count of objects
alive is the sum of the sizes. The operations share what happens to a heap, so
the lemmas do too: a record replaced or written in place (`ReplaceInv`,
`WritesInv`), a buffer freed, a record taken over, everything lost in a panic.
For each action one lemma shows `Works`: `IInv'`, `Steady` (addresses and bytes)
and the step of `Lists` that it is; the mapping is `contents`.

### LockerProofs

`TypesHold`, `GuardsExclude` (`Exclusion`), `GuardsAccountForLocks`
(`LockMatchesGuards`) and `NoUpdateIsLost` (`UpdatesKept`), for every set of
threads, of Lockers and of guards, and any number of updates.

`Exclusion` alone is not inductive: that a reader is let in only when there is
no writer must be known from the kernel's lock, which knows of guards only
through `LockMatchesGuards`; and a writer that has claimed the lock and waits
for the last reader is no holder yet, but keeps others out. So the invariant
`LockInv` has `OneWriter`, about guards that hold *or claim*, `WriterAlone`,
about holders, `AtGuards`, which says that a thread is busy with a guard of its
own, and `LockMatchesGuards`. `Move` is the delicate step: the count of readers
after it is found by cases on which of the two guards were in the set. `IInv`
adds `ObjectCounts` and `SeenIsThere`: between two steps of a thread that uses
the object nobody changes what it has read. `LockMatchesGuards` counts a set,
so the threads and the shared guards are assumed finite (`ThreadsFinite`,
`GuardsFinite`); fairness and the order of asking (`MayAsk`) are not used.

### StringsProofs

For any number of threads, Strings and blocks, any characters and capacity.

| Theorem | States |
|---|---|
| `BlocksLiveAsLongAsUsed` | `[]CountsAreReferences` |
| `AnswersDependOnText` | `[]ReadsAsText` |
| `TextsAreJoined` | `ConcatenationJoins` |
| `StringsAreTexts` | `KeepsPromise`, the refinement of `Texts` |

`IInv == Types /\ CallsAreOwn /\ Counted /\ DeletersAlone /\ DeadAreDeleted /\
SureIsUnique`. Between `--count` and `delete` a block has no reference and a
thread that will free it: it is no longer counted for that thread, and it is
that thread's alone, which `DeletersAlone` and `DeadAreDeleted` say.
`SureIsUnique` is why copy on write is safe: a thread that has seen a count of
one is the only one that could raise it. `JoinsKnow` rests on it as well, and
`TextsAreJoined` on that: no write changes a text that another thread has
measured in `operator+`, unless it is behind a failed copy, so what it allocated
is enough. The refinement rests on it, too: a write changes the text of one
String, or, when detaching found no memory, of all that share the buffer, which
`Texts` allows. References are counted, so `Names` and `Threads` are assumed
finite (`FinitelyMany`).

### HandlesProofs

For any number of Locks, Vnodes, Threads and addresses.

| Theorem | States |
|---|---|
| `AddressesFound` | `FindsTarget`, for all widths that satisfy `SizesFit` |
| `EveryObjectHasOneOwner` | `[]OneOwner` |
| `GroupsOutliveTheirLocks` | `[]GroupOutlivesLock` |
| `ContextsAreKept` | `[]HandleKeepsContext` |
| `KernelContextIsTarget` | `[]ContextIsTarget` |

An owner is a member of an object or a local of the call under way. `ObjectsOwned`
says for each kernel object which of them own it and how many references it
has; `PointersFit` and `PointersDiffer` are the converse, that a pointer leads to
an object of its kind and no two lead to the same one. Moves and destructors go
member by member, so `LocksWhole` and `ContextsKept` name the label at which a
Lock has the group of another, or a Thread no context. `FindsTarget` is
arithmetic: the two's complement of `immhi:immlo` and the processor's sum agree
modulo the size of the address space, because pages divide it; and the offsets of
the other instructions differ from what the code adds by less than an address
space, so the sums differ unless the offset is zero.

### ExecutionPreventorProofs

`TypesHold`, `ListenerAlwaysOwned` (`ListenerIsOwned`),
`SettledCallbacksOnlyRead` (`SettledOnlyReads`) and `DamageNeedsARace`
(`DamageHasCause`), for every set of callback threads, every set of faults and
every bound. `OwnerInv` says at each label of start and stop whether a listener
exists, which String it was given (always the newest), and whether that String
lives. For the settled callbacks `SettledInv` is needed, which like the property
holds until there is damage: that a live String is the newest, that the copies
callbacks make are their own, and that the newest String's block, which may be
any of the copies that were made while start ran, is used once (twice while
start still holds it) whenever nobody is about to install another. So a settled
callback finds a count of one and does not copy. `DamageHasCause` needs to know
that the count of the block `startImp` refers to is right at every label of
start (`SubUsed`): one, or two while a String shares it. `CauseInv` says that
this and `~damaged` hold until there is a cause; it rests on `SettledInv`, for a
reset finds its block alive because the newest String's block is counted.

### Only model-checked

Liveness: `CallsReturn`, `WaitingIsWritten` and `RequestsGranted` need fairness
and ENABLED, which the proof system does not reason about. The two findings are
counterexamples that TLC shows.

## 6. Not modelled, and the plan

Order of work: the logger first, since all of dstd calls it, then the singleton
that hands it out, the map, the callback, the arrays; then lockers, strings,
owners of kernel objects and addresses; then the proofs in the same order. What
is left of the plan: mutual exclusion of the logger as a theorem of its own (it
is a conjunct of `CallsInv`), `NoSelfDeadlock` when LOG does not reach the logger,
`Result`, and shorter proofs of the longest steps.

Left out:

- `Result` is an Optional and an error code: what fails is a step of its own in
  every module, and its moves are those of Optional.
- `Tuple` and the type traits exist at compile time only.
- addressPrinter writes one flag at an address that `Address` finds.
- The tests kext is read for what it claims; the framework is not modelled.
- Of `LOG`: formatting, and the print to the kernel's log. Of `Vnode`: `path()`,
  which fills a String. A `VnodeContext` made from another one, `release()` of
  UniquePtr and `KauthCallback<void>` have no caller.
- Iterators of arrays are pointers into `Elements`; `AddressesStay` says how
  long they are good.
