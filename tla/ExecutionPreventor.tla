------------------------- MODULE ExecutionPreventor -------------------------
(***************************************************************************)
(* The kext ProcessCreationPreventor: start registers a kauth callback     *)
(* (dstd/KauthCallbacks/KauthCallback.hpp) with a heap copy of the string  *)
(* "evil" as its data, stop deletes it.  The kernel runs the callback on   *)
(* any thread as soon as the scope is listened to.  The copy shares its    *)
(* characters with the local string of startImp by a SharedPtr             *)
(* (dstd/Pointers/SharedPtr.hpp), and c_str() of a shared String detaches  *)
(* it first (dstd/Strings/String.cpp), without a lock.                     *)
(***************************************************************************)
EXTENDS Integers, Sequences

CONSTANTS
    Callbacks,  \* threads on which the kernel may run callback()
    Faults,     \* what may go wrong: "nomem", "error" (of a kernel call)
    MaxBlocks   \* bound: String::Data blocks ever allocated

ASSUME MaxBlocksIsNatural == MaxBlocks \in Nat

VARIABLES
    kext,      \* where start and stop are
    context,   \* g_context is not nullptr
    listener,  \* the kernel's listener: the data it passes, 0 = none
    sub,       \* the block of subString in startImp, 0 = none
    strings,   \* the heap Strings: [live, block : its m_data]
    blocks,    \* the String::Data blocks: [live, count : *m_counter]
    pc,        \* where each callback is
    arg,       \* voidData: an index of strings
    path,      \* what it is about to allow
    fresh,     \* the block it made in ensureUnique()
    buf,       \* the block whose characters c_str() returned
    verdict,   \* what the last callback on the thread returned
    settled,   \* ghost: it began after start, and after all that did not
    damaged,   \* ghost: what was deleted may have been written or copied since
    raced      \* ghost: what a callback was replacing was used meanwhile

starter == <<kext, context, listener, sub>>
runner  == <<pc, arg, path, fresh, buf, verdict, settled>>
heap    == <<blocks, damaged, raced>>
vars    == <<starter, strings, heap, runner>>

\* Where the path holds "evil": at its end, elsewhere, nowhere.
Paths == {"suffix", "inside", "other"}

Nothing == 0

Goto(c, label) == pc' = [pc EXCEPT ![c] = label]

Init == /\ kext = "unloaded" /\ context = FALSE /\ listener = Nothing /\ sub = Nothing
        /\ strings = <<>> /\ blocks = <<>>
        /\ pc = [c \in Callbacks |-> "idle"]
        /\ arg = [c \in Callbacks |-> Nothing]
        /\ path = [c \in Callbacks |-> "other"]
        /\ fresh = [c \in Callbacks |-> Nothing]
        /\ buf = [c \in Callbacks |-> Nothing]
        /\ verdict = [c \in Callbacks |-> "defer"]
        /\ settled = [c \in Callbacks |-> FALSE]
        /\ damaged = FALSE /\ raced = FALSE

-----------------------------------------------------------------------------
(* SharedPtr                                                                *)

\* makeShared: a new block, used once.  Its address may be that of a block
\* deleted before: an index is a block's life, not its address.
NewBlock == /\ Len(blocks) < MaxBlocks
            /\ blocks' = Append(blocks, [live |-> TRUE, count |-> 1])

\* The copy constructor increments.
Retain(b) == blocks' = [blocks EXCEPT ![b].count = @ + 1]

\* reset() decrements, and deletes what nobody uses any more.
Drop(b) ==
    LET left == blocks[b].count - 1
    IN  blocks' = [blocks EXCEPT ![b] = [live |-> @.live /\ left > 0, count |-> left]]

\* What may be where b was when b is deleted: nothing, or a later block.
AtAddress(b) == {b} \cup {a \in b+1..Len(blocks) : blocks[a].live}

\* A reset() that finds its block deleted counts down whatever is there now.
Release(b) == \/ blocks[b].live /\ Drop(b) /\ UNCHANGED damaged
              \/ ~blocks[b].live /\ (\E a \in AtAddress(b) : Drop(a)) /\ damaged' = TRUE

\* A callback has reset the pointer of String s and not yet moved the new one in.
Replaced(s) == \E c \in Callbacks : pc[c] = "install" /\ arg[c] = s

\* The pointer of String s is reset.
Reset(s) == Release(strings[s].block) /\ raced' = (raced \/ Replaced(s))

-----------------------------------------------------------------------------
(* ProcessCreationPreventor_start, startImp and KauthCallback::make.         *)

\* String::make("evil").  If it fails nothing has happened.
Start ==
    /\ kext = "unloaded" /\ NewBlock
    /\ sub' = Len(blocks) + 1 /\ kext' = "copy"
    /\ UNCHANGED <<context, listener, strings, damaged, raced, runner>>

\* Mutant of CopyData: the copy shares the characters and does not count itself.
CopyDataUncounted ==
    /\ kext = "copy"
    /\ strings' = Append(strings, [live |-> TRUE, block |-> sub])
    /\ kext' = "listen"
    /\ UNCHANGED <<context, listener, sub, heap, runner>>

\* UniquePtr<T>::make(data): data has a name, so the String is copied.
CopyData ==
    /\ kext = "copy"
    /\ strings' = Append(strings, [live |-> TRUE, block |-> sub])
    /\ Retain(sub)
    /\ kext' = "listen"
    /\ UNCHANGED <<context, listener, sub, damaged, raced, runner>>

CopyDataFails ==
    /\ "nomem" \in Faults /\ kext = "copy"
    /\ kext' = "dropFailed"
    /\ UNCHANGED <<context, listener, sub, strings, heap, runner>>

\* kauth_listen_scope: callbacks begin.
Listen ==
    /\ kext = "listen"
    /\ listener' = Len(strings) /\ kext' = "wrap"
    /\ UNCHANGED <<context, sub, strings, heap, runner>>

ListenFails ==
    /\ "error" \in Faults /\ kext = "listen"
    /\ kext' = "destroy"
    /\ UNCHANGED <<context, listener, sub, strings, heap, runner>>

\* UniquePtr<kauth_listener_t>::make and the moves to startImp.
Wrap ==
    /\ kext = "wrap"
    /\ kext' = "publish"
    /\ UNCHANGED <<context, listener, sub, strings, heap, runner>>

\* Mutant of WrapFails: the raw listener is forgotten.
WrapFailsListening ==
    /\ "nomem" \in Faults /\ kext = "wrap"
    /\ kext' = "destroy"
    /\ UNCHANGED <<context, listener, sub, strings, heap, runner>>

\* There is no UniquePtr to own the listener: it is unlistened at once.
WrapFails ==
    /\ "nomem" \in Faults /\ kext = "wrap"
    /\ listener' = Nothing /\ kext' = "destroy"
    /\ UNCHANGED <<context, sub, strings, heap, runner>>

\* g_context = new Context(move(executionCallback)).
Publish ==
    /\ kext = "publish"
    /\ context' = TRUE /\ kext' = "dropStarted"
    /\ UNCHANGED <<listener, sub, strings, heap, runner>>

\* new returned nullptr, which nobody looks at: the callback dies with startImp.
PublishFails ==
    /\ "nomem" \in Faults /\ kext = "publish"
    /\ kext' = "free"
    /\ UNCHANGED <<context, listener, sub, strings, heap, runner>>

\* Mutant of DropSub: the reference of subString is never given back.
DropSubKept ==
    /\ kext \in {"dropStarted", "dropFailed"}
    /\ sub' = Nothing
    /\ kext' = IF kext = "dropStarted" THEN "started" ELSE "unloaded"
    /\ UNCHANGED <<context, listener, strings, heap, runner>>

\* startImp returns: ~String of subString.
DropSub ==
    /\ kext \in {"dropStarted", "dropFailed"}
    /\ Release(sub) /\ sub' = Nothing
    /\ kext' = IF kext = "dropStarted" THEN "started" ELSE "unloaded"
    /\ UNCHANGED <<context, listener, strings, raced, runner>>

-----------------------------------------------------------------------------
(* ~KauthCallback and ProcessCreationPreventor_stop.                         *)

Stop ==
    /\ kext = "started"
    /\ kext' = IF context THEN "free" ELSE "unloaded"
    /\ UNCHANGED <<context, listener, sub, strings, heap, runner>>

\* m_data, declared last, is destroyed first: the newest heap String goes.
FreeData ==
    /\ kext \in {"free", "destroy"}
    /\ strings' = [strings EXCEPT ![Len(strings)].live = FALSE]
    /\ Reset(Len(strings))
    /\ kext' = IF kext = "free" THEN "unlisten" ELSE "dropFailed"
    /\ UNCHANGED <<context, listener, sub, runner>>

\* ~m_listener: kauth_unlisten_scope does not wait for callbacks under way.
Unlisten ==
    /\ kext = "unlisten"
    /\ listener' = Nothing /\ context' = FALSE
    /\ kext' = IF context THEN "unloaded" ELSE "dropStarted"
    /\ UNCHANGED <<sub, strings, heap, runner>>

-----------------------------------------------------------------------------
(* callback(), for an execution; for other actions it touches nothing.       *)

InFlight(c) == pc[c] # "idle"

\* The String the callback was given, and the block of its characters.
Data(c) == strings[arg[c]]
DataBlock(c) == blocks[Data(c).block]

Enter(c, p) ==
    /\ pc[c] = "idle" /\ listener # Nothing
    /\ arg' = [arg EXCEPT ![c] = listener]
    /\ path' = [path EXCEPT ![c] = p]
    /\ settled' = [settled EXCEPT ![c] = /\ kext = "started"
                                         /\ \A d \in Callbacks :
                                              InFlight(d) /\ arg[d] = listener => settled[d]]
    /\ Goto(c, "count")
    /\ UNCHANGED <<starter, strings, heap, fresh, buf, verdict>>

\* getVnodePath fails: callback() defers.
PathFails(c) ==
    /\ Faults # {} /\ pc[c] = "count"
    /\ verdict' = [verdict EXCEPT ![c] = "defer"]
    /\ Goto(c, "idle")
    /\ UNCHANGED <<starter, strings, heap, arg, path, fresh, buf, settled>>

\* ensureUnique() reads useCount(); from a deleted block it reads anything.
ReadCount(c) ==
    /\ pc[c] = "count" /\ Data(c).live
    /\ \/ (DataBlock(c).live => DataBlock(c).count <= 1) /\ Goto(c, "read")
       \/ (DataBlock(c).live => DataBlock(c).count > 1) /\ Goto(c, "copy")
    /\ UNCHANGED <<starter, strings, heap, arg, path, fresh, buf, verdict, settled>>

\* RawBuffer::copy and makeShared; of deleted characters the copy is anything.
Copy(c) ==
    /\ pc[c] = "copy" /\ Data(c).live /\ NewBlock
    /\ fresh' = [fresh EXCEPT ![c] = Len(blocks) + 1]
    /\ damaged' = (damaged \/ ~DataBlock(c).live)
    /\ raced' = (raced \/ Replaced(arg[c]))
    /\ Goto(c, "reset")
    /\ UNCHANGED <<starter, strings, arg, path, buf, verdict, settled>>

\* c_str() goes on without the copy.
CopyFails(c) ==
    /\ "nomem" \in Faults /\ pc[c] = "copy" /\ Data(c).live
    /\ Goto(c, "read")
    /\ UNCHANGED <<starter, strings, heap, arg, path, fresh, buf, verdict, settled>>

\* m_data = move(data): the old pointer is reset, then the new one put there.
ResetOld(c) ==
    /\ pc[c] = "reset" /\ Data(c).live
    /\ Reset(arg[c])
    /\ Goto(c, "install")
    /\ UNCHANGED <<starter, strings, arg, path, fresh, buf, verdict, settled>>

\* Mutant of Install: the value that was moved from is put there.
InstallMoved(c) ==
    /\ pc[c] = "install" /\ Data(c).live
    /\ strings' = [strings EXCEPT ![arg[c]].block = Nothing]
    /\ fresh' = [fresh EXCEPT ![c] = Nothing]
    /\ Goto(c, "read")
    /\ UNCHANGED <<starter, heap, arg, path, buf, verdict, settled>>

Install(c) ==
    /\ pc[c] = "install" /\ Data(c).live
    /\ strings' = [strings EXCEPT ![arg[c]].block = fresh[c]]
    /\ fresh' = [fresh EXCEPT ![c] = Nothing]
    /\ Goto(c, "read")
    /\ UNCHANGED <<starter, heap, arg, path, buf, verdict, settled>>

\* c_str() returns the characters.
Read(c) ==
    /\ pc[c] = "read" /\ Data(c).live
    /\ buf' = [buf EXCEPT ![c] = Data(c).block]
    /\ Goto(c, "compare")
    /\ UNCHANGED <<starter, strings, heap, arg, path, fresh, verdict, settled>>

\* strstr finds "evil" anywhere in the path; in deleted characters, anything.
Compare(c) ==
    /\ pc[c] = "compare"
    /\ \E v \in {"deny", "defer"} :
          /\ blocks[buf[c]].live => (v = "deny" <=> path[c] # "other")
          /\ verdict' = [verdict EXCEPT ![c] = v]
    /\ buf' = [buf EXCEPT ![c] = Nothing]
    /\ Goto(c, "idle")
    /\ UNCHANGED <<starter, strings, heap, arg, path, fresh, settled>>

\* The String itself is deleted under the callback: not followed any further.
Strays(c) ==
    /\ pc[c] \in {"count", "copy", "reset", "install", "read"} /\ ~Data(c).live
    /\ Goto(c, "astray") /\ damaged' = TRUE
    /\ UNCHANGED <<starter, strings, blocks, raced, arg, path, fresh, buf, verdict, settled>>

-----------------------------------------------------------------------------
StartStep == \/ Start \/ CopyData \/ CopyDataFails \/ Listen \/ ListenFails
             \/ Wrap \/ WrapFails \/ Publish \/ PublishFails \/ DropSub

StopStep == Stop \/ FreeData \/ Unlisten

CallbackStep(c) == \/ \E p \in Paths : Enter(c, p)
                   \/ PathFails(c) \/ ReadCount(c) \/ Copy(c) \/ CopyFails(c)
                   \/ ResetOld(c) \/ Install(c) \/ Read(c) \/ Compare(c) \/ Strays(c)

Next == StartStep \/ StopStep \/ \E c \in Callbacks : CallbackStep(c)

Spec == Init /\ [][Next]_vars

-----------------------------------------------------------------------------
KextLabels == {"unloaded", "copy", "listen", "wrap", "publish", "dropStarted",
               "dropFailed", "started", "free", "destroy", "unlisten"}
Labels == {"idle", "count", "copy", "reset", "install", "read", "compare", "astray"}

\* Every variable has its type; a String always has a block.
TypeOK == /\ kext \in KextLabels /\ context \in BOOLEAN
          /\ listener \in 0..Len(strings) /\ sub \in 0..Len(blocks)
          /\ strings \in Seq([live : BOOLEAN, block : Nat])
          /\ \A s \in 1..Len(strings) : strings[s].block \in 1..Len(blocks)
          /\ blocks \in Seq([live : BOOLEAN, count : Int])
          /\ pc \in [Callbacks -> Labels]
          /\ arg \in [Callbacks -> 0..Len(strings)]
          /\ path \in [Callbacks -> Paths]
          /\ fresh \in [Callbacks -> 0..Len(blocks)]
          /\ buf \in [Callbacks -> 0..Len(blocks)]
          /\ verdict \in [Callbacks -> {"deny", "defer"}]
          /\ settled \in [Callbacks -> BOOLEAN]
          /\ damaged \in BOOLEAN /\ raced \in BOOLEAN

\* The kernel's listener has an owner who will end it: whichever step of start
\* failed, between calls there is a listener exactly when g_context holds its
\* callback.  Its data lives as long, but for the step between the destructors
\* of m_data and m_listener (KauthCallback.hpp:38-41, 71-72).
ListenerIsOwned ==
    /\ kext \in {"unloaded", "started"} => (listener # Nothing <=> context)
    /\ listener # Nothing /\ kext # "unlisten" => strings[listener].live

\* A callback of the running kext, not overtaken by stop.
Undisturbed(c) == settled[c] /\ kext = "started" /\ arg[c] = listener

\* A settled callback only ever reads a live string (Example.cpp:52).
SettledReadsLive ==
    \A c \in Callbacks : Undisturbed(c) =>
        /\ pc[c] \in {"count", "read"} => DataBlock(c).live
        /\ pc[c] = "compare" => blocks[buf[c]].live

\* ... and does not write to the string it shares: c_str() finds it unique, so
\* callbacks at the same time do not race (String.cpp:144).
SettledNeverCopies ==
    \A c \in Callbacks : Undisturbed(c) => pc[c] \notin {"copy", "reset", "install"}

\* Callbacks that ran while start still held its own reference may each have
\* detached the string, in any order.  While nothing deleted was counted down,
\* copied or written, those that begin after them only read, and what they read
\* is live.  (Otherwise nothing is said: that damage outlives those callbacks.)
SettledOnlyReads == ~damaged => SettledReadsLive /\ SettledNeverCopies

\* That damage takes a second use of a pointer that a callback had reset and
\* not yet replaced (String.cpp:155), or a callback that its String did not
\* outlive: start's, stop's and the callbacks' own counts are right otherwise.
DamageHasCause == damaged => raced \/ \E c \in Callbacks : pc[c] = "astray"
=============================================================================
