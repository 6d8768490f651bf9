----------------------------- MODULE FileLogger -----------------------------
(***************************************************************************)
(* dstd::FileLogger (dstd/Files/FileLogger.cpp): threads append formatted  *)
(* lines to a log file under one exclusive lock.  A line that cannot be    *)
(* written waits in m_unloggedMessages, and is retried by the next log()   *)
(* and by the thread of FileLoggerFlusher.  The logger may be unloaded or  *)
(* the machine may panic; the next FileLogger::make probes the file for    *)
(* its end and goes on from there.                                         *)
(***************************************************************************)
EXTENDS Integers, Sequences, SequencesExt

CONSTANTS
    Threads,       \* kernel threads that call log()
    Flusher,       \* the thread of FileLoggerFlusher
    Nobody,        \* m_lock has no exclusive owner
    MaxUnlogged,   \* k_maxUnloggedMessages
    ProbeChunk,    \* k_fileSizeProbeChunk
    LineCapacity,  \* k_logLineCapacity
    LineLengths,   \* lengths of the formatted lines the callers produce
    MaxLines,      \* bound: log() calls per thread
    MaxRestarts,   \* bound: unloads and panics
    Faults,        \* what may go wrong: "error", "short", "nomem", "panic"
    RoutesToSelf   \* LOG reaches this logger: it is Singleton<FileLogger>

Actors == Threads \cup {Flusher}

ASSUME ActorsAreDistinct == Flusher \notin Threads /\ Nobody \notin Actors
ASSUME BoundsAreNatural  == /\ MaxUnlogged \in Nat
                            /\ ProbeChunk \in Nat \ {0}
                            /\ LineCapacity \in Nat
                            /\ LineLengths \subseteq Nat
                            /\ MaxLines \in Nat
                            /\ MaxRestarts \in Nat
ASSUME RoutesIsBoolean   == RoutesToSelf \in BOOLEAN

VARIABLES
    file,      \* the bytes of the log file
    mode,      \* "down", "probing" (in FileLogger::make) or "up"
    offset,    \* m_writeOffset; the local offset of endOfFileOffset while probing
    queue,     \* m_unloggedMessages
    owner,     \* exclusive owner of m_lock
    pc,        \* where each actor is in log() or flushUnlogged()
    cur,       \* the line a thread is logging
    batch,     \* linesToWrite, linesToFlush
    at,        \* index of the loop an actor is in: lines copied or requeued
    buffer,    \* the RawBuffer being filled by buildBufferFromLines
    calls,     \* bound: log() calls each thread has made
    restarts,  \* bound: unloads and panics so far
    base,      \* ghost: the bytes FileLogger::make found
    sealed,    \* ghost: base and the bytes of every acknowledged batch
    acked,     \* ghost: the lines whose write was acknowledged since make
    printed,   \* ghost: the lines log() gave to printf instead
    done       \* ghost: the lines whose log() call returned

vars == <<file, mode, offset, queue, owner, pc, cur, batch, at, buffer,
          calls, restarts, base, sealed, acked, printed, done>>

\* What a call leaves alone while it works on its own locals.
shared == <<file, mode, offset, queue, restarts, base, sealed, acked>>
locals == <<batch, at, buffer>>
ghosts == <<base, sealed, acked, printed, done>>

-----------------------------------------------------------------------------
(* Lines and bytes.                                                         *)

Line == [by : Threads, seq : 1..MaxLines, len : LineLengths]
NoLine == [by |-> Nobody, seq |-> 0, len |-> 0]
Byte == [line : Line, pos : Nat]

\* The characters of a line.
Text(l) == [i \in 1..l.len |-> [line |-> l, pos |-> i]]

\* Mutant of Overwrite: the file is written in append mode.
OverwriteAppends(f, o, d) == f \o d

\* The file f after vn_rdwr put the bytes d at offset o (o <= Len(f)).
Overwrite(f, o, d) ==
    [i \in 1..(IF o + Len(d) > Len(f) THEN o + Len(d) ELSE Len(f)) |->
        IF o < i /\ i <= o + Len(d) THEN d[i - o] ELSE f[i]]

\* How many bytes one read of endOfFileOffset gets at the offset it reached.
ProbeRead == IF Len(file) - offset < ProbeChunk THEN Len(file) - offset
                                                ELSE ProbeChunk

-----------------------------------------------------------------------------
(* FileLogger::make and the end of a logger.                                *)

Init == /\ file = <<>> /\ mode = "down" /\ offset = 0 /\ queue = <<>>
        /\ owner = Nobody /\ pc = [a \in Actors |-> "idle"]
        /\ cur = [t \in Threads |-> NoLine]
        /\ batch = [a \in Actors |-> <<>>] /\ at = [a \in Actors |-> 0]
        /\ buffer = [a \in Actors |-> <<>>]
        /\ calls = [t \in Threads |-> 0] /\ restarts = 0
        /\ base = <<>> /\ sealed = <<>> /\ acked = <<>>
        /\ printed = {} /\ done = {}

\* The object is gone, and with it the queue.
Vanish == /\ mode' = "down" /\ offset' = 0 /\ queue' = <<>>
          /\ base' = <<>> /\ sealed' = <<>> /\ acked' = <<>>
          /\ printed' = {} /\ done' = {}

\* File::make opened the file; endOfFileOffset starts to read it.
Make == /\ mode = "down"
        /\ mode' = "probing" /\ offset' = 0
        /\ UNCHANGED <<file, queue, owner, pc, cur, locals, calls, restarts, ghosts>>

\* A full chunk was read: the loop reads on behind it.
ProbeChunkRead ==
        /\ mode = "probing" /\ ProbeRead = ProbeChunk
        /\ offset' = offset + ProbeRead
        /\ UNCHANGED <<file, mode, queue, owner, pc, cur, locals, calls, restarts, ghosts>>

\* Mutant of ProbeEnd: a partial chunk is not counted.
ProbeEndForgetsTail ==
        /\ mode = "probing" /\ ProbeRead < ProbeChunk
        /\ mode' = "up" /\ offset' = offset
        /\ base' = file /\ sealed' = file
        /\ UNCHANGED <<file, queue, owner, pc, cur, locals, calls, restarts,
                       acked, printed, done>>

\* Nothing or a part of a chunk was read: the logger is constructed.
ProbeEnd ==
        /\ mode = "probing" /\ ProbeRead < ProbeChunk
        /\ mode' = "up" /\ offset' = offset + ProbeRead
        /\ base' = file /\ sealed' = file
        /\ UNCHANGED <<file, queue, owner, pc, cur, locals, calls, restarts,
                       acked, printed, done>>

\* A read, or an allocation of make, failed: no logger.
ProbeFails ==
        /\ mode = "probing" /\ Faults \cap {"error", "nomem"} # {}
        /\ mode' = "down" /\ offset' = 0
        /\ UNCHANGED <<file, queue, owner, pc, cur, locals, calls, restarts, ghosts>>

\* The destructor: nobody is in a call, and the queue is not flushed.
Unload ==
        /\ mode = "up" /\ \A a \in Actors : pc[a] = "idle"
        /\ restarts < MaxRestarts /\ restarts' = restarts + 1
        /\ Vanish
        /\ UNCHANGED <<file, owner, pc, cur, locals, calls>>

\* A kernel panic: vn_rdwr does not ask for IO_SYNC, so any tail may be lost.
Panic ==
        /\ "panic" \in Faults /\ mode # "down"
        /\ restarts < MaxRestarts /\ restarts' = restarts + 1
        /\ \E n \in 0..Len(file) : file' = SubSeq(file, 1, n)
        /\ Vanish
        /\ owner' = Nobody /\ pc' = [a \in Actors |-> "idle"]
        /\ cur' = [t \in Threads |-> NoLine]
        /\ batch' = [a \in Actors |-> <<>>] /\ at' = [a \in Actors |-> 0]
        /\ buffer' = [a \in Actors |-> <<>>]
        /\ UNCHANGED calls

-----------------------------------------------------------------------------
(* The lock, and LOG called with the lock held.                             *)

Goto(a, label) == pc' = [pc EXCEPT ![a] = label]

Unlock(a, label) == owner' = Nobody /\ Goto(a, label)

\* GENERIC_CHECK and CHECK_RESULT call LOG before they return an error.  If
\* LOG reaches this logger, log() waits for the lock its caller holds.
FailWithLOG(a, label) == Goto(a, IF RoutesToSelf THEN "relock" ELSE label)

Acquire(a) ==
        /\ pc[a] = "acquire" /\ owner = Nobody
        /\ owner' = a /\ Goto(a, "locked")
        /\ UNCHANGED <<shared, cur, locals, calls, printed, done>>

-----------------------------------------------------------------------------
(* log()                                                                    *)

\* The line is formatted before the lock is taken.
Log(t, k) ==
        /\ mode = "up" /\ pc[t] = "idle" /\ calls[t] < MaxLines
        /\ 0 < k /\ k < LineCapacity
        /\ cur' = [cur EXCEPT ![t] = [by |-> t, seq |-> calls[t] + 1, len |-> k]]
        /\ calls' = [calls EXCEPT ![t] = @ + 1]
        /\ Goto(t, "acquire")
        /\ UNCHANGED <<shared, owner, locals, printed, done>>

\* An empty line, or one that does not fit, is dropped without a word.
LogDiscards(t, k) ==
        /\ mode = "up" /\ pc[t] = "idle" /\ calls[t] < MaxLines
        /\ k = 0 \/ k >= LineCapacity
        /\ calls' = [calls EXCEPT ![t] = @ + 1]
        /\ UNCHANGED <<shared, owner, pc, cur, locals, printed, done>>

\* Mutant of Collect: only the new line is written, then the queue is emptied.
CollectOnlyNew(t) ==
        /\ pc[t] = "locked"
        /\ batch' = [batch EXCEPT ![t] = <<cur[t]>>]
        /\ Goto(t, "build")
        /\ UNCHANGED <<shared, owner, cur, at, buffer, calls, printed, done>>

\* The waiting lines are copied, not taken, and the new one goes last.
Collect(t) ==
        /\ pc[t] = "locked"
        /\ batch' = [batch EXCEPT ![t] = Append(queue, cur[t])]
        /\ Goto(t, "build")
        /\ UNCHANGED <<shared, owner, cur, at, buffer, calls, printed, done>>

\* push_back or String::make failed: the line is printed and not kept.
CollectNoMemory(t) ==
        /\ "nomem" \in Faults /\ pc[t] = "locked"
        /\ FailWithLOG(t, "print")
        /\ owner' = IF RoutesToSelf THEN owner ELSE Nobody
        /\ UNCHANGED <<shared, cur, locals, calls, printed, done>>

-----------------------------------------------------------------------------
(* flushUnlogged(), once a second from FileLoggerFlusher::threadEntry.       *)

FlushTick ==
        /\ mode = "up" /\ pc[Flusher] = "idle"
        /\ Goto(Flusher, "acquire")
        /\ UNCHANGED <<shared, owner, cur, locals, calls, printed, done>>

\* Mutant of FlushNothing: what was seen before the lock counts, not the queue.
FlushNothingStale ==
        /\ pc[Flusher] = "locked"
        /\ Unlock(Flusher, "idle")
        /\ UNCHANGED <<shared, cur, locals, calls, printed, done>>

FlushNothing ==
        /\ pc[Flusher] = "locked" /\ queue = <<>>
        /\ Unlock(Flusher, "idle")
        /\ UNCHANGED <<shared, cur, locals, calls, printed, done>>

\* The lines are moved out; the fresh Vector allocates nothing yet.
Take ==
        /\ pc[Flusher] = "locked" /\ queue # <<>>
        /\ batch' = [batch EXCEPT ![Flusher] = queue]
        /\ queue' = <<>>
        /\ Goto(Flusher, "build")
        /\ UNCHANGED <<file, mode, offset, owner, cur, at, buffer, calls, restarts, ghosts>>

-----------------------------------------------------------------------------
(* tryWriteLines()                                                          *)

\* Forget the loop and the buffer when tryWriteLines returns.
Rewind(a) == /\ at' = [at EXCEPT ![a] = 0]
             /\ buffer' = [buffer EXCEPT ![a] = <<>>]

\* Mutant of CopyLine: writePosition is not advanced.
CopyLineInPlace(a) ==
        /\ pc[a] = "build" /\ at[a] < Len(batch[a])
        /\ buffer' = [buffer EXCEPT ![a] = Overwrite(@, 0, Text(batch[a][at[a] + 1]))]
        /\ at' = [at EXCEPT ![a] = @ + 1]
        /\ UNCHANGED <<shared, owner, pc, cur, batch, calls, printed, done>>

CopyLine(a) ==
        /\ pc[a] = "build" /\ at[a] < Len(batch[a])
        /\ buffer' = [buffer EXCEPT ![a] = @ \o Text(batch[a][at[a] + 1])]
        /\ at' = [at EXCEPT ![a] = @ + 1]
        /\ UNCHANGED <<shared, owner, pc, cur, batch, calls, printed, done>>

BufferNoMemory(a) ==
        /\ "nomem" \in Faults /\ pc[a] = "build" /\ at[a] = 0
        /\ FailWithLOG(a, "failed")
        /\ UNCHANGED <<shared, owner, cur, locals, calls, printed, done>>

BufferReady(a) == pc[a] = "build" /\ at[a] = Len(batch[a])

WriteAll(a) ==
        /\ BufferReady(a)
        /\ file' = Overwrite(file, offset, buffer[a])
        /\ Goto(a, "commit")
        /\ UNCHANGED <<mode, offset, queue, owner, cur, locals, calls, restarts, ghosts>>

\* vn_rdwr failed, perhaps after it wrote a part: no LOG on this path.
WriteError(a, n) ==
        /\ "error" \in Faults /\ BufferReady(a) /\ n \in 0..Len(buffer[a])
        /\ file' = Overwrite(file, offset, SubSeq(buffer[a], 1, n))
        /\ Goto(a, "failed") /\ Rewind(a)
        /\ UNCHANGED <<mode, offset, queue, owner, cur, batch, calls, restarts, ghosts>>

\* vn_rdwr left bytes over: GENERIC_CHECK(0 == bytesRemaining, ...) logs it.
WriteShort(a, n) ==
        /\ "short" \in Faults /\ BufferReady(a) /\ n \in 0..Len(buffer[a]) - 1
        /\ file' = Overwrite(file, offset, SubSeq(buffer[a], 1, n))
        /\ FailWithLOG(a, "failed") /\ Rewind(a)
        /\ UNCHANGED <<mode, offset, queue, owner, cur, batch, calls, restarts, ghosts>>

\* Mutant of Commit: the offset advances by lines, not by bytes.
CommitCountsLines(a) ==
        /\ pc[a] = "commit"
        /\ offset' = offset + Len(batch[a])
        /\ sealed' = sealed \o buffer[a]
        /\ acked'  = acked \o batch[a]
        /\ queue'  = IF a = Flusher THEN queue ELSE <<>>
        /\ done'   = IF a = Flusher THEN done ELSE done \cup {cur[a]}
        /\ cur'    = IF a = Flusher THEN cur ELSE [cur EXCEPT ![a] = NoLine]
        /\ batch'  = [batch EXCEPT ![a] = <<>>]
        /\ Rewind(a)
        /\ Unlock(a, "idle")
        /\ UNCHANGED <<file, mode, calls, restarts, base, printed>>

\* m_writeOffset moves on; both callers then unlock, log() empties the queue.
Commit(a) ==
        /\ pc[a] = "commit"
        /\ offset' = offset + Len(buffer[a])
        /\ sealed' = sealed \o buffer[a]
        /\ acked'  = acked \o batch[a]
        /\ queue'  = IF a = Flusher THEN queue ELSE <<>>
        /\ done'   = IF a = Flusher THEN done ELSE done \cup {cur[a]}
        /\ cur'    = IF a = Flusher THEN cur ELSE [cur EXCEPT ![a] = NoLine]
        /\ batch'  = [batch EXCEPT ![a] = <<>>]
        /\ Rewind(a)
        /\ Unlock(a, "idle")
        /\ UNCHANGED <<file, mode, calls, restarts, base, printed>>

-----------------------------------------------------------------------------
(* The write failed: lines are put (back) in the queue.                      *)

\* Mutants of Enqueue: at the front, or in the place of the oldest line.
EnqueueAtFront(l) == queue' = IF Len(queue) < MaxUnlogged THEN <<l>> \o queue ELSE queue
EnqueueDropsOldest(l) ==
    queue' = IF Len(queue) < MaxUnlogged THEN Append(queue, l) ELSE Append(Tail(queue), l)

\* enqueueUnlogged: a line is dropped when k_maxUnloggedMessages wait.
Enqueue(l) == queue' = IF Len(queue) < MaxUnlogged THEN Append(queue, l) ELSE queue

\* push_back found no memory.  The Vector's spare capacity is left out: any
\* push_back may have to grow it.
EnqueueNoMemory == "nomem" \in Faults /\ Len(queue) < MaxUnlogged /\ queue' = queue

\* Mutants of LogGivesUp: back() is enqueued after it was moved from; the
\* write is tried again until it succeeds.
LogGivesUpMovedFrom(t) ==
        /\ pc[t] = "failed"
        /\ Enqueue(NoLine)
        /\ batch' = [batch EXCEPT ![t] = <<>>]
        /\ Unlock(t, "print")
        /\ UNCHANGED <<file, mode, offset, cur, at, buffer, calls, restarts, ghosts>>

LogTriesAgain(t) ==
        /\ pc[t] = "failed"
        /\ Goto(t, "build")
        /\ UNCHANGED <<file, mode, offset, queue, owner, cur, locals, calls, restarts, ghosts>>

\* log() keeps its own line only: the others never left the queue.
LogGivesUp(t) ==
        /\ pc[t] = "failed"
        /\ Enqueue(cur[t])
        /\ batch' = [batch EXCEPT ![t] = <<>>]
        /\ Unlock(t, "print")
        /\ UNCHANGED <<file, mode, offset, cur, at, buffer, calls, restarts, ghosts>>

LogGivesUpNoMemory(t) ==
        /\ pc[t] = "failed"
        /\ EnqueueNoMemory
        /\ batch' = [batch EXCEPT ![t] = <<>>]
        /\ FailWithLOG(t, "print")
        /\ owner' = IF RoutesToSelf THEN owner ELSE Nobody
        /\ UNCHANGED <<file, mode, offset, cur, at, buffer, calls, restarts, ghosts>>

\* Mutant of PrintLine: the line is not printed.
PrintNothing(t) ==
        /\ pc[t] = "print"
        /\ printed' = printed
        /\ done' = done \cup {cur[t]}
        /\ cur' = [cur EXCEPT ![t] = NoLine]
        /\ Goto(t, "idle")
        /\ UNCHANGED <<shared, owner, locals, calls>>

\* printf comes after the unlock.
PrintLine(t) ==
        /\ pc[t] = "print"
        /\ printed' = printed \cup {cur[t]}
        /\ done' = done \cup {cur[t]}
        /\ cur' = [cur EXCEPT ![t] = NoLine]
        /\ Goto(t, "idle")
        /\ UNCHANGED <<shared, owner, locals, calls>>

\* flushUnlogged puts its lines back one by one, in order.
FlushRequeues ==
        /\ pc[Flusher] = "failed" /\ at[Flusher] < Len(batch[Flusher])
        /\ Enqueue(batch[Flusher][at[Flusher] + 1])
        /\ at' = [at EXCEPT ![Flusher] = @ + 1]
        /\ UNCHANGED <<file, mode, offset, owner, pc, cur, batch, buffer, calls, restarts, ghosts>>

FlushRequeuesNoMemory ==
        /\ pc[Flusher] = "failed" /\ at[Flusher] < Len(batch[Flusher])
        /\ EnqueueNoMemory
        /\ at' = [at EXCEPT ![Flusher] = @ + 1]
        /\ FailWithLOG(Flusher, "failed")
        /\ UNCHANGED <<file, mode, offset, owner, cur, batch, buffer, calls, restarts, ghosts>>

FlushGivesUp ==
        /\ pc[Flusher] = "failed" /\ at[Flusher] = Len(batch[Flusher])
        /\ batch' = [batch EXCEPT ![Flusher] = <<>>]
        /\ Rewind(Flusher)
        /\ Unlock(Flusher, "idle")
        /\ UNCHANGED <<file, mode, offset, queue, cur, calls, restarts, ghosts>>

-----------------------------------------------------------------------------
Lifecycle == Make \/ ProbeChunkRead \/ ProbeEnd \/ ProbeFails \/ Unload \/ Panic

LogStep(t) == \/ \E k \in LineLengths : Log(t, k) \/ LogDiscards(t, k)
              \/ Collect(t) \/ CollectNoMemory(t)
              \/ LogGivesUp(t) \/ LogGivesUpNoMemory(t) \/ PrintLine(t)

FlushStep == \/ FlushTick \/ FlushNothing \/ Take
             \/ FlushRequeues \/ FlushRequeuesNoMemory \/ FlushGivesUp

WriteStep(a) == \/ Acquire(a) \/ CopyLine(a) \/ BufferNoMemory(a)
                \/ WriteAll(a) \/ Commit(a)
                \/ \E n \in 0..Len(buffer[a]) : WriteError(a, n) \/ WriteShort(a, n)

Next == \/ Lifecycle
        \/ \E t \in Threads : LogStep(t)
        \/ FlushStep
        \/ \E a \in Actors : WriteStep(a)

Spec == Init /\ [][Next]_vars

\* A thread in a call goes on (a sleeping lock is granted in the end); the
\* flusher's delay(hz) ends; a started make finishes.
Proceeds(a) == WriteStep(a) \/ (IF a = Flusher THEN FlushStep ELSE PrintLine(a)
                                   \/ Collect(a) \/ LogGivesUp(a))

FairCalls == /\ \A a \in Actors : WF_vars(Proceeds(a)) /\ SF_vars(Acquire(a))
             /\ WF_vars(Make \/ ProbeChunkRead \/ ProbeEnd)

\* Every disk error is transient: a write retried for ever succeeds.
DiskRecovers == \A a \in Actors : SF_vars(WriteAll(a))

FairSpec == Spec /\ FairCalls

-----------------------------------------------------------------------------
Labels == {"idle", "acquire", "locked", "build", "commit", "failed", "print", "relock"}

\* Every variable has its type.
TypeOK == /\ file \in Seq(Byte) /\ base \in Seq(Byte) /\ sealed \in Seq(Byte)
          /\ mode \in {"down", "probing", "up"}
          /\ offset \in Nat /\ restarts \in Nat
          /\ queue \in Seq(Line) /\ acked \in Seq(Line)
          /\ owner \in Actors \cup {Nobody}
          /\ pc \in [Actors -> Labels]
          /\ cur \in [Threads -> Line \cup {NoLine}]
          /\ batch \in [Actors -> Seq(Line)]
          /\ at \in [Actors -> Nat]
          /\ buffer \in [Actors -> Seq(Byte)]
          /\ calls \in [Threads -> 0..MaxLines]
          /\ printed \subseteq Line /\ done \subseteq Line

-----------------------------------------------------------------------------
(* Safety.                                                                  *)

\* The lines the flusher took out of the queue and neither wrote nor put back.
Taken == IF pc[Flusher] \in {"build", "commit"}
           THEN batch[Flusher]
           ELSE SubSeq(batch[Flusher], at[Flusher] + 1, Len(batch[Flusher]))

\* The lines that wait to be written, wherever flushUnlogged has them.
Waiting == queue \o Taken

\* Bytes once acknowledged, and those found by make, stay where they are, and
\* the next write goes exactly behind them: a failed, partial or repeated
\* write (FileLogger.cpp:133-138) overwrites only what was never acknowledged.
SealedInPlace ==
    mode = "up" => /\ Len(sealed) <= Len(file)
                   /\ \A i \in 1..Len(sealed) : file[i] = sealed[i]
                   /\ offset = Len(sealed)

\* What was acknowledged is whole lines, none torn by a retry and none mixed
\* with another thread's: the bytes of the acknowledged lines, in that order.
WholeLines ==
    sealed = base \o FlattenSeq([i \in 1..Len(acked) |-> Text(acked[i])])

\* The lines of one thread reach the file in the order it logged them, even
\* when some waited and were retried, or were lost (FileLogger.cpp:171-174).
PerThreadOrder ==
    LET all == acked \o Waiting
    IN  \A i, j \in 1..Len(all) :
            i < j /\ all[i].by = all[j].by => all[i].seq < all[j].seq

\* A log() that returned left its line in the file or on the console
\* (FileLogger.cpp:248-252), and a line still waiting for the file has been
\* printed, or its caller is about to print it: losing the queue loses no
\* line without a trace.
NoLineWithoutTrace ==
    /\ \A l \in done : l \in printed \/ l \in ToSet(acked)
    /\ \A l \in ToSet(Waiting) :
          l \in printed \/ (pc[l.by] = "print" /\ cur[l.by] = l)

\* Bytes behind the offset that nobody will overwrite are left only when a
\* line was dropped: at rest, a torn tail means a line waits or was given up.
TornTailIsExplained ==
    mode = "up" /\ (\A a \in Actors : pc[a] = "idle") /\ Len(file) > offset
        => Waiting # <<>> \/ \E l \in done : l \notin ToSet(acked)

\* While memory lasts, a waiting line leaves the queue only into the file:
\* neither a failed flush (FileLogger.cpp:170-175) nor the limit drops it.
WaitingIsKept ==
    [][mode' # "down" /\ "nomem" \notin Faults =>
          \A l \in ToSet(Waiting) : l \in ToSet(Waiting') \/ l \in ToSet(acked')]_vars

\* The logger implements LogPromise.
Promise == INSTANCE LogPromise WITH
              Lines <- Line, MaxWaiting <- MaxUnlogged,
              MayForget <- "nomem" \in Faults,
              written <- acked, waiting <- Waiting
KeepsPromise == Promise!Spec

\* The exclusive lock is not recursive: a thread that holds it and asks for
\* it again never runs on, nor does any other that logs.
NoSelfDeadlock == \A a \in Actors : pc[a] = "relock" => owner # a

-----------------------------------------------------------------------------
(* Liveness.                                                                *)

\* log() and flushUnlogged() return, whatever the disk does.
CallsReturn == \A a \in Actors : pc[a] # "idle" ~> pc[a] = "idle"

\* A line that waits gets written if the disk recovers, by the flusher if
\* nobody logs any more (FileLoggerFlusher.cpp:29-36).
WaitingIsWritten ==
    DiskRecovers => \A t \in Threads, s \in 1..MaxLines, k \in LineLengths :
        LET l == [by |-> t, seq |-> s, len |-> k]
        IN  l \in ToSet(Waiting) ~> l \in ToSet(acked)
=============================================================================
