------------------------------- MODULE Pipe -------------------------------
(***************************************************************************)
(* storm::Pipe (Core/Io/Pipe.cpp): a circular buffer between the UThreads  *)
(* that read it and the one that writes it.  read, peek and write wait for *)
(* an event, waitRead or waitWrite, then work inside the lock; closing an  *)
(* end sets a flag and an event without taking the lock.                   *)
(*                                                                         *)
(* The lock is storm::Lock, a semaphore (module Sema).  The events are as  *)
(* in module Event.  A step is one access that is not protected by the     *)
(* lock, or all accesses inside the lock up to the next unprotected one.   *)
(***************************************************************************)
EXTENDS ReadyQueue, FiniteSets

CONSTANTS
    Reader, Writer, \* the UThreads that read, the UThread that writes
    Size,           \* the size of the buffer
    MaxRead,        \* bound: the space in a buffer given to read
    MaxBytes,       \* bound: the bytes written in all
    MaxCalls        \* bound: MaxCalls[u], the calls u makes

ASSUME PipeAssumption ==
    /\ UThread = Reader \cup {Writer}
    /\ Writer \notin Reader
    /\ Size \in Nat /\ MaxRead \in Nat /\ MaxBytes \in Nat
    /\ MaxCalls \in [UThread -> Nat]

VARIABLES
    data,           \* the circular buffer
    readPos,        \* where the next byte is read
    filled,         \* the number of bytes in the buffer
    readClosed, writeClosed,
    s, waiting,     \* the events: flag and queue
    local,          \* local[u]: the UThreads the set() of u has yet to wake
    count, lockQueue,   \* the lock: a semaphore
    pc,             \* pc[u]: what u does next
    amount,         \* amount[u]: the room in u's buffer, or the bytes u has left
    op,             \* op[u]: the function u is in
    out,            \* the bytes that read has returned, in order
    sent,           \* the number of bytes write has accepted
    calls           \* calls[u]: the calls u may still make

ring == <<data, readPos, filled>>
closed == <<readClosed, writeClosed>>
queues == <<waiting, local>>
event == <<s, queues>>
locks == <<count, lockQueue>>
history == <<out, sent>>
vars == <<ready, ring, closed, event, locks, pc, amount, op, history, calls>>

L == "lock"
Mutex == INSTANCE Sema WITH
    Sem <- {L}, InitCount <- [l \in {L} |-> 1], waiting <- lockQueue

Ev == {"waitRead", "waitWrite"}

Op == {"none", "read", "peek", "more", "write", "closeRead",
       "closeWrite", "close"}

\* idle: between calls; test, enqueue: in Event::wait; lock: in Lock::lock;
\* body, full: inside the lock; raise, grab, wake: in Event::set; lower: in
\* Event::clear; unlock: leaving the lock.
PC == {"idle", "test", "enqueue", "lock", "body", "full", "raise", "grab",
       "wake", "lower", "unlock"}

TypeOK ==
    /\ ready \in [OSThread -> Seq(UThread)]
    /\ data \in [0 .. Size - 1 -> 0 .. MaxBytes]
    /\ readPos \in 0 .. Size /\ (Size > 0 => readPos < Size)
    /\ filled \in 0 .. Size
    /\ readClosed \in BOOLEAN /\ writeClosed \in BOOLEAN
    /\ s \in [Ev -> {0, 1}] /\ waiting \in [Ev -> Seq(UThread)]
    /\ local \in [UThread -> Seq(UThread)]
    /\ count \in [{L} -> Nat] /\ lockQueue \in [{L} -> Seq(UThread)]
    /\ pc \in [UThread -> PC]
    /\ amount \in [UThread -> Nat]
    /\ op \in [UThread -> Op]
    /\ out \in Seq(0 .. MaxBytes) /\ sent \in 0 .. MaxBytes
    /\ calls \in [UThread -> Nat]

Init ==
    /\ ready = Started
    /\ data = [i \in 0 .. Size - 1 |-> 0] /\ readPos = 0 /\ filled = 0
    /\ readClosed = FALSE /\ writeClosed = FALSE
    /\ s = [e \in Ev |-> IF e = "waitWrite" THEN 1 ELSE 0]
    /\ waiting = [e \in Ev |-> <<>>] /\ local = [u \in UThread |-> <<>>]
    /\ count = [l \in {L} |-> 1] /\ lockQueue = [l \in {L} |-> <<>>]
    /\ pc = [u \in UThread |-> "idle"]
    /\ amount = [u \in UThread |-> 0]
    /\ op = [u \in UThread |-> "none"]
    /\ out = <<>> /\ sent = 0
    /\ calls = MaxCalls

----------------------------------------------------------------------------
At(u, l) == Runs(u) /\ pc[u] = l
Goto(u, l) == pc' = [pc EXCEPT ![u] = l]

\* The event a function waits for before it does anything, and the one it sets.
Awaits(u) == IF op[u] = "write" THEN "waitWrite" ELSE "waitRead"
Signals(u) == IF op[u] \in {"write", "closeWrite"} THEN "waitRead" ELSE "waitWrite"

\* u calls f with n bytes of room, or n bytes to write.
Calls(u, f, n, l) ==
    /\ At(u, "idle") /\ calls[u] > 0
    /\ calls' = [calls EXCEPT ![u] = @ - 1]
    /\ op' = [op EXCEPT ![u] = f]
    /\ amount' = [amount EXCEPT ![u] = n]
    /\ Goto(u, l)

Read(u, n) ==
    /\ u \in Reader
    /\ Calls(u, "read", n, "test") \/ Calls(u, "peek", n, "test")
    /\ UNCHANGED <<ready, ring, closed, event, locks, history>>

\* A write of no bytes returns without touching anything.
Write(u, n) ==
    /\ u = Writer
    /\ n > 0 /\ sent + n <= MaxBytes
    /\ Calls(u, "write", n, "test")
    /\ UNCHANGED <<ready, ring, closed, event, locks, history>>

More(u) ==
    /\ u \in Reader
    /\ Calls(u, "more", 0, "lock")
    /\ UNCHANGED <<ready, ring, closed, event, locks, history>>

\* closeRead, closeWrite and close: the flag comes first.
CloseRead(u) ==
    /\ \/ u \in Reader /\ Calls(u, "closeRead", 0, "raise")
       \/ Calls(u, "close", 0, "raise")
    /\ readClosed' = TRUE
    /\ UNCHANGED <<ready, ring, writeClosed, event, locks, history>>

CloseWrite(u) ==
    /\ u = Writer
    /\ Calls(u, "closeWrite", 0, "raise")
    /\ writeClosed' = TRUE
    /\ UNCHANGED <<ready, ring, readClosed, event, locks, history>>

\* Between two calls u may let the other UThreads of its OS thread run.
Yield(u) ==
    /\ At(u, "idle")
    /\ Leave(u)
    /\ UNCHANGED <<ring, closed, event, locks, pc, amount, op, history, calls>>

----------------------------------------------------------------------------
(***************************************************************************)
(* Event::wait, then Lock::lock.                                           *)
(***************************************************************************)
Test(u) ==
    /\ At(u, "test")
    /\ Goto(u, IF s[Awaits(u)] = 1 THEN "lock" ELSE "enqueue")
    /\ UNCHANGED <<ready, ring, closed, event, locks, amount, op, history, calls>>

Enqueue(u) ==
    /\ At(u, "enqueue")
    /\ waiting' = [waiting EXCEPT ![Awaits(u)] = Append(@, u)]
    /\ Park(u)
    /\ Goto(u, "lock")
    /\ UNCHANGED <<ring, closed, s, local, locks, amount, op, history, calls>>

Lock(u) ==
    /\ At(u, "lock")
    /\ Goto(u, "body")
    /\ \/ Mutex!DownTakes(L) /\ UNCHANGED ready
       \/ Mutex!DownQueues(L, u) /\ Park(u)
    /\ UNCHANGED <<ring, closed, event, amount, op, history, calls>>

\* Lock::Guard's destructor.  A write that has bytes left, and a read that found
\* nothing, start over; the others return.
Unlock(u) ==
    /\ At(u, "unlock")
    /\ Goto(u, IF op[u] = "none" THEN "idle" ELSE "test")
    /\ \/ Mutex!UpCounts(L) /\ UNCHANGED ready
       \/ Mutex!UpHandsOver(L) /\ WakeUp(Head(lockQueue[L]))
    /\ UNCHANGED <<ring, closed, event, amount, op, history, calls>>

----------------------------------------------------------------------------
(***************************************************************************)
(* Inside the lock.                                                        *)
(***************************************************************************)
Least(a, b) == IF a < b THEN a ELSE b

\* Mutant of Wrap: off by one.
WrapLate(i) == IF i > Size THEN i - Size ELSE i

\* A position past the end of the buffer continues at its start.
Wrap(i) == IF i >= Size THEN i - Size ELSE i

\* The function ends once the lock is released.
EndsIn(u, l) == op' = [op EXCEPT ![u] = "none"] /\ Goto(u, l)

\* readCommon: nothing to read and nothing to come.
ReadEnd(u) ==
    /\ At(u, "body") /\ op[u] \in {"read", "peek"}
    /\ filled = 0 /\ writeClosed
    /\ EndsIn(u, "unlock")
    /\ UNCHANGED <<ready, ring, closed, event, locks, amount, history, calls>>

\* readCommon: a spurious wakeup.
ReadNothing(u) ==
    /\ At(u, "body") /\ op[u] \in {"read", "peek"}
    /\ filled = 0 /\ ~writeClosed
    /\ Goto(u, "lower")
    /\ UNCHANGED <<ready, ring, closed, event, locks, amount, op, history, calls>>

\* Mutant of Copied: one memcpy, which runs past the end of the buffer.
CopiedOnce(n) == [i \in 1 .. n |-> IF readPos + i - 1 < Size THEN data[readPos + i - 1] ELSE 0]

\* readCommon: the bytes that are copied, wrapping at the end of the buffer.
Copied(n) == [i \in 1 .. n |-> data[Wrap(readPos + i - 1)]]

ReadCopy(u) ==
    LET n == Least(amount[u], filled)
    IN  /\ At(u, "body") /\ op[u] = "read"
        /\ filled > 0
        /\ out' = out \o Copied(n)
        /\ filled' = filled - n
        /\ readPos' = Wrap(readPos + n)
        /\ Goto(u, "raise")
        /\ UNCHANGED <<ready, data, closed, event, locks, amount, op, sent, calls>>

PeekCopy(u) ==
    /\ At(u, "body") /\ op[u] = "peek"
    /\ filled > 0
    /\ EndsIn(u, "unlock")
    /\ UNCHANGED <<ready, ring, closed, event, locks, amount, history, calls>>

\* more: tells whether the write end is open.
MoreResult(u) ==
    /\ At(u, "body") /\ op[u] = "more"
    /\ EndsIn(u, "unlock")
    /\ UNCHANGED <<ready, ring, closed, event, locks, amount, history, calls>>

\* write: the read end is closed.
WriteEnd(u) ==
    /\ At(u, "body") /\ op[u] = "write"
    /\ readClosed
    /\ EndsIn(u, "unlock")
    /\ UNCHANGED <<ready, ring, closed, event, locks, amount, history, calls>>

\* write: no room.
WriteNothing(u) ==
    /\ At(u, "body") /\ op[u] = "write"
    /\ ~readClosed /\ filled >= Size
    /\ Goto(u, "lower")
    /\ UNCHANGED <<ready, ring, closed, event, locks, amount, op, history, calls>>

\* write: what fits without wrapping.
WriteCopy(u) ==
    LET tail == Wrap(readPos + filled)
        n == Least(Size - tail, Least(Size - filled, amount[u]))
    IN  /\ At(u, "body") /\ op[u] = "write"
        /\ ~readClosed /\ filled < Size
        /\ data' = [i \in 0 .. Size - 1 |->
                       IF i \in tail .. tail + n - 1 THEN sent + 1 + i - tail ELSE data[i]]
        /\ filled' = filled + n
        /\ sent' = sent + n
        /\ amount' = [amount EXCEPT ![u] = @ - n]
        /\ Goto(u, "full")
        /\ UNCHANGED <<ready, readPos, closed, event, locks, op, out, calls>>

\* Mutant of WriteFull: waitWrite is cleared after every write.
WriteFullAlways(u) ==
    /\ At(u, "full")
    /\ s' = [s EXCEPT !["waitWrite"] = 0]
    /\ Goto(u, "raise")
    /\ UNCHANGED <<ready, ring, closed, queues, locks, amount, op, history, calls>>

\* write: clear waitWrite if the buffer is full.
WriteFull(u) ==
    /\ At(u, "full")
    /\ s' = [s EXCEPT !["waitWrite"] = IF filled >= Size THEN 0 ELSE @]
    /\ Goto(u, "raise")
    /\ UNCHANGED <<ready, ring, closed, queues, locks, amount, op, history, calls>>

----------------------------------------------------------------------------
(***************************************************************************)
(* Event::set and Event::clear, inside the lock except for the closes.     *)
(***************************************************************************)
Raise(u) ==
    /\ At(u, "raise")
    /\ s' = [s EXCEPT ![Signals(u)] = 1]
    /\ Goto(u, "grab")
    /\ UNCHANGED <<ready, ring, closed, queues, locks, amount, op, history, calls>>

\* The queue moves to a list of its own.
Grab(u) ==
    /\ At(u, "grab")
    /\ local' = [local EXCEPT ![u] = waiting[Signals(u)]]
    /\ waiting' = [waiting EXCEPT ![Signals(u)] = <<>>]
    /\ Goto(u, "wake")
    /\ UNCHANGED <<ready, ring, closed, s, locks, amount, op, history, calls>>

Wake(u) ==
    /\ At(u, "wake") /\ local[u] # <<>>
    /\ WakeUp(Head(local[u]))
    /\ local' = [local EXCEPT ![u] = Tail(@)]
    /\ UNCHANGED <<ring, closed, s, waiting, locks, pc, amount, op, history, calls>>

\* set() returns.
SetDone(u) == At(u, "wake") /\ local[u] = <<>>

\* close: the second half.
CloseBoth(u) ==
    /\ SetDone(u) /\ op[u] = "close"
    /\ op' = [op EXCEPT ![u] = "closeWrite"]
    /\ Goto(u, "raise")
    /\ writeClosed' = TRUE
    /\ UNCHANGED <<ready, ring, readClosed, event, locks, amount, history, calls>>

\* A close returns; write loops if it has bytes left.
AfterSet(u) ==
    /\ SetDone(u)
    /\ \/ op[u] \in {"closeRead", "closeWrite"} /\ EndsIn(u, "idle")
       \/ op[u] = "write" /\ amount[u] = 0 /\ EndsIn(u, "unlock")
       \/ op[u] = "write" /\ amount[u] > 0 /\ Goto(u, "unlock") /\ UNCHANGED op
    /\ UNCHANGED <<ready, ring, closed, event, locks, amount, history, calls>>

\* Mutant of ReadDone: waitRead is cleared after every read.
ReadDoneClears(u) ==
    /\ SetDone(u) /\ op[u] = "read"
    /\ s' = [s EXCEPT !["waitRead"] = 0]
    /\ EndsIn(u, "unlock")
    /\ UNCHANGED <<ready, ring, closed, queues, locks, amount, history, calls>>

\* readCommon: clear waitRead if the buffer is empty, and return.
ReadDone(u) ==
    /\ SetDone(u) /\ op[u] = "read"
    /\ s' = [s EXCEPT !["waitRead"] = IF filled = 0 THEN 0 ELSE @]
    /\ EndsIn(u, "unlock")
    /\ UNCHANGED <<ready, ring, closed, queues, locks, amount, history, calls>>

Lower(u) ==
    /\ At(u, "lower")
    /\ s' = [s EXCEPT ![Awaits(u)] = 0]
    /\ Goto(u, "unlock")
    /\ UNCHANGED <<ready, ring, closed, queues, locks, amount, op, history, calls>>

----------------------------------------------------------------------------
Start(u) ==
    \/ \E n \in 0 .. MaxRead : Read(u, n)
    \/ \E n \in 0 .. MaxBytes : Write(u, n)
    \/ More(u) \/ CloseRead(u) \/ CloseWrite(u)

Proceed(u) ==
    \/ Test(u) \/ Enqueue(u) \/ Lock(u) \/ Unlock(u)
    \/ ReadEnd(u) \/ ReadNothing(u) \/ ReadCopy(u) \/ PeekCopy(u) \/ MoreResult(u)
    \/ WriteEnd(u) \/ WriteNothing(u) \/ WriteCopy(u) \/ WriteFull(u)
    \/ Raise(u) \/ Grab(u) \/ Wake(u) \/ AfterSet(u) \/ ReadDone(u) \/ Lower(u) \/ CloseBoth(u)

Next == \E u \in UThread : Start(u) \/ Proceed(u) \/ Yield(u)

\* A call that has started goes on, and a UThread between calls yields again and
\* again; nobody has to call anything.
Fairness == \A u \in UThread : WF_vars(Proceed(u)) /\ WF_vars(Yield(u))

Spec == Init /\ [][Next]_vars /\ Fairness

----------------------------------------------------------------------------
(***************************************************************************)
(* Properties.                                                             *)
(***************************************************************************)

\* Bytes come out of the pipe as they went in, however the two ends wrap around
\* the circular buffer: read has returned bytes 1, 2, ... of those write has
\* accepted, and the buffer holds exactly the ones that follow.
Fifo ==
    /\ sent = Len(out) + filled
    /\ \A i \in 1 .. Len(out) : out[i] = i
    /\ \A k \in 0 .. filled - 1 : data[Wrap(readPos + k)] = Len(out) + k + 1

\* While nobody is inside the lock the events tell the truth: waitRead is set if
\* there is something to read, waitWrite if there is room.  The closes, which do
\* not take the lock, can not change that.
FlagsHonest ==
    count[L] = 1 =>
        /\ filled > 0 => s["waitRead"] = 1
        /\ filled < Size => s["waitWrite"] = 1

\* A read that could return bytes does, unless another one takes them first, when
\* all UThreads that use the pipe are on one OS thread.
ReaderGetsData ==
    \A u \in Reader :
        op[u] \in {"read", "peek"} /\ filled > 0 ~> op[u] = "none" \/ filled = 0

\* A write that has room, or whose bytes nobody wants any more, gets on, when all
\* UThreads that use the pipe are on one OS thread.  On two, a closeRead in the
\* middle of write can be lost: see ClosedStopsWriter.
WriterGetsOn ==
    op[Writer] = "write" /\ (filled < Size \/ readClosed)
        ~> op[Writer] = "none" \/ (filled = Size /\ ~readClosed)

\* "If the read end is closed, just stop writing" (Pipe.cpp, write): once the read
\* end is closed, and whoever closed it has set waitWrite and taken its queue, the
\* writer does not wait for a waitWrite that is clear.
ClosedStopsWriter ==
    readClosed /\ (\A u \in UThread : op[u] \in {"closeRead", "close"}
                        => pc[u] \notin {"raise", "grab"})
        => ~(s["waitWrite"] = 0 /\ \E i \in DOMAIN waiting["waitWrite"] :
                waiting["waitWrite"][i] = Writer)

\* "The function blocks until at least one byte has been successfully read from
\* the stream, or if the end of stream has been reached" (Core/Io/Stream.h, read).
EndIsReported ==
    \A u \in Reader : op[u] = "read" /\ writeClosed /\ filled = 0 ~> op[u] = "none"

\* "Returns `false` if the end of the stream has been reached, and `true`
\* otherwise" (Core/Io/Stream.h, more).
MoreIsHonest ==
    [][\A u \in Reader : MoreResult(u) /\ writeClosed => filled = 0]_vars
============================================================================
