# A verification of Storm's concurrency core and of its HTTP server

Storm runs many light-weight threads (*UThreads*) on a few OS threads, gives
them semaphores, locks, events, pipes and sockets that block a UThread and not
the OS thread under it, and has an HTTP library on top, written in Basic Storm.
This directory holds TLA+ models of that stack, the TLC configurations that
check them on small instances, and proofs that TLAPS checks for every instance.

    tlc -workers 2 -config MCUThreadState.cfg MCUThreadState     # one of the runs
    tlapm UThreadStateProofs.tla                                 # one module of proofs

`PROJECT.json` maps every definition to the lines it models, and lists the runs,
the mutants that show each property can fail, the hazards and the findings.

## 1. The system

| Part | Source | State | Operations | What is hard |
|---|---|---|---|---|
| UThread scheduler | `OS/UThread.cpp` | running, ready list, sleeping list, stacks, aliveCount | insert, leave, wait, wake, exit, sleep, detour | other OS threads push while this one decides to sleep |
| OS threads | `OS/Thread.cpp`, `OS/ThreadGroup.cpp` | references, wait object, group counters | spawn, threadMain, reportWake, waitForWork, join | deciding that nobody can reach a thread |
| IOCondition | `OS/IOCondition.cpp` | flag, eventfd | signal, wait | flag and eventfd change in two steps |
| Sema, Lock, Event | `OS/Sync.cpp`, `Core/{Sema,Lock,Event}.cpp` | count or flag, queue | up, down, set, clear, wait | waking happens outside the lock |
| Futures | `OS/Future.cpp`, `Core/Future.cpp` | posted and read states, result, error | post, error, result, detach | lifetime of the shared data |
| Asynchronous I/O, timers | `OS/IOHandle.cpp`, `OS/IORequest.cpp`, `OS/FdMap.h` | attached handles, requests, wake times | attach, detach, notifyAll, timeout | completion races with timeout and close |
| Streams and pipes | `Core/Io/*` | buffers, closed flags, lookahead | read, peek, write, more, close | blocking at the limits of a buffer |
| Sockets | `Core/Net/*` | handle, closed directions | accept, connect, close | two directions, one handle |
| HTTP server | `root/http/server.bs`, `routing.bs`, `parser.bs` | routes, per connection a buffer and a request | recieve, connectionThread, addCallback | requests in pieces, timeouts, keep-alive |
| Work queue, GC tickets | `Compiler/Server/WorkQueue.cpp`, `Gc/SMM/ArenaTicket.cpp` | queue, counters | post, stop; lock, stopThreads | stopping while others work |
| Compiler, code generation, GUI, sound, crypto, SQL | `Compiler`, `Code`, `Gui`, `Sound`, `Crypto`, `SQL` | – | – | not about concurrency, or bindings |

What each part has to guarantee: the scheduler loses no UThread and never sleeps
on work; a semaphore loses and invents no token; an event that is set holds
nobody; a future gives all readers one result, lives as long as it is used and
loses no error; an OS thread runs while somebody refers to it and ends when nobody
does; a socket loses no byte to a timeout, a peek or a close, and nobody oversleeps;
a pipe is a FIFO that ends; the HTTP server answers the requests of a
connection in order, however the network cuts them, and lets go of a connection
whose client is gone.

## 2. The modules

```
AbstractSema          what a semaphore promises
   ^ refined by
UThreadState  ---  extends IOCondition and Sema; MCUThreadState instantiates it
   ^ proved about in UThreadStateProofs
ReadyQueue            what UThreadState looks like from above
   ^ extended by
Event, Pipe           Pipe also instantiates Sema for its lock; MCEvent, MCPipe;
                      EventProofs, PipeProofs
Future                on the semaphore that AbstractSema promises; MCFuture, FutureProofs
Thread                the life of OS threads and their group; MCThread, ThreadProofs
FdMap             <-- NetStream; MCNetStream; FdMapProofs <-- NetStreamProofs
HttpRoutingTable  <-- HttpServer; MCHttpServer, HttpProofs
```

**IOCondition, Sema.** The atomic pieces of `signal`/`doWait` and the critical
sections of `up`/`down`. They are operators; `UThreadState` says who executes
which one when.

**UThreadState.** `running`, `ready` and `aliveCount` are the members of the same
name. `pc[u]` is the place of a UThread in the library; `target[u]` is the
UThread it is waking; `inDown[u]` the semaphore it is blocked in; `idle[t]` the
progress of an OS thread through `waitForWork` and `doWait`. Actions: `Down`,
`Up`, `Insert`, `Leave`, `Return` are the calls of a running UThread; `Wake`,
`ReportWake`, `WriteEventfd` what it does on behalf of another; `Wait`, `Exit`,
`MainLoop` one iteration of the loop of the same name; `PollEvent`, `PollOther`,
`Drain`, `Rearm` the steps of `doWait`. UThreads that sleep or do I/O appear only
as `PollOther`, a poll that returns although the eventfd is not readable; they are
in `NetStream`.

**AbstractSema.** A counter; `down` either takes a token or blocks and takes one
later. `UThreadState` implements it: `value` is the count plus the tokens handed
to UThreads that do not run yet, `blocked` is `inDown`.

**ReadyQueue.** Each OS thread has a list whose first element executes until it
parks or leaves. It is used by the modules above the scheduler. It leaves out the
sleeping and the signalling, which `NoLostWakeup` and `ReadyRuns` of
`UThreadState` justify.

**Event.** `s` and `waiting` are the event's members, `local[u]` the local list of
a `set()` in progress. `wait()` is `WaitReturns` or `WaitBlocks`, `Enqueue`,
`Resume`; `set()` is `Set`, `Grab`, `WakeNext`, `SetReturns`. `excused[u]` is a
history variable: a `set()` has overlapped the `wait()` of `u`.

**Pipe.** `data`, `readPos`, `filled`, `readClosed`, `writeClosed` as in the class;
bytes are numbered as they are written, so that their order can be stated. One
step per unprotected access, and one per stretch inside the lock up to the next
access that others can see. `set()` is `Raise`, `Grab` and one `Wake` for each
UThread of `local[u]`, as in `Event`. The closes do not take the lock, as in the
code.

**Future.** `storm::FutureBase` on `os::FutureBase`. `refs`, `releaseOnResult`,
`filled`, `resultPosted` and `resultRead` are the members; `holders` are the objects
that share them, `saved` is the saved exception, `destroyed` says that the shared
data is gone. Holders copy and drop (`Copy`, `Drop`), start a call that will post
(`Spawn`), post a value or an error (`Post`, `CopyValue`, `Mark`, `Save`, `Notify`,
`ResultPosted`, `CheckDetached`), read (`Result`, `Down`, `Up`, `Take`) and detach
(`Detach`, `Warn`). Each step is one atomic access, so that `detach()` and `error()`
overlap in every way. `down` and `up` are the steps of an `AbstractSema`.

**Thread.** `references`, `wakeCond`, `wait` are members of `ThreadData`; `attached`,
`running` and `sema` of `ThreadGroup`. `pc[w]` follows `threadMain`: the set-up
(`Create`, `Report`), the function (`Main`), the `ThreadWait` (`Block`,
`WaitReturns`, `WaitEnds`), the final loop (`Run`, `Test`, `TestAny`,
`Unreachable`, `Awake`), the report to the group (`Stop`) and the lines after it
(`End`), which a `join` does not wait for. `at[c]` follows a client through
`spawn`, the release of the last reference (`Drop`, `ReportZero`), `reportWake`
(`Insert` or `Wake`, `Signal`, `TestWait`, `UseWait`), `threads` and `join`. The
condition is a flag that waiting consumes, and UThreads are counted rather than
listed: `IOCondition` and `UThreadState` have the detail. The `ThreadWait` is an
interface that programs implement, so it is external.

**FdMap, NetStream.** `FdMap` is the hash table as a record of its members, with
`put`, `remove`, `grow` and `shrink` as operators, and a multimap (a set of pairs)
as its reference. `NetStream` is a connected socket with what its calls use:
`Read`, `Peek`, `Write`, `Sleep` run until they block or return, `Resume` is the
rest of a call that was blocked; `Close` and `CloseEnd` are the closes of the
socket and of its streams; `Reap` wakes sleepers and requests whose time has come,
`EnterPoll` and `LeavePoll` are the sleep of the OS thread, with the timeout that
the first sleeper gives it. `handles` is the table of the OS thread, an `FdMap`;
`sleeping` is the sorted list, `left[u]` the time until the wake-up of `u`. The
kernel, the peer and time (`Send`, `Drain`, `Leave`, `Reuse`, `Tick`) are external.

**HttpRoutingTable, HttpServer.** `pc[c]` is the place of `connectionThread`,
`rBuf[c]` and `count[c]` the filled part and the size of its buffer, `net[c]` the
bytes on the way. `ReadSome` is one turn of the loop in `readSocket`, with the
growing of the buffer, the read, the search and the parse; `ReadNothing` and
`CloseConnection` are the end of the stream and the timeout; `Respond` and
`NoRoute` the rest of the loop in `connectionThread`. Requests are byte sequences
because the search is about bytes; the grammar is abstracted to accepting or
rejecting a header. `sent[c]` is a history variable: the bytes the client has sent.
The client (`Ask`, `HangUp`) is external. In `connectionThread` the loop of `readSocket` is left only by its returns: `more`
can turn false only by a read of no bytes, and then the thread ends.

## 3. What the runs check

| Run | Instance | States | Shows |
|---|---|---|---|
| `sched` | 2 OS threads, 3 UThreads, 1 semaphore, 2 calls each | 38,377 | `OneList`, `NoneLost`, `NoLostWakeup`, `NoOvertaking`, `AliveCountExact`, `ImplementsSema` with its fairness, `ReadyRuns`, no deadlock |
| `event` | 2 OS threads, 3 UThreads, 2 events, 2 calls each | 21,562 | `OnOneList`, `WokenBySet`, `SetReleasesQueue`, `NobodyLeftBehindLocally` |
| `event_lost` | the same | violated | finding 1 |
| `pipe_two` | reader and writer on 2 OS threads, 3 bytes of buffer, 5 bytes written | 239,107 | `Fifo`, `FlagsHonest` |
| `pipe_one` | two readers and the writer on 1 OS thread, 2 bytes of buffer, 3 bytes written | 68,882 | `ReaderGetsData`, `WriterGetsOn` |
| `pipe_close` | reader and writer on 2 OS threads, 2 bytes of buffer, 3 bytes written | violated | finding 4 |
| `pipe_end` | one reader and the writer on 1 OS thread | violated | finding 2 |
| `future` | 3 holders and a spawned task; values and errors of Storm | 125,056 | `SameResult`, `AliveWhileUsed`, `NoSilentError`, `ResultReturns` |
| `threads` | 2 workers, one with a `ThreadWait` and with UThreads, 2 clients | 470,630 | `ReferencesExact`, `KeptRunning`, `EndIsSignalled`, `JoinWaits`, `WorkWakes` |
| `threads_knows` | the same | violated | finding 3 |
| `net` | 3 UThreads on a socket, 2 bytes sent, timeouts, sleeps and closes; the table on all histories of 7 operations | 423,568 | `Registered`, `OwnData`, `NeverOversleeps`, `EndIsEnd`, `FdMapAgrees` |
| `http` | 1 client, 2 requests, the second before the first is answered, a body that holds a request, buffer of 4 bytes, 2 routes | 168,991 | `InOrder`, `NoOverlookedHeader`, `KeepsBytes`, `RoutesStable`, `ThreadEnds` |

*Bounds.* `MaxOps` of the scheduler and `MaxCalls` bound the calls of a UThread. Two
OS threads, one of them with two UThreads, give every kind of waking: of oneself
before switching away, of a neighbour, of a UThread of an OS thread that is awake,
about to sleep or asleep. Two calls let a semaphore be taken, waited for and given
back; what longer histories would add is covered by the proofs, which need no bound.
The pipe's buffers are smaller than what goes through them, so both positions wrap;
a second reader makes a reader wake up to an empty buffer. `ReaderGetsData` and
`WriterGetsOn` are about one OS thread: on two, findings 1 and 4 keep them from
holding.

A future has three holders because the interesting races have three parties: one
that posts, one that reads or detaches, and one whose release may be the last.
Threads: two clients are enough for one to drop the last reference while the other
asks the group for it; `MaxWork` allows a UThread on the worker that has a
`ThreadWait`, so that work arrives in its loop, in the final loop, and between them;
the second worker makes `join` wait twice.

Sockets: with three UThreads a reader, a writer and a sleeper wait at a time, or
several readers, which share a descriptor in the table. Buffers of two bytes are
larger than a piece that arrives and smaller than what is sent in all; `MaxRoom` = 1
makes writes block. `PerMs` = 2 leaves time between the milliseconds of poll, so
that rounding matters. `NatSize` stands for 2^32 and is not reached by the timeouts
chosen. UThreads are interchangeable and no property names one: they are a symmetry
set, and the run has no temporal property. `MinSize` = 2 and `Hashes` make the table
grow, shrink and chain with the five elements its histories hold; `MaxOps` of this
instance is their length.

The HTTP buffer (`BufSize`, 4096 in the code) is smaller than a header, so it
grows; one request is malformed, and the client may send a second request early. The
body of another one ends in a request. The byte before it may be dropped with the
header, and then the rest is answered; or it is not, and the grammar rejects the
whole. `NatRange` is 2^16 rather than 2^32; all that matters is that it is larger
than any buffer. Connections share only the routing table, so one of
them is enough. `MaxRoutes`, `MaxAsked` and `MaxOutstanding` are bounds too.

*Deadlock* is checked for the scheduler only. UThreads that wait for an event, a
byte, a result or a client which never comes are legal.

*Fairness.* `UThreadState`: every OS thread that is not blocked in poll gets
processor time, and functions run as UThreads return; poll returns if the
eventfd is readable, and nothing else makes it return. `Event` and `Pipe`: a call
that has started goes on when its UThread is the one that runs, and UThreads
yield between calls, as cooperative threads must; nobody has to call anything.
`Future`: calls that have started go on; `Down` is strongly fair because
`Sema::up` hands its token to the first of the queue, so nobody is overtaken for
ever. `Thread`: the OS runs its threads, clients finish their calls, and a
`ThreadWait` that was signalled returns. `NetStream` has safety properties only.
`HttpServer`: the program calls `recieve` in a loop as the documentation shows,
and a read ends with data, with the end of the stream, or by the timeout.

## 4. Findings

1. **A waiter left behind** (`OS/Sync.cpp:115`). `Event::wait` looks at the flag
   before it takes the lock and not afterwards. A `set()` on another OS thread can
   raise the flag and empty the queue in between; the caller is then queued on an
   event that is set. `Core/Event.h:32` promises otherwise. Within one OS thread it
   can not happen (`NobodyLeftBehindLocally`, which is also proved).
2. **The end of a pipe is reported once** (`Core/Io/Pipe.cpp:104`). The read that
   takes the last byte clears `waitRead` although the write end is closed; the next
   read waits for ever. `Core/Io/Stream.h:52` says it returns at the end.
3. **A thread that is gone is still known** (`OS/Thread.cpp:253`). `release`
   decrements the references and then reports the zero; `wake` pushes a UThread and
   then reports it. In between the OS thread can see the zero, or run the UThread to
   its end, leave its final loop and delete its `ThreadWait` and `ThreadData`. The
   comment says that no one knows of it by then.
4. **A close that the writer does not see** (`Core/Io/Pipe.cpp:149`). `closeRead` sets
   its flag and `waitWrite` without the lock. If it comes, on another OS thread,
   between the writer's test of `readClosed` and the `clear` after the buffer was
   filled, the `clear` undoes the set. A write with bytes left then waits for an event
   that nobody will set. `Core/Io/Pipe.cpp:121` says that it just stops writing. The
   wait has nothing to do with finding 1: the event is down when the writer queues
   itself.

*Further counterexamples.* More configurations end with a violation. All but the last
state what the repository says. They are kept for whoever works on these places:

* `MCPipeMore.cfg`, `MoreIsHonest`: `Pipe::more` (`Core/Io/Pipe.cpp:54`) is false as
  soon as the write end is closed, also when bytes are left to read;
  `Core/Io/Stream.h:34` says it is false at the end of the stream.
* `MCFutureDetached.cfg`, `WarningsHarmless`: the comment in `detach`
  (`OS/Future.cpp:86`) accepts two warnings when `detach` and `error` overlap. If the
  error is a C++ exception, a warning rethrows the saved one to print it. `detach` can
  come between the mark in `resultPosted` and `saveError`, when nothing is saved yet;
  and `notify` may release the last reference, and the saved exception with it, before
  the check that follows in `error`. The errors of Storm
  are garbage collected objects, and the code tests the pointer before it prints.
* `MCThreadLeft.cfg`, `NoneLeftBehind`: the comment in the final loop
  (`OS/Thread.cpp:232`) says that without references nobody can add UThreads. A
  thread that `ThreadGroup::threads` hands out after the two tests, and that is
  dropped again before `threadUnreachable`, may have got a UThread in the meantime,
  and ends without running it.
* `MCNetStreamClosed.cfg`, `OwnData` with `UseAfterClose`: `Core/Net/Socket.h:28` says
  that `close` closes both streams. `Socket::close` closes the handle only; a stream
  that is used afterwards reads what has the descriptor next. Programs that do not
  use the streams of a socket they have closed are safe: the run `net`.
* `MCThreadJoin.cfg`, `JoinWaitsForExit`: `OS/ThreadGroup.h:39` says of `join` "Wait for
  all threads in this group to exit". A thread raises the semaphore that `join` waits
  for in `group->threadTerminated()` (`OS/Thread.cpp:257`) and has more to do
  afterwards: it releases the group, closes its `ioComplete` and cleans up. `join` may
  return before that. What holds is `JoinWaits`: it has left its final loop.
* `MCHttpSmall.cfg`, `NoUnderflow`: the bound of the search for the end of a header
  (`root/http/server.bs:67`) wraps when the first read gets one or two bytes. The comment
  on the line begins with "Changed from -3 to i+3 so we avoid underflow", but the code
  has the -3; it ends with a note, in Swedish, that this is to be fixed because it can
  be out of range.
* `MCHttpBody.cfg`, `OnlyRequests`: `connectionThread` (`root/http/server.bs:92`) drops
  what is in its buffer behind a header and never counts the bytes of a body. What
  arrives of the body afterwards is read as a request, and if it is one it is answered.

## 5. What is proved

All theorems are about the specifications that the runs check, for every value of
the constants; the assumptions are the named `ASSUME`s of the modules, which TLC
evaluates on every instance.

**The scheduler.** `UThreadStateProofs` proves, for any finite set of UThreads, any
OS threads and semaphores, and any bound on the calls:

    Spec => []IInv          (Invariance)
    Spec => []TypeOK, []OneList, []NoneLost, []NoLostWakeup,
            []NoOvertaking, []AliveCountExact

The assumptions are `SchedAssumption` (every OS thread starts in a UThread of its
own, UThreads do not migrate) and `InitCountAssumption`.

None of the properties is inductive alone. `NoLostWakeup` needs `FlagInv`: while
the flag of a condition keeps signallers away, the eventfd is readable, or its
writer is on the way, or the sleeper is about to reset the flag. After that reset
the OS thread looks at its ready list again before it sleeps; that is why clearing
the flag last is safe. `NoneLost` and `OneList` rest on each other: a UThread can
be taken off one list only because it is on no other, and `TransitInv` covers the
moment between `waiting.pop()` in `up` and `ready.push()` in `wake`. `ExecInv` says
that only the running UThread executes library code. `IInv` is their conjunction.

The proof has one lemma per action. Most go through a few lemmas on what kind of
step they are: one that changes no list (`QuietIInv`), one that pushes to a ready
list (`PushIInv`), one that switches (`SwitchIInv`), which see lists only through
membership and absence of duplicates (`InAppend`, `InTail`, `RestOfList`).

`SemaRefinement` is `Spec => Abstract!Safety`: initial states map to
initial states and each step to a step of `AbstractSema` or to a stutter. A
hand-over in `up` is a `Release` because the token is still counted, as granted;
switching to a UThread that was granted one is the `Unblock`.

**Events.** `EventProofs` proves `TypeOK`, `OnOneList`, `WokenBySet` and
`NobodyLeftBehindLocally` for any OS threads, UThreads and events. `OnOneList` needs
the lists to be disjoint and complete (`ListInv`, `QueueInv`, `LocalInv`, `PlaceInv`).
`NobodyLeftBehindLocally` needs `AloneInv`: on an event of one OS thread the flag is
still down when a `wait()` queues itself. This holds because whoever is inside a
call is the UThread that runs (`CallInv`), and only one does; with two OS threads it
is what fails in finding 1. `WokenBySet` needs `ExcuseInv`: whoever a `set()` in
progress may find has been overlapped by it.

**Futures.** `FutureProofs` proves `SameResult`, `AliveWhileUsed` and `NoSilentError`
for any finite set of holders and any kinds of results, those of C++ included. The
references are the objects and the one of a spawned call (`RefsCounted`); whoever is
in a call holds one (`CallersHold`, `TaskHolds`), except for the last look of
`error` at `resultRead`. There is one poster (`OnePoster`, `Claimed`), and tokens
exist only after its result is in place (`Announced`). `NoSilentError` needs
`Reporting`: once an error is posted and the future detached, one of the two calls
has printed it or is about to.

**Threads.** `ThreadProofs` proves `TypeOK`, `ReferencesExact`, `KeptRunning`,
`EndIsSignalled` and `JoinWaits` for any finite sets of workers and clients.
(`JoinWaits` is about the reports of the threads, not about the lines they run
afterwards.) `KeptRunning` rests on the exact count of the references, and on the
group's lock, which orders `threads` and `threadUnreachable`. `JoinWaits` needs
`JoinCount`: the threads that have not reported their end and the tokens of the
group's semaphore are together what is attached, and what `join` is waiting for.

**The pipe.** `PipeProofs` proves `TypeOK`, `Fifo`, `Exclusive` and `FlagsHonest`
for any readers, any OS threads, any size of the buffer (zero included) and any
amounts. The invariant has three layers. `BytesInv` is types, `Fifo`, and where a
call can be (`OpInv`: a writer has bytes left until it has copied them). It needs
nothing about the lock, because a step inside the lock is atomic; the arithmetic of
the two ends is in lemmas about `Wrap`. `ListsInv` says that a UThread is on one of
the ready lists, the queues and the local lists of the `set()`s at most, and from
this that one UThread is inside the lock (`LockInv`). `HonestInv` rests on it: the
flags tell the truth, except for the one that the UThread inside the lock is about
to correct (`Excuse`). The closes only raise flags, so they break nothing. `Exclusive`
has no run of its own; it is a conjunct of the invariant that others may want.

**The table of descriptors.** `FdMapProofs` proves `Multimap`: for any hash function,
any descriptors and any initial capacity, `FdMap` agrees with a set of pairs after
every history of its operations. `Sound` is the invariant of a table. There is a
depth `d` for which (`Chains`) a slot of depth 0 is a primary slot, the slot that
`info` names has the same primary slot and a depth that is one more, and no two
slots of a chain have the same depth. So chains have no cycles, begin at their
primary slots, and reach everything that belongs there. The depth is an
existential in `Sound`, not a member of the map: a lemma for each way in which `put`
and `remove` relink (`IsNew`, `IsMove` and `IsUnlink` name some of them) gives the
new one. `Holds(m, P, V)` adds that the elements are the pairs `P`. Then `rehash`,
`grow`, `shrink`, `put`, `remove` and the loop of `IOHandle::remove` are shown to
lead from `Holds` to `Holds`, with the pairs they should leave. Where a loop is a
recursive function, the argument is that there is no least counter for which it
fails (`LeastOf`). `KeepsPairs` states the
result in the form that users of the table need: `Keeps(G, V)` says that `G` is a
set of maps with their pairs that is closed under the operations, and that a map
of `G` finds what it holds (`Answers`).

**Streams and sleepers.** `NetStreamProofs` proves all properties of the run `net`
for any number of UThreads, any timeouts, counts and units of time, and products
that wrap at any `NatSize`:

    Spec => []StreamInv     (StreamInvariance)
    Spec => []TypeOK, []NeverOversleeps, []EndIsEnd, []Registered, []FdMapAgrees
    ASSUME ~UseAfterClose PROVE Spec => []OwnData

`StreamInv` is what can be said without the table. `SleepersInv`: the list of
sleepers is sorted by the time that is left, and has each call once that has time
left. This is what makes the front of the list what `wakeThreads` takes, and its
first element what poll must not sleep past (`PollInv`). `CloseInv` and `ReaderInv`
say that the descriptor is that of the connection until the socket is closed, that
only a close ends requests, and that one UThread reads at a time.
`TableInv(G)` says that `handles` is a map of `G` with the requests of the calls that
wait, and that nobody waits on a connection that was closed. Its proof uses of the
table only `Keeps`, for any `G`; the theorems take `G` from `FdMapProofs`. That
module is instantiated at the end of `NetStreamProofs`, under a name, because
obligations get slower with everything that is in sight; `SameTable` says that the
operators of the instance are those of the stream. `OwnData` needs `TableInv` too:
who waits has the open connection, so a read that is resumed takes its bytes from
there or was told of the close. The hypothesis is the one that
`MCNetStreamClosed.cfg` shows to be necessary.

**HTTP.** `HttpProofs` proves, for any clients, requests, routes, buffer sizes and
pieces, `TypeOK`, `RoutesStable` (a new route has the largest index, so the least
index that matches stays what it was), `KeepsBytes` (a read moves bytes from the
front of the network to the end of the buffer, and the concatenation of the two is
the same), and

    Spec /\ []BuffersFit => []NoOverlookedHeader
    Spec => []InOrder

The hypothesis says that the size of a buffer is a `Nat`, as the code takes for
granted; beyond it the bound of the search would wrap at the other end.

`InOrder` is about headers in the bytes of a client rather than about its requests,
because that is what the code can tell: after each answer it drops what is in its
buffer, and what it dropped may end in the middle of a body or of the next request.
The rest is read as if it were a request. The invariant `OrderInv` says that the buffer
and the network of an open connection are the last bytes its client has sent
(`GoesOnWith`), that what was answered lies before them, and that a request which is
about to be answered is at their front. The answer moves the border behind the
buffer, so the next header can not overlap with this one.

*Only model-checked:* liveness (`ReadyRuns`, the fairness part of
`ImplementsSema`, `SetReleasesQueue`, `ReaderGetsData`, `WriterGetsOn`,
`ResultReturns`, `WorkWakes`, `ThreadEnds`), which is out of the prover's reach. All
safety properties of the passing runs are proved, `NoOverlookedHeader` and `OwnData`
under the hypotheses above.

## 6. What is not modelled

* *Windows variants* of the OS layer: completion ports, events, saved exceptions.
* *Detours and stacks* of UThreads, and their scanning: about memory layouts.
* *Recursive use of `storm::Lock`*: the pipe never takes its lock twice.
* *Memory ordering* weaker than sequential consistency. The accesses concerned are
  atomic operations or under a lock, except the flags of a pipe.
* *Wake-up times that wrap*: timeouts are far below `NatSize`. In the code a time
  of more than 71 minutes does not fit a 32-bit number of microseconds.
* *Listening and connecting sockets, addresses and options*: system calls with
  little state. `HttpServer` has `accept` as it uses it.
* *File streams, `BufferedOStream`*: sequential, they never wait for anything.
* *HTTP grammar, cookies, percent encoding, response text*: conversions of text, one
  after the other; a model of them would be a transliteration.
* *The work queue of the language server*: sleeps and an event on one OS thread.
* *The garbage collector*: stops threads by signals and works on the heap's layout.
* *Compiler, code generation, GUI, sound, crypto and SQL*: not about concurrency, or
  bindings, for the reasons `PROJECT.json` gives.
