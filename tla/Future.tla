------------------------------- MODULE Future -------------------------------
(***************************************************************************)
(* storm::FutureBase (Core/Future.cpp) on top of os::FutureBase            *)
(* (OS/Future.cpp): one result, posted once by a spawned UThread or by a   *)
(* holder of the future, and read any number of times by the holders of    *)
(* its copies.  The copies share a Data that is counted, and destroyed     *)
(* with the last of them.                                                  *)
(*                                                                         *)
(* A step is one atomic access to the shared data.  The semaphore of the   *)
(* future is an AbstractSema.  What is in a value is left out: a result is *)
(* the name of the party whose value it is, an error is an error.          *)
(***************************************************************************)
EXTENDS Naturals, FiniteSets

CONSTANTS
    Party,          \* the UThreads that hold copies of the future
    Task,           \* the UThread started by spawnRaw with the future
    Nothing,        \* no value
    Kind            \* what may be posted: "value", "error" or "errorPtr"

Poster == Party \cup {Task}

ASSUME FutureAssumption ==
    /\ Task \notin Party /\ Nothing \notin Poster
    /\ Nothing # "error" /\ "error" \notin Poster
    /\ Kind \subseteq {"value", "error", "errorPtr"}
    /\ IsFiniteSet(Party)

VARIABLES
    holders,        \* the parties that have a FutureBase object
    refs,           \* Data::refs
    releaseOnResult,
    destroyed,      \* ~Data has run
    filled,         \* result->filled
    value,          \* result->v: whose value it holds
    resultPosted, resultRead,
    saved,          \* the exception: "no", "saved" or "gone"
    sema,           \* the count of the semaphore
    pc,             \* pc[p]: what p does next
    posts,          \* posts[p]: what p posts
    got,            \* got[p]: what the last result() of p gave
    reported        \* an error was thrown by result() or printed

counts == <<holders, refs, releaseOnResult, destroyed>>
result == <<filled, value, resultPosted, saved>>
vars == <<counts, result, resultRead, sema, pc, posts, got, reported>>

\* idle: in no call; none, done: the task, before and after.  Posting: copy, mark,
\* save, notify, release, check.  result(): down, up, take.  detach(): warn.
PC == {"idle", "none", "done", "copy", "mark", "save", "notify", "release",
       "check", "down", "up", "take", "warn"}

TypeOK ==
    /\ holders \subseteq Party /\ refs \in Nat
    /\ releaseOnResult \in {0, 1} /\ destroyed \in BOOLEAN
    /\ filled \in {0, 1} /\ value \in Poster \cup {Nothing}
    /\ resultPosted \in {"empty", "value", "error", "errorPtr"}
    /\ resultRead \in {"none", "once", "detached"}
    /\ saved \in {"no", "saved", "gone"} /\ sema \in Nat
    /\ pc \in [Poster -> PC] /\ posts \in [Poster -> Kind]
    /\ got \in [Party -> Poster \cup {Nothing, "error"}]
    /\ reported \in BOOLEAN

Init ==
    /\ \E p \in Party : holders = {p}
    /\ refs = 1 /\ releaseOnResult = 0 /\ destroyed = FALSE
    /\ filled = 0 /\ value = Nothing
    /\ resultPosted = "empty" /\ resultRead = "none"
    /\ saved = "no" /\ sema = 0
    /\ pc = [p \in Poster |-> IF p = Task THEN "none" ELSE "idle"]
    /\ posts \in [Poster -> Kind]
    /\ got = [p \in Party |-> Nothing]
    /\ reported = FALSE

----------------------------------------------------------------------------
Goto(p, l) == pc' = [pc EXCEPT ![p] = l]

\* p, in no call, calls a function of its FutureBase object.
Holds(p) == p \in holders /\ pc[p] = "idle"

HasError == resultPosted \in {"error", "errorPtr"}

\* ~Data, when the count has reached zero: an error nobody has asked for is
\* printed, and a C++ exception is destroyed.
Release ==
    /\ refs' = refs - 1
    /\ IF refs = 1
       THEN /\ destroyed' = TRUE
            /\ reported' = (reported \/ (resultRead = "none" /\ HasError))
            /\ resultRead' = IF resultRead = "none" THEN "once" ELSE resultRead
            /\ saved' = IF resultPosted = "error" THEN "gone" ELSE saved
       ELSE UNCHANGED <<destroyed, reported, resultRead, saved>>

\* A copy of the future, made for another UThread.
Copy(p, q) ==
    /\ Holds(p) /\ q \in Party \ holders
    /\ holders' = holders \cup {q}
    /\ refs' = refs + 1
    /\ UNCHANGED <<releaseOnResult, destroyed, result, resultRead, sema, pc, posts, got, reported>>

Drop(p) ==
    /\ Holds(p)
    /\ holders' = holders \ {p}
    /\ Release
    /\ UNCHANGED <<releaseOnResult, filled, value, resultPosted, sema, pc, posts, got>>

\* Mutant of Spawn: the raw future is handed out without a reference.
SpawnNoRef(p) ==
    /\ Holds(p) /\ pc[Task] = "none" /\ filled = 0
    /\ releaseOnResult' = 1
    /\ Goto(Task, IF posts[Task] = "value" THEN "copy" ELSE "mark")
    /\ UNCHANGED <<holders, refs, destroyed, result, resultRead, sema, posts, got, reported>>

\* spawnRaw with rawFuture(): the task owns a reference until it has posted.
\* Nobody else posts to this future.
Spawn(p) ==
    /\ Holds(p) /\ pc[Task] = "none" /\ filled = 0
    /\ releaseOnResult' = 1
    /\ refs' = refs + 1
    /\ Goto(Task, IF posts[Task] = "value" THEN "copy" ELSE "mark")
    /\ UNCHANGED <<holders, destroyed, result, resultRead, sema, posts, got, reported>>

\* Mutant of Post: the claim is made too late to stop a second post.
PostUnclaimed(p) ==
    /\ Holds(p) /\ pc[Task] = "none" /\ resultPosted = "empty"
    /\ filled' = 1
    /\ Goto(p, IF posts[p] = "value" THEN "copy" ELSE "mark")
    /\ UNCHANGED <<counts, value, resultPosted, saved, resultRead, sema, posts, got, reported>>

\* postRaw, error: claim the future.  A second post only gives a warning.
Post(p) ==
    /\ Holds(p) /\ pc[Task] = "none" /\ filled = 0
    /\ filled' = 1
    /\ Goto(p, IF posts[p] = "value" THEN "copy" ELSE "mark")
    /\ UNCHANGED <<counts, value, resultPosted, saved, resultRead, sema, posts, got, reported>>

\* safeCopy and deepCopyFn; the thunk of a spawned call writes to rawResult.
CopyValue(p) ==
    /\ pc[p] = "copy"
    /\ value' = p
    /\ Goto(p, "mark")
    /\ UNCHANGED <<counts, filled, resultPosted, saved, resultRead, sema, posts, got, reported>>

\* posted, error: the compare-and-swap of resultPosted.
Mark(p) ==
    /\ pc[p] = "mark"
    /\ resultPosted' = posts[p]
    /\ Goto(p, IF posts[p] = "value" THEN "notify" ELSE "save")
    /\ UNCHANGED <<counts, filled, value, saved, resultRead, sema, posts, got, reported>>

\* saveError, savePtrError
Save(p) ==
    /\ pc[p] = "save"
    /\ saved' = "saved"
    /\ Goto(p, "notify")
    /\ UNCHANGED <<counts, filled, value, resultPosted, resultRead, sema, posts, got, reported>>

\* FutureSema::notify: the semaphore, then Data::resultPosted.
Notify(p) ==
    /\ pc[p] = "notify"
    /\ sema' = sema + 1
    /\ Goto(p, "release")
    /\ UNCHANGED <<counts, result, resultRead, posts, got, reported>>

Posted(p) == IF p = Task THEN "done" ELSE "idle"

ResultPosted(p) ==
    /\ pc[p] = "release"
    /\ releaseOnResult' = 0
    /\ IF releaseOnResult = 1
       THEN Release
       ELSE UNCHANGED <<refs, destroyed, reported, resultRead, saved>>
    /\ Goto(p, IF posts[p] = "value" THEN Posted(p) ELSE "check")
    /\ UNCHANGED <<holders, filled, value, resultPosted, sema, posts, got>>

\* Mutant of CheckDetached: error() leaves the warning to detach().
CheckNothing(p) ==
    /\ pc[p] = "check"
    /\ Goto(p, Posted(p))
    /\ UNCHANGED <<counts, result, resultRead, sema, posts, got, reported>>

\* error(), after notify(): warnDetachedError if nobody will ask.
CheckDetached(p) ==
    /\ pc[p] = "check"
    /\ reported' = (reported \/ resultRead = "detached")
    /\ Goto(p, Posted(p))
    /\ UNCHANGED <<counts, result, resultRead, sema, posts, got>>

----------------------------------------------------------------------------
\* result()
Result(p) ==
    /\ Holds(p)
    /\ Goto(p, "down")
    /\ UNCHANGED <<counts, result, resultRead, sema, posts, got, reported>>

Down(p) ==
    /\ pc[p] = "down" /\ sema > 0
    /\ sema' = sema - 1
    /\ Goto(p, "up")
    /\ UNCHANGED <<counts, result, resultRead, posts, got, reported>>

\* Mutant of Up: the token is kept.
UpNot(p) ==
    /\ pc[p] = "up"
    /\ Goto(p, "take")
    /\ UNCHANGED <<counts, result, resultRead, sema, posts, got, reported>>

\* "allows us to wait more than once!"
Up(p) ==
    /\ pc[p] = "up"
    /\ sema' = sema + 1
    /\ Goto(p, "take")
    /\ UNCHANGED <<counts, result, resultRead, posts, got, reported>>

\* resultRead is set; then the error is thrown, or the value copied.  What is read
\* does not change any more, so that this is one step.
Take(p) ==
    /\ pc[p] = "take"
    /\ resultRead' = "once"
    /\ got' = [got EXCEPT ![p] = IF HasError THEN "error" ELSE value]
    /\ reported' = (reported \/ HasError)
    /\ Goto(p, "idle")
    /\ UNCHANGED <<counts, result, sema, posts>>

\* detach(): the compare-and-swap.
Detach(p) ==
    /\ Holds(p)
    /\ IF resultRead = "none"
       THEN resultRead' = "detached" /\ Goto(p, "warn")
       ELSE UNCHANGED <<resultRead, pc>>
    /\ UNCHANGED <<counts, result, sema, posts, got, reported>>

\* warnDetachedError
Warn(p) ==
    /\ pc[p] = "warn"
    /\ reported' = (reported \/ HasError)
    /\ Goto(p, "idle")
    /\ UNCHANGED <<counts, result, resultRead, sema, posts, got>>

----------------------------------------------------------------------------
\* What p does on its own once it is in a call.
Posting(p) ==
    \/ CopyValue(p) \/ Mark(p) \/ Save(p) \/ Notify(p)
    \/ ResultPosted(p) \/ CheckDetached(p)

Reading(p) == Up(p) \/ Take(p) \/ Warn(p)

Next ==
    \/ \E p \in Party :
          \/ \E q \in Party : Copy(p, q)
          \/ Drop(p) \/ Spawn(p) \/ Post(p) \/ Result(p) \/ Detach(p)
          \/ Down(p) \/ Reading(p)
    \/ \E p \in Poster : Posting(p)

\* Calls are finished.  Sema::up hands its token to the first UThread of the
\* queue, so that a reader is not overtaken for ever: strong fairness of Down.
Fairness ==
    /\ \A p \in Poster : WF_vars(Posting(p))
    /\ \A p \in Party : WF_vars(Reading(p)) /\ SF_vars(Down(p))

Spec == Init /\ [][Next]_vars /\ Fairness

----------------------------------------------------------------------------
\* Whoever has read the future has read the same: the one value, complete, of
\* the one that won the right to post, or the error (postRaw, resultRaw).
SameResult ==
    \A p \in Party : got[p] # Nothing =>
        \/ got[p] = "error" /\ HasError
        \/ got[p] = value /\ resultPosted = "value"

\* Nobody works on a Data that has been destroyed: every call but the last look
\* of error() at resultRead is covered by a reference, and the Data is destroyed
\* as soon as there is none.
AliveWhileUsed ==
    /\ destroyed <=> holders = {} /\ releaseOnResult = 0
    /\ \A p \in Poster : destroyed => pc[p] \in {"idle", "none", "done", "check"}

\* No error vanishes: when the future is gone and its poster has returned, the
\* error has been thrown by result() or printed, however detach() and error()
\* have overlapped.
NoSilentError ==
    destroyed /\ HasError /\ (\A p \in Poster : pc[p] # "check") => reported

\* Once there is a result, every result() returns, however many wait.
ResultReturns ==
    \A p \in Party : pc[p] = "down" /\ sema > 0 ~> pc[p] = "idle"

\* "this might give us two warnings in rare cases. As this is not very harmful,
\* it is not really worth the effort to ensure atomicity here" (OS/Future.cpp,
\* detach): the race is to cost no more than a warning, so the C++ exception that
\* a warning throws has been saved and is still there.
WarningsHarmless ==
    \A p \in Poster :
        pc[p] = "warn" \/ (pc[p] = "check" /\ resultRead = "detached")
            => (resultPosted = "error" => saved = "saved")
============================================================================
