---------------------------- MODULE FutureProofs ----------------------------
(***************************************************************************)
(* Proofs about module Future, for any number of holders: everybody reads  *)
(* the same result, nobody works on a Data that is destroyed, and no error *)
(* is lost.                                                                *)
(***************************************************************************)
EXTENDS Future, FiniteSetTheorems, TLAPS

----------------------------------------------------------------------------
(* The inductive invariant. *)

\* The labels of a post.
InPost == {"copy", "mark", "save", "notify", "release", "check"}

\* One reference for every FutureBase object, one for the task until it has posted.
RefsCounted == refs = Cardinality(holders) + releaseOnResult

DestroyedAtZero == destroyed <=> refs = 0

\* Whoever is in a call has its reference.
CallersHold ==
    \A p \in Party : pc[p] \notin {"none", "done"} /\ (p \notin holders => pc[p] = "idle")

TaskHolds ==
    /\ pc[Task] \in {"none", "done"} \cup InPost
    /\ releaseOnResult = 1 <=> pc[Task] \in InPost \ {"check"}

\* The future is posted to by one party, or by the task, at most once.
OnePoster == \A p, q \in Poster : pc[p] \in InPost /\ pc[q] \in InPost => p = q

Claimed ==
    /\ \A p \in Party : pc[p] \in InPost => filled = 1
    /\ filled = 1 => pc[Task] = "none"
    /\ filled = 0 /\ pc[Task] = "none" => resultPosted = "empty"

Announced ==
    \A p \in Poster :
        /\ pc[p] \in {"copy", "mark"} => resultPosted = "empty"
        /\ pc[p] \in {"save", "notify", "release", "check"} => resultPosted = posts[p]

\* Whatever tells of a result, there is one.
Known ==
    /\ sema > 0 => resultPosted # "empty"
    /\ \A p \in Party : pc[p] \in {"up", "take"} \/ got[p] # Nothing => resultPosted # "empty"
    /\ resultRead = "once" /\ ~destroyed => resultPosted # "empty"

\* Whoever has to report an error has done so, or is about to.
Reporting ==
    /\ HasError /\ resultRead = "once" => reported
    /\ HasError /\ resultRead = "detached" =>
          reported \/ \E p \in Poster : pc[p] \in {"save", "notify", "release", "check", "warn"}
    /\ destroyed => resultRead # "none"

IInv ==
    /\ TypeOK /\ RefsCounted /\ DestroyedAtZero
    /\ CallersHold /\ TaskHolds /\ OnePoster /\ Claimed /\ Announced
    /\ Known /\ SameResult /\ Reporting

----------------------------------------------------------------------------
(* One lemma for each part of the invariant. *)

\* There are finitely many holders.
LEMMA HoldersFinite ==
    ASSUME TypeOK
    PROVE  /\ IsFiniteSet(holders) /\ Cardinality(holders) \in Nat
           /\ Cardinality(holders) = 0 <=> holders = {}
<1>1. holders \subseteq Party /\ IsFiniteSet(Party)
  BY FutureAssumption, Zenon DEF TypeOK
<1>2. IsFiniteSet(holders)
  BY <1>1, FS_Subset, Zenon
<1>3. QED
  BY <1>2, FS_CardinalityType, FS_EmptySet, Zenon

\* The Data is there as long as there is a holder, or a task that has not posted.
LEMMA RefsFacts ==
    ASSUME IInv
    PROVE  /\ destroyed <=> holders = {} /\ releaseOnResult = 0
           /\ \A p \in holders : refs > 0
           /\ releaseOnResult = 1 => refs > 0
<1>1. Cardinality(holders) \in Nat /\ (Cardinality(holders) = 0 <=> holders = {})
  BY HoldersFinite, Zenon DEF IInv
<1>2. releaseOnResult \in {0, 1} /\ refs = Cardinality(holders) + releaseOnResult
  BY Zenon DEF IInv, TypeOK, RefsCounted
<1>3. destroyed <=> refs = 0
  BY Zenon DEF IInv, DestroyedAtZero
<1>4. QED
  BY <1>1, <1>2, <1>3

\* The count does not go below zero, and the Data is destroyed when it is zero.
LEMMA TypeStep ==
    ASSUME IInv, [Next]_vars
    PROVE  TypeOK' /\ DestroyedAtZero'
<1> USE FutureAssumption DEF Poster, InPost
<1>1. ASSUME NEW p \in Party, NEW q \in Party, Copy(p, q)
      PROVE  TypeOK' /\ DestroyedAtZero'
  <2>1. refs > 0
    BY <1>1, RefsFacts, Zenon DEF Copy, Holds
  <2>2. QED
    BY <1>1, <2>1 DEF IInv, TypeOK, DestroyedAtZero, PC, Copy, Holds, result
<1>2. ASSUME NEW p \in Party, Drop(p)
      PROVE  TypeOK' /\ DestroyedAtZero'
  <2>1. refs > 0
    BY <1>2, RefsFacts, Zenon DEF Drop, Holds
  <2>2. refs' \in Nat /\ DestroyedAtZero'
    BY <1>2, <2>1 DEF IInv, TypeOK, DestroyedAtZero, Drop, Release
  <2>3. holders' \subseteq Party /\ destroyed' \in BOOLEAN /\ reported' \in BOOLEAN
    BY <1>2, Zenon DEF IInv, TypeOK, Drop, Release
  <2>4. resultRead' \in {"none", "once", "detached"} /\ saved' \in {"no", "saved", "gone"}
    BY <1>2, Zenon DEF IInv, TypeOK, Drop, Release
  <2>5. QED
    BY <1>2, <2>2, <2>3, <2>4, Zenon DEF IInv, TypeOK, Drop
<1>3. ASSUME NEW p \in Party, Spawn(p)
      PROVE  TypeOK' /\ DestroyedAtZero'
  <2>1. refs > 0
    BY <1>3, RefsFacts, Zenon DEF Spawn, Holds
  <2>2. QED
    BY <1>3, <2>1 DEF IInv, TypeOK, DestroyedAtZero, PC, Spawn, Goto, result
<1>4. ASSUME NEW p \in Party, Post(p)
      PROVE  TypeOK' /\ DestroyedAtZero'
  BY <1>4 DEF IInv, TypeOK, DestroyedAtZero, PC, Post, Goto, Holds, counts
<1>5. ASSUME NEW p \in Party, Result(p)
      PROVE  TypeOK' /\ DestroyedAtZero'
  BY <1>5 DEF IInv, TypeOK, DestroyedAtZero, PC, Result, Goto, Holds, counts, result
<1>6. ASSUME NEW p \in Party, Detach(p)
      PROVE  TypeOK' /\ DestroyedAtZero'
  BY <1>6 DEF IInv, TypeOK, DestroyedAtZero, PC, Detach, Goto, Holds, counts, result
<1>7. ASSUME NEW p \in Party, Down(p)
      PROVE  TypeOK' /\ DestroyedAtZero'
  BY <1>7 DEF IInv, TypeOK, DestroyedAtZero, PC, Down, Goto, counts, result
<1>8. ASSUME NEW p \in Party, Up(p)
      PROVE  TypeOK' /\ DestroyedAtZero'
  BY <1>8 DEF IInv, TypeOK, DestroyedAtZero, PC, Up, Goto, counts, result
<1>9. ASSUME NEW p \in Party, Take(p)
      PROVE  TypeOK' /\ DestroyedAtZero'
  BY <1>9, Zenon DEF IInv, TypeOK, DestroyedAtZero, PC, Take, Goto, HasError, counts, result
<1>10. ASSUME NEW p \in Party, Warn(p)
       PROVE  TypeOK' /\ DestroyedAtZero'
  BY <1>10 DEF IInv, TypeOK, DestroyedAtZero, PC, Warn, Goto, HasError, counts,
     result
<1>11. ASSUME NEW p \in Poster, CopyValue(p)
       PROVE  TypeOK' /\ DestroyedAtZero'
  BY <1>11 DEF IInv, TypeOK, DestroyedAtZero, PC, CopyValue, Goto, counts
<1>12. ASSUME NEW p \in Poster, Mark(p)
       PROVE  TypeOK' /\ DestroyedAtZero'
  BY <1>12, Zenon DEF IInv, TypeOK, DestroyedAtZero, PC, Mark, Goto, counts
<1>13. ASSUME NEW p \in Poster, Save(p)
       PROVE  TypeOK' /\ DestroyedAtZero'
  BY <1>13 DEF IInv, TypeOK, DestroyedAtZero, PC, Save, Goto, counts
<1>14. ASSUME NEW p \in Poster, Notify(p)
       PROVE  TypeOK' /\ DestroyedAtZero'
  BY <1>14 DEF IInv, TypeOK, DestroyedAtZero, PC, Notify, Goto, counts, result
<1>15. ASSUME NEW p \in Poster, ResultPosted(p)
       PROVE  TypeOK' /\ DestroyedAtZero'
  <2>1. CASE releaseOnResult = 1
    <3>1. refs > 0
      BY <2>1, RefsFacts, Zenon
    <3>2. refs' \in Nat /\ DestroyedAtZero'
      BY <1>15, <2>1, <3>1 DEF IInv, TypeOK, DestroyedAtZero, ResultPosted, Release
    <3>3. destroyed' \in BOOLEAN /\ reported' \in BOOLEAN /\ pc' \in [Poster -> PC]
      BY <1>15, <2>1, Zenon DEF IInv, TypeOK, ResultPosted, Release, Goto, Posted, PC
    <3>4. resultRead' \in {"none", "once", "detached"} /\ saved' \in {"no", "saved", "gone"}
      BY <1>15, <2>1, Zenon DEF IInv, TypeOK, ResultPosted, Release
    <3>5. QED
      BY <1>15, <3>2, <3>3, <3>4, Zenon DEF IInv, TypeOK, ResultPosted
  <2>2. CASE releaseOnResult # 1
    BY <1>15, <2>2 DEF IInv, TypeOK, DestroyedAtZero, PC, ResultPosted, Goto, Posted
  <2>3. QED
    BY <2>1, <2>2, Zenon
<1>16. ASSUME NEW p \in Poster, CheckDetached(p)
       PROVE  TypeOK' /\ DestroyedAtZero'
  BY <1>16 DEF IInv, TypeOK, DestroyedAtZero, PC, CheckDetached, Goto, Posted,
     counts, result
<1>17. CASE UNCHANGED vars
  BY <1>17 DEF IInv, TypeOK, DestroyedAtZero, PC, vars, counts, result
<1>18. QED
  BY <1>1, <1>2, <1>3, <1>4, <1>5, <1>6, <1>7, <1>8, <1>9, <1>10, <1>11, <1>12,
     <1>13, <1>14, <1>15, <1>16, <1>17, Zenon DEF Next, Posting, Reading

\* Every reference belongs to a holder or to the task.
LEMMA RefsStep ==
    ASSUME IInv, [Next]_vars
    PROVE  RefsCounted'
<1> USE FutureAssumption DEF Poster, InPost
<1>1. ASSUME NEW p \in Party, NEW q \in Party, Copy(p, q)
      PROVE  RefsCounted'
  <2>1. holders' = holders \cup {q} /\ q \notin holders
    BY <1>1, Zenon DEF Copy
  <2>2. Cardinality(holders') = Cardinality(holders) + 1
    BY <2>1, HoldersFinite, FS_AddElement, Zenon DEF IInv
  <2>3. refs' = refs + 1 /\ releaseOnResult' = releaseOnResult
    BY <1>1, Zenon DEF Copy
  <2>4. Cardinality(holders) \in Nat
    BY HoldersFinite, Zenon DEF IInv
  <2>5. QED
    BY <2>2, <2>3, <2>4 DEF IInv, TypeOK, RefsCounted
<1>2. ASSUME NEW p \in Party, Drop(p)
      PROVE  RefsCounted'
  <2>1. holders' = holders \ {p} /\ p \in holders
    BY <1>2, Zenon DEF Drop, Holds
  <2>2. Cardinality(holders') = Cardinality(holders) - 1
    BY <2>1, HoldersFinite, FS_RemoveElement, Zenon DEF IInv
  <2>3. refs' = refs - 1 /\ releaseOnResult' = releaseOnResult
    BY <1>2, Zenon DEF Drop, Release
  <2>4. Cardinality(holders) \in Nat
    BY HoldersFinite, Zenon DEF IInv
  <2>5. QED
    BY <2>2, <2>3, <2>4 DEF IInv, TypeOK, RefsCounted
<1>3. ASSUME NEW p \in Party, Spawn(p)
      PROVE  RefsCounted'
  <2>1. releaseOnResult = 0 /\ releaseOnResult' = 1 /\ refs' = refs + 1
    BY <1>3, Zenon DEF IInv, TypeOK, TaskHolds, Spawn
  <2>2. holders' = holders /\ Cardinality(holders) \in Nat
    BY <1>3, HoldersFinite, Zenon DEF IInv, Spawn
  <2>3. QED
    BY <2>1, <2>2 DEF IInv, RefsCounted
<1>4. ASSUME NEW p \in Party, Post(p)
      PROVE  RefsCounted'
  BY <1>4, Zenon DEF IInv, RefsCounted, Post, Goto, Holds, counts
<1>5. ASSUME NEW p \in Party, Result(p)
      PROVE  RefsCounted'
  BY <1>5, Zenon DEF IInv, RefsCounted, Result, Goto, Holds, counts, result
<1>6. ASSUME NEW p \in Party, Detach(p)
      PROVE  RefsCounted'
  BY <1>6, Zenon DEF IInv, RefsCounted, Detach, Goto, Holds, counts, result
<1>7. ASSUME NEW p \in Party, Down(p)
      PROVE  RefsCounted'
  BY <1>7, Zenon DEF IInv, RefsCounted, Down, Goto, counts, result
<1>8. ASSUME NEW p \in Party, Up(p)
      PROVE  RefsCounted'
  BY <1>8, Zenon DEF IInv, RefsCounted, Up, Goto, counts, result
<1>9. ASSUME NEW p \in Party, Take(p)
      PROVE  RefsCounted'
  BY <1>9, Zenon DEF IInv, RefsCounted, Take, Goto, HasError, counts, result
<1>10. ASSUME NEW p \in Party, Warn(p)
       PROVE  RefsCounted'
  BY <1>10, Zenon DEF IInv, RefsCounted, Warn, Goto, HasError, counts, result
<1>11. ASSUME NEW p \in Poster, CopyValue(p)
       PROVE  RefsCounted'
  BY <1>11, Zenon DEF IInv, RefsCounted, CopyValue, Goto, counts
<1>12. ASSUME NEW p \in Poster, Mark(p)
       PROVE  RefsCounted'
  BY <1>12, Zenon DEF IInv, RefsCounted, Mark, Goto, counts
<1>13. ASSUME NEW p \in Poster, Save(p)
       PROVE  RefsCounted'
  BY <1>13, Zenon DEF IInv, RefsCounted, Save, Goto, counts
<1>14. ASSUME NEW p \in Poster, Notify(p)
       PROVE  RefsCounted'
  BY <1>14, Zenon DEF IInv, RefsCounted, Notify, Goto, counts, result
<1>15. ASSUME NEW p \in Poster, ResultPosted(p)
       PROVE  RefsCounted'
  <2>1. holders' = holders /\ Cardinality(holders) \in Nat /\ releaseOnResult' = 0
    BY <1>15, HoldersFinite, Zenon DEF IInv, ResultPosted
  <2>2. refs' = refs - releaseOnResult
    BY <1>15 DEF IInv, TypeOK, ResultPosted, Release
  <2>3. QED
    BY <2>1, <2>2 DEF IInv, TypeOK, RefsCounted
<1>16. ASSUME NEW p \in Poster, CheckDetached(p)
       PROVE  RefsCounted'
  BY <1>16, Zenon DEF IInv, RefsCounted, CheckDetached, Goto, Posted, counts, result
<1>17. CASE UNCHANGED vars
  BY <1>17, Zenon DEF IInv, RefsCounted, vars, counts, result
<1>18. QED
  BY <1>1, <1>2, <1>3, <1>4, <1>5, <1>6, <1>7, <1>8, <1>9, <1>10, <1>11, <1>12,
     <1>13, <1>14, <1>15, <1>16, <1>17, Zenon DEF Next, Posting, Reading

\* Nobody gives up its reference in the middle of a call.
LEMMA CallStep ==
    ASSUME IInv, [Next]_vars
    PROVE  CallersHold' /\ TaskHolds'
<1> USE FutureAssumption DEF Poster, InPost
<1>1. ASSUME NEW p \in Party, NEW q \in Party, Copy(p, q)
      PROVE  CallersHold' /\ TaskHolds'
  BY <1>1, Zenon DEF IInv, TypeOK, CallersHold, TaskHolds, Claimed, OnePoster, Posted, Copy,
     Holds, result
<1>2. ASSUME NEW p \in Party, Drop(p)
      PROVE  CallersHold' /\ TaskHolds'
  BY <1>2, Zenon DEF IInv, TypeOK, CallersHold, TaskHolds, Claimed, OnePoster, Posted, Drop,
     Holds, Release, HasError
<1>3. ASSUME NEW p \in Party, Spawn(p)
      PROVE  CallersHold' /\ TaskHolds'
  BY <1>3, Zenon DEF IInv, TypeOK, CallersHold, TaskHolds, Claimed, OnePoster, Posted,
     Spawn, Goto, Holds, result
<1>4. ASSUME NEW p \in Party, Post(p)
      PROVE  CallersHold' /\ TaskHolds'
  BY <1>4, Zenon DEF IInv, TypeOK, CallersHold, TaskHolds, Claimed, OnePoster, Posted, Post,
     Goto, Holds, counts
<1>5. ASSUME NEW p \in Party, Result(p)
      PROVE  CallersHold' /\ TaskHolds'
  BY <1>5, Zenon DEF IInv, TypeOK, CallersHold, TaskHolds, Claimed, OnePoster, Posted,
     Result, Goto, Holds, counts, result
<1>6. ASSUME NEW p \in Party, Detach(p)
      PROVE  CallersHold' /\ TaskHolds'
  BY <1>6 DEF IInv, TypeOK, CallersHold, TaskHolds, Claimed, OnePoster, Posted,
     Detach, Goto, Holds, counts, result
<1>7. ASSUME NEW p \in Party, Down(p)
      PROVE  CallersHold' /\ TaskHolds'
  BY <1>7, Zenon DEF IInv, TypeOK, CallersHold, TaskHolds, Claimed, OnePoster, Posted, Down,
     Goto, counts, result
<1>8. ASSUME NEW p \in Party, Up(p)
      PROVE  CallersHold' /\ TaskHolds'
  BY <1>8, Zenon DEF IInv, TypeOK, CallersHold, TaskHolds, Claimed, OnePoster, Posted, Up,
     Goto, counts, result
<1>9. ASSUME NEW p \in Party, Take(p)
      PROVE  CallersHold' /\ TaskHolds'
  BY <1>9, Zenon DEF IInv, TypeOK, CallersHold, TaskHolds, Claimed, OnePoster, Posted, Take,
     Goto, HasError, counts, result
<1>10. ASSUME NEW p \in Party, Warn(p)
       PROVE  CallersHold' /\ TaskHolds'
  BY <1>10, Zenon DEF IInv, TypeOK, CallersHold, TaskHolds, Claimed, OnePoster, Posted,
     Warn, Goto, HasError, counts, result
<1>11. ASSUME NEW p \in Poster, CopyValue(p)
       PROVE  CallersHold' /\ TaskHolds'
  BY <1>11, Zenon DEF IInv, TypeOK, CallersHold, TaskHolds, Claimed, OnePoster, Posted,
     CopyValue, Goto, counts
<1>12. ASSUME NEW p \in Poster, Mark(p)
       PROVE  CallersHold' /\ TaskHolds'
  BY <1>12, Zenon DEF IInv, TypeOK, CallersHold, TaskHolds, Claimed, OnePoster, Posted,
     Mark, Goto, counts
<1>13. ASSUME NEW p \in Poster, Save(p)
       PROVE  CallersHold' /\ TaskHolds'
  BY <1>13, Zenon DEF IInv, TypeOK, CallersHold, TaskHolds, Claimed, OnePoster, Posted,
     Save, Goto, counts
<1>14. ASSUME NEW p \in Poster, Notify(p)
       PROVE  CallersHold' /\ TaskHolds'
  BY <1>14, Zenon DEF IInv, TypeOK, CallersHold, TaskHolds, Claimed, OnePoster, Posted,
     Notify, Goto, counts, result
<1>15. ASSUME NEW p \in Poster, ResultPosted(p)
       PROVE  CallersHold' /\ TaskHolds'
  BY <1>15, Zenon DEF IInv, TypeOK, CallersHold, TaskHolds, Claimed, OnePoster, Posted,
     ResultPosted, Goto, Release, Posted, HasError
<1>16. ASSUME NEW p \in Poster, CheckDetached(p)
       PROVE  CallersHold' /\ TaskHolds'
  BY <1>16, Zenon DEF IInv, TypeOK, CallersHold, TaskHolds, Claimed, OnePoster, Posted,
     CheckDetached, Goto, Posted, counts, result
<1>17. CASE UNCHANGED vars
  BY <1>17, Zenon DEF IInv, TypeOK, CallersHold, TaskHolds, Claimed, OnePoster, Posted,
     vars, counts, result
<1>18. QED
  BY <1>1, <1>2, <1>3, <1>4, <1>5, <1>6, <1>7, <1>8, <1>9, <1>10, <1>11, <1>12,
     <1>13, <1>14, <1>15, <1>16, <1>17, Zenon DEF Next, Posting, Reading

\* The claim of the future, by filled or by the spawn, is made once.
LEMMA PostStep ==
    ASSUME IInv, [Next]_vars
    PROVE  OnePoster' /\ Claimed' /\ Announced'
<1> USE FutureAssumption DEF Poster, InPost
<1>1. ASSUME NEW p \in Party, NEW q \in Party, Copy(p, q)
      PROVE  OnePoster' /\ Claimed' /\ Announced'
  BY <1>1, Zenon DEF IInv, TypeOK, CallersHold, TaskHolds, OnePoster, Claimed, Announced,
     Posted, Copy, Holds, result
<1>2. ASSUME NEW p \in Party, Drop(p)
      PROVE  OnePoster' /\ Claimed' /\ Announced'
  BY <1>2, Zenon DEF IInv, TypeOK, CallersHold, TaskHolds, OnePoster, Claimed, Announced,
     Posted, Drop, Holds, Release, HasError
<1>3. ASSUME NEW p \in Party, Spawn(p)
      PROVE  OnePoster' /\ Claimed' /\ Announced'
  BY <1>3 DEF IInv, TypeOK, CallersHold, TaskHolds, OnePoster, Claimed, Announced,
     Posted, Spawn, Goto, Holds, result
<1>4. ASSUME NEW p \in Party, Post(p)
      PROVE  OnePoster' /\ Claimed' /\ Announced'
  BY <1>4 DEF IInv, TypeOK, CallersHold, TaskHolds, OnePoster, Claimed, Announced,
     Posted, Post, Goto, Holds, counts
<1>5. ASSUME NEW p \in Party, Result(p)
      PROVE  OnePoster' /\ Claimed' /\ Announced'
  BY <1>5, Zenon DEF IInv, TypeOK, CallersHold, TaskHolds, OnePoster, Claimed, Announced,
     Posted, Result, Goto, Holds, counts, result
<1>6. ASSUME NEW p \in Party, Detach(p)
      PROVE  OnePoster' /\ Claimed' /\ Announced'
  BY <1>6 DEF IInv, TypeOK, CallersHold, TaskHolds, OnePoster, Claimed, Announced,
     Posted, Detach, Goto, Holds, counts, result
<1>7. ASSUME NEW p \in Party, Down(p)
      PROVE  OnePoster' /\ Claimed' /\ Announced'
  BY <1>7, Zenon DEF IInv, TypeOK, CallersHold, TaskHolds, OnePoster, Claimed, Announced,
     Posted, Down, Goto, counts, result
<1>8. ASSUME NEW p \in Party, Up(p)
      PROVE  OnePoster' /\ Claimed' /\ Announced'
  BY <1>8, Zenon DEF IInv, TypeOK, CallersHold, TaskHolds, OnePoster, Claimed, Announced,
     Posted, Up, Goto, counts, result
<1>9. ASSUME NEW p \in Party, Take(p)
      PROVE  OnePoster' /\ Claimed' /\ Announced'
  BY <1>9, Zenon DEF IInv, TypeOK, CallersHold, TaskHolds, OnePoster, Claimed, Announced,
     Posted, Take, Goto, HasError, counts, result
<1>10. ASSUME NEW p \in Party, Warn(p)
       PROVE  OnePoster' /\ Claimed' /\ Announced'
  BY <1>10, Zenon DEF IInv, TypeOK, CallersHold, TaskHolds, OnePoster, Claimed, Announced,
     Posted, Warn, Goto, HasError, counts, result
<1>11. ASSUME NEW p \in Poster, CopyValue(p)
       PROVE  OnePoster' /\ Claimed' /\ Announced'
  BY <1>11, Zenon DEF IInv, TypeOK, CallersHold, TaskHolds, OnePoster, Claimed, Announced,
     Posted, CopyValue, Goto, counts
<1>12. ASSUME NEW p \in Poster, Mark(p)
       PROVE  OnePoster' /\ Claimed' /\ Announced'
  BY <1>12, Zenon DEF IInv, TypeOK, CallersHold, TaskHolds, OnePoster, Claimed, Announced,
     Posted, Mark, Goto, counts
<1>13. ASSUME NEW p \in Poster, Save(p)
       PROVE  OnePoster' /\ Claimed' /\ Announced'
  BY <1>13, Zenon DEF IInv, TypeOK, CallersHold, TaskHolds, OnePoster, Claimed, Announced,
     Posted, Save, Goto, counts
<1>14. ASSUME NEW p \in Poster, Notify(p)
       PROVE  OnePoster' /\ Claimed' /\ Announced'
  BY <1>14, Zenon DEF IInv, TypeOK, CallersHold, TaskHolds, OnePoster, Claimed, Announced,
     Posted, Notify, Goto, counts, result
<1>15. ASSUME NEW p \in Poster, ResultPosted(p)
       PROVE  OnePoster' /\ Claimed' /\ Announced'
  BY <1>15, Zenon DEF IInv, TypeOK, CallersHold, TaskHolds, OnePoster, Claimed, Announced,
     Posted, ResultPosted, Goto, Release, Posted, HasError
<1>16. ASSUME NEW p \in Poster, CheckDetached(p)
       PROVE  OnePoster' /\ Claimed' /\ Announced'
  BY <1>16, Zenon DEF IInv, TypeOK, CallersHold, TaskHolds, OnePoster, Claimed, Announced,
     Posted, CheckDetached, Goto, Posted, counts, result
<1>17. CASE UNCHANGED vars
  BY <1>17, Zenon DEF IInv, TypeOK, CallersHold, TaskHolds, OnePoster, Claimed, Announced,
     Posted, vars, counts, result
<1>18. QED
  BY <1>1, <1>2, <1>3, <1>4, <1>5, <1>6, <1>7, <1>8, <1>9, <1>10, <1>11, <1>12,
     <1>13, <1>14, <1>15, <1>16, <1>17, Zenon DEF Next, Posting, Reading

\* A token of the semaphore means that the result is complete.
LEMMA ReadStep ==
    ASSUME IInv, [Next]_vars
    PROVE  Known' /\ SameResult'
<1> USE FutureAssumption DEF Poster, InPost
<1>1. ASSUME NEW p \in Party, NEW q \in Party, Copy(p, q)
      PROVE  Known' /\ SameResult'
  BY <1>1, Zenon DEF IInv, TypeOK, HasError, Announced, OnePoster, Known, SameResult, Copy,
     Holds, result
<1>2. ASSUME NEW p \in Party, Drop(p)
      PROVE  Known' /\ SameResult'
  BY <1>2, Zenon DEF IInv, TypeOK, HasError, Announced, OnePoster, Known, SameResult, Drop,
     Holds, Release, HasError
<1>3. ASSUME NEW p \in Party, Spawn(p)
      PROVE  Known' /\ SameResult'
  BY <1>3, Zenon DEF IInv, TypeOK, HasError, Announced, OnePoster, Known, SameResult, Spawn,
     Goto, Holds, result
<1>4. ASSUME NEW p \in Party, Post(p)
      PROVE  Known' /\ SameResult'
  BY <1>4, Zenon DEF IInv, TypeOK, HasError, Announced, OnePoster, Known, SameResult, Post,
     Goto, Holds, counts
<1>5. ASSUME NEW p \in Party, Result(p)
      PROVE  Known' /\ SameResult'
  BY <1>5, Zenon DEF IInv, TypeOK, HasError, Announced, OnePoster, Known, SameResult,
     Result, Goto, Holds, counts, result
<1>6. ASSUME NEW p \in Party, Detach(p)
      PROVE  Known' /\ SameResult'
  BY <1>6, Zenon DEF IInv, TypeOK, HasError, Announced, OnePoster, Known, SameResult,
     Detach, Goto, Holds, counts, result
<1>7. ASSUME NEW p \in Party, Down(p)
      PROVE  Known' /\ SameResult'
  BY <1>7, Zenon DEF IInv, TypeOK, HasError, Announced, OnePoster, Known, SameResult, Down,
     Goto, counts, result
<1>8. ASSUME NEW p \in Party, Up(p)
      PROVE  Known' /\ SameResult'
  BY <1>8, Zenon DEF IInv, TypeOK, HasError, Announced, OnePoster, Known, SameResult, Up,
     Goto, counts, result
<1>9. ASSUME NEW p \in Party, Take(p)
      PROVE  Known' /\ SameResult'
  BY <1>9, Zenon DEF IInv, TypeOK, HasError, Announced, OnePoster, Known, SameResult, Take,
     Goto, HasError, counts, result
<1>10. ASSUME NEW p \in Party, Warn(p)
       PROVE  Known' /\ SameResult'
  BY <1>10, Zenon DEF IInv, TypeOK, HasError, Announced, OnePoster, Known, SameResult, Warn,
     Goto, HasError, counts, result
<1>11. ASSUME NEW p \in Poster, CopyValue(p)
       PROVE  Known' /\ SameResult'
  BY <1>11, Zenon DEF IInv, TypeOK, HasError, Announced, OnePoster, Known, SameResult,
     CopyValue, Goto, counts
<1>12. ASSUME NEW p \in Poster, Mark(p)
       PROVE  Known' /\ SameResult'
  BY <1>12, Zenon DEF IInv, TypeOK, HasError, Announced, OnePoster, Known, SameResult, Mark,
     Goto, counts
<1>13. ASSUME NEW p \in Poster, Save(p)
       PROVE  Known' /\ SameResult'
  BY <1>13, Zenon DEF IInv, TypeOK, HasError, Announced, OnePoster, Known, SameResult, Save,
     Goto, counts
<1>14. ASSUME NEW p \in Poster, Notify(p)
       PROVE  Known' /\ SameResult'
  BY <1>14, Zenon DEF IInv, TypeOK, HasError, Announced, OnePoster, Known, SameResult,
     Notify, Goto, counts, result
<1>15. ASSUME NEW p \in Poster, ResultPosted(p)
       PROVE  Known' /\ SameResult'
  BY <1>15, Zenon DEF IInv, TypeOK, HasError, Announced, OnePoster, Known, SameResult,
     ResultPosted, Goto, Release, Posted, HasError
<1>16. ASSUME NEW p \in Poster, CheckDetached(p)
       PROVE  Known' /\ SameResult'
  BY <1>16, Zenon DEF IInv, TypeOK, HasError, Announced, OnePoster, Known, SameResult,
     CheckDetached, Goto, Posted, counts, result
<1>17. CASE UNCHANGED vars
  BY <1>17, Zenon DEF IInv, TypeOK, HasError, Announced, OnePoster, Known, SameResult, vars,
     counts, result
<1>18. QED
  BY <1>1, <1>2, <1>3, <1>4, <1>5, <1>6, <1>7, <1>8, <1>9, <1>10, <1>11, <1>12,
     <1>13, <1>14, <1>15, <1>16, <1>17, Zenon DEF Next, Posting, Reading

\* An error that was not read is printed by ~Data, by detach or by error.
LEMMA ErrorStep ==
    ASSUME IInv, [Next]_vars
    PROVE  Reporting'
<1> USE FutureAssumption DEF Poster, InPost
<1>1. ASSUME NEW p \in Party, NEW q \in Party, Copy(p, q)
      PROVE  Reporting'
  BY <1>1, Zenon DEF IInv, TypeOK, HasError, CallersHold, TaskHolds, Announced, Known,
     Reporting, Copy, Holds, result
<1>2. ASSUME NEW p \in Party, Drop(p)
      PROVE  Reporting'
  BY <1>2, Zenon DEF IInv, TypeOK, HasError, CallersHold, TaskHolds, Announced, Known,
     Reporting, Drop, Holds, Release, HasError
<1>3. ASSUME NEW p \in Party, Spawn(p)
      PROVE  Reporting'
  BY <1>3, Zenon DEF IInv, TypeOK, HasError, CallersHold, TaskHolds, Announced, Known,
     Reporting, Spawn, Goto, Holds, result
<1>4. ASSUME NEW p \in Party, Post(p)
      PROVE  Reporting'
  BY <1>4, Zenon DEF IInv, TypeOK, HasError, CallersHold, TaskHolds, Announced, Known,
     Reporting, Post, Goto, Holds, counts
<1>5. ASSUME NEW p \in Party, Result(p)
      PROVE  Reporting'
  BY <1>5, Zenon DEF IInv, TypeOK, HasError, CallersHold, TaskHolds, Announced, Known,
     Reporting, Result, Goto, Holds, counts, result
<1>6. ASSUME NEW p \in Party, Detach(p)
      PROVE  Reporting'
  BY <1>6 DEF IInv, TypeOK, HasError, CallersHold, TaskHolds, Announced, Known,
     Reporting, Detach, Goto, Holds, counts, result
<1>7. ASSUME NEW p \in Party, Down(p)
      PROVE  Reporting'
  BY <1>7, Zenon DEF IInv, TypeOK, HasError, CallersHold, TaskHolds, Announced, Known,
     Reporting, Down, Goto, counts, result
<1>8. ASSUME NEW p \in Party, Up(p)
      PROVE  Reporting'
  BY <1>8, Zenon DEF IInv, TypeOK, HasError, CallersHold, TaskHolds, Announced, Known,
     Reporting, Up, Goto, counts, result
<1>9. ASSUME NEW p \in Party, Take(p)
      PROVE  Reporting'
  BY <1>9, Zenon DEF IInv, TypeOK, HasError, CallersHold, TaskHolds, Announced, Known,
     Reporting, Take, Goto, HasError, counts, result
<1>10. ASSUME NEW p \in Party, Warn(p)
       PROVE  Reporting'
  BY <1>10, Zenon DEF IInv, TypeOK, HasError, CallersHold, TaskHolds, Announced, Known,
     Reporting, Warn, Goto, HasError, counts, result
<1>11. ASSUME NEW p \in Poster, CopyValue(p)
       PROVE  Reporting'
  BY <1>11, Zenon DEF IInv, TypeOK, HasError, CallersHold, TaskHolds, Announced, Known,
     Reporting, CopyValue, Goto, counts
<1>12. ASSUME NEW p \in Poster, Mark(p)
       PROVE  Reporting'
  <2>1. ~destroyed
    BY <1>12, RefsFacts DEF IInv, CallersHold, TaskHolds, Mark
  <2>2. resultRead # "once"
    BY <1>12, <2>1, Zenon DEF IInv, Known, Announced, Mark
  <2>3. resultPosted' = posts[p] /\ (HasError' => pc'[p] = "save")
    BY <1>12, Zenon DEF IInv, TypeOK, HasError, Mark, Goto
  <2>4. QED
    BY <1>12, <2>1, <2>2, <2>3, Zenon DEF IInv, Reporting, Mark, counts
<1>13. ASSUME NEW p \in Poster, Save(p)
       PROVE  Reporting'
  BY <1>13, Zenon DEF IInv, TypeOK, HasError, CallersHold, TaskHolds, Announced, Known,
     Reporting, Save, Goto, counts
<1>14. ASSUME NEW p \in Poster, Notify(p)
       PROVE  Reporting'
  BY <1>14, Zenon DEF IInv, TypeOK, HasError, CallersHold, TaskHolds, Announced, Known,
     Reporting, Notify, Goto, counts, result
<1>15. ASSUME NEW p \in Poster, ResultPosted(p)
       PROVE  Reporting'
  BY <1>15, Zenon DEF IInv, TypeOK, HasError, CallersHold, TaskHolds, Announced, Known,
     Reporting, ResultPosted, Goto, Release, Posted, HasError
<1>16. ASSUME NEW p \in Poster, CheckDetached(p)
       PROVE  Reporting'
  BY <1>16, Zenon DEF IInv, TypeOK, HasError, CallersHold, TaskHolds, Announced, Known,
     Reporting, CheckDetached, Goto, Posted, counts, result
<1>17. CASE UNCHANGED vars
  BY <1>17, Zenon DEF IInv, TypeOK, HasError, CallersHold, TaskHolds, Announced, Known,
     Reporting, vars, counts, result
<1>18. QED
  BY <1>1, <1>2, <1>3, <1>4, <1>5, <1>6, <1>7, <1>8, <1>9, <1>10, <1>11, <1>12,
     <1>13, <1>14, <1>15, <1>16, <1>17, Zenon DEF Next, Posting, Reading

----------------------------------------------------------------------------
(* The theorems. *)

\* A future that nobody has used.
LEMMA InitIInv == Init => IInv
<1> SUFFICES ASSUME Init PROVE IInv
  BY Zenon
<1> USE FutureAssumption DEF Poster, InPost
<1>0. TypeOK
  <2>1. pc \in [Poster -> PC]
    BY Zenon DEF Init, PC
  <2>2. got \in [Party -> Poster \cup {Nothing, "error"}]
    BY Zenon DEF Init
  <2>3. QED
    BY <2>1, <2>2, Zenon DEF Init, TypeOK
<1>1. CallersHold /\ TaskHolds /\ OnePoster /\ Claimed /\ Announced
  BY DEF Init, CallersHold, TaskHolds, OnePoster, Claimed, Announced
<1>2. Known /\ SameResult /\ Reporting /\ DestroyedAtZero
  BY DEF Init, Known, SameResult, Reporting, HasError, DestroyedAtZero
<1>3. Cardinality(holders) = 1
  BY FS_Singleton, Zenon DEF Init
<1>4. RefsCounted
  BY <1>3 DEF Init, RefsCounted
<1>5. QED
  BY <1>0, <1>1, <1>2, <1>4, Zenon DEF IInv

\* The inductive invariant of futures.
THEOREM FutureInvariance == Spec => []IInv
<1>1. IInv /\ [Next]_vars => IInv'
  BY TypeStep, RefsStep, CallStep, PostStep, ReadStep, ErrorStep, Zenon DEF IInv
<1>2. QED
  BY InitIInv, <1>1, PTL DEF Spec

\* postRaw and resultRaw: whoever has read the future has read the same.
THEOREM FutureAgrees == Spec => []SameResult
<1>1. IInv => SameResult
  BY Zenon DEF IInv
<1>2. QED
  BY FutureInvariance, <1>1, PTL

\* addRef, release and releaseOnResult: no call works on a destroyed Data, but
\* for the last look of error().
THEOREM FutureLives == Spec => []AliveWhileUsed
<1>1. ASSUME IInv PROVE AliveWhileUsed
  BY <1>1, RefsFacts DEF IInv, CallersHold, TaskHolds, InPost, Poster, AliveWhileUsed
<1>2. QED
  BY FutureInvariance, <1>1, PTL

\* detach, error and ~Data: an error is thrown or printed by one of them.
THEOREM ErrorsReported == Spec => []NoSilentError
<1>1. ASSUME IInv, destroyed, HasError, \A p \in Poster : pc[p] # "check"
      PROVE  reported
  <2>1. \A p \in Poster : pc[p] \notin {"save", "notify", "release", "check", "warn"}
    BY <1>1, RefsFacts DEF IInv, CallersHold, TaskHolds, InPost, Poster
  <2>2. QED
    BY <1>1, <2>1, Zenon DEF IInv, TypeOK, Reporting
<1>2. IInv => NoSilentError
  BY <1>1, Zenon DEF NoSilentError
<1>3. QED
  BY FutureInvariance, <1>2, PTL
============================================================================
