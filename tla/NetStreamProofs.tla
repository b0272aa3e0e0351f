--------------------------- MODULE NetStreamProofs --------------------------
(***************************************************************************)
(* The safety of a stream, its requests and its sleepers, for any number   *)
(* of UThreads, any timeouts and any units of time.                        *)
(***************************************************************************)
EXTENDS MCNetStream, WellFoundedInduction, TLAPS

USE NetStreamAssumption

----------------------------------------------------------------------------
(***************************************************************************)
(* The list of sleepers.                                                   *)
(***************************************************************************)

\* A set of numbers that is not empty has a least one, and Min is it.
LEMMA LeastOf ==
    ASSUME NEW S \in SUBSET Nat, S # {}
    PROVE  Min(S) \in S /\ \A y \in S : Min(S) <= y
<1> DEFINE R == OpToRel(<, Nat)
<1>1. IsWellFoundedOn(R, Nat)
  BY NatLessThanWellFounded, Zenon
<1>2. \A x, y \in Nat : <<x, y>> \in R <=> x < y
  BY Zenon DEF OpToRel
<1> HIDE DEF R
<1>3. PICK x \in S : \A y \in S : <<y, x>> \notin R
  BY <1>1, WFMin, Zenon
<1>4. ASSUME NEW y \in S PROVE x <= y
  <2>1. x \in Nat /\ y \in Nat
    BY Zenon
  <2>2. ~(y < x)
    BY <1>2, <1>3, <2>1, Zenon
  <2> QED
    BY <2>1, <2>2
<1> QED
  BY <1>4, Zenon DEF Min

\* The elements of the first k.
LEMMA FrontOf ==
    ASSUME NEW S, NEW s \in Seq(S), NEW k \in 0 .. Len(s)
    PROVE  /\ SubSeq(s, 1, k) \in Seq(S) /\ Len(SubSeq(s, 1, k)) = k
           /\ \A i \in 1 .. k : SubSeq(s, 1, k)[i] = s[i]
  OBVIOUS

\* The elements behind the first k.
LEMMA TailOf ==
    ASSUME NEW S, NEW s \in Seq(S), NEW k \in 0 .. Len(s)
    PROVE  /\ SubSeq(s, k + 1, Len(s)) \in Seq(S) /\ Len(SubSeq(s, k + 1, Len(s))) = Len(s) - k
           /\ \A i \in 1 .. Len(s) - k : SubSeq(s, k + 1, Len(s))[i] = s[i + k]
  OBVIOUS

Listed(s, u) == \E i \in 1 .. Len(s) : s[i] = u

Sorted(s, l) == \A i, j \in 1 .. Len(s) : i <= j => l[s[i]] <= l[s[j]]

Once(s) == \A i, j \in 1 .. Len(s) : s[i] = s[j] => i = j

\* A list of sleepers, by the time that is left.
SleepList(s, l) == s \in Seq(UThread) /\ Sorted(s, l) /\ Once(s)

\* push keeps the list sorted, whatever the new time, and adds the one sleeper.
LEMMA PushKeepsOrder ==
    ASSUME NEW l \in [UThread -> Nat], NEW s, SleepList(s, l),
           NEW u \in UThread, ~Listed(s, u)
    PROVE  /\ SleepList(Pushed(s, l, u), l)
           /\ \A v \in UThread : Listed(Pushed(s, l, u), v) <=> Listed(s, v) \/ v = u
<1> DEFINE S == {i \in 0 .. Len(s) : i = Len(s) \/ ~(l[s[i + 1]] < l[u])}
<1> DEFINE k == Min(S)
<1> DEFINE r == Pushed(s, l, u)
<1>1. s \in Seq(UThread) /\ Len(s) \in Nat /\ \A i \in 1 .. Len(s) : s[i] \in UThread
  BY DEF SleepList
<1>2. k \in S /\ \A y \in S : k <= y
  <2>1. S \in SUBSET Nat /\ S # {}
    BY <1>1
  <2> QED
    BY <2>1, LeastOf, Zenon
<1>3. r = SubSeq(s, 1, k) \o <<u>> \o SubSeq(s, k + 1, Len(s))
  BY Zenon DEF Pushed
<1>4. k \in 0 .. Len(s) /\ (k = Len(s) \/ ~(l[s[k + 1]] < l[u]))
  BY <1>2, Zenon
<1>5. ASSUME NEW i \in 1 .. Len(s), i <= k PROVE l[s[i]] < l[u]
  <2>1. i - 1 \in 0 .. Len(s) /\ i - 1 < k /\ (i - 1) + 1 = i /\ i - 1 # Len(s)
    BY <1>1, <1>4, <1>5
  <2>2. i - 1 \notin S
    BY <1>2, <1>4, <2>1
  <2> QED
    BY <2>1, <2>2, Zenon
<1> HIDE DEF k, S
<1>6. /\ r \in Seq(UThread) /\ Len(r) = Len(s) + 1
      /\ \A i \in 1 .. k : r[i] = s[i]
      /\ r[k + 1] = u
      /\ \A i \in k + 1 .. Len(s) : r[i + 1] = s[i]
  <2> DEFINE a == SubSeq(s, 1, k)
             b == SubSeq(s, k + 1, Len(s))
             c == a \o <<u>>
  <2>1. a \in Seq(UThread) /\ Len(a) = k /\ \A i \in 1 .. k : a[i] = s[i]
    BY <1>1, <1>4, FrontOf, Zenon
  <2>2. /\ b \in Seq(UThread) /\ Len(b) = Len(s) - k
        /\ \A i \in 1 .. Len(s) - k : b[i] = s[i + k]
    BY <1>1, <1>4, TailOf, ZenonT(30)
  <2>3. r = c \o b
    BY <1>3, Zenon
  <2> HIDE DEF a, b, r
  <2>4. /\ c \in Seq(UThread) /\ Len(c) = k + 1
        /\ \A i \in 1 .. k : c[i] = s[i]
        /\ c[k + 1] = u
    BY <1>1, <1>4, <2>1
  <2> HIDE DEF c
  <2>a. /\ r \in Seq(UThread) /\ Len(r) = (k + 1) + (Len(s) - k)
        /\ \A i \in 1 .. k + 1 : r[i] = c[i]
        /\ \A i \in 1 .. Len(s) - k : r[i + (k + 1)] = b[i]
    <3>0. c \in Seq(UThread) /\ b \in Seq(UThread)
      BY <2>2, <2>4, Zenon
    <3>1. /\ c \o b \in Seq(UThread) /\ Len(c \o b) = Len(c) + Len(b)
          /\ \A i \in 1 .. Len(c) : (c \o b)[i] = c[i]
          /\ \A i \in 1 .. Len(b) : (c \o b)[i + Len(c)] = b[i]
      BY <3>0
    <3>2. Len(c) = k + 1 /\ Len(b) = Len(s) - k
      BY <2>2, <2>4, Zenon
    <3> QED
      BY <2>3, <3>1, <3>2, Zenon
  <2>5. /\ r \in Seq(UThread) /\ Len(r) = Len(s) + 1
        /\ \A i \in 1 .. k + 1 : r[i] = c[i]
        /\ \A i \in 1 .. Len(s) - k : r[i + (k + 1)] = b[i]
    <3>1. (k + 1) + (Len(s) - k) = Len(s) + 1
      BY <1>1, <1>4
    <3> QED
      BY <2>a, <3>1, Zenon
  <2>6. ASSUME NEW i \in k + 1 .. Len(s) PROVE r[i + 1] = s[i]
    <3>1. i - k \in 1 .. Len(s) - k /\ (i - k) + (k + 1) = i + 1 /\ (i - k) + k = i
      BY <1>1, <1>4
    <3>2. r[(i - k) + (k + 1)] = s[(i - k) + k]
      BY <2>2, <2>5, <3>1, Zenon
    <3> QED
      BY <3>1, <3>2, Zenon
  <2>7. \A i \in 1 .. k + 1 : i \in 1 .. k \/ i = k + 1
    BY <1>1, <1>4
  <2>8. 1 .. k \subseteq 1 .. k + 1 /\ k + 1 \in 1 .. k + 1
    BY <1>1, <1>4
  <2> QED
    BY <2>4, <2>5, <2>6, <2>7, <2>8, Zenon
<1> HIDE DEF r
\* Where an element of the new list comes from.
<1> DEFINE Old(i) == IF i <= k THEN i ELSE i - 1
<1>n. Len(s) \in Nat /\ k \in 0 .. Len(s) /\ Len(r) = Len(s) + 1
  BY <1>1, <1>4, <1>6, Zenon
<1>a. ASSUME NEW i \in 1 .. Len(r), i # k + 1
      PROVE  Old(i) \in 1 .. Len(s) /\ r[i] = s[Old(i)] /\ (Old(i) > k <=> i > k + 1)
  <2>1. CASE i <= k
    <3>1. Old(i) = i /\ i \in 1 .. k /\ i \in 1 .. Len(s) /\ (i > k <=> i > k + 1)
      BY <1>n, <2>1
    <3> QED
      BY <1>6, <3>1, Zenon
  <2>2. CASE i > k + 1
    <3>1. /\ Old(i) = i - 1 /\ i - 1 \in k + 1 .. Len(s) /\ i - 1 \in 1 .. Len(s)
          /\ (i - 1) + 1 = i /\ (i - 1 > k <=> i > k + 1)
      BY <1>n, <2>2
    <3> QED
      BY <1>6, <3>1, Zenon
  <2> QED
    BY <1>n, <1>a, <2>1, <2>2
<1>b. ASSUME NEW i \in 1 .. Len(r), NEW j \in 1 .. Len(r), i # k + 1, j # k + 1
      PROVE  (i <= j => Old(i) <= Old(j)) /\ (Old(i) = Old(j) => i = j)
  BY <1>b, <1>n
<1>c. k + 1 \in 1 .. Len(r)
  BY <1>1, <1>4, <1>6
<1> HIDE DEF Old
<1>7. ASSUME NEW i \in 1 .. Len(s), i > k PROVE l[u] <= l[s[i]]
  <2>1. k + 1 \in 1 .. Len(s) /\ k + 1 <= i /\ k # Len(s)
    BY <1>1, <1>4, <1>7
  <2>2. l[s[k + 1]] <= l[s[i]]
    BY <2>1, Zenon DEF SleepList, Sorted
  <2>3. l[u] \in Nat /\ l[s[k + 1]] \in Nat /\ l[s[i]] \in Nat
    BY <1>1, <2>1, Zenon
  <2> QED
    BY <1>4, <2>1, <2>2, <2>3
<1>8. Sorted(r, l)
  <2> SUFFICES ASSUME NEW i \in 1 .. Len(r), NEW j \in 1 .. Len(r), i <= j
               PROVE  l[r[i]] <= l[r[j]]
    BY Zenon DEF Sorted
  <2>1. \A a, b \in 1 .. Len(s) : a <= b => l[s[a]] <= l[s[b]]
    BY Zenon DEF SleepList, Sorted
  <2>2. \A a \in 1 .. Len(s) : l[s[a]] \in Nat
    BY <1>1, Zenon
  <2>3. l[u] \in Nat
    BY Zenon
  <2>4. CASE i # k + 1 /\ j # k + 1
    BY <1>a, <1>b, <2>1, <2>4, Zenon
  <2>5. CASE i = k + 1 /\ j # k + 1
    <3>1. j > k + 1
      BY <1>1, <1>4, <1>6, <2>5
    <3> QED
      BY <1>6, <1>7, <1>a, <2>5, <3>1, Zenon
  <2>6. CASE i # k + 1 /\ j = k + 1
    <3>1. Old(i) \in 1 .. Len(s) /\ Old(i) <= k /\ r[i] = s[Old(i)]
      BY <1>1, <1>4, <1>6, <1>a, <2>6
    <3>2. l[s[Old(i)]] < l[u]
      BY <1>5, <3>1, Zenon
    <3> QED
      BY <1>6, <2>2, <2>3, <2>6, <3>1, <3>2
  <2>7. CASE i = k + 1 /\ j = k + 1
    BY <1>6, <2>3, <2>7
  <2> QED
    BY <2>4, <2>5, <2>6, <2>7, Zenon
<1>9. Once(r)
  <2> SUFFICES ASSUME NEW i \in 1 .. Len(r), NEW j \in 1 .. Len(r), r[i] = r[j]
               PROVE  i = j
    BY Zenon DEF Once
  <2>1. \A a, b \in 1 .. Len(s) : s[a] = s[b] => a = b
    BY Zenon DEF SleepList, Once
  <2>2. \A a \in 1 .. Len(s) : s[a] # u
    BY Zenon DEF Listed
  <2>3. i = k + 1 => j = k + 1
    BY <1>6, <1>a, <2>2, Zenon
  <2>4. j = k + 1 => i = k + 1
    BY <1>6, <1>a, <2>2, Zenon
  <2>5. i # k + 1 /\ j # k + 1 => Old(i) = Old(j)
    BY <1>a, <2>1, Zenon
  <2> QED
    BY <1>b, <2>3, <2>4, <2>5, Zenon
<1>10. ASSUME NEW v \in UThread PROVE Listed(r, v) <=> Listed(s, v) \/ v = u
  <2>1. ASSUME NEW i \in 1 .. Len(s) PROVE \E j \in 1 .. Len(r) : r[j] = s[i]
    <3>1. CASE i <= k
      <4>1. i \in 1 .. k /\ i \in 1 .. Len(r)
        BY <1>1, <1>4, <1>6, <3>1
      <4> QED
        BY <1>6, <4>1, Zenon
    <3>2. CASE i > k
      <4>1. i \in k + 1 .. Len(s) /\ i + 1 \in 1 .. Len(r)
        BY <1>1, <1>4, <1>6, <3>2
      <4> QED
        BY <1>6, <4>1, Zenon
    <3> QED
      BY <1>1, <1>4, <3>1, <3>2
  <2>2. ASSUME NEW j \in 1 .. Len(r) PROVE r[j] = u \/ \E i \in 1 .. Len(s) : s[i] = r[j]
    BY <1>6, <1>a, Zenon
  <2>3. Listed(r, v) => Listed(s, v) \/ v = u
    BY <2>2, Zenon DEF Listed
  <2>4. Listed(s, v) => Listed(r, v)
    BY <2>1, Zenon DEF Listed
  <2>5. Listed(r, u)
    BY <1>6, <1>c, Zenon DEF Listed
  <2> QED
    BY <2>3, <2>4, <2>5, Zenon
<1> QED
  BY <1>6, <1>8, <1>9, <1>10, Zenon DEF SleepList, r

\* The list without its first k.
LEMMA DropKeepsOrder ==
    ASSUME NEW l, NEW s, SleepList(s, l), NEW k \in 0 .. Len(s)
    PROVE  /\ SleepList(SubSeq(s, k + 1, Len(s)), l)
           /\ \A v \in UThread : Listed(SubSeq(s, k + 1, Len(s)), v)
                                   <=> \E i \in 1 .. Len(s) : i > k /\ s[i] = v
<1> DEFINE r == SubSeq(s, k + 1, Len(s))
<1>1. s \in Seq(UThread) /\ Len(s) \in Nat
  BY DEF SleepList
<1>2. /\ r \in Seq(UThread) /\ Len(r) = Len(s) - k
      /\ \A i \in 1 .. Len(r) : i + k \in 1 .. Len(s) /\ r[i] = s[i + k]
  BY <1>1
<1> HIDE DEF r
<1>3. Sorted(r, l)
  <2> SUFFICES ASSUME NEW i \in 1 .. Len(r), NEW j \in 1 .. Len(r), i <= j
               PROVE  l[r[i]] <= l[r[j]]
    BY Zenon DEF Sorted
  <2>1. i + k <= j + k
    BY <1>1, <1>2
  <2> QED
    BY <1>2, <2>1, Zenon DEF SleepList, Sorted
<1>4. Once(r)
  <2> SUFFICES ASSUME NEW i \in 1 .. Len(r), NEW j \in 1 .. Len(r), r[i] = r[j]
               PROVE  i = j
    BY Zenon DEF Once
  <2>1. i + k = j + k
    BY <1>2, Zenon DEF SleepList, Once
  <2> QED
    BY <1>1, <1>2, <2>1
<1>5. ASSUME NEW v \in UThread
      PROVE  Listed(r, v) <=> \E i \in 1 .. Len(s) : i > k /\ s[i] = v
  <2>1. \A i \in 1 .. Len(r) : i + k > k
    BY <1>1, <1>2
  <2>2. ASSUME NEW i \in 1 .. Len(s), i > k PROVE i - k \in 1 .. Len(r) /\ r[i - k] = s[i]
    BY <1>1, <1>2, <2>2
  <2> QED
    BY <1>2, <2>1, <2>2, Zenon DEF Listed
<1> QED
  BY <1>2, <1>3, <1>4, <1>5, Zenon DEF SleepList, r

\* cancelSleep takes the one sleeper from the list, if they are on it.
LEMMA CancelKeepsOrder ==
    ASSUME NEW l, NEW s, SleepList(s, l), NEW u \in UThread
    PROVE  /\ SleepList(CancelSleep(s, u), l)
           /\ \A v \in UThread : Listed(CancelSleep(s, u), v) <=> Listed(s, v) /\ v # u
<1> DEFINE r == CancelSleep(s, u)
<1>1. s \in Seq(UThread) /\ Len(s) \in Nat /\ DOMAIN s = 1 .. Len(s)
  BY DEF SleepList
<1>2. CASE \A i \in DOMAIN s : s[i] # u
  <2>1. r = s
    BY <1>2, Zenon DEF CancelSleep
  <2>2. \A i \in 1 .. Len(s) : s[i] # u
    BY <1>1, <1>2, Zenon
  <2> QED
    BY <2>1, <2>2, Zenon DEF Listed
<1>3. CASE \E i \in DOMAIN s : s[i] = u
  <2> DEFINE k == CHOOSE i \in DOMAIN s : s[i] = u
  <2>1. r = SubSeq(s, 1, k - 1) \o SubSeq(s, k + 1, Len(s))
    BY <1>3, Zenon DEF CancelSleep
  <2>2. k \in 1 .. Len(s) /\ s[k] = u
    BY <1>1, <1>3, Zenon
  <2> HIDE DEF k
  <2>3. /\ r \in Seq(UThread) /\ Len(r) = Len(s) - 1
        /\ \A i \in 1 .. Len(r) : r[i] = IF i < k THEN s[i] ELSE s[i + 1]
    <3> DEFINE a == SubSeq(s, 1, k - 1)
               b == SubSeq(s, k + 1, Len(s))
    <3>0. k - 1 \in 0 .. Len(s) /\ k \in 0 .. Len(s)
      BY <1>1, <2>2
    <3>1. a \in Seq(UThread) /\ Len(a) = k - 1 /\ \A i \in 1 .. k - 1 : a[i] = s[i]
      BY <1>1, <3>0, FrontOf, Zenon
    <3>2. /\ b \in Seq(UThread) /\ Len(b) = Len(s) - k
          /\ \A i \in 1 .. Len(s) - k : b[i] = s[i + k]
      BY <1>1, <3>0, TailOf, Zenon
    <3>3. r = a \o b
      BY <2>1, Zenon
    <3> HIDE DEF a, b, r
    <3>3a. /\ r \in Seq(UThread) /\ Len(r) = (k - 1) + (Len(s) - k)
           /\ \A i \in 1 .. k - 1 : r[i] = a[i]
           /\ \A i \in 1 .. Len(s) - k : r[i + (k - 1)] = b[i]
      <4>0. a \in Seq(UThread) /\ b \in Seq(UThread)
        BY <3>1, <3>2, Zenon
      <4>1. /\ a \o b \in Seq(UThread) /\ Len(a \o b) = Len(a) + Len(b)
            /\ \A i \in 1 .. Len(a) : (a \o b)[i] = a[i]
            /\ \A i \in 1 .. Len(b) : (a \o b)[i + Len(a)] = b[i]
        BY <4>0
      <4>2. Len(a) = k - 1 /\ Len(b) = Len(s) - k
        BY <3>1, <3>2, Zenon
      <4> QED
        BY <3>3, <4>1, <4>2, Zenon
    <3>4. Len(r) = Len(s) - 1
      BY <1>1, <2>2, <3>3a
    <3>5. ASSUME NEW i \in 1 .. Len(r), i >= k PROVE r[i] = s[i + 1]
      <4>1. /\ i - (k - 1) \in 1 .. Len(s) - k /\ (i - (k - 1)) + k = i + 1
            /\ (i - (k - 1)) + (k - 1) = i
        BY <1>1, <2>2, <3>4, <3>5
      <4>2. r[(i - (k - 1)) + (k - 1)] = s[(i - (k - 1)) + k]
        BY <3>2, <3>3a, <4>1, Zenon
      <4> QED
        BY <4>1, <4>2, Zenon
    <3>6. ASSUME NEW i \in 1 .. Len(r), i < k PROVE r[i] = s[i]
      <4>1. i \in 1 .. k - 1
        BY <1>1, <2>2, <3>4, <3>6
      <4> QED
        BY <3>1, <3>3a, <4>1, Zenon
    <3>7. \A i \in 1 .. Len(r) : i < k \/ i >= k
      BY <1>1, <2>2, <3>4
    <3> QED
      BY <3>3a, <3>4, <3>5, <3>6, <3>7, Zenon
  <2> HIDE DEF r
  <2>4. Sorted(r, l)
    <3> SUFFICES ASSUME NEW i \in 1 .. Len(r), NEW j \in 1 .. Len(r), i <= j
                 PROVE  l[r[i]] <= l[r[j]]
      BY Zenon DEF Sorted
    <3>1. PICK a \in 1 .. Len(s), b \in 1 .. Len(s) : a <= b /\ r[i] = s[a] /\ r[j] = s[b]
      BY <1>1, <2>2, <2>3, SMTT(20)
    <3> QED
      BY <3>1, Zenon DEF SleepList, Sorted
  <2>5. Once(r)
    <3> SUFFICES ASSUME NEW i \in 1 .. Len(r), NEW j \in 1 .. Len(r), r[i] = r[j]
                 PROVE  i = j
      BY Zenon DEF Once
    <3>1. \A a, b \in 1 .. Len(s) : s[a] = s[b] => a = b
      BY Zenon DEF SleepList, Once
    <3> QED
      BY <1>1, <2>2, <2>3, <3>1, SMTT(20)
  <2>6. ASSUME NEW v \in UThread PROVE Listed(r, v) <=> Listed(s, v) /\ v # u
    <3>1. ASSUME NEW i \in 1 .. Len(s), i # k PROVE \E j \in 1 .. Len(r) : r[j] = s[i]
      <4>1. CASE i < k
        BY <1>1, <2>2, <2>3, <4>1
      <4>2. CASE i > k
        <5>1. i - 1 \in 1 .. Len(r) /\ r[i - 1] = s[i]
          BY <1>1, <2>2, <2>3, <4>2
        <5> QED
          BY <5>1, Zenon
      <4> QED
        BY <2>2, <3>1, <4>1, <4>2
    <3>2. ASSUME NEW j \in 1 .. Len(r) PROVE \E i \in 1 .. Len(s) : i # k /\ r[j] = s[i]
      BY <1>1, <2>2, <2>3
    <3>3. \A i \in 1 .. Len(s) : s[i] = u => i = k
      BY <2>2, Zenon DEF SleepList, Once
    <3> QED
      BY <2>2, <3>1, <3>2, <3>3, Zenon DEF Listed
  <2> QED
    BY <2>3, <2>4, <2>5, <2>6, Zenon DEF SleepList, r
<1> QED
  BY <1>2, <1>3, Zenon

\* The list does not depend on the time of who is not on it.
LEMMA OrderOfOthers ==
    ASSUME NEW l \in [UThread -> Nat], NEW s, SleepList(s, l),
           NEW u \in UThread, ~Listed(s, u), NEW x
    PROVE  SleepList(s, [l EXCEPT ![u] = x])
<1>1. \A i \in 1 .. Len(s) : s[i] \in UThread /\ s[i] # u
  BY DEF SleepList, Listed
<1>2. \A i \in 1 .. Len(s) : [l EXCEPT ![u] = x][s[i]] = l[s[i]]
  BY <1>1, Zenon
<1> QED
  BY <1>2, Zenon DEF SleepList, Sorted

----------------------------------------------------------------------------
(***************************************************************************)
(* The inductive invariant.                                                *)
(***************************************************************************)
Requests == {"read", "peek", "write"}

CallSet == [kind : {"idle", "read", "peek", "write", "sleep"}, n : Nat,
            ms : Nat, timeout : BOOLEAN, closed : BOOLEAN, wake : BOOLEAN]

\* A call that is on the list of sleepers.
Timed(o) == (o.kind = "sleep" \/ (o.kind \in Requests /\ o.ms > 0)) /\ ~o.timeout

\* The list holds exactly the sleepers and the timeouts that are not over.
SleepersInv ==
    /\ SleepList(sleeping, left)
    /\ \A u \in UThread : Listed(sleeping, u) <=> Timed(op[u])

\* The OS thread is in poll no longer than the first sleeper sleeps.
PollInv ==
    /\ budget = Forever => sleeping = <<>>
    /\ budget >= 0 => \A i \in 1 .. Len(sleeping) : budget <= left[sleeping[i]]

\* The descriptor is that of the connection until the socket is closed, and
\* only then are requests ended.
CloseInv ==
    /\ file = "conn" <=> socket
    /\ \A u \in UThread : op[u].closed => ~socket

\* At most one UThread reads or peeks, and while it waits to read there is no lookahead.
ReaderInv ==
    /\ \A u, v \in UThread :
          op[u].kind \in {"read", "peek"} /\ op[v].kind \in {"read", "peek"} => u = v
    /\ \A u \in UThread : op[u].kind = "read" => lookahead = <<>>

StreamInv == TypeOK /\ SleepersInv /\ PollInv /\ CloseInv /\ ReaderInv /\ EndIsEnd

\* How a call that read or wrote goes on: it returns, or it waits on the open connection.
Answer(u, kind, h, s) ==
    \/ Return(u, h, s)
    \/ \E o \in CallSet : /\ o.kind = kind /\ ~o.timeout /\ ~o.closed
                          /\ file = "conn" /\ Wait(u, o, h, s)

\* storm::read returns, or waits as the list of sleepers needs it.
LEMMA ReadAnswers ==
    ASSUME NEW u \in UThread, NEW o \in CallSet, ~o.timeout, ~o.closed,
           NEW front, NEW h, NEW s, DoRead(u, o, front, h, s)
    PROVE  /\ Answer(u, o.kind, h, s)
           /\ UNCHANGED <<file, sent, peerClosed, room, sock, budget>>
  BY Zenon DEF DoRead, Answer

\* So does storm::write.
LEMMA WriteAnswers ==
    ASSUME TypeOK, NEW u \in UThread, NEW o \in CallSet, o.kind = "write", ~o.timeout, ~o.closed,
           NEW h, NEW s, DoWrite(u, o, h, s)
    PROVE  /\ Answer(u, "write", h, s) /\ room' \in 0 .. MaxRoom
           /\ UNCHANGED <<file, rx, sent, peerClosed, sock, stream, budget>>
<1> DEFINE k == Min({o.n, room})
<1>1. room \in 0 .. MaxRoom /\ room \in Nat /\ o.n \in Nat
  BY DEF TypeOK, CallSet
<1>2. k \in {o.n, room} /\ k <= o.n /\ k <= room
  <2>1. {o.n, room} \in SUBSET Nat /\ {o.n, room} # {}
    BY <1>1, Zenon
  <2>2. k \in {o.n, room} /\ \A y \in {o.n, room} : k <= y
    BY <2>1, LeastOf, Zenon
  <2> QED
    BY <2>2, Zenon
<1>3. room - k \in 0 .. MaxRoom /\ o.n - k \in Nat
  BY <1>1, <1>2
<1> DEFINE p == [o EXCEPT !.n = @ - k]
<1>4. p \in CallSet /\ p.kind = "write" /\ ~p.timeout /\ ~p.closed
  <2> HIDE DEF k
  <2> QED
    BY <1>3 DEF CallSet
<1>5. UNCHANGED <<file, rx, sent, peerClosed, sock, stream, budget>>
  BY Zenon DEF DoWrite
<1>6. \/ Return(u, h, s) /\ UNCHANGED room
      \/ /\ file = "conn" /\ room' = room - k
         /\ Return(u, h, s) \/ Wait(u, p, h, s)
  BY Zenon DEF DoWrite
<1> HIDE DEF k, p
<1>7. room' \in 0 .. MaxRoom
  BY <1>1, <1>3, <1>6, Zenon
<1>8. Answer(u, "write", h, s)
  BY <1>4, <1>6, Zenon DEF Answer
<1> QED
  BY <1>5, <1>7, <1>8, Zenon

\* The types that the steps of the calls are about.
LEMMA CallTypes ==
    ASSUME TypeOK
    PROVE  /\ op \in [UThread -> CallSet] /\ left \in [UThread -> Nat]
           /\ \A ms \in Nat : sleepTarget(ms) \in Nat
<1>1. op \in [UThread -> CallSet] /\ left \in [UThread -> Nat]
  BY Zenon DEF TypeOK, CallSet
<1>2. ASSUME NEW ms \in Nat PROVE sleepTarget(ms) \in Nat
  <2>1. ms * PerMs \in Nat
    OBVIOUS
  <2> HIDE DEF sleepTarget
  <2> QED
    BY <2>1 DEF sleepTarget
<1> QED
  BY <1>1, <1>2, Zenon

\* Outside a call and when it returned, u is not on the list.
LEMMA IdleCall ==
    /\ Idle \in CallSet /\ Idle.kind = "idle" /\ ~Idle.closed /\ ~Timed(Idle)
  BY DEF Idle, Call, CallSet, Timed, Requests

\* A call that goes on leaves the others and their sleep alone; s is the list without u.
LEMMA AnswerKeeps ==
    ASSUME TypeOK, NEW u \in UThread, NEW kind \in Requests, NEW h, NEW s, SleepList(s, left),
           \A v \in UThread : Listed(s, v) <=> Timed(op[v]) /\ v # u,
           Answer(u, kind, h, s)
    PROVE  /\ op' \in [UThread -> CallSet] /\ left' \in [UThread -> Nat]
           /\ SleepersInv'
           /\ \A v \in UThread : v # u => op'[v] = op[v]
           /\ ~op'[u].closed /\ op'[u].kind \in {"idle", kind}
<1>1. op \in [UThread -> CallSet] /\ left \in [UThread -> Nat]
  BY CallTypes, Zenon
<1>2. ~Listed(s, u)
  BY Zenon
<1>3. CASE Return(u, h, s)
  <2>1. /\ op' = [op EXCEPT ![u] = Idle] /\ sleeping' = s
        /\ left' = [left EXCEPT ![u] = 0]
    BY <1>3, Zenon DEF Return
  <2>2. op'[u] = Idle /\ \A v \in UThread : v # u => op'[v] = op[v]
    BY <1>1, <2>1, Zenon
  <2>3. op' \in [UThread -> CallSet]
    BY <1>1, <2>1, IdleCall
  <2>4. left' \in [UThread -> Nat]
    BY <1>1, <2>1
  <2>5. SleepList(sleeping', left')
    BY <1>1, <1>2, <2>1, OrderOfOthers, Zenon
  <2>6. \A v \in UThread : Listed(sleeping', v) <=> Timed(op'[v])
    BY <2>1, <2>2, IdleCall, Zenon
  <2> QED
    BY <2>2, <2>3, <2>4, <2>5, <2>6, IdleCall, Zenon DEF SleepersInv
<1>4. ASSUME NEW o \in CallSet, o.kind = kind, ~o.timeout, ~o.closed, Wait(u, o, h, s)
      PROVE  /\ op' \in [UThread -> CallSet] /\ left' \in [UThread -> Nat]
             /\ SleepersInv'
             /\ \A v \in UThread : v # u => op'[v] = op[v]
             /\ ~op'[u].closed /\ op'[u].kind \in {"idle", kind}
  <2>1. /\ op' = [op EXCEPT ![u] = o]
        /\ left' = [left EXCEPT ![u] = sleepTarget(o.ms)]
        /\ sleeping' = IF o.ms > 0 THEN Pushed(s, left', u) ELSE s
    BY <1>4, Zenon DEF Wait
  <2>2. op'[u] = o /\ \A v \in UThread : v # u => op'[v] = op[v]
    BY <1>1, <2>1, Zenon
  <2>3. op' \in [UThread -> CallSet]
    BY <1>1, <2>1
  <2>4. o.ms \in Nat /\ sleepTarget(o.ms) \in Nat
    BY CallTypes DEF CallSet
  <2>5. left' \in [UThread -> Nat]
    BY <1>1, <2>1, <2>4
  <2>6. SleepList(s, left')
    BY <1>1, <1>2, <2>1, OrderOfOthers, Zenon
  <2>7. Timed(o) <=> o.ms > 0
    BY <1>4 DEF Timed, Requests
  <2>8. SleepList(sleeping', left') /\ \A v \in UThread : Listed(sleeping', v) <=> Timed(op'[v])
    <3>1. CASE o.ms > 0
      <4>1. /\ SleepList(Pushed(s, left', u), left')
            /\ \A v \in UThread : Listed(Pushed(s, left', u), v) <=> Listed(s, v) \/ v = u
        BY <1>2, <2>5, <2>6, PushKeepsOrder, Zenon
      <4>2. sleeping' = Pushed(s, left', u)
        BY <2>1, <3>1, Zenon
      <4> QED
        BY <2>2, <2>7, <3>1, <4>1, <4>2, Zenon
    <3>2. CASE ~(o.ms > 0)
      <4>1. sleeping' = s
        BY <2>1, <3>2, Zenon
      <4> QED
        BY <2>2, <2>6, <2>7, <3>2, <4>1, Zenon
    <3> QED
      BY <3>1, <3>2, Zenon
  <2> QED
    BY <1>4, <2>2, <2>3, <2>5, <2>8, Zenon DEF SleepersInv
<1> QED
  BY <1>3, <1>4, Zenon DEF Answer

\* The list before a call, and before a call that was woken goes on: without u.
LEMMA ListBeforeCall ==
    ASSUME SleepersInv, NEW u \in UThread, Runs(u)
    PROVE  /\ SleepList(sleeping, left)
           /\ \A v \in UThread : Listed(sleeping, v) <=> Timed(op[v]) /\ v # u
<1>1. ~Timed(op[u])
  BY DEF Runs, Timed, Requests
<1> QED
  BY <1>1, Zenon DEF SleepersInv

\* The list without the timeout of a call that was woken.
LEMMA ListBeforeResume ==
    ASSUME SleepersInv, NEW u \in UThread,
           NEW s, s = IF op[u].timeout THEN sleeping ELSE CancelSleep(sleeping, u)
    PROVE  /\ SleepList(s, left)
           /\ \A v \in UThread : Listed(s, v) <=> Timed(op[v]) /\ v # u
<1>1. CASE op[u].timeout
  <2>1. ~Timed(op[u])
    BY <1>1, Zenon DEF Timed
  <2> QED
    BY <1>1, <2>1, Zenon DEF SleepersInv
<1>2. CASE ~op[u].timeout
  BY <1>2, CancelKeepsOrder, Zenon DEF SleepersInv
<1> QED
  BY <1>1, <1>2, Zenon

\* What a read or a peek takes is bytes.
LEMMA TakeTypes ==
    ASSUME TypeOK, NEW kind, NEW front \in Seq(Nat), Len(front) <= Len(lookahead),
           NEW data \in Seq(Nat), Take(kind, front, data)
    PROVE  /\ got' \in Seq(Nat) /\ lookahead' \in Seq(Nat)
           /\ kind = "read" /\ Len(front) = Len(lookahead) => lookahead' = <<>>
<1>1. got \in Seq(Nat) /\ lookahead \in Seq(Nat)
  BY Zenon DEF TypeOK
<1>2. got' = IF kind = "read" THEN got \o front \o data ELSE got
  BY Zenon DEF Take
<1>3. lookahead' = IF kind = "read" THEN SubSeq(lookahead, Len(front) + 1, Len(lookahead))
                   ELSE lookahead \o data
  BY Zenon DEF Take
<1>4. got' \in Seq(Nat)
  BY <1>1, <1>2
<1>5. lookahead' \in Seq(Nat)
  BY <1>1, <1>3
<1>6. kind = "read" /\ Len(front) = Len(lookahead) => lookahead' = <<>>
  BY <1>1, <1>3
<1> QED
  BY <1>4, <1>5, <1>6, Zenon

\* A read keeps the types of the stream, and tells the end from a wait.
LEMMA ReadData ==
    ASSUME TypeOK, CloseInv, EndIsEnd, NEW u \in UThread, NEW o \in CallSet,
           NEW front \in Seq(Nat), Len(front) <= Len(lookahead), NEW h, NEW s,
           DoRead(u, o, front, h, s)
    PROVE  /\ got' \in Seq(Nat) /\ lookahead' \in Seq(Nat) /\ rx' \in Seq(Nat)
           /\ atEof' \in BOOLEAN /\ EndIsEnd'
           /\ o.kind = "read" /\ Len(front) = Len(lookahead) => lookahead' = <<>>
<1>1. rx \in Seq(Nat) /\ atEof \in BOOLEAN /\ o.n \in Nat /\ <<>> \in Seq(Nat)
  BY DEF TypeOK, CallSet
<1>2. in' = in /\ socket' = socket /\ peerClosed' = peerClosed
  BY Zenon DEF DoRead, sock
<1>3. CASE /\ file = "conn" /\ rx # <<>>
           /\ LET k == Min({o.n, Len(rx)})
              IN  /\ Take(o.kind, front, SubSeq(rx, 1, k))
                  /\ rx' = SubSeq(rx, k + 1, Len(rx))
           /\ UNCHANGED atEof
  <2> DEFINE k == Min({o.n, Len(rx)})
  <2>0. o.n \in Nat /\ Len(rx) \in Nat
    BY <1>1
  <2>1. k \in {o.n, Len(rx)} /\ k <= Len(rx) /\ k \in Nat
    <3>1. {o.n, Len(rx)} \in SUBSET Nat /\ {o.n, Len(rx)} # {}
      BY <2>0, Zenon
    <3>2. k \in {o.n, Len(rx)} /\ \A y \in {o.n, Len(rx)} : k <= y
      BY <3>1, LeastOf, Zenon
    <3> QED
      BY <2>0, <3>2, Zenon
  <2>2. Take(o.kind, front, SubSeq(rx, 1, k)) /\ rx' = SubSeq(rx, k + 1, Len(rx))
    BY <1>3, Zenon
  <2> HIDE DEF k
  <2>3. SubSeq(rx, 1, k) \in Seq(Nat) /\ rx' \in Seq(Nat)
    BY <1>1, <2>1, <2>2
  <2>4. EndIsEnd'
    BY <1>2, <1>3, Zenon DEF EndIsEnd
  <2> QED
    BY <1>1, <1>3, <2>2, <2>3, <2>4, TakeTypes, Zenon
<1>4. CASE file = "other" /\ Take(o.kind, front, <<Foreign>>) /\ UNCHANGED <<rx, atEof>>
  <2>1. <<Foreign>> \in Seq(Nat)
    BY DEF Foreign
  <2>2. EndIsEnd'
    BY <1>2, <1>4, Zenon DEF EndIsEnd
  <2> QED
    BY <1>1, <1>4, <2>1, <2>2, TakeTypes, Zenon
<1>5. CASE /\ file = "none" \/ (file = "conn" /\ rx = <<>> /\ peerClosed)
           /\ Take(o.kind, front, <<>>)
           /\ atEof' = TRUE
           /\ UNCHANGED rx
  <2>0. file = "conn" <=> socket
    BY Zenon DEF CloseInv
  <2>1. file = "none" => ~socket
    <3> SUFFICES ASSUME file = "none" PROVE file # "conn"
      BY <2>0, Zenon
    <3> QED
      OBVIOUS
  <2>2. EndIsEnd'
    BY <1>2, <1>5, <2>1, Zenon DEF EndIsEnd
  <2> QED
    BY <1>1, <1>5, <2>2, TakeTypes, Zenon
<1>6. CASE Take(o.kind, front, <<>>) /\ UNCHANGED <<rx, atEof>>
  <2>1. EndIsEnd'
    BY <1>2, <1>6, Zenon DEF EndIsEnd
  <2> QED
    BY <1>1, <1>6, <2>1, TakeTypes, Zenon
<1> QED
  BY <1>3, <1>4, <1>5, <1>6, Zenon DEF DoRead

\* The OS thread is not in poll.
LEMMA AwakePoll ==
    ASSUME budget' = Awake
    PROVE  PollInv' /\ budget' \in Nat \cup {Awake, Forever}
  BY DEF PollInv, Awake, Forever

\* A call that has just read, or returned from its wait and read again.
LEMMA ReadStep ==
    ASSUME StreamInv, budget = Awake, NEW u \in UThread, NEW o \in CallSet,
           o.kind \in {"read", "peek"}, ~o.timeout, ~o.closed,
           \A v \in UThread : v # u => op[v].kind \notin {"read", "peek"},
           NEW front \in Seq(Nat), Len(front) <= Len(lookahead),
           o.kind = "read" => Len(front) = Len(lookahead),
           NEW h, NEW s, SleepList(s, left),
           \A v \in UThread : Listed(s, v) <=> Timed(op[v]) /\ v # u,
           DoRead(u, o, front, h, s)
    PROVE  StreamInv'
<1>1. TypeOK /\ SleepersInv /\ PollInv /\ CloseInv /\ ReaderInv /\ EndIsEnd
  BY Zenon DEF StreamInv
<1>2. Answer(u, o.kind, h, s) /\ UNCHANGED <<file, sent, peerClosed, room, sock, budget>>
  BY ReadAnswers, Zenon
<1>3. /\ got' \in Seq(Nat) /\ lookahead' \in Seq(Nat) /\ rx' \in Seq(Nat)
      /\ atEof' \in BOOLEAN /\ EndIsEnd'
      /\ o.kind = "read" => lookahead' = <<>>
  BY <1>1, ReadData, Zenon
<1>4. o.kind \in Requests
  BY DEF Requests
<1>5. /\ op' \in [UThread -> CallSet] /\ left' \in [UThread -> Nat]
      /\ SleepersInv'
      /\ \A v \in UThread : v # u => op'[v] = op[v]
      /\ ~op'[u].closed /\ op'[u].kind \in {"idle", o.kind}
  BY <1>1, <1>2, <1>4, AnswerKeeps, Zenon
<1>6. PollInv' /\ budget' \in Nat \cup {Awake, Forever}
  BY <1>2, AwakePoll, Zenon
<1>7. TypeOK'
  BY <1>1, <1>2, <1>3, <1>5, <1>6, Zenon DEF TypeOK, sock, CallSet
<1>8. CloseInv'
  <2>1. file' = file /\ socket' = socket
    BY <1>2, Zenon DEF sock
  <2> QED
    BY <1>1, <1>5, <2>1, Zenon DEF CloseInv
<1>9. ReaderInv'
  <2>1. \A v \in UThread : op'[v].kind \in {"read", "peek"} => v = u
    BY <1>5, Zenon
  <2>2. op'[u].kind = "read" => lookahead' = <<>>
    BY <1>3, <1>5
  <2>3. \A v \in UThread : op'[v].kind = "read" => v = u
    BY <2>1, Zenon
  <2> QED
    BY <2>1, <2>2, <2>3, Zenon DEF ReaderInv
<1> QED
  BY <1>3, <1>5, <1>6, <1>7, <1>8, <1>9, Zenon DEF StreamInv

\* A call that has just written, or returned from its wait and written again.
LEMMA WriteStep ==
    ASSUME StreamInv, budget = Awake, NEW u \in UThread, op[u].kind \in {"idle", "write"},
           NEW o \in CallSet, o.kind = "write", ~o.timeout, ~o.closed,
           NEW h, NEW s, SleepList(s, left),
           \A v \in UThread : Listed(s, v) <=> Timed(op[v]) /\ v # u,
           DoWrite(u, o, h, s)
    PROVE  StreamInv'
<1>1. TypeOK /\ SleepersInv /\ PollInv /\ CloseInv /\ ReaderInv /\ EndIsEnd
  BY Zenon DEF StreamInv
<1>2. /\ Answer(u, "write", h, s) /\ room' \in 0 .. MaxRoom
      /\ UNCHANGED <<file, rx, sent, peerClosed, sock, stream, budget>>
  BY <1>1, WriteAnswers, Zenon
<1>3. "write" \in Requests
  BY DEF Requests
<1>4. /\ op' \in [UThread -> CallSet] /\ left' \in [UThread -> Nat]
      /\ SleepersInv'
      /\ \A v \in UThread : v # u => op'[v] = op[v]
      /\ ~op'[u].closed /\ op'[u].kind \in {"idle", "write"}
  BY <1>1, <1>2, <1>3, AnswerKeeps, Zenon
<1>5. PollInv' /\ budget' \in Nat \cup {Awake, Forever}
  BY <1>2, AwakePoll, Zenon
<1>6. /\ file' = file /\ rx' = rx /\ sent' = sent /\ peerClosed' = peerClosed
      /\ socket' = socket /\ in' = in /\ out' = out /\ closed' = closed
      /\ lookahead' = lookahead /\ atEof' = atEof /\ got' = got
  BY <1>2, Zenon DEF sock, stream
<1>7. TypeOK'
  BY <1>1, <1>2, <1>4, <1>5, <1>6, Zenon DEF TypeOK, CallSet
<1>8. CloseInv'
  BY <1>1, <1>4, <1>6, Zenon DEF CloseInv
<1>9. ReaderInv'
  <2>1. op'[u].kind \notin {"read", "peek"} /\ op'[u].kind # "read"
    BY <1>4
  <2> QED
    BY <1>1, <1>4, <1>6, <2>1, Zenon DEF ReaderInv
<1>10. EndIsEnd'
  BY <1>1, <1>6, Zenon DEF EndIsEnd
<1> QED
  BY <1>4, <1>5, <1>7, <1>8, <1>9, <1>10, Zenon DEF StreamInv

\* A stream without a handle: only atEof, got and the lookahead change.
LEMMA EndStep ==
    ASSUME StreamInv, budget = Awake, \A v \in UThread : op[v].kind \notin {"read", "peek"}, ~in,
           NEW kind, NEW front \in Seq(Nat), Len(front) <= Len(lookahead), AtEnd(kind, front)
    PROVE  StreamInv'
<1>1. TypeOK /\ SleepersInv /\ PollInv /\ CloseInv /\ ReaderInv /\ EndIsEnd
  BY Zenon DEF StreamInv
<1>2. Take(kind, front, <<>>) /\ atEof' = TRUE
  BY Zenon DEF AtEnd
<1>3. /\ file' = file /\ rx' = rx /\ sent' = sent /\ peerClosed' = peerClosed /\ room' = room
      /\ socket' = socket /\ in' = in /\ out' = out /\ closed' = closed
      /\ op' = op /\ sleeping' = sleeping /\ left' = left /\ budget' = budget
  BY Zenon DEF AtEnd, peer, sock, waits
<1>4. got' \in Seq(Nat) /\ lookahead' \in Seq(Nat)
  <2>1. <<>> \in Seq(Nat)
    OBVIOUS
  <2> QED
    BY <1>1, <1>2, <2>1, TakeTypes, Zenon
<1>5. TypeOK'
  BY <1>1, <1>2, <1>3, <1>4, Zenon DEF TypeOK
<1>6. SleepersInv' /\ PollInv' /\ CloseInv'
  BY <1>1, <1>3, Zenon DEF SleepersInv, PollInv, CloseInv
<1>7. ReaderInv'
  <2>1. \A v \in UThread : op'[v].kind \notin {"read", "peek"} /\ op'[v].kind # "read"
    BY <1>3, Zenon
  <2> QED
    BY <2>1, Zenon DEF ReaderInv
<1>8. EndIsEnd'
  BY <1>3, Zenon DEF EndIsEnd
<1> QED
  BY <1>5, <1>6, <1>7, <1>8, Zenon DEF StreamInv

\* The part of the lookahead that a read of n bytes takes.
LEMMA FrontTaken ==
    ASSUME TypeOK, NEW n \in Nat
    PROVE  LET front == SubSeq(lookahead, 1, Min({n, Len(lookahead)}))
           IN  /\ front \in Seq(Nat) /\ Len(front) <= Len(lookahead)
               /\ n - Len(front) \in Nat
               /\ n - Len(front) > 0 => Len(front) = Len(lookahead)
               /\ Len(front) = Min({n, Len(lookahead)}) /\ Len(front) \in 0 .. Len(lookahead)
<1> DEFINE k == Min({n, Len(lookahead)})
<1>1. lookahead \in Seq(Nat) /\ Len(lookahead) \in Nat
  BY DEF TypeOK
<1>2. k \in {n, Len(lookahead)} /\ k <= n /\ k <= Len(lookahead)
  <2>1. {n, Len(lookahead)} \in SUBSET Nat /\ {n, Len(lookahead)} # {}
    BY <1>1, Zenon
  <2>2. k \in {n, Len(lookahead)} /\ \A y \in {n, Len(lookahead)} : k <= y
    BY <2>1, LeastOf, Zenon
  <2> QED
    BY <2>2, Zenon
<1> HIDE DEF k
<1>3. k \in 0 .. Len(lookahead) /\ n - k \in Nat /\ (n - k > 0 => k = Len(lookahead))
  BY <1>1, <1>2
<1>4. SubSeq(lookahead, 1, k) \in Seq(Nat) /\ Len(SubSeq(lookahead, 1, k)) = k
  BY <1>1, <1>3, FrontOf, Zenon
<1> QED
  BY <1>2, <1>3, <1>4, Zenon DEF k

\* PeekIStream::read keeps the invariant, from the lookahead, at the end or in a wait.
LEMMA ReadPreserves ==
    ASSUME StreamInv, NEW u \in UThread, NEW n \in Counts, NEW ms \in Timeouts, Read(u, n, ms)
    PROVE  StreamInv'
<1> DEFINE front == SubSeq(lookahead, 1, Min({n, Len(lookahead)}))
           o == Call("read", n - Len(front), ms)
<1>1. TypeOK /\ SleepersInv /\ PollInv /\ CloseInv /\ ReaderInv /\ EndIsEnd
  BY Zenon DEF StreamInv
<1>2. n \in Nat /\ ms \in Nat
  OBVIOUS
<1>3. /\ front \in Seq(Nat) /\ Len(front) <= Len(lookahead)
      /\ n - Len(front) \in Nat
      /\ n - Len(front) > 0 => Len(front) = Len(lookahead)
  BY <1>1, <1>2, FrontTaken, Zenon
<1>4. /\ Runs(u) /\ budget = Awake
      /\ \A v \in UThread : op[v].kind \notin {"read", "peek"}
  BY Zenon DEF Read, Runs, Nobody
<1>5. \/ /\ o.n = 0
         /\ Take("read", front, <<>>)
         /\ UNCHANGED <<file, peer, sock, atEof, waits, budget>>
      \/ o.n > 0 /\ ~in /\ AtEnd("read", front)
      \/ o.n > 0 /\ in /\ DoRead(u, o, front, handles, sleeping)
  BY Zenon DEF Read
<1> HIDE DEF front
<1>6. /\ o \in CallSet /\ o.kind = "read" /\ o.n = n - Len(front)
      /\ ~o.timeout /\ ~o.closed
  BY <1>2, <1>3 DEF Call, CallSet
<1> HIDE DEF o
<1>7. CASE /\ Take("read", front, <<>>)
           /\ UNCHANGED <<file, peer, sock, atEof, waits, budget>>
  <2>1. /\ file' = file /\ rx' = rx /\ sent' = sent /\ peerClosed' = peerClosed /\ room' = room
        /\ socket' = socket /\ in' = in /\ out' = out /\ closed' = closed /\ atEof' = atEof
        /\ op' = op /\ sleeping' = sleeping /\ left' = left /\ budget' = budget
    BY <1>7, Zenon DEF peer, sock, waits
  <2>2. got' \in Seq(Nat) /\ lookahead' \in Seq(Nat)
    <3>1. <<>> \in Seq(Nat)
      OBVIOUS
    <3> QED
      BY <1>1, <1>3, <1>7, <3>1, TakeTypes, Zenon
  <2>3. TypeOK'
    BY <1>1, <2>1, <2>2, Zenon DEF TypeOK
  <2>4. SleepersInv' /\ PollInv' /\ CloseInv' /\ EndIsEnd'
    BY <1>1, <2>1, Zenon DEF SleepersInv, PollInv, CloseInv, EndIsEnd
  <2>5. ReaderInv'
    <3>1. \A v \in UThread : op'[v].kind \notin {"read", "peek"} /\ op'[v].kind # "read"
      BY <1>4, <2>1, Zenon
    <3> QED
      BY <3>1, Zenon DEF ReaderInv
  <2> QED
    BY <2>3, <2>4, <2>5, Zenon DEF StreamInv
<1>8. CASE ~in /\ AtEnd("read", front)
  BY <1>3, <1>4, <1>8, EndStep, Zenon
<1>9. CASE o.n > 0 /\ DoRead(u, o, front, handles, sleeping)
  <2>1. Len(front) = Len(lookahead)
    BY <1>3, <1>6, <1>9, Zenon
  <2>2. /\ SleepList(sleeping, left)
        /\ \A v \in UThread : Listed(sleeping, v) <=> Timed(op[v]) /\ v # u
    BY <1>1, <1>4, ListBeforeCall, Zenon
  <2>3. o.kind \in {"read", "peek"}
    BY <1>6, Zenon
  <2> QED
    BY <1>3, <1>4, <1>6, <1>9, <2>1, <2>2, <2>3, ReadStep, Zenon
<1> QED
  BY <1>5, <1>7, <1>8, <1>9, Zenon

\* So does PeekIStream::peek.
LEMMA PeekPreserves ==
    ASSUME StreamInv, NEW u \in UThread, NEW n \in Counts, NEW ms \in Timeouts, Peek(u, n, ms)
    PROVE  StreamInv'
<1> DEFINE o == Call("peek", n - Len(lookahead), ms)
<1>1. TypeOK /\ SleepersInv
  BY Zenon DEF StreamInv
<1>2. n \in Nat /\ ms \in Nat /\ lookahead \in Seq(Nat) /\ <<>> \in Seq(Nat)
  BY <1>1 DEF TypeOK
<1>3. /\ Runs(u) /\ budget = Awake /\ n > Len(lookahead)
      /\ \A v \in UThread : op[v].kind \notin {"read", "peek"}
  BY Zenon DEF Peek, Runs, Nobody
<1>4. \/ ~in /\ AtEnd("peek", <<>>)
      \/ in /\ DoRead(u, o, <<>>, handles, sleeping)
  BY Zenon DEF Peek
<1>5. n - Len(lookahead) \in Nat /\ Len(<<>>) <= Len(lookahead)
  BY <1>2, <1>3
<1>6. o \in CallSet /\ o.kind = "peek" /\ ~o.timeout /\ ~o.closed
  BY <1>2, <1>5 DEF Call, CallSet
<1> HIDE DEF o
<1>7. CASE ~in /\ AtEnd("peek", <<>>)
  BY <1>2, <1>3, <1>5, <1>7, EndStep, Zenon
<1>8. CASE DoRead(u, o, <<>>, handles, sleeping)
  <2>1. /\ SleepList(sleeping, left)
        /\ \A v \in UThread : Listed(sleeping, v) <=> Timed(op[v]) /\ v # u
    BY <1>1, <1>3, ListBeforeCall, Zenon
  <2>2. o.kind \in {"read", "peek"} /\ o.kind # "read"
    BY <1>6
  <2> QED
    BY <1>2, <1>3, <1>5, <1>6, <1>8, <2>1, <2>2, ReadStep, Zenon
<1> QED
  BY <1>4, <1>7, <1>8, Zenon

\* So does HandleOStream::write.
LEMMA WritePreserves ==
    ASSUME StreamInv, NEW u \in UThread, NEW n \in Counts, Write(u, n)
    PROVE  StreamInv'
<1> DEFINE o == Call("write", n, 0)
<1>1. /\ Runs(u) /\ budget = Awake /\ op[u].kind \in {"idle", "write"}
      /\ DoWrite(u, o, handles, sleeping)
  BY Zenon DEF Write, Runs
<1>2. n \in Nat /\ 0 \in Nat
  OBVIOUS
<1>3. o \in CallSet /\ o.kind = "write" /\ ~o.timeout /\ ~o.closed
  BY <1>2 DEF Call, CallSet
<1> HIDE DEF o
<1>4. /\ SleepList(sleeping, left)
      /\ \A v \in UThread : Listed(sleeping, v) <=> Timed(op[v]) /\ v # u
  BY <1>1, ListBeforeCall, Zenon DEF StreamInv
<1> QED
  BY <1>1, <1>3, <1>4, WriteStep, Zenon

\* So does UThreadState::sleep.
LEMMA SleepPreserves ==
    ASSUME StreamInv, NEW u \in UThread, NEW ms \in Sleeps, Sleep(u, ms)
    PROVE  StreamInv'
<1> DEFINE o == Call("sleep", 0, ms)
<1>1. TypeOK /\ SleepersInv /\ PollInv /\ CloseInv /\ ReaderInv /\ EndIsEnd
  BY Zenon DEF StreamInv
<1>2. /\ Runs(u) /\ budget = Awake /\ op' = [op EXCEPT ![u] = o]
      /\ left' = [left EXCEPT ![u] = sleepTarget(ms)]
      /\ sleeping' = Pushed(sleeping, left', u)
  BY Zenon DEF Sleep, Runs
<1>3. /\ file' = file /\ rx' = rx /\ sent' = sent /\ peerClosed' = peerClosed /\ room' = room
      /\ socket' = socket /\ in' = in /\ out' = out /\ closed' = closed
      /\ lookahead' = lookahead /\ atEof' = atEof /\ got' = got /\ budget' = budget
  BY Zenon DEF Sleep, peer, sock, stream
<1>4. op \in [UThread -> CallSet] /\ left \in [UThread -> Nat] /\ sleepTarget(ms) \in Nat
  BY <1>1, CallTypes
<1>5. o \in CallSet /\ o.kind = "sleep" /\ ~o.closed /\ Timed(o)
  BY DEF Call, CallSet, Timed
<1> HIDE DEF o
<1>6. op' \in [UThread -> CallSet] /\ op'[u] = o /\ \A v \in UThread : v # u => op'[v] = op[v]
  BY <1>2, <1>4, <1>5
<1>7. left' \in [UThread -> Nat]
  BY <1>2, <1>4
<1>8. /\ SleepList(sleeping, left)
      /\ \A v \in UThread : Listed(sleeping, v) <=> Timed(op[v]) /\ v # u
  BY <1>1, <1>2, ListBeforeCall, Zenon
<1>9. SleepList(sleeping, left') /\ ~Listed(sleeping, u)
  BY <1>2, <1>4, <1>8, OrderOfOthers, Zenon
<1>10. /\ SleepList(sleeping', left')
       /\ \A v \in UThread : Listed(sleeping', v) <=> Listed(sleeping, v) \/ v = u
  BY <1>2, <1>7, <1>9, PushKeepsOrder, Zenon
<1>11. SleepersInv'
  BY <1>5, <1>6, <1>8, <1>10, Zenon DEF SleepersInv
<1>12. PollInv' /\ budget' \in Nat \cup {Awake, Forever}
  BY <1>2, <1>3, AwakePoll, Zenon
<1>13. TypeOK'
  BY <1>1, <1>3, <1>6, <1>7, <1>12, Zenon DEF TypeOK, CallSet
<1>14. CloseInv' /\ EndIsEnd'
  BY <1>1, <1>3, <1>5, <1>6, Zenon DEF CloseInv, EndIsEnd
<1>15. ReaderInv'
  <2>1. op'[u].kind \notin {"read", "peek"} /\ op'[u].kind # "read"
    BY <1>5, <1>6
  <2> QED
    BY <1>1, <1>3, <1>6, <2>1, Zenon DEF ReaderInv
<1> QED
  BY <1>11, <1>12, <1>13, <1>14, <1>15, Zenon DEF StreamInv

\* A call that returns without touching the connection.
LEMMA ReturnStep ==
    ASSUME StreamInv, budget = Awake, NEW u \in UThread, NEW h, NEW s, SleepList(s, left),
           \A v \in UThread : Listed(s, v) <=> Timed(op[v]) /\ v # u,
           Return(u, h, s), UNCHANGED <<file, peer, sock, lookahead, got, budget>>,
           atEof' \in BOOLEAN, EndIsEnd'
    PROVE  StreamInv'
<1>1. TypeOK /\ SleepersInv /\ PollInv /\ CloseInv /\ ReaderInv /\ EndIsEnd
  BY Zenon DEF StreamInv
<1>2. /\ file' = file /\ rx' = rx /\ sent' = sent /\ peerClosed' = peerClosed /\ room' = room
      /\ socket' = socket /\ in' = in /\ out' = out /\ closed' = closed
      /\ lookahead' = lookahead /\ got' = got /\ budget' = budget
  BY Zenon DEF peer, sock
<1>3. "write" \in Requests /\ Answer(u, "write", h, s)
  BY DEF Requests, Answer
<1>4. /\ op' \in [UThread -> CallSet] /\ left' \in [UThread -> Nat]
      /\ SleepersInv'
      /\ \A v \in UThread : v # u => op'[v] = op[v]
      /\ ~op'[u].closed /\ op'[u].kind \in {"idle", "write"}
  BY <1>1, <1>3, AnswerKeeps, Zenon
<1>5. PollInv' /\ budget' \in Nat \cup {Awake, Forever}
  BY <1>2, AwakePoll, Zenon
<1>6. TypeOK'
  BY <1>1, <1>2, <1>4, <1>5, Zenon DEF TypeOK, CallSet
<1>7. CloseInv'
  BY <1>1, <1>2, <1>4, Zenon DEF CloseInv
<1>8. ReaderInv'
  <2>1. op'[u].kind \notin {"read", "peek"} /\ op'[u].kind # "read"
    BY <1>4
  <2> QED
    BY <1>1, <1>2, <1>4, <2>1, Zenon DEF ReaderInv
<1> QED
  BY <1>4, <1>5, <1>6, <1>7, <1>8, Zenon DEF StreamInv

\* So does the rest of a call that was woken, whatever woke it.
LEMMA ResumePreserves ==
    ASSUME StreamInv, NEW u \in UThread, Resume(u)
    PROVE  StreamInv'
<1> DEFINE o == [op[u] EXCEPT !.wake = FALSE]
           h == IF Waits(u) THEN Detach(handles, u) ELSE handles
           s == IF op[u].timeout THEN sleeping ELSE CancelSleep(sleeping, u)
<1>1. TypeOK /\ SleepersInv /\ PollInv /\ CloseInv /\ ReaderInv /\ EndIsEnd
  BY Zenon DEF StreamInv
<1>2. op[u] \in CallSet
  BY <1>1, CallTypes, Zenon
<1>3. /\ o \in CallSet /\ o.kind = op[u].kind /\ o.timeout = op[u].timeout
      /\ o.closed = op[u].closed /\ o.timeout \in BOOLEAN
  BY <1>2, Zenon DEF CallSet
<1>4. budget = Awake
  BY Zenon DEF Resume
<1>5. \/ /\ o.kind = "sleep"
         /\ Return(u, h, s)
         /\ UNCHANGED <<file, peer, sock, stream, budget>>
      \/ /\ Waits(u) /\ (o.timeout \/ o.closed)
         /\ Return(u, h, s)
         /\ atEof' = Ended(o)
         /\ UNCHANGED <<file, peer, sock, lookahead, got, budget>>
      \/ /\ ~o.timeout /\ ~o.closed /\ o.kind = "write" /\ DoWrite(u, o, h, s)
      \/ /\ ~o.timeout /\ ~o.closed /\ o.kind \in {"read", "peek"}
         /\ DoRead(u, o, <<>>, h, s)
  BY Zenon DEF Resume
<1>6. /\ SleepList(s, left)
      /\ \A v \in UThread : Listed(s, v) <=> Timed(op[v]) /\ v # u
  BY <1>1, ListBeforeResume, Zenon
<1> HIDE DEF o, h, s
<1>7. CASE Return(u, h, s) /\ UNCHANGED <<file, peer, sock, stream, budget>>
  <2>1. /\ atEof' = atEof /\ in' = in /\ socket' = socket /\ peerClosed' = peerClosed /\ rx' = rx
        /\ UNCHANGED <<file, peer, sock, lookahead, got, budget>>
    BY <1>7, Zenon DEF stream, sock, peer
  <2>2. atEof' \in BOOLEAN /\ EndIsEnd'
    BY <1>1, <2>1, Zenon DEF EndIsEnd, TypeOK
  <2> QED
    BY <1>4, <1>6, <1>7, <2>1, <2>2, ReturnStep, Zenon
<1>8. CASE /\ o.timeout \/ o.closed
           /\ Return(u, h, s)
           /\ atEof' = Ended(o)
           /\ UNCHANGED <<file, peer, sock, lookahead, got, budget>>
  <2>1. in' = in /\ socket' = socket /\ peerClosed' = peerClosed /\ rx' = rx
    BY <1>8, Zenon DEF sock, peer
  <2>2. atEof' = atEof \/ atEof' = ~o.timeout
    BY <1>8, Zenon DEF Ended
  <2>3. o.closed => ~socket
    BY <1>1, <1>3, Zenon DEF CloseInv
  <2>4. EndIsEnd'
    BY <1>1, <1>3, <1>8, <2>1, <2>2, <2>3, Zenon DEF EndIsEnd
  <2>5. atEof' \in BOOLEAN
    BY <1>1, <1>3, <2>2, Zenon DEF TypeOK
  <2> QED
    BY <1>4, <1>6, <1>8, <2>4, <2>5, ReturnStep, Zenon
<1>9. CASE ~o.timeout /\ ~o.closed /\ o.kind = "write" /\ DoWrite(u, o, h, s)
  <2>1. op[u].kind \in {"idle", "write"}
    BY <1>3, <1>9, Zenon
  <2> QED
    BY <1>3, <1>4, <1>6, <1>9, <2>1, WriteStep, Zenon
<1>10. CASE /\ ~o.timeout /\ ~o.closed /\ o.kind \in {"read", "peek"}
            /\ DoRead(u, o, <<>>, h, s)
  <2>1. \A v \in UThread : v # u => op[v].kind \notin {"read", "peek"}
    BY <1>1, <1>3, <1>10, Zenon DEF ReaderInv
  <2>2. o.kind = "read" => lookahead = <<>>
    BY <1>1, <1>3, Zenon DEF ReaderInv
  <2>3. <<>> \in Seq(Nat) /\ Len(<<>>) <= Len(lookahead)
    BY <1>1 DEF TypeOK
  <2>4. o.kind = "read" => Len(<<>>) = Len(lookahead)
    BY <2>2, Zenon
  <2> QED
    BY <1>3, <1>4, <1>6, <1>10, <2>1, <2>3, <2>4, ReadStep, Zenon
<1> QED
  BY <1>5, <1>7, <1>8, <1>9, <1>10, Zenon

\* IOHandle::remove ends requests: it wakes some calls and says that the handle was closed.
LEMMA EndedCalls ==
    ASSUME TypeOK, closeSocket
    PROVE  /\ op' \in [UThread -> CallSet] /\ file' = "none"
           /\ \A u \in UThread : op'[u].kind = op[u].kind /\ (Timed(op'[u]) <=> Timed(op[u]))
<1> DEFINE ended == {handles.val[s] : s \in Slots(handles, fd)}
<1>1. /\ op' = [u \in UThread |->
            IF u \in ended THEN [op[u] EXCEPT !.closed = TRUE, !.wake = TRUE] ELSE op[u]]
      /\ file' = "none"
  BY Zenon DEF closeSocket
<1> HIDE DEF ended
<1>2. op \in [UThread -> CallSet]
  BY CallTypes, Zenon
<1>3. ASSUME NEW o \in CallSet, NEW p, p = [o EXCEPT !.closed = TRUE, !.wake = TRUE]
      PROVE  p \in CallSet /\ p.kind = o.kind /\ (Timed(p) <=> Timed(o))
  BY <1>3, Zenon DEF CallSet, Timed
<1>4. ASSUME NEW u \in UThread
      PROVE  op'[u] \in CallSet /\ op'[u].kind = op[u].kind /\ (Timed(op'[u]) <=> Timed(op[u]))
  <2>1. op[u] \in CallSet
    BY <1>2, Zenon
  <2>2. CASE u \in ended
    <3>1. op'[u] = [op[u] EXCEPT !.closed = TRUE, !.wake = TRUE]
      BY <1>1, <2>2, Zenon
    <3> QED
      BY <1>3, <2>1, <3>1, Zenon
  <2>3. CASE u \notin ended
    <3>1. op'[u] = op[u]
      BY <1>1, <2>3, Zenon
    <3> QED
      BY <2>1, <3>1, Zenon
  <2> QED
    BY <2>2, <2>3, Zenon
<1>5. op' \in [UThread -> CallSet]
  <2>1. op' = [u \in UThread |-> op'[u]]
    BY <1>1, Zenon
  <2> QED
    BY <1>4, <2>1
<1> QED
  BY <1>1, <1>4, <1>5, Zenon

\* Closing the socket.
LEMMA ClosePreserves ==
    ASSUME StreamInv, closeSocket, socket' = FALSE,
           UNCHANGED <<peer, stream, sleeping, left, budget>>,
           in' \in BOOLEAN, out' \in BOOLEAN, closed' \subseteq {"in", "out"}
    PROVE  StreamInv'
<1>1. TypeOK /\ SleepersInv /\ PollInv /\ CloseInv /\ ReaderInv /\ EndIsEnd
  BY Zenon DEF StreamInv
<1>2. /\ op' \in [UThread -> CallSet] /\ file' = "none"
      /\ \A u \in UThread : op'[u].kind = op[u].kind /\ (Timed(op'[u]) <=> Timed(op[u]))
  BY <1>1, EndedCalls, Zenon
<1>3. /\ rx' = rx /\ sent' = sent /\ peerClosed' = peerClosed /\ room' = room
      /\ lookahead' = lookahead /\ atEof' = atEof /\ got' = got
      /\ sleeping' = sleeping /\ left' = left /\ budget' = budget
  BY Zenon DEF peer, stream
<1>4. TypeOK'
  <2>1. file' \in {"conn", "other", "none"} /\ socket' \in BOOLEAN
    BY <1>2, Zenon
  <2> QED
    BY <1>1, <1>2, <1>3, <2>1, Zenon DEF TypeOK, CallSet
<1>5. SleepersInv' /\ PollInv'
  BY <1>1, <1>2, <1>3, Zenon DEF SleepersInv, PollInv
<1>6. CloseInv'
  <2>1. file' # "conn"
    BY <1>2
  <2> QED
    BY <2>1, Zenon DEF CloseInv
<1>7. ReaderInv' /\ EndIsEnd'
  BY <1>1, <1>2, <1>3, Zenon DEF ReaderInv, EndIsEnd
<1> QED
  BY <1>4, <1>5, <1>6, <1>7, Zenon DEF StreamInv

\* So do the closes of the two streams, the second of which closes the socket.
LEMMA CloseEndPreserves ==
    ASSUME StreamInv, NEW side \in {"in", "out"}, CloseEnd(side)
    PROVE  StreamInv'
<1>1. TypeOK /\ SleepersInv /\ PollInv /\ CloseInv /\ ReaderInv /\ EndIsEnd
  BY Zenon DEF StreamInv
<1>2. /\ closed' = closed \cup {side}
      /\ in' = (in /\ side # "in") /\ out' = (out /\ side # "out")
      /\ UNCHANGED <<peer, stream, sleeping, left, budget>>
      /\ \/ closeSocket /\ socket' = FALSE
         \/ UNCHANGED <<file, op, handles, socket>>
  BY Zenon DEF CloseEnd
<1>3. in' \in BOOLEAN /\ out' \in BOOLEAN /\ closed' \subseteq {"in", "out"}
  BY <1>1, <1>2, Zenon DEF TypeOK
<1>4. CASE closeSocket /\ socket' = FALSE
  BY <1>2, <1>3, <1>4, ClosePreserves, Zenon
<1>5. CASE UNCHANGED <<file, op, handles, socket>>
  <2>1. /\ rx' = rx /\ sent' = sent /\ peerClosed' = peerClosed /\ room' = room
        /\ lookahead' = lookahead /\ atEof' = atEof /\ got' = got
        /\ sleeping' = sleeping /\ left' = left /\ budget' = budget
        /\ file' = file /\ op' = op /\ socket' = socket
    BY <1>2, <1>5, Zenon DEF peer, stream
  <2>2. TypeOK'
    BY <1>1, <1>3, <2>1, Zenon DEF TypeOK
  <2>3. SleepersInv' /\ PollInv' /\ CloseInv' /\ ReaderInv'
    BY <1>1, <2>1, Zenon DEF SleepersInv, PollInv, CloseInv, ReaderInv
  <2>4. EndIsEnd'
    BY <1>1, <1>2, <2>1, Zenon DEF EndIsEnd
  <2> QED
    BY <2>2, <2>3, <2>4, Zenon DEF StreamInv
<1> QED
  BY <1>2, <1>4, <1>5, Zenon

\* wakeThreads takes from the front of the list, and only those whose time is over.
LEMMA OverIsFront ==
    ASSUME TypeOK, SleepersInv
    PROVE  /\ Over \in 0 .. Len(sleeping)
           /\ \A i \in 1 .. Over : left[sleeping[i]] = 0
<1> DEFINE S == {i \in 0 .. Len(sleeping) : i = Len(sleeping) \/ left[sleeping[i + 1]] > 0}
<1>1. /\ sleeping \in Seq(UThread) /\ Len(sleeping) \in Nat /\ left \in [UThread -> Nat]
      /\ \A i \in 1 .. Len(sleeping) : sleeping[i] \in UThread
  BY DEF TypeOK, SleepersInv, SleepList
<1>2. S \in SUBSET Nat /\ S # {}
  <2>1. 0 .. Len(sleeping) \subseteq Nat /\ Len(sleeping) \in 0 .. Len(sleeping)
    BY <1>1
  <2> QED
    BY <2>1, Zenon
<1>3. Over \in S /\ \A y \in S : Over <= y
  BY <1>2, LeastOf, Zenon DEF Over
<1>4. Over \in 0 .. Len(sleeping)
  BY <1>3, Zenon
<1>5. ASSUME NEW i \in 1 .. Over PROVE left[sleeping[i]] = 0
  <2>1. /\ i - 1 \in 0 .. Len(sleeping) /\ ~(Over <= i - 1) /\ (i - 1) + 1 = i
        /\ i \in 1 .. Len(sleeping)
    BY <1>1, <1>4
  <2>2. ~(left[sleeping[i]] > 0)
    BY <1>3, <2>1, Zenon
  <2>3. left[sleeping[i]] \in Nat
    BY <1>1, <2>1, Zenon
  <2> QED
    BY <2>2, <2>3
<1> QED
  BY <1>4, <1>5, Zenon

\* So do wakeThreads and checkIo: the sleepers they take are the front of the list.
LEMMA WakesPreserves ==
    ASSUME StreamInv, Wakes
    PROVE  StreamInv'
<1>1. TypeOK /\ SleepersInv /\ PollInv /\ CloseInv /\ ReaderInv /\ EndIsEnd
  BY Zenon DEF StreamInv
<1>2. /\ sleeping' = SubSeq(sleeping, Over + 1, Len(sleeping))
      /\ op' = [u \in UThread |->
            [op[u] EXCEPT !.wake = @ \/ u \in Expired \cup Notified,
                          !.timeout = @ \/ u \in Expired]]
      /\ budget' = Awake
  BY Zenon DEF Wakes
<1>3. /\ file' = file /\ rx' = rx /\ sent' = sent /\ peerClosed' = peerClosed /\ room' = room
      /\ socket' = socket /\ in' = in /\ out' = out /\ closed' = closed
      /\ lookahead' = lookahead /\ atEof' = atEof /\ got' = got /\ left' = left
  BY Zenon DEF Wakes, peer, sock, stream
<1>4. op \in [UThread -> CallSet] /\ Over \in 0 .. Len(sleeping) /\ SleepList(sleeping, left)
  BY <1>1, CallTypes, OverIsFront, Zenon DEF SleepersInv
<1>6. ASSUME NEW u \in UThread
      PROVE  /\ op'[u] \in CallSet /\ op'[u].kind = op[u].kind /\ op'[u].closed = op[u].closed
             /\ Timed(op'[u]) <=> Timed(op[u]) /\ u \notin Expired
  <2>1. op[u] \in CallSet
    BY <1>4, Zenon
  <2> DEFINE w == u \in Expired \cup Notified
             e == u \in Expired
  <2>2. op'[u] = [op[u] EXCEPT !.wake = @ \/ w, !.timeout = @ \/ e]
    BY <1>2, Zenon
  <2>3. w \in BOOLEAN /\ e \in BOOLEAN
    OBVIOUS
  <2> HIDE DEF w, e
  <2>4. /\ op'[u] \in CallSet /\ op'[u].kind = op[u].kind /\ op'[u].closed = op[u].closed
        /\ Timed(op'[u]) <=> Timed(op[u]) /\ ~e
    BY <2>1, <2>2, <2>3, Zenon DEF CallSet, Timed
  <2> QED
    BY <2>4, Zenon DEF e
<1>7. op' \in [UThread -> CallSet]
  <2>1. op' = [u \in UThread |-> op'[u]]
    BY <1>2, Zenon
  <2> QED
    BY <1>6, <2>1
<1>8. /\ SleepList(sleeping', left')
      /\ \A u \in UThread : Listed(sleeping', u)
                              <=> \E i \in 1 .. Len(sleeping) : i > Over /\ sleeping[i] = u
  BY <1>2, <1>3, <1>4, DropKeepsOrder, Zenon
<1>9. ASSUME NEW u \in UThread PROVE Listed(sleeping', u) <=> Timed(op'[u])
  <2>1. Len(sleeping) \in Nat
    BY <1>4 DEF SleepList
  <2>2. 1 .. Over \subseteq 1 .. Len(sleeping)
    BY <1>4, <2>1
  <2>3. \A i \in 1 .. Len(sleeping) : i > Over <=> i \notin 1 .. Over
    BY <1>4, <2>1
  <2>4. u \in Expired <=> \E i \in 1 .. Over : sleeping[i] = u
    BY Zenon DEF Expired
  <2>5. Listed(sleeping', u) <=> Listed(sleeping, u) /\ u \notin Expired
    BY <1>4, <1>8, <2>2, <2>3, <2>4, Zenon DEF Listed, SleepList, Once
  <2> QED
    BY <1>1, <1>6, <2>5, Zenon DEF SleepersInv
<1>10. SleepersInv'
  BY <1>8, <1>9, Zenon DEF SleepersInv
<1>11. PollInv' /\ budget' \in Nat \cup {Awake, Forever}
  BY <1>2, AwakePoll, Zenon
<1>12. TypeOK'
  BY <1>1, <1>3, <1>7, <1>11, Zenon DEF TypeOK, CallSet
<1>13. CloseInv' /\ ReaderInv' /\ EndIsEnd'
  BY <1>1, <1>3, <1>6, Zenon DEF CloseInv, ReaderInv, EndIsEnd
<1> QED
  BY <1>10, <1>11, <1>12, <1>13, Zenon DEF StreamInv

\* So does poll, which is told to return in time for the first sleeper.
LEMMA EnterPollPreserves ==
    ASSUME StreamInv, EnterPoll
    PROVE  StreamInv'
<1>1. TypeOK /\ SleepersInv /\ PollInv /\ CloseInv /\ ReaderInv /\ EndIsEnd
  BY Zenon DEF StreamInv
<1>2. budget' = IF sleeping = <<>> THEN Forever ELSE nextWake
  BY Zenon DEF EnterPoll
<1>3. /\ file' = file /\ rx' = rx /\ sent' = sent /\ peerClosed' = peerClosed /\ room' = room
      /\ socket' = socket /\ in' = in /\ out' = out /\ closed' = closed
      /\ lookahead' = lookahead /\ atEof' = atEof /\ got' = got
      /\ op' = op /\ sleeping' = sleeping /\ left' = left
  BY Zenon DEF EnterPoll, peer, sock, stream, waits
<1>4. /\ sleeping \in Seq(UThread) /\ left \in [UThread -> Nat]
      /\ \A i \in 1 .. Len(sleeping) : sleeping[i] \in UThread
  BY <1>1 DEF TypeOK, SleepersInv, SleepList
<1>5. PollInv' /\ budget' \in Nat \cup {Awake, Forever}
  <2>1. CASE sleeping = <<>>
    <3>1. budget' = Forever
      BY <1>2, <2>1, Zenon
    <3> QED
      BY <1>3, <2>1, <3>1 DEF PollInv, Forever
  <2>2. CASE sleeping # <<>>
    <3>1. Head(sleeping) = sleeping[1] /\ 1 \in 1 .. Len(sleeping)
      BY <1>4, <2>2
    <3> DEFINE a == left[sleeping[1]]
    <3>2. a \in Nat
      BY <1>4, <3>1, Zenon
    <3>3. budget' = (a \div PerMs) * PerMs
      BY <1>2, <2>2, <3>1, Zenon DEF nextWake
    <3>4. \A i \in 1 .. Len(sleeping) : a <= left[sleeping[i]] /\ left[sleeping[i]] \in Nat
      <4> SUFFICES ASSUME NEW i \in 1 .. Len(sleeping)
                   PROVE  a <= left[sleeping[i]] /\ left[sleeping[i]] \in Nat
        BY Zenon
      <4>1. 1 <= i
        BY <1>4
      <4> QED
        BY <1>1, <1>4, <3>1, <4>1, Zenon DEF SleepersInv, SleepList, Sorted
    <3> HIDE DEF a
    <3>5. a \div PerMs \in Nat /\ (a \div PerMs) * PerMs <= a
      BY <3>2
    <3>6. budget' \in Nat /\ budget' <= a
      <4>1. \A b \in Nat : b * PerMs \in Nat
        OBVIOUS
      <4> QED
        BY <3>3, <3>5, <4>1, Zenon
    <3>7. \A i \in 1 .. Len(sleeping) : budget' <= left[sleeping[i]]
      BY <3>2, <3>4, <3>6
    <3>8. budget' # Forever
      BY <3>6 DEF Forever
    <3> QED
      BY <1>3, <3>6, <3>7, <3>8, Zenon DEF PollInv
  <2> QED
    BY <2>1, <2>2, Zenon
<1>6. TypeOK'
  BY <1>1, <1>3, <1>5, Zenon DEF TypeOK
<1>7. SleepersInv' /\ CloseInv' /\ ReaderInv' /\ EndIsEnd'
  BY <1>1, <1>3, Zenon DEF SleepersInv, CloseInv, ReaderInv, EndIsEnd
<1> QED
  BY <1>5, <1>6, <1>7, Zenon DEF StreamInv

\* So does time: it passes for all sleepers alike.
LEMMA TickPreserves ==
    ASSUME StreamInv, Tick
    PROVE  StreamInv'
<1>1. TypeOK /\ SleepersInv /\ PollInv /\ CloseInv /\ ReaderInv /\ EndIsEnd
  BY Zenon DEF StreamInv
<1>2. /\ left' = [u \in UThread |-> IF left[u] > 0 THEN left[u] - 1 ELSE 0]
      /\ budget' = IF budget > 0 THEN budget - 1 ELSE budget
  BY Zenon DEF Tick
<1>3. /\ file' = file /\ rx' = rx /\ sent' = sent /\ peerClosed' = peerClosed /\ room' = room
      /\ socket' = socket /\ in' = in /\ out' = out /\ closed' = closed
      /\ lookahead' = lookahead /\ atEof' = atEof /\ got' = got
      /\ op' = op /\ sleeping' = sleeping
  BY Zenon DEF Tick, peer, sock, stream
<1>4. left \in [UThread -> Nat] /\ budget \in Nat \cup {Awake, Forever}
  BY <1>1, Zenon DEF TypeOK
<1>5. left' \in [UThread -> Nat] /\ budget' \in Nat \cup {Awake, Forever}
  BY <1>2, <1>4 DEF Awake, Forever
<1>6. ASSUME NEW u \in UThread PROVE left'[u] = IF left[u] > 0 THEN left[u] - 1 ELSE 0
  BY <1>2, Zenon
<1>7. \A i \in 1 .. Len(sleeping) : sleeping[i] \in UThread
  BY <1>1 DEF SleepersInv, SleepList
<1>8. SleepList(sleeping, left')
  <2>1. ASSUME NEW i \in 1 .. Len(sleeping), NEW j \in 1 .. Len(sleeping), i <= j
        PROVE  left'[sleeping[i]] <= left'[sleeping[j]]
    <3>1. left[sleeping[i]] <= left[sleeping[j]]
      BY <1>1, <2>1, Zenon DEF SleepersInv, SleepList, Sorted
    <3>2. left[sleeping[i]] \in Nat /\ left[sleeping[j]] \in Nat
      BY <1>4, <1>7, Zenon
    <3>3. /\ left'[sleeping[i]] = IF left[sleeping[i]] > 0 THEN left[sleeping[i]] - 1 ELSE 0
          /\ left'[sleeping[j]] = IF left[sleeping[j]] > 0 THEN left[sleeping[j]] - 1 ELSE 0
      BY <1>6, <1>7, Zenon
    <3> QED
      BY <3>1, <3>2, <3>3
  <2> QED
    BY <1>1, <2>1, Zenon DEF SleepersInv, SleepList, Sorted
<1>9. SleepersInv'
  BY <1>1, <1>3, <1>8, Zenon DEF SleepersInv
<1>10. PollInv'
  <2>1. budget' = Forever => sleeping' = <<>>
    <3>1. budget' = Forever => budget = Forever
      BY <1>2, <1>4 DEF Forever, Awake
    <3> QED
      BY <1>1, <1>3, <3>1, Zenon DEF PollInv
  <2>2. ASSUME budget' >= 0, NEW i \in 1 .. Len(sleeping') PROVE budget' <= left'[sleeping'[i]]
    <3>1. budget \in Nat
      BY <1>2, <1>4, <2>2 DEF Awake, Forever
    <3>2. budget >= 0
      BY <3>1
    <3>3. budget <= left[sleeping[i]]
      BY <1>1, <1>3, <2>2, <3>2, Zenon DEF PollInv
    <3>4. left[sleeping[i]] \in Nat
      BY <1>3, <1>4, <1>7, Zenon
    <3>5. left'[sleeping[i]] = IF left[sleeping[i]] > 0 THEN left[sleeping[i]] - 1 ELSE 0
      BY <1>3, <1>6, <1>7, Zenon
    <3>6. budget' <= left'[sleeping[i]]
      BY <1>2, <3>1, <3>3, <3>4, <3>5
    <3> QED
      BY <1>3, <3>6, Zenon
  <2> QED
    BY <2>1, <2>2, Zenon DEF PollInv
<1>11. TypeOK'
  BY <1>1, <1>3, <1>5, Zenon DEF TypeOK
<1>12. CloseInv' /\ ReaderInv' /\ EndIsEnd'
  BY <1>1, <1>3, Zenon DEF CloseInv, ReaderInv, EndIsEnd
<1> QED
  BY <1>9, <1>10, <1>11, <1>12, Zenon DEF StreamInv

\* The peer and the rest of the program: what they change, and that nobody waits less for it.
LEMMA PeerPreserves ==
    ASSUME StreamInv, Send \/ Drain \/ Leave \/ Reuse
    PROVE  StreamInv'
<1>1. TypeOK /\ SleepersInv /\ PollInv /\ CloseInv /\ ReaderInv /\ EndIsEnd
  BY Zenon DEF StreamInv
<1>2. /\ socket' = socket /\ in' = in /\ out' = out /\ closed' = closed
      /\ lookahead' = lookahead /\ atEof' = atEof /\ got' = got
      /\ op' = op /\ sleeping' = sleeping /\ left' = left /\ budget' = budget
  BY Zenon DEF Send, Drain, Leave, Reuse, sock, stream, waits
<1>3. SleepersInv' /\ PollInv' /\ ReaderInv'
  BY <1>1, <1>2, Zenon DEF SleepersInv, PollInv, ReaderInv
<1>4. /\ file' = file \/ (file = "none" /\ file' = "other")
      /\ sent' \in Nat /\ rx' \in Seq(Nat) /\ peerClosed' \in BOOLEAN /\ room' \in 0 .. MaxRoom
  <2>1. sent \in Nat /\ rx \in Seq(Nat) /\ peerClosed \in BOOLEAN /\ room \in 0 .. MaxRoom
    BY <1>1, Zenon DEF TypeOK
  <2>2. CASE Send
    <3>1. file' = file /\ peerClosed' = peerClosed /\ room' = room
      BY <2>2, Zenon DEF Send
    <3>2. sent' = sent + 1 /\ rx' = Append(rx, sent + 1)
      BY <2>2, Zenon DEF Send
    <3>3. sent' \in Nat /\ rx' \in Seq(Nat)
      BY <2>1, <3>2
    <3> QED
      BY <2>1, <3>1, <3>3, Zenon
  <2>3. CASE Drain
    <3>1. file' = file /\ rx' = rx /\ sent' = sent /\ peerClosed' = peerClosed
      BY <2>3, Zenon DEF Drain
    <3>2. room' \in 0 .. MaxRoom
      BY <2>1, <2>3 DEF Drain
    <3> QED
      BY <2>1, <3>1, <3>2, Zenon
  <2>4. CASE Leave
    BY <2>1, <2>4, Zenon DEF Leave
  <2>5. CASE Reuse
    BY <2>1, <2>5, Zenon DEF Reuse, peer
  <2> QED
    BY <2>2, <2>3, <2>4, <2>5, Zenon
<1>5. file' = "conn" <=> file = "conn"
  BY <1>4
<1>6. CloseInv'
  BY <1>1, <1>2, <1>5, Zenon DEF CloseInv
<1>7. file' \in {"conn", "other", "none"}
  <2>1. file \in {"conn", "other", "none"}
    BY <1>1, Zenon DEF TypeOK
  <2> QED
    BY <1>4, <2>1, Zenon
<1>8. TypeOK'
  BY <1>1, <1>2, <1>4, <1>7, Zenon DEF TypeOK
<1>9. EndIsEnd'
  <2>1. (peerClosed /\ rx = <<>>) => (peerClosed' /\ rx' = <<>>)
    BY Zenon DEF Send, Drain, Leave, Reuse, peer
  <2> QED
    BY <1>1, <1>2, <2>1, Zenon DEF EndIsEnd
<1> QED
  BY <1>3, <1>6, <1>8, <1>9, Zenon DEF StreamInv

\* A new connection.
LEMMA StreamInit == Init => StreamInv
<1> SUFFICES ASSUME Init PROVE StreamInv
  BY Zenon
<1>1. op = [u \in UThread |-> Idle] /\ \A u \in UThread : op[u] = Idle
  BY Zenon DEF Init
<1>2. TypeOK
  <2>1. [u \in UThread |-> Idle] \in [UThread -> CallSet]
    BY IdleCall
  <2>2. op \in [UThread -> CallSet]
    BY <1>1, <2>1, Zenon
  <2>3. /\ sent \in Nat /\ rx \in Seq(Nat) /\ got \in Seq(Nat) /\ lookahead \in Seq(Nat)
        /\ room \in 0 .. MaxRoom /\ left \in [UThread -> Nat]
    BY DEF Init
  <2> QED
    BY <2>2, <2>3, Zenon DEF TypeOK, CallSet, Init
<1>3. SleepersInv
  <2>1. sleeping \in Seq(UThread) /\ 1 .. Len(sleeping) = {}
    BY DEF Init
  <2> QED
    BY <1>1, <2>1, IdleCall, Zenon DEF SleepersInv, SleepList, Sorted, Once, Listed
<1>4. PollInv
  BY DEF Init, PollInv, Awake, Forever
<1>5. CloseInv /\ EndIsEnd
  BY <1>1, IdleCall, Zenon DEF Init, CloseInv, EndIsEnd
<1>6. ReaderInv
  <2>1. \A u \in UThread : op[u].kind = "idle"
    BY <1>1, IdleCall, Zenon
  <2>2. \A u \in UThread : op[u].kind \notin {"read", "peek"} /\ op[u].kind # "read"
    BY <2>1
  <2> QED
    BY <2>2, Zenon DEF ReaderInv
<1> QED
  BY <1>2, <1>3, <1>4, <1>5, <1>6, Zenon DEF StreamInv

\* The invariant is inductive.
LEMMA StreamNext == StreamInv /\ [Next]_vars => StreamInv'
<1> SUFFICES ASSUME StreamInv, [Next]_vars PROVE StreamInv'
  BY Zenon
<1>1. CASE \E u \in UThread, n \in Counts, ms \in Timeouts : Read(u, n, ms) \/ Peek(u, n, ms)
  BY <1>1, ReadPreserves, PeekPreserves, Zenon
<1>2. CASE \E u \in UThread, n \in Counts : Write(u, n)
  BY <1>2, WritePreserves, Zenon
<1>3. CASE \E u \in UThread, ms \in Sleeps : Sleep(u, ms)
  BY <1>3, SleepPreserves, Zenon
<1>4. CASE \E u \in UThread : Resume(u)
  BY <1>4, ResumePreserves, Zenon
<1>5. CASE Close
  <2>1. /\ closeSocket /\ socket' = FALSE
        /\ UNCHANGED <<peer, stream, sleeping, left, budget>>
        /\ in' = in /\ out' = out /\ closed' = closed
    BY <1>5, Zenon DEF Close
  <2>2. in \in BOOLEAN /\ out \in BOOLEAN /\ closed \subseteq {"in", "out"}
    BY Zenon DEF StreamInv, TypeOK
  <2> QED
    BY <2>1, <2>2, ClosePreserves, Zenon
<1>6. CASE CloseEnd("in") \/ CloseEnd("out")
  <2>1. "in" \in {"in", "out"} /\ "out" \in {"in", "out"}
    OBVIOUS
  <2> QED
    BY <1>6, <2>1, CloseEndPreserves, Zenon
<1>7. CASE Reap \/ LeavePoll
  BY <1>7, WakesPreserves, Zenon DEF Reap, LeavePoll
<1>8. CASE EnterPoll
  BY <1>8, EnterPollPreserves, Zenon
<1>9. CASE Tick
  BY <1>9, TickPreserves, Zenon
<1>10. CASE Send \/ Drain \/ Leave \/ Reuse
  BY <1>10, PeerPreserves, Zenon
<1>11. CASE UNCHANGED vars
  <2>1. /\ file' = file /\ rx' = rx /\ sent' = sent /\ peerClosed' = peerClosed /\ room' = room
        /\ socket' = socket /\ in' = in /\ out' = out /\ closed' = closed
        /\ lookahead' = lookahead /\ atEof' = atEof /\ got' = got
        /\ op' = op /\ sleeping' = sleeping /\ left' = left /\ budget' = budget
    BY <1>11, Zenon DEF vars, peer, sock, stream, waits
  <2> QED
    BY <2>1, Zenon DEF StreamInv, TypeOK, SleepersInv, PollInv, CloseInv, ReaderInv, EndIsEnd
<1> QED
  BY <1>1, <1>2, <1>3, <1>4, <1>5, <1>6, <1>7, <1>8, <1>9, <1>10, <1>11, Zenon DEF Next

\* Whatever the programs, the peer and the clock do: the list of sleepers is
\* sorted and holds exactly who sleeps or waits with a timeout, a request is
\* ended only when the socket is closed, and one UThread reads at a time.
THEOREM StreamInvariance == Spec => []StreamInv
  BY StreamInit, StreamNext, PTL DEF Spec

\* Every variable of the stream and of its requests keeps its type.
THEOREM StreamTypes == Spec => []TypeOK
<1>1. StreamInv => TypeOK
  BY Zenon DEF StreamInv
<1> QED
  BY <1>1, StreamInvariance, PTL

\* The timeout that poll is given never lets the OS thread sleep past the wake-up
\* time of a sleeper or the timeout of a read (nextWake, waitForWork).
THEOREM PollInTime == Spec => []NeverOversleeps
<1>1. StreamInv => NeverOversleeps
  <2> SUFFICES ASSUME StreamInv PROVE NeverOversleeps
    BY Zenon
  <2>1. PollInv /\ sleeping \in Seq(UThread)
    BY Zenon DEF StreamInv, SleepersInv, SleepList
  <2>2. DOMAIN sleeping = 1 .. Len(sleeping)
    BY <2>1
  <2> QED
    BY <2>1, <2>2, Zenon DEF NeverOversleeps, PollInv, Range
<1> QED
  BY <1>1, StreamInvariance, PTL

\* A stream says that it is at its end only when the peer has left and all was
\* read, or when this side has closed it: never for a timeout.
THEOREM EndTellsTheTruth == Spec => []EndIsEnd
<1>1. StreamInv => EndIsEnd
  BY Zenon DEF StreamInv
<1> QED
  BY <1>1, StreamInvariance, PTL


----------------------------------------------------------------------------
(***************************************************************************)
(* The table of requests.  G is a set that module FdMap Keeps: what it     *)
(* asks of G is all that the proofs need to know of the table.             *)
(***************************************************************************)

\* The UThreads whose request is in the table, and the elements it has for them.
Waiters(calls) == {u \in UThread : calls[u].kind \in Requests /\ ~calls[u].closed}
Rows(W) == {<<fd, u>> : u \in W}

\* The table h has the requests of W.
Has(G, h, W) == <<h, Rows(W)>> \in G

\* They wait on the open connection.
WaitersOpen == Waiters(op) # {} => file = "conn"

\* The table holds exactly the requests that wait.
TableInv(G) == Has(G, handles, Waiters(op)) /\ WaitersOpen

\* The elements of the table, one by one.
LEMMA RowOf ==
    ASSUME NEW W, NEW u
    PROVE  <<fd, u>> \in Rows(W) <=> u \in W
<1>1. ASSUME NEW w, <<fd, u>> = <<fd, w>> PROVE u = w
  BY <1>1
<1> QED
  BY <1>1, Zenon DEF Rows

\* The requests without the one of u.
LEMMA RowsMinus ==
    ASSUME NEW W, NEW u
    PROVE  Rows(W) \ {<<fd, u>>} = Rows(W \ {u})
<1>1. ASSUME NEW w \in W, w # u PROVE <<fd, w>> # <<fd, u>>
  BY <1>1
<1> QED
  BY <1>1, Zenon DEF Rows

\* The requests with the one of u.
LEMMA RowsPlus ==
    ASSUME NEW W, NEW u
    PROVE  Rows(W) \cup {<<fd, u>>} = Rows(W \cup {u})
  BY Zenon DEF Rows

\* The slots of the descriptor are those of the requests.
LEMMA RowsFound ==
    ASSUME NEW G, Keeps(G, UThread), NEW h, NEW W, Has(G, h, W)
    PROVE  /\ \A s \in Slots(h, fd) : s \in Used(h) /\ h.key[s] = fd /\ h.val[s] \in W
           /\ {h.val[s] : s \in Slots(h, fd)} = W
           /\ \A S \in SUBSET Slots(h, fd) : S # {} => First(h, fd, S) \in S
<1>0. Answers(h, Rows(W))
  BY Zenon DEF Keeps, Has
<1>1. \A s \in Slots(h, fd) : s \in Used(h) /\ h.key[s] = fd /\ <<fd, h.val[s]>> \in Rows(W)
  BY <1>0, Zenon DEF Answers
<1>2. \A v : <<fd, v>> \in Rows(W) => \E s \in Slots(h, fd) : h.val[s] = v
  BY <1>0, Zenon DEF Answers
<1>3. \A v : <<fd, v>> \in Rows(W) <=> v \in W
  BY RowOf
<1>4. \A s \in Slots(h, fd) : s \in Used(h) /\ h.key[s] = fd /\ h.val[s] \in W
  BY <1>1, <1>3, Zenon
<1>5. \A v \in W : \E s \in Slots(h, fd) : v = h.val[s]
  BY <1>2, <1>3, Zenon
<1>6. {h.val[s] : s \in Slots(h, fd)} = W
  BY <1>4, <1>5
<1>7. \A S \in SUBSET Slots(h, fd) : S # {} => First(h, fd, S) \in S
  BY <1>0, Zenon DEF Answers
<1> QED
  BY <1>4, <1>6, <1>7, Zenon

\* Every step keeps the table.
LEMMA TableNext ==
    ASSUME NEW G, Keeps(G, UThread)
    PROVE  StreamInv /\ TableInv(G) /\ [Next]_vars => TableInv(G)'

\* doWait puts the request of u into a table that does not have it.
<1>PutRow.
    ASSUME NEW h, NEW W, Has(G, h, W), NEW u \in UThread, u \notin W
    PROVE  Has(G, put(h, fd, u), W \cup {u})
  <2> USE <1>PutRow
  <2>1. <<fd, u>> \notin Rows(W)
    BY RowOf
  <2>2. <<put(h, fd, u), Rows(W) \cup {<<fd, u>>}>> \in G
    BY <2>1, Zenon DEF Keeps, Has
  <2> QED
    BY <2>2, RowsPlus, Zenon DEF Has

\* IOHandle::detach takes out the request of u, and only that.
<1>DetachRow.
    ASSUME NEW h, NEW W, Has(G, h, W), NEW u
    PROVE  Has(G, Detach(h, u), W \ {u})
  <2> USE <1>DetachRow
  <2> DEFINE mine == {s \in Slots(h, fd) : h.val[s] = u}
             pos == First(h, fd, mine)
  <2>1. /\ \A s \in Slots(h, fd) : s \in Used(h) /\ h.key[s] = fd
        /\ {h.val[s] : s \in Slots(h, fd)} = W
        /\ \A S \in SUBSET Slots(h, fd) : S # {} => First(h, fd, S) \in S
    BY RowsFound
  <2>2. Detach(h, u) = IF mine = {} THEN h ELSE remove(h, pos)
    BY Zenon DEF Detach
  <2>3. CASE mine = {}
    <3>1. u \notin W
      BY <2>1, <2>3, Zenon
    <3>2. W \ {u} = W
      BY <3>1, Zenon
    <3> QED
      BY <2>2, <2>3, <3>2, Zenon
  <2>4. CASE mine # {}
    <3>1. mine \in SUBSET Slots(h, fd)
      BY Zenon
    <3>2. \A s \in mine : s \in Slots(h, fd) /\ h.val[s] = u
      BY Zenon
    <3> HIDE DEF mine
    <3>3. pos \in mine
      BY <2>1, <2>4, <3>1, Zenon
    <3> HIDE DEF pos
    <3>4. pos \in Used(h) /\ h.key[pos] = fd /\ h.val[pos] = u
      BY <2>1, <3>2, <3>3, Zenon
    <3>5. <<remove(h, pos), Rows(W) \ {<<h.key[pos], h.val[pos]>>}>> \in G
      BY <3>4, Zenon DEF Keeps, Has
    <3> QED
      BY <2>2, <2>4, <3>4, <3>5, RowsMinus, Zenon DEF Has
  <2> QED
    BY <2>3, <2>4, Zenon

\* IOHandle::remove empties the table, and finds every request.
<1>RemoveRows.
    ASSUME NEW h, NEW W, Has(G, h, W)
    PROVE  /\ Has(G, removeAll(h, fd), {})
           /\ {h.val[s] : s \in Slots(h, fd)} = W
  <2> USE <1>RemoveRows
  <2>1. <<removeAll(h, fd), Others(Rows(W), fd)>> \in G
    BY Zenon DEF Keeps, Has
  <2>2. \A v : <<fd, v>>[1] = fd
    OBVIOUS
  <2>3. Others(Rows(W), fd) = Rows({})
    BY <2>2, Zenon DEF Others, Rows
  <2>4. {h.val[s] : s \in Slots(h, fd)} = W
    BY RowsFound
  <2> QED
    BY <2>1, <2>3, <2>4, Zenon DEF Has

\* A call that goes on: h is the table without the request of u.
<1>AnswerTable.
    ASSUME op \in [UThread -> CallSet], NEW u \in UThread, NEW kind \in Requests, NEW h, NEW s,
           Has(G, h, Waiters(op) \ {u}), WaitersOpen,
           Answer(u, kind, h, s), file' = file
    PROVE  TableInv(G)'
  <2> USE <1>AnswerTable
  <2> DEFINE W == Waiters(op) \ {u}
  <2>1. W \subseteq UThread /\ u \notin W
    BY Zenon DEF Waiters
  <2>2. CASE Return(u, h, s)
    <3>1. op' = [op EXCEPT ![u] = Idle] /\ handles' = h
      BY <2>2, Zenon DEF Return
    <3>2. op'[u] = Idle /\ \A v \in UThread : v # u => op'[v] = op[v]
      BY <3>1, Zenon
    <3>3. "idle" \notin Requests
      BY DEF Requests
    <3>4. Waiters(op') = W
      BY <3>2, <3>3, IdleCall, Zenon DEF Waiters
    <3> QED
      BY <3>1, <3>4, Zenon DEF TableInv, WaitersOpen
  <2>3. ASSUME NEW o \in CallSet, o.kind = kind, ~o.closed, file = "conn", Wait(u, o, h, s)
        PROVE  TableInv(G)'
    <3>1. op' = [op EXCEPT ![u] = o] /\ handles' = put(h, fd, u)
      BY <2>3, Zenon DEF Wait
    <3>2. op'[u] = o /\ \A v \in UThread : v # u => op'[v] = op[v]
      BY <3>1, Zenon
    <3>3. Waiters(op') = W \cup {u}
      BY <2>3, <3>2, Zenon DEF Waiters
    <3>4. Has(G, put(h, fd, u), W \cup {u})
      <4>1. Has(G, h, W)
        BY Zenon
      <4> HIDE DEF W
      <4> QED
        BY <2>1, <4>1, <1>PutRow
    <3> QED
      BY <2>3, <3>1, <3>3, <3>4, Zenon DEF TableInv, WaitersOpen
  <2> QED
    BY <2>2, <2>3, Zenon DEF Answer

\* The table before a call, and before a call that was woken goes on: without u.
<1>TableBeforeCall.
    ASSUME TableInv(G), NEW u \in UThread, op[u].kind \notin Requests
    PROVE  Has(G, handles, Waiters(op) \ {u})
  <2> USE <1>TableBeforeCall
  <2>1. Waiters(op) \ {u} = Waiters(op)
    BY Zenon DEF Waiters
  <2> QED
    BY <2>1, Zenon DEF TableInv, WaitersOpen

<1>TableBeforeResume.
    ASSUME TableInv(G), NEW u \in UThread
    PROVE  Has(G, IF Waits(u) THEN Detach(handles, u) ELSE handles, Waiters(op) \ {u})
  <2> USE <1>TableBeforeResume
  <2>1. Waits(u) <=> op[u].kind \in Requests
    BY Zenon DEF Waits, Requests
  <2>2. CASE Waits(u)
    <3>1. Has(G, handles, Waiters(op))
      BY Zenon DEF TableInv, WaitersOpen
    <3>2. Has(G, Detach(handles, u), Waiters(op) \ {u})
      BY <3>1, <1>DetachRow
    <3> QED
      BY <2>2, <3>2, Zenon
  <2>3. CASE ~Waits(u)
    BY <2>1, <2>3, <1>TableBeforeCall, Zenon
  <2> QED
    BY <2>2, <2>3, Zenon

\* A call that reads or writes keeps the table.
<1>ReadTable.
    ASSUME TypeOK, NEW u \in UThread, NEW o \in CallSet, o.kind \in {"read", "peek"},
           ~o.timeout, ~o.closed, WaitersOpen,
           NEW front, NEW h, NEW s, Has(G, h, Waiters(op) \ {u}),
           DoRead(u, o, front, h, s)
    PROVE  TableInv(G)'
  <2> USE <1>ReadTable
  <2>1. Answer(u, o.kind, h, s) /\ file' = file
    BY ReadAnswers, Zenon
  <2>2. op \in [UThread -> CallSet] /\ o.kind \in Requests
    BY CallTypes, Zenon DEF Requests
  <2> QED
    BY <2>1, <2>2, <1>AnswerTable, Zenon

<1>WriteTable.
    ASSUME TypeOK, NEW u \in UThread, NEW o \in CallSet, o.kind = "write",
           ~o.timeout, ~o.closed, WaitersOpen,
           NEW h, NEW s, Has(G, h, Waiters(op) \ {u}),
           DoWrite(u, o, h, s)
    PROVE  TableInv(G)'
  <2> USE <1>WriteTable
  <2>1. Answer(u, "write", h, s) /\ file' = file
    BY WriteAnswers, Zenon
  <2>2. op \in [UThread -> CallSet] /\ "write" \in Requests
    BY CallTypes, Zenon DEF Requests
  <2> QED
    BY <2>1, <2>2, <1>AnswerTable, Zenon

\* A step that leaves the calls and the table alone, and the descriptor where
\* somebody waits for it.
<1>TableUnmoved.
    ASSUME TableInv(G), handles' = handles, Waiters(op') = Waiters(op),
           file = "conn" => file' = "conn"
    PROVE  TableInv(G)'
    BY <1>TableUnmoved, Zenon DEF TableInv, WaitersOpen

<1>ReadKeepsTable.
    ASSUME StreamInv, TableInv(G), NEW u \in UThread, NEW n \in Counts, NEW ms \in Timeouts,
           Read(u, n, ms)
    PROVE  TableInv(G)'
  <2> USE <1>ReadKeepsTable
  <2> DEFINE front == SubSeq(lookahead, 1, Min({n, Len(lookahead)}))
             o == Call("read", n - Len(front), ms)
  <2>1. TypeOK
    BY Zenon DEF StreamInv
  <2>2. n \in Nat /\ ms \in Nat
    OBVIOUS
  <2>3. n - Len(front) \in Nat
    BY <2>1, <2>2, FrontTaken, Zenon
  <2>4. op[u].kind = "idle" /\ op[u].kind \notin Requests
    BY DEF Read, Runs, Requests
  <2>5. \/ UNCHANGED <<file, waits>>
        \/ DoRead(u, o, front, handles, sleeping)
    BY Zenon DEF Read, AtEnd
  <2> HIDE DEF front
  <2>6. o \in CallSet /\ o.kind = "read" /\ ~o.timeout /\ ~o.closed
    BY <2>2, <2>3 DEF Call, CallSet
  <2> HIDE DEF o
  <2>7. CASE UNCHANGED <<file, waits>>
    BY <2>7, <1>TableUnmoved, Zenon DEF waits
  <2>8. CASE DoRead(u, o, front, handles, sleeping)
    <3>1. Has(G, handles, Waiters(op) \ {u})
      BY <2>4, <1>TableBeforeCall, Zenon
    <3>2. WaitersOpen
      BY Zenon DEF TableInv, WaitersOpen
    <3>3. o.kind \in {"read", "peek"}
      BY <2>6, Zenon
    <3> QED
      BY <2>1, <2>6, <2>8, <3>1, <3>2, <3>3, <1>ReadTable, Zenon
  <2> QED
    BY <2>5, <2>7, <2>8, Zenon

<1>PeekKeepsTable.
    ASSUME StreamInv, TableInv(G), NEW u \in UThread, NEW n \in Counts, NEW ms \in Timeouts,
           Peek(u, n, ms)
    PROVE  TableInv(G)'
  <2> USE <1>PeekKeepsTable
  <2> DEFINE o == Call("peek", n - Len(lookahead), ms)
  <2>1. TypeOK
    BY Zenon DEF StreamInv
  <2>2. n \in Nat /\ ms \in Nat /\ lookahead \in Seq(Nat) /\ n > Len(lookahead)
    BY <2>1 DEF TypeOK, Peek
  <2>3. n - Len(lookahead) \in Nat
    BY <2>2
  <2>4. op[u].kind = "idle" /\ op[u].kind \notin Requests
    BY DEF Peek, Runs, Requests
  <2>5. \/ UNCHANGED <<file, waits>>
        \/ DoRead(u, o, <<>>, handles, sleeping)
    BY Zenon DEF Peek, AtEnd
  <2>6. o \in CallSet /\ o.kind = "peek" /\ ~o.timeout /\ ~o.closed
    BY <2>2, <2>3 DEF Call, CallSet
  <2> HIDE DEF o
  <2>7. CASE UNCHANGED <<file, waits>>
    BY <2>7, <1>TableUnmoved, Zenon DEF waits
  <2>8. CASE DoRead(u, o, <<>>, handles, sleeping)
    <3>1. Has(G, handles, Waiters(op) \ {u})
      BY <2>4, <1>TableBeforeCall, Zenon
    <3>2. WaitersOpen
      BY Zenon DEF TableInv, WaitersOpen
    <3>3. o.kind \in {"read", "peek"}
      BY <2>6, Zenon
    <3> QED
      BY <2>1, <2>6, <2>8, <3>1, <3>2, <3>3, <1>ReadTable, Zenon
  <2> QED
    BY <2>5, <2>7, <2>8, Zenon

<1>WriteKeepsTable.
    ASSUME StreamInv, TableInv(G), NEW u \in UThread, NEW n \in Counts, Write(u, n)
    PROVE  TableInv(G)'
  <2> USE <1>WriteKeepsTable
  <2> DEFINE o == Call("write", n, 0)
  <2>1. TypeOK
    BY Zenon DEF StreamInv
  <2>2. n \in Nat /\ 0 \in Nat
    OBVIOUS
  <2>3. op[u].kind \notin Requests
    BY DEF Write, Runs, Requests
  <2>4. DoWrite(u, o, handles, sleeping)
    BY Zenon DEF Write
  <2>5. o \in CallSet /\ o.kind = "write" /\ ~o.timeout /\ ~o.closed
    BY <2>2 DEF Call, CallSet
  <2> HIDE DEF o
  <2>6. Has(G, handles, Waiters(op) \ {u})
    BY <2>3, <1>TableBeforeCall, Zenon
  <2>7. WaitersOpen
    BY Zenon DEF TableInv, WaitersOpen
  <2> QED
    BY <2>1, <2>4, <2>5, <2>6, <2>7, <1>WriteTable, Zenon

<1>SleepKeepsTable.
    ASSUME StreamInv, TableInv(G), NEW u \in UThread, NEW ms \in Sleeps, Sleep(u, ms)
    PROVE  TableInv(G)'
  <2> USE <1>SleepKeepsTable
  <2> DEFINE o == Call("sleep", 0, ms)
  <2>1. op \in [UThread -> CallSet]
    BY CallTypes, Zenon DEF StreamInv
  <2>2. /\ op' = [op EXCEPT ![u] = o] /\ handles' = handles /\ file' = file
        /\ op[u].kind = "idle"
    BY Zenon DEF Sleep, Runs
  <2>3. o.kind = "sleep"
    BY DEF Call
  <2> HIDE DEF o
  <2>4. op'[u].kind \notin Requests /\ op[u].kind \notin Requests
    <3>1. op'[u] = o
      BY <2>1, <2>2, Zenon
    <3> QED
      BY <2>2, <2>3, <3>1 DEF Requests
  <2>5. \A v \in UThread : v # u => op'[v] = op[v]
    BY <2>1, <2>2, Zenon
  <2>6. Waiters(op') = Waiters(op)
    BY <2>4, <2>5, Zenon DEF Waiters
  <2> QED
    BY <2>2, <2>6, <1>TableUnmoved, Zenon

<1>ResumeKeepsTable.
    ASSUME StreamInv, TableInv(G), NEW u \in UThread, Resume(u)
    PROVE  TableInv(G)'
  <2> USE <1>ResumeKeepsTable
  <2> DEFINE o == [op[u] EXCEPT !.wake = FALSE]
             h == IF Waits(u) THEN Detach(handles, u) ELSE handles
             s == IF op[u].timeout THEN sleeping ELSE CancelSleep(sleeping, u)
  <2>1. TypeOK
    BY Zenon DEF StreamInv
  <2>2. op \in [UThread -> CallSet] /\ op[u] \in CallSet
    BY <2>1, CallTypes, Zenon
  <2>3. o \in CallSet
    BY <2>2, Zenon DEF CallSet
  <2>4. \/ Return(u, h, s) /\ file' = file
        \/ /\ ~o.timeout /\ ~o.closed /\ o.kind = "write" /\ DoWrite(u, o, h, s)
        \/ /\ ~o.timeout /\ ~o.closed /\ o.kind \in {"read", "peek"}
           /\ DoRead(u, o, <<>>, h, s)
    BY Zenon DEF Resume
  <2>5. Has(G, h, Waiters(op) \ {u})
    BY <1>TableBeforeResume, Zenon
  <2>6. WaitersOpen
    BY Zenon DEF TableInv, WaitersOpen
  <2> HIDE DEF o, h, s
  <2>7. CASE Return(u, h, s) /\ file' = file
    <3>1. "write" \in Requests /\ Answer(u, "write", h, s)
      BY <2>7 DEF Requests, Answer
    <3> QED
      BY <2>2, <2>5, <2>6, <2>7, <3>1, <1>AnswerTable, Zenon
  <2>8. CASE ~o.timeout /\ ~o.closed /\ o.kind = "write" /\ DoWrite(u, o, h, s)
    BY <2>1, <2>3, <2>5, <2>6, <2>8, <1>WriteTable, Zenon
  <2>9. CASE /\ ~o.timeout /\ ~o.closed /\ o.kind \in {"read", "peek"}
             /\ DoRead(u, o, <<>>, h, s)
    BY <2>1, <2>3, <2>5, <2>6, <2>9, <1>ReadTable, Zenon
  <2> QED
    BY <2>4, <2>7, <2>8, <2>9, Zenon

\* closeSocket ends every request there is.
<1>CloseKeepsTable.
    ASSUME StreamInv, TableInv(G), closeSocket
    PROVE  TableInv(G)'
  <2> USE <1>CloseKeepsTable
  <2> DEFINE ended == {handles.val[s] : s \in Slots(handles, fd)}
  <2>1. op \in [UThread -> CallSet]
    BY CallTypes, Zenon DEF StreamInv
  <2>2. /\ op' = [u \in UThread |->
              IF u \in ended THEN [op[u] EXCEPT !.closed = TRUE, !.wake = TRUE] ELSE op[u]]
        /\ handles' = removeAll(handles, fd)
    BY Zenon DEF closeSocket
  <2>3. Has(G, handles, Waiters(op))
    BY Zenon DEF TableInv, WaitersOpen
  <2>4. Has(G, removeAll(handles, fd), {}) /\ ended = Waiters(op)
    BY <2>3, <1>RemoveRows
  <2> HIDE DEF ended
  <2>5. ASSUME NEW u \in UThread PROVE u \notin Waiters(op')
    <3>1. CASE u \in ended
      <4>1. op'[u] = [op[u] EXCEPT !.closed = TRUE, !.wake = TRUE] /\ op[u] \in CallSet
        BY <2>1, <2>2, <3>1, Zenon
      <4>2. op'[u].closed
        BY <4>1 DEF CallSet
      <4> QED
        BY <4>2, Zenon DEF Waiters
    <3>2. CASE u \notin ended
      <4>1. op'[u] = op[u]
        BY <2>2, <3>2, Zenon
      <4> QED
        BY <2>4, <3>2, <4>1, Zenon DEF Waiters
    <3> QED
      BY <3>1, <3>2, Zenon
  <2>6. Waiters(op') = {}
    BY <2>5, Zenon DEF Waiters
  <2> QED
    BY <2>2, <2>4, <2>6, Zenon DEF TableInv, WaitersOpen

\* wakeThreads and checkIo wake UThreads and leave their requests in the table.
<1>WakesKeepTable.
    ASSUME StreamInv, TableInv(G), Wakes
    PROVE  TableInv(G)'
  <2> USE <1>WakesKeepTable
  <2>1. op \in [UThread -> CallSet]
    BY CallTypes, Zenon DEF StreamInv
  <2>2. /\ op' = [u \in UThread |->
              [op[u] EXCEPT !.wake = @ \/ u \in Expired \cup Notified,
                            !.timeout = @ \/ u \in Expired]]
        /\ handles' = handles /\ file' = file
    BY Zenon DEF Wakes
  <2>4. ASSUME NEW u \in UThread
        PROVE  op'[u].kind = op[u].kind /\ op'[u].closed = op[u].closed
    <3> DEFINE a == op[u].wake \/ u \in Expired \cup Notified
               b == op[u].timeout \/ u \in Expired
    <3>1. op'[u] = [op[u] EXCEPT !.wake = a, !.timeout = b]
      BY <2>2, Zenon
    <3>2. op[u] \in CallSet
      BY <2>1, Zenon
    <3> HIDE DEF a, b
    <3> QED
      BY <3>1, <3>2 DEF CallSet
  <2>5. Waiters(op') = Waiters(op)
    BY <2>4, Zenon DEF Waiters
  <2> QED
    BY <2>2, <2>5, <1>TableUnmoved, Zenon

<1>Step.
    ASSUME StreamInv, TableInv(G), [Next]_vars
    PROVE  TableInv(G)'
  <2> USE <1>Step
  <2>1. CASE \E u \in UThread, n \in Counts, ms \in Timeouts : Read(u, n, ms) \/ Peek(u, n, ms)
    BY <2>1, <1>ReadKeepsTable, <1>PeekKeepsTable, Zenon
  <2>2. CASE \E u \in UThread, n \in Counts : Write(u, n)
    BY <2>2, <1>WriteKeepsTable, Zenon
  <2>3. CASE \E u \in UThread, ms \in Sleeps : Sleep(u, ms)
    BY <2>3, <1>SleepKeepsTable, Zenon
  <2>4. CASE \E u \in UThread : Resume(u)
    BY <2>4, <1>ResumeKeepsTable, Zenon
  <2>5. CASE closeSocket
    BY <2>5, <1>CloseKeepsTable, Zenon
  <2>6. CASE Wakes
    BY <2>6, <1>WakesKeepTable, Zenon
  <2>7. CASE handles' = handles /\ op' = op /\ (file = "conn" => file' = "conn")
    BY <2>7, <1>TableUnmoved, Zenon
  <2>8. CASE Close \/ CloseEnd("in") \/ CloseEnd("out")
    <3>1. closeSocket \/ (handles' = handles /\ op' = op /\ file' = file)
      BY <2>8, Zenon DEF Close, CloseEnd
    <3> QED
      BY <2>5, <2>7, <3>1, Zenon
  <2>9. CASE Reap \/ LeavePoll
    BY <2>6, <2>9, Zenon DEF Reap, LeavePoll
  <2>10. CASE EnterPoll \/ Tick \/ Send \/ Drain \/ Leave
    <3>1. handles' = handles /\ op' = op /\ file' = file
      BY <2>10, Zenon DEF EnterPoll, Tick, Send, Drain, Leave, waits
    <3> QED
      BY <2>7, <3>1, Zenon
  <2>11. CASE Reuse
    <3>1. handles' = handles /\ op' = op /\ file = "none"
      BY <2>11, Zenon DEF Reuse, waits
    <3>2. file # "conn"
      BY <3>1
    <3> QED
      BY <2>7, <3>1, <3>2, Zenon
  <2>12. CASE UNCHANGED vars
    <3>1. handles' = handles /\ op' = op /\ file' = file
      BY <2>12, Zenon DEF vars, waits
    <3> QED
      BY <2>7, <3>1, Zenon
  <2> QED
    BY <2>1, <2>2, <2>3, <2>4, <2>8, <2>9, <2>10, <2>11, <2>12, Zenon DEF Next
<1> QED
  BY <1>Step, Zenon

\* At first nobody waits, and the table is empty.
LEMMA TableInit ==
    ASSUME NEW G, Keeps(G, UThread)
    PROVE  Init => TableInv(G)
<1> SUFFICES ASSUME Init PROVE TableInv(G)
  BY Zenon
<1>1. \A u \in UThread : op[u] = Idle
  BY Zenon DEF Init
<1>2. "idle" \notin Requests
  BY DEF Requests
<1>3. Waiters(op) = {}
  BY <1>1, <1>2, IdleCall, Zenon DEF Waiters
<1>4. Rows({}) = {}
  BY Zenon DEF Rows
<1>5. <<EmptyMap, {}>> \in G
  BY Zenon DEF Keeps
<1> QED
  BY <1>3, <1>4, <1>5, Zenon DEF TableInv, WaitersOpen, Has, Init

\* The request table and the list of sleepers agree with the calls that wait.
LEMMA InvRegistered ==
    ASSUME NEW G, Keeps(G, UThread),
           \A W : IsFiniteSet(Rows(W)) => Cardinality(W) = Cardinality(Rows(W))
    PROVE  StreamInv /\ TableInv(G) => Registered
<1> SUFFICES ASSUME StreamInv, TableInv(G) PROVE Registered
  BY Zenon
<1> DEFINE waiting == {u \in UThread : Waits(u) /\ ~op[u].closed}
           timed == {u \in UThread : op[u].kind = "sleep" \/ (Waits(u) /\ op[u].ms > 0)}
<1>1. SleepersInv
  BY Zenon DEF StreamInv
<1>2. waiting = Waiters(op)
  BY Zenon DEF Waits, Waiters, Requests
<1>3. Has(G, handles, waiting)
  BY <1>2, Zenon DEF TableInv, WaitersOpen
<1>4. {handles.val[s] : s \in Slots(handles, fd)} = waiting
  <2> HIDE DEF waiting
  <2> QED
    BY <1>3, RowsFound
<1>5. handles.elems = Cardinality(waiting)
  <2> HIDE DEF waiting
  <2>1. Answers(handles, Rows(waiting))
    BY <1>3, Zenon DEF Keeps, Has
  <2> QED
    BY <2>1, Zenon DEF Answers
<1>6. waiting # {} => file = "conn"
  BY <1>2, Zenon DEF TableInv, WaitersOpen
<1>7. /\ sleeping \in Seq(UThread) /\ Once(sleeping)
      /\ \A u \in UThread : Listed(sleeping, u) <=> Timed(op[u])
  BY <1>1, Zenon DEF SleepersInv, SleepList
<1>8. /\ DOMAIN sleeping = 1 .. Len(sleeping)
      /\ \A i \in 1 .. Len(sleeping) : sleeping[i] \in UThread
  BY <1>7
<1>9. IsInjective(sleeping)
  BY <1>7, <1>8, Zenon DEF IsInjective, Once
<1>10. \A u \in UThread : Timed(op[u]) <=> u \in timed /\ ~op[u].timeout
  BY Zenon DEF Timed, Waits, Requests
<1>11. Range(sleeping) = {u \in timed : ~op[u].timeout}
  <2> HIDE DEF timed
  <2>1. timed \subseteq UThread
    BY Zenon DEF timed
  <2>2. \A u : u \in Range(sleeping) <=> u \in UThread /\ Listed(sleeping, u)
    BY <1>8, Zenon DEF Range, Listed
  <2> QED
    BY <1>7, <1>10, <2>1, <2>2, Zenon
<1> QED
  BY <1>4, <1>5, <1>6, <1>9, <1>11, Zenon DEF Registered

----------------------------------------------------------------------------
(***************************************************************************)
(* The bytes of the connection.                                            *)
(***************************************************************************)

\* Sequences of bytes that agree are equal.
LEMMA SameBytes ==
    ASSUME NEW a \in Seq(Nat), NEW b \in Seq(Nat), Len(a) = Len(b),
           \A i \in 1 .. Len(a) : a[i] = b[i]
    PROVE  a = b
<1>1. a = [i \in 1 .. Len(a) |-> a[i]] /\ b = [i \in 1 .. Len(b) |-> b[i]]
  OBVIOUS
<1> QED
  BY <1>1, Zenon

\* Concatenation is associative.
LEMMA JoinAssociative ==
    ASSUME NEW a \in Seq(Nat), NEW b \in Seq(Nat), NEW c \in Seq(Nat)
    PROVE  (a \o b) \o c = a \o (b \o c)
<1>1. /\ a \o b \in Seq(Nat) /\ Len(a \o b) = Len(a) + Len(b)
      /\ b \o c \in Seq(Nat) /\ Len(b \o c) = Len(b) + Len(c)
      /\ Len(a) \in Nat /\ Len(b) \in Nat /\ Len(c) \in Nat
  OBVIOUS
<1>2. /\ (a \o b) \o c \in Seq(Nat) /\ a \o (b \o c) \in Seq(Nat)
      /\ Len((a \o b) \o c) = Len(a) + Len(b) + Len(c)
      /\ Len(a \o (b \o c)) = Len(a) + Len(b) + Len(c)
  BY <1>1
<1>3. ASSUME NEW i \in 1 .. Len((a \o b) \o c) PROVE ((a \o b) \o c)[i] = (a \o (b \o c))[i]
  <2>1. CASE i <= Len(a)
    BY <1>1, <1>2, <2>1
  <2>2. CASE ~(i <= Len(a)) /\ i <= Len(a) + Len(b)
    BY <1>1, <1>2, <2>2
  <2>3. CASE ~(i <= Len(a)) /\ ~(i <= Len(a) + Len(b))
    BY <1>1, <1>2, <2>3
  <2> QED
    BY <2>1, <2>2, <2>3, Zenon
<1>4. Len((a \o b) \o c) = Len(a \o (b \o c))
  BY <1>2, Zenon
<1> QED
  BY <1>2, <1>3, <1>4, SameBytes, Zenon

\* Nothing at the end changes nothing.
LEMMA JoinEmpty ==
    ASSUME NEW a \in Seq(Nat)
    PROVE  a \o <<>> = a
<1>1. a \o <<>> \in Seq(Nat) /\ Len(a \o <<>>) = Len(a) /\ \A i \in 1 .. Len(a) : (a \o <<>>)[i] = a[i]
  OBVIOUS
<1> QED
  BY <1>1, SameBytes, Zenon

\* All bytes of a sequence, from the first to the last, are the sequence.
LEMMA WholeFront ==
    ASSUME NEW a \in Seq(Nat)
    PROVE  SubSeq(a, 1, Len(a)) = a
<1>1. Len(a) \in 0 .. Len(a)
  OBVIOUS
<1>2. /\ SubSeq(a, 1, Len(a)) \in Seq(Nat) /\ Len(SubSeq(a, 1, Len(a))) = Len(a)
      /\ \A i \in 1 .. Len(a) : SubSeq(a, 1, Len(a))[i] = a[i]
  BY <1>1, FrontOf
<1> QED
  BY <1>2, SameBytes, Zenon

\* A sequence that is cut and joined again.
LEMMA CutJoin ==
    ASSUME NEW q \in Seq(Nat), NEW k \in 0 .. Len(q)
    PROVE  /\ SubSeq(q, 1, k) \in Seq(Nat) /\ SubSeq(q, k + 1, Len(q)) \in Seq(Nat)
           /\ SubSeq(q, 1, k) \o SubSeq(q, k + 1, Len(q)) = q
<1> DEFINE a == SubSeq(q, 1, k)
           b == SubSeq(q, k + 1, Len(q))
<1>1. a \in Seq(Nat) /\ Len(a) = k /\ \A i \in 1 .. k : a[i] = q[i]
  BY FrontOf
<1>2. /\ b \in Seq(Nat) /\ Len(b) = Len(q) - k
      /\ \A i \in 1 .. Len(q) - k : b[i] = q[i + k]
  BY TailOf
<1> HIDE DEF a, b
<1>0. a \in Seq(Nat) /\ b \in Seq(Nat) /\ Len(a) = k /\ Len(b) = Len(q) - k
  BY <1>1, <1>2, Zenon
<1>3. /\ a \o b \in Seq(Nat) /\ Len(a \o b) = Len(a) + Len(b)
      /\ \A i \in 1 .. Len(a) + Len(b) :
            (a \o b)[i] = IF i <= Len(a) THEN a[i] ELSE b[i - Len(a)]
  <2>1. a \in Seq(Nat) /\ b \in Seq(Nat)
    BY <1>0, Zenon
  <2> QED
    BY <2>1
<1>4. Len(a \o b) = Len(q) /\ k \in Nat /\ Len(q) \in Nat
  BY <1>0, <1>3
<1>5. ASSUME NEW i \in 1 .. Len(a \o b) PROVE (a \o b)[i] = q[i]
  <2>0. (a \o b)[i] = IF i <= Len(a) THEN a[i] ELSE b[i - Len(a)]
    BY <1>3, Zenon
  <2>1. CASE i <= k
    <3>1. i \in 1 .. k
      BY <1>4, <2>1
    <3> QED
      BY <1>1, <2>0, <2>1, <3>1, Zenon
  <2>2. CASE ~(i <= k)
    <3>1. i - k \in 1 .. Len(q) - k /\ (i - k) + k = i
      BY <1>4, <2>2
    <3> QED
      BY <1>1, <1>2, <2>0, <2>2, <3>1, Zenon
  <2> QED
    BY <2>1, <2>2, Zenon
<1>6. a \o b = q
  BY <1>3, <1>4, <1>5, SameBytes, Zenon
<1> QED
  BY <1>1, <1>2, <1>6, Zenon DEF a, b

\* What was read, the lookahead and what is there to read make up q.
Joined(q, g, l, r) == g \o l \o r = q

\* A read that takes the front of the lookahead.
LEMMA JoinFront ==
    ASSUME NEW g \in Seq(Nat), NEW l \in Seq(Nat), NEW r \in Seq(Nat),
           NEW k \in 0 .. Len(l), NEW q, Joined(q, g, l, r)
    PROVE  Joined(q, g \o SubSeq(l, 1, k) \o <<>>, SubSeq(l, k + 1, Len(l)), r)
<1> DEFINE a == SubSeq(l, 1, k)
           b == SubSeq(l, k + 1, Len(l))
<1>1. a \in Seq(Nat) /\ b \in Seq(Nat)
  BY CutJoin, Zenon
<1>2. a \o b = l
  BY CutJoin, Zenon
<1> HIDE DEF a, b
<1>3. g \o a \in Seq(Nat)
  BY <1>1
<1>4. g \o a \o <<>> = g \o a
  BY <1>3, JoinEmpty, Zenon
<1>5. (g \o a) \o b = g \o (a \o b)
  BY <1>1, JoinAssociative, ZenonT(30)
<1>6. (g \o a \o <<>>) \o b \o r = g \o l \o r
  BY <1>2, <1>4, <1>5, Zenon
<1> QED
  BY <1>6, Zenon DEF a, b, Joined

\* What lies behind f is cut.
LEMMA JoinCut ==
    ASSUME NEW f \in Seq(Nat), NEW r \in Seq(Nat), NEW k \in 0 .. Len(r)
    PROVE  /\ f \o SubSeq(r, 1, k) \in Seq(Nat)
           /\ (f \o SubSeq(r, 1, k)) \o SubSeq(r, k + 1, Len(r)) = f \o r
<1> DEFINE a == SubSeq(r, 1, k)
           b == SubSeq(r, k + 1, Len(r))
<1>1. a \in Seq(Nat) /\ b \in Seq(Nat)
  BY CutJoin, Zenon
<1>2. a \o b = r
  BY CutJoin, Zenon
<1> HIDE DEF a, b
<1>3. f \o a \in Seq(Nat)
  BY <1>1
<1>4. (f \o a) \o b = f \o (a \o b)
  BY <1>1, JoinAssociative, ZenonT(30)
<1>5. (f \o a) \o b = f \o r
  BY <1>2, <1>4, Zenon
<1> QED
  BY <1>3, <1>5, Zenon DEF a, b

\* A read that takes the whole lookahead and the first k bytes of the connection.
LEMMA JoinRead ==
    ASSUME NEW g \in Seq(Nat), NEW l \in Seq(Nat), NEW r \in Seq(Nat),
           NEW k \in 0 .. Len(r), NEW q, Joined(q, g, l, r)
    PROVE  Joined(q, g \o l \o SubSeq(r, 1, k), <<>>, SubSeq(r, k + 1, Len(r)))
<1> DEFINE a == SubSeq(r, 1, k)
           b == SubSeq(r, k + 1, Len(r))
<1>1. g \o l \in Seq(Nat)
  OBVIOUS
<1>2. (g \o l) \o a \in Seq(Nat)
  BY <1>1, JoinCut, Zenon
<1>3. ((g \o l) \o a) \o b = (g \o l) \o r
  BY <1>1, JoinCut, Zenon
<1> HIDE DEF a, b
<1>4. ((g \o l) \o a) \o <<>> = (g \o l) \o a
  BY <1>2, JoinEmpty, Zenon
<1>5. (g \o l) \o r = q
  BY Zenon DEF Joined
<1>6. (((g \o l) \o a) \o <<>>) \o b = q
  BY <1>3, <1>4, <1>5, Zenon
<1> QED
  BY <1>6, Zenon DEF a, b, Joined

\* A peek that moves the first k bytes of the connection into the lookahead.
LEMMA JoinPeek ==
    ASSUME NEW g \in Seq(Nat), NEW l \in Seq(Nat), NEW r \in Seq(Nat),
           NEW k \in 0 .. Len(r), NEW q, Joined(q, g, l, r)
    PROVE  Joined(q, g, l \o SubSeq(r, 1, k), SubSeq(r, k + 1, Len(r)))
<1> DEFINE a == SubSeq(r, 1, k)
           b == SubSeq(r, k + 1, Len(r))
<1>1. g \o l \in Seq(Nat) /\ a \in Seq(Nat)
  BY CutJoin
<1>2. ((g \o l) \o a) \o b = (g \o l) \o r
  BY <1>1, JoinCut, Zenon
<1> HIDE DEF a, b
<1>3. \A x \in Seq(Nat) : (g \o l) \o x = g \o (l \o x)
  BY JoinAssociative, Zenon
<1>4. (g \o l) \o r = q
  BY Zenon DEF Joined
<1>5. (g \o (l \o a)) \o b = q
  BY <1>1, <1>2, <1>3, <1>4, Zenon
<1> QED
  BY <1>5, Zenon DEF a, b, Joined

\* A read or a peek on the open connection loses, repeats and reorders nothing.
LEMMA ReadKeepsBytes ==
    ASSUME TypeOK, OwnData, file = "conn", NEW u \in UThread, NEW o \in CallSet,
           o.kind \in {"read", "peek"}, NEW front, NEW h, NEW s,
           o.kind = "read" => front = lookahead, DoRead(u, o, front, h, s)
    PROVE  OwnData'
<1>1. /\ rx \in Seq(Nat) /\ got \in Seq(Nat) /\ lookahead \in Seq(Nat) /\ o.n \in Nat
      /\ Len(rx) \in Nat /\ sent' = sent
  BY DEF TypeOK, CallSet, DoRead
<1> DEFINE j == Min({o.n, Len(rx)})
<1>2. j \in 0 .. Len(rx)
  <2>1. {o.n, Len(rx)} \in SUBSET Nat /\ {o.n, Len(rx)} # {}
    BY <1>1, Zenon
  <2>2. j \in {o.n, Len(rx)} /\ \A y \in {o.n, Len(rx)} : j <= y
    BY <2>1, LeastOf, Zenon
  <2>3. j \in Nat /\ j <= Len(rx)
    BY <1>1, <2>2, Zenon
  <2> QED
    BY <1>1, <2>3
<1>3. file # "other" /\ file # "none"
  OBVIOUS
<1>4. \/ Take(o.kind, front, SubSeq(rx, 1, j)) /\ rx' = SubSeq(rx, j + 1, Len(rx))
      \/ Take(o.kind, front, <<>>) /\ rx' = rx
  BY <1>3, Zenon DEF DoRead
<1> HIDE DEF j
<1>5. PICK k \in 0 .. Len(rx) : /\ Take(o.kind, front, SubSeq(rx, 1, k))
                                /\ rx' = SubSeq(rx, k + 1, Len(rx))
  <2>1. CASE Take(o.kind, front, SubSeq(rx, 1, j)) /\ rx' = SubSeq(rx, j + 1, Len(rx))
    BY <1>2, <2>1, Zenon
  <2>2. CASE Take(o.kind, front, <<>>) /\ rx' = rx
    <3>1. 0 \in 0 .. Len(rx) /\ SubSeq(rx, 1, 0) = <<>> /\ 0 + 1 = 1
      BY <1>1
    <3>2. SubSeq(rx, 1, Len(rx)) = rx
      BY <1>1, WholeFront, Zenon
    <3> QED
      BY <2>2, <3>1, <3>2, Zenon
  <2> QED
    BY <1>4, <2>1, <2>2, Zenon
<1> DEFINE q == [i \in 1 .. sent |-> i]
<1>6. Joined(q, got, lookahead, rx)
  BY Zenon DEF OwnData, Joined
<1> HIDE DEF q
<1>7. Joined(q, got', lookahead', rx')
  <2>1. CASE o.kind = "read"
    <3>1. SubSeq(lookahead, Len(lookahead) + 1, Len(lookahead)) = <<>>
      BY <1>1
    <3>2. got' = got \o lookahead \o SubSeq(rx, 1, k) /\ lookahead' = <<>>
      BY <1>5, <2>1, <3>1, Zenon DEF Take
    <3>3. Joined(q, got \o lookahead \o SubSeq(rx, 1, k), <<>>, SubSeq(rx, k + 1, Len(rx)))
      BY <1>1, <1>6, JoinRead, Zenon
    <3> QED
      BY <1>5, <3>2, <3>3, Zenon
  <2>2. CASE o.kind # "read"
    <3>1. got' = got /\ lookahead' = lookahead \o SubSeq(rx, 1, k)
      BY <1>5, <2>2, Zenon DEF Take
    <3>2. Joined(q, got, lookahead \o SubSeq(rx, 1, k), SubSeq(rx, k + 1, Len(rx)))
      BY <1>1, <1>6, JoinPeek, Zenon
    <3> QED
      BY <1>5, <3>1, <3>2, Zenon
  <2> QED
    BY <2>1, <2>2, Zenon
<1> QED
  BY <1>1, <1>7, Zenon DEF OwnData, Joined, q

\* A read that is served from the lookahead.
LEMMA FrontKeepsBytes ==
    ASSUME TypeOK, OwnData, NEW k \in 0 .. Len(lookahead),
           Take("read", SubSeq(lookahead, 1, k), <<>>), rx' = rx, sent' = sent
    PROVE  OwnData'
<1>1. rx \in Seq(Nat) /\ got \in Seq(Nat) /\ lookahead \in Seq(Nat)
  BY Zenon DEF TypeOK
<1>2. Len(SubSeq(lookahead, 1, k)) = k
  BY <1>1, FrontOf, Zenon
<1>3. /\ got' = got \o SubSeq(lookahead, 1, k) \o <<>>
      /\ lookahead' = SubSeq(lookahead, k + 1, Len(lookahead))
  BY <1>2, Zenon DEF Take
<1> DEFINE q == [i \in 1 .. sent |-> i]
<1>4. Joined(q, got, lookahead, rx)
  BY Zenon DEF OwnData, Joined
<1> HIDE DEF q
<1>5. Joined(q, got \o SubSeq(lookahead, 1, k) \o <<>>,
             SubSeq(lookahead, k + 1, Len(lookahead)), rx)
  BY <1>1, <1>4, JoinFront, Zenon
<1> QED
  BY <1>3, <1>5, Zenon DEF OwnData, Joined, q

\* A read loses, repeats and reorders nothing.
LEMMA ReadKeepsData ==
    ASSUME ~UseAfterClose, StreamInv, OwnData,
           NEW u \in UThread, NEW n \in Counts, NEW ms \in Timeouts, Read(u, n, ms)
    PROVE  OwnData'
<1> DEFINE k == Min({n, Len(lookahead)})
           front == SubSeq(lookahead, 1, k)
           o == Call("read", n - Len(front), ms)
<1>1. TypeOK /\ CloseInv
  BY Zenon DEF StreamInv
<1>2. n \in Nat /\ ms \in Nat
  OBVIOUS
<1>3. /\ n - Len(front) \in Nat /\ Len(front) = k /\ Len(front) \in 0 .. Len(lookahead)
      /\ n - Len(front) > 0 => Len(front) = Len(lookahead)
  BY <1>1, <1>2, FrontTaken, Zenon
<1>4. \/ Take("read", front, <<>>) /\ rx' = rx /\ sent' = sent
      \/ o.n > 0 /\ in /\ DoRead(u, o, front, handles, sleeping)
  BY Zenon DEF Read, AtEnd, peer
<1>5. socket \/ ~in
  BY Zenon DEF Read
<1>6. k \in 0 .. Len(lookahead)
  BY <1>3, Zenon
<1> HIDE DEF k
<1>7. CASE Take("read", front, <<>>) /\ rx' = rx /\ sent' = sent
  BY <1>1, <1>6, <1>7, FrontKeepsBytes, Zenon
<1>8. CASE o.n > 0 /\ in /\ DoRead(u, o, front, handles, sleeping)
  <2>1. file = "conn"
    BY <1>1, <1>5, <1>8, Zenon DEF CloseInv
  <2>2. o.n = n - Len(front)
    BY Zenon DEF Call
  <2>3. k = Len(lookahead)
    BY <1>3, <1>8, <2>2, Zenon
  <2>4. front = lookahead
    <3>1. lookahead \in Seq(Nat)
      BY <1>1, Zenon DEF TypeOK
    <3> QED
      BY <2>3, <3>1, WholeFront, Zenon
  <2> HIDE DEF front
  <2>5. o \in CallSet /\ o.kind = "read"
    BY <1>2, <1>3 DEF Call, CallSet
  <2> HIDE DEF o
  <2>6. o.kind \in {"read", "peek"}
    BY <2>5, Zenon
  <2> QED
    BY <1>1, <1>8, <2>1, <2>4, <2>5, <2>6, ReadKeepsBytes, Zenon
<1> QED
  BY <1>4, <1>7, <1>8, Zenon

\* A peek loses, repeats and reorders nothing.
LEMMA PeekKeepsData ==
    ASSUME ~UseAfterClose, StreamInv, OwnData,
           NEW u \in UThread, NEW n \in Counts, NEW ms \in Timeouts, Peek(u, n, ms)
    PROVE  OwnData'
<1> DEFINE o == Call("peek", n - Len(lookahead), ms)
<1>1. TypeOK /\ CloseInv
  BY Zenon DEF StreamInv
<1>2. /\ n \in Nat /\ ms \in Nat /\ lookahead \in Seq(Nat) /\ n > Len(lookahead)
      /\ rx \in Seq(Nat) /\ got \in Seq(Nat)
  BY <1>1 DEF TypeOK, Peek
<1>3. n - Len(lookahead) \in Nat
  BY <1>2
<1>4. \/ Take("peek", <<>>, <<>>) /\ rx' = rx /\ sent' = sent
      \/ in /\ DoRead(u, o, <<>>, handles, sleeping)
  BY Zenon DEF Peek, AtEnd, peer
<1>5. socket \/ ~in
  BY Zenon DEF Peek
<1>6. o \in CallSet /\ o.kind = "peek"
  BY <1>2, <1>3 DEF Call, CallSet
<1> HIDE DEF o
<1>7. CASE Take("peek", <<>>, <<>>) /\ rx' = rx /\ sent' = sent
  <2>1. "peek" # "read"
    OBVIOUS
  <2>2. got' = got /\ lookahead' = lookahead \o <<>>
    BY <1>7, <2>1, Zenon DEF Take
  <2>3. lookahead \o <<>> = lookahead
    BY <1>2, JoinEmpty, Zenon
  <2> QED
    BY <1>7, <2>2, <2>3, Zenon DEF OwnData
<1>8. CASE in /\ DoRead(u, o, <<>>, handles, sleeping)
  <2>1. file = "conn"
    BY <1>1, <1>5, <1>8, Zenon DEF CloseInv
  <2>2. o.kind \in {"read", "peek"} /\ o.kind # "read"
    BY <1>6
  <2> QED
    BY <1>1, <1>6, <1>8, <2>1, <2>2, ReadKeepsBytes, Zenon
<1> QED
  BY <1>4, <1>7, <1>8, Zenon

\* A call that was woken reads on only while its request was not ended: then
\* the connection is still open.
LEMMA ResumeKeepsData ==
    ASSUME StreamInv, WaitersOpen, OwnData, NEW u \in UThread, Resume(u)
    PROVE  OwnData'
<1> DEFINE o == [op[u] EXCEPT !.wake = FALSE]
           h == IF Waits(u) THEN Detach(handles, u) ELSE handles
           s == IF op[u].timeout THEN sleeping ELSE CancelSleep(sleeping, u)
<1>1. TypeOK /\ ReaderInv
  BY Zenon DEF StreamInv
<1>2. op[u] \in CallSet
  BY <1>1, CallTypes, Zenon
<1>3. o \in CallSet /\ o.kind = op[u].kind /\ o.closed = op[u].closed
  BY <1>2, Zenon DEF CallSet
<1>4. \/ got' = got /\ lookahead' = lookahead /\ rx' = rx /\ sent' = sent
      \/ /\ ~o.closed /\ o.kind \in {"read", "peek"} /\ DoRead(u, o, <<>>, h, s)
  BY Zenon DEF Resume, DoWrite, stream, peer
<1> HIDE DEF o, h, s
<1>5. CASE got' = got /\ lookahead' = lookahead /\ rx' = rx /\ sent' = sent
  BY <1>5, Zenon DEF OwnData
<1>6. CASE ~o.closed /\ o.kind \in {"read", "peek"} /\ DoRead(u, o, <<>>, h, s)
  <2>1. op[u].kind \in Requests /\ ~op[u].closed
    BY <1>3, <1>6, Zenon DEF Requests
  <2>2. u \in Waiters(op)
    BY <2>1, Zenon DEF Waiters
  <2>3. file = "conn"
    BY <2>2, Zenon DEF WaitersOpen
  <2>4. o.kind = "read" => <<>> = lookahead
    BY <1>1, <1>3, Zenon DEF ReaderInv
  <2> QED
    BY <1>1, <1>3, <1>6, <2>3, <2>4, ReadKeepsBytes, Zenon
<1> QED
  BY <1>4, <1>5, <1>6, Zenon

\* What the peer sends comes after what it has sent.
LEMMA SendKeepsData ==
    ASSUME TypeOK, OwnData, Send
    PROVE  OwnData'
<1> DEFINE f == got \o lookahead
           x == sent + 1
<1>1. rx \in Seq(Nat) /\ got \in Seq(Nat) /\ lookahead \in Seq(Nat) /\ sent \in Nat
  BY Zenon DEF TypeOK
<1>2. sent' = x /\ rx' = Append(rx, x) /\ got' = got /\ lookahead' = lookahead
  BY Zenon DEF Send, stream
<1>3. f \in Seq(Nat) /\ x \in Nat
  BY <1>1
<1>4. f \o rx = [i \in 1 .. sent |-> i]
  BY Zenon DEF OwnData
<1> HIDE DEF f
<1>5. f \o Append(rx, x) = Append(f \o rx, x)
  BY <1>1, <1>3
<1>6. Append([i \in 1 .. sent |-> i], x) = [i \in 1 .. x |-> i]
  BY <1>1
<1> QED
  BY <1>2, <1>4, <1>5, <1>6, Zenon DEF OwnData, f

\* No step disturbs the bytes of the connection.
LEMMA DataNext ==
    ASSUME ~UseAfterClose
    PROVE  StreamInv /\ WaitersOpen /\ OwnData /\ [Next]_vars => OwnData'
<1> SUFFICES ASSUME StreamInv, WaitersOpen, OwnData, [Next]_vars PROVE OwnData'
  BY Zenon
<1>1. CASE \E u \in UThread, n \in Counts, ms \in Timeouts : Read(u, n, ms) \/ Peek(u, n, ms)
  BY <1>1, ReadKeepsData, PeekKeepsData, Zenon
<1>2. CASE \E u \in UThread : Resume(u)
  BY <1>2, ResumeKeepsData, Zenon
<1>3. CASE Send
  BY <1>3, SendKeepsData, Zenon DEF StreamInv
<1>4. CASE got' = got /\ lookahead' = lookahead /\ rx' = rx /\ sent' = sent
  BY <1>4, Zenon DEF OwnData
<1>5. CASE (\E u \in UThread, n \in Counts : Write(u, n)) \/ (\E u \in UThread, ms \in Sleeps : Sleep(u, ms))
  BY <1>4, <1>5, Zenon DEF Write, DoWrite, Sleep, stream, peer
<1>6. CASE Close \/ CloseEnd("in") \/ CloseEnd("out")
  BY <1>4, <1>6, Zenon DEF Close, CloseEnd, stream, peer
<1>7. CASE Reap \/ LeavePoll \/ EnterPoll \/ Tick \/ Drain \/ Leave \/ Reuse
  BY <1>4, <1>7, Zenon DEF Reap, LeavePoll, Wakes, EnterPoll, Tick, Drain, Leave, Reuse, stream, peer
<1>8. CASE UNCHANGED vars
  BY <1>4, <1>8, Zenon DEF vars, stream, peer
<1> QED
  BY <1>1, <1>2, <1>3, <1>5, <1>6, <1>7, <1>8, Zenon DEF Next

----------------------------------------------------------------------------
(***************************************************************************)
(* The table of requests in the proofs of FdMap.  They come in here and by *)
(* a name of their own, where they are used: nothing above needs to know   *)
(* more of the table than Keeps.                                           *)
(***************************************************************************)
Table == INSTANCE FdMapProofs

\* The operators of that instance are the ones the stream uses: what holds of the
\* former holds of the latter.
LEMMA SameTable ==
    ASSUME NEW G, NEW V, NEW k
    PROVE  (Table!Keeps(G, V) => Keeps(G, V)) /\ (Table!Agrees(k, V) => Agrees(k, V))
<1>1. \A S : Table!Cardinality(S) = Cardinality(S)
  BY ZenonT(30) DEF Table!Cardinality, Cardinality
<1>2. \A S : Table!IsFiniteSet(S) = IsFiniteSet(S)
  BY ZenonT(30) DEF Table!IsFiniteSet, IsFiniteSet
<1>3. \A S : Table!Min(S) = Min(S)
  BY ZenonT(30) DEF Table!Min, Min
<1>4. \A n : Table!Cleared(n) = Cleared(n)
  BY ZenonT(30) DEF Table!Cleared, Cleared, Table!free, free
<1>5. \A m, f : Table!primarySlot(m, f) = primarySlot(m, f)
  BY ZenonT(30) DEF Table!primarySlot, primarySlot
<1>6. \A m : Table!freeSlot(m) = freeSlot(m)
  BY <1>3, ZenonT(30) DEF Table!freeSlot, freeSlot, Table!free, free
<1>7. \A m, f : Table!Chain(m, f) = Chain(m, f)
  BY <1>5, ZenonT(30) DEF Table!Chain, Chain, Table!end, end, Table!Behind, Behind
<1>8. \A m, f : Table!Slots(m, f) = Slots(m, f)
  BY <1>7, <1>5, ZenonT(30) DEF Table!Slots, Slots, Table!free, free, Table!end, end
<1>9. \A m, f, S : Table!First(m, f, S) = First(m, f, S)
  BY <1>7, <1>3, ZenonT(30) DEF Table!First, First
<1>10. \A m, s, next, f, v : Table!Slot(m, s, next, f, v) = Slot(m, s, next, f, v)
  BY ZenonT(30) DEF Table!Slot, Slot, Table!With, With
<1>11. \A m, s, next : Table!Link(m, s, next) = Link(m, s, next)
  BY ZenonT(30) DEF Table!Link, Link, Table!With, With
<1>12. \A m, s, next, f, v : Table!Stored(m, s, next, f, v) = Stored(m, s, next, f, v)
  BY <1>10, ZenonT(30) DEF Table!Stored, Stored
<1>13. \A m, s, to : Table!Attached(m, s, to) = Attached(m, s, to)
  BY <1>11, ZenonT(30) DEF Table!Attached, Attached
<1>14. \A m, s : Table!Before(m, s) = Before(m, s)
  BY ZenonT(30) DEF Table!Before, Before
<1>15. \A m, f, v : Table!Inserted(m, f, v) = Inserted(m, f, v)
  <2> SUFFICES ASSUME NEW m, NEW f, NEW v PROVE Table!Inserted(m, f, v) = Inserted(m, f, v)
    BY ZenonT(30)
  <2> DEFINE into == primarySlot(m, f)
             to == freeSlot(m)
             Own == Stored(Attached(m, into, to), to, m.info[into], f, v)
             Moving == Stored(Slot(Attached(m, Before(m, into), to), to, m.info[into], m.key[into], m.val[into]),
                              into, end, f, v)
             i == Table!primarySlot(m, f)
             t == Table!freeSlot(m)
             OwnT == Table!Stored(Table!Attached(m, i, t), t, m.info[i], f, v)
             MovingT == Table!Stored(Table!Slot(Table!Attached(m, Table!Before(m, i), t),
                                                t, m.info[i], m.key[i], m.val[i]),
                                     i, end, f, v)
  <2>1. Inserted(m, f, v) = IF m.info[into] = free THEN Stored(m, into, end, f, v)
                            ELSE IF primarySlot(m, m.key[into]) = into THEN Own ELSE Moving
    BY ZenonT(30) DEF Inserted
  <2>2. Table!Inserted(m, f, v) = IF m.info[i] = free THEN Table!Stored(m, i, end, f, v)
                                  ELSE IF Table!primarySlot(m, m.key[i]) = i THEN OwnT ELSE MovingT
    BY ZenonT(30) DEF Table!Inserted, Table!free, free, Table!end, end
  <2>3. i = into /\ t = to /\ Table!primarySlot(m, m.key[i]) = primarySlot(m, m.key[into])
    BY <1>5, <1>6, ZenonT(30)
  <2> HIDE DEF into, to, i, t
  <2>4. Own = OwnT
    BY <1>12, <1>13, <2>3, ZenonT(30)
  <2>5. Moving = MovingT
    <3>1. Attached(m, Before(m, into), to) = Table!Attached(m, Table!Before(m, i), t)
      BY <1>13, <1>14, <2>3, ZenonT(30)
    <3> QED
      BY <1>10, <1>12, <2>3, <3>1, ZenonT(30)
  <2>6. Stored(m, into, end, f, v) = Table!Stored(m, i, end, f, v)
    BY <1>12, <2>3, ZenonT(30)
  <2> HIDE DEF Own, Moving, OwnT, MovingT
  <2> QED
    BY <2>1, <2>2, <2>3, <2>4, <2>5, <2>6, SMTT(30)
<1>16. \A m, n, l : Table!Moved(m, n, l) = Moved(m, n, l)
  <2> SUFFICES ASSUME NEW m, NEW n, NEW l PROVE Table!Moved(m, n, l) = Moved(m, n, l)
    BY ZenonT(30)
  <2> DEFINE A(t, i) == IF i = 0 THEN Table!Cleared(n)
                        ELSE IF m.info[i - 1] = free THEN t[i - 1]
                        ELSE Table!Inserted(t[i - 1], m.key[i - 1], m.val[i - 1])
             B(t, i) == IF i = 0 THEN Cleared(n)
                        ELSE IF m.info[i - 1] = free THEN t[i - 1]
                        ELSE Inserted(t[i - 1], m.key[i - 1], m.val[i - 1])
  <2>1. Table!Moved(m, n, l) = (CHOOSE t : t = [i \in 0 .. l |-> A(t, i)])[l]
    BY ZenonT(30) DEF Table!Moved, Table!free, free
  <2>2. Moved(m, n, l) = (CHOOSE t : t = [i \in 0 .. l |-> B(t, i)])[l]
    BY ZenonT(30) DEF Moved
  <2>3. \A t, i : A(t, i) = B(t, i)
    BY <1>4, <1>15, ZenonT(30)
  <2> HIDE DEF A, B
  <2> QED
    BY <2>1, <2>2, <2>3, ZenonT(30)
<1>17. \A m : Table!grow(m) = grow(m)
  BY <1>4, <1>16, ZenonT(30) DEF Table!grow, grow, Table!rehash, rehash
<1>18. \A m : Table!shrink(m) = shrink(m)
  BY <1>16, ZenonT(30) DEF Table!shrink, shrink, Table!rehash, rehash
<1>19. \A m, f, v : Table!put(m, f, v) = put(m, f, v)
  BY <1>15, <1>17, ZenonT(30) DEF Table!put, put
<1>20. \A m, pos : Table!remove(m, pos) = remove(m, pos)
  <2> SUFFICES ASSUME NEW m, NEW pos PROVE Table!remove(m, pos) = remove(m, pos)
    BY ZenonT(30)
  <2> DEFINE next == m.info[pos]
             A == IF pos # primarySlot(m, m.key[pos]) THEN Link(Erased(m, pos), Before(m, pos), next)
                  ELSE IF next = end THEN Erased(m, pos)
                  ELSE Slot(Erased(m, next), pos, m.info[next], m.key[next], m.val[next])
             B == IF pos # Table!primarySlot(m, m.key[pos])
                    THEN Table!Link(Table!Erased(m, pos), Table!Before(m, pos), next)
                  ELSE IF next = end THEN Table!Erased(m, pos)
                  ELSE Table!Slot(Table!Erased(m, next), pos, m.info[next], m.key[next], m.val[next])
  <2>1. remove(m, pos) = shrink([A EXCEPT !.elems = @ - 1])
    BY ZenonT(30) DEF remove
  <2>2. Table!remove(m, pos) = Table!shrink([B EXCEPT !.elems = @ - 1])
    BY ZenonT(30) DEF Table!remove, Table!end, end
  <2>3. \A s : Table!Erased(m, s) = Erased(m, s)
    BY <1>10, ZenonT(30) DEF Table!Erased, Erased, Table!free, free
  <2>4. A = B
    BY <1>5, <1>10, <1>11, <1>14, <2>3
  <2> HIDE DEF A, B
  <2> QED
    BY <1>18, <2>1, <2>2, <2>4, ZenonT(30)
<1>21. \A m, f : Table!removeAll(m, f) = removeAll(m, f)
  <2> SUFFICES ASSUME NEW m, NEW f PROVE Table!removeAll(m, f) = removeAll(m, f)
    BY ZenonT(30)
  <2> DEFINE A(t, i) == IF i = 0 THEN m
                        ELSE IF Table!Slots(t[i - 1], f) = {} THEN t[i - 1]
                        ELSE Table!remove(t[i - 1], Table!find(t[i - 1], f))
             B(t, i) == IF i = 0 THEN m
                        ELSE IF Slots(t[i - 1], f) = {} THEN t[i - 1]
                        ELSE remove(t[i - 1], find(t[i - 1], f))
  <2>1. Table!removeAll(m, f) = (CHOOSE t : t = [i \in 0 .. m.elems |-> A(t, i)])[m.elems]
    BY ZenonT(30) DEF Table!removeAll
  <2>2. removeAll(m, f) = (CHOOSE t : t = [i \in 0 .. m.elems |-> B(t, i)])[m.elems]
    BY ZenonT(30) DEF removeAll
  <2>3. \A t, i : A(t, i) = B(t, i)
    BY <1>8, <1>9, <1>20, ZenonT(30) DEF Table!find, find
  <2> HIDE DEF A, B
  <2> QED
    BY <2>1, <2>2, <2>3, ZenonT(30)
<1>22. \A m : Table!Used(m) = Used(m)
  BY ZenonT(30) DEF Table!Used, Used, Table!free, free
<1>23. \A m, P : Table!Answers(m, P) => Answers(m, P)
  <2> SUFFICES ASSUME NEW m, NEW P, Table!Answers(m, P) PROVE Answers(m, P)
    BY ZenonT(30)
  <2> QED
    BY <1>1, <1>2, <1>8, <1>9, <1>22, SMTT(30) DEF Table!Answers, Answers
<1>24. Table!EmptyMap = EmptyMap
  BY ZenonT(30) DEF Table!EmptyMap, EmptyMap
<1>25. \A P, f : Table!Others(P, f) = Others(P, f)
  BY ZenonT(30) DEF Table!Others, Others
<1>26. Table!Keeps(G, V) => Keeps(G, V)
  BY <1>19, <1>20, <1>21, <1>22, <1>23, <1>24, <1>25, ZenonT(30) DEF Table!Keeps, Keeps
<1>27. \A p : Table!Later(p, V) = Later(p, V)
  <2> SUFFICES ASSUME NEW p PROVE Table!Later(p, V) = Later(p, V)
    BY ZenonT(30)
  <2> DEFINE least == CHOOSE v \in {x \in V : \A e \in p.pairs : e[2] # x} :
                         \A w \in {x \in V : \A e \in p.pairs : e[2] # x} : v <= w
             Gone(S) == {[map |-> remove(p.map, s), pairs |-> p.pairs \ {<<p.map.key[s], p.map.val[s]>>}] :
                            s \in S}
             GoneT(S) == {[map |-> Table!remove(p.map, s), pairs |-> p.pairs \ {<<p.map.key[s], p.map.val[s]>>}] :
                            s \in S}
             Cut == {[map |-> removeAll(p.map, f), pairs |-> {e \in p.pairs : e[1] # f}] : f \in DOMAIN Hash}
             CutT == {[map |-> Table!removeAll(p.map, f), pairs |-> {e \in p.pairs : e[1] # f}] : f \in DOMAIN Hash}
             More(v) == {[map |-> put(p.map, f, v), pairs |-> p.pairs \cup {<<f, v>>}] : f \in DOMAIN Hash}
             MoreT(v) == {[map |-> Table!put(p.map, f, v), pairs |-> p.pairs \cup {<<f, v>>}] : f \in DOMAIN Hash}
  <2>1. Later(p, V) = Gone(Used(p.map)) \cup Cut
                      \cup IF {v \in V : \A e \in p.pairs : e[2] # v} = {} THEN {} ELSE More(least)
    BY ZenonT(30) DEF Later
  <2>2. Table!Later(p, V) = GoneT(Table!Used(p.map)) \cup CutT
                      \cup IF {v \in V : \A e \in p.pairs : e[2] # v} = {} THEN {} ELSE MoreT(least)
    BY ZenonT(30) DEF Table!Later
  <2> HIDE DEF least
  <2>3. \A S : Gone(S) = GoneT(S)
    BY <1>20, ZenonT(30)
  <2>4. Cut = CutT
    BY <1>21, ZenonT(30)
  <2>5. \A v : More(v) = MoreT(v)
    BY <1>19, ZenonT(30)
  <2> HIDE DEF Gone, GoneT, Cut, CutT, More, MoreT
  <2> QED
    BY <1>22, <2>1, <2>2, <2>3, <2>4, <2>5, SMTT(30)
<1>28. Table!Histories(k, V) = Histories(k, V)
  <2> DEFINE A(t, i) == IF i = 0 THEN {[map |-> EmptyMap, pairs |-> {}]}
                        ELSE t[i - 1] \cup UNION {Later(p, V) : p \in t[i - 1]}
             B(t, i) == IF i = 0 THEN {[map |-> Table!EmptyMap, pairs |-> {}]}
                        ELSE t[i - 1] \cup UNION {Table!Later(p, V) : p \in t[i - 1]}
  <2>1. Histories(k, V) = (CHOOSE t : t = [i \in 0 .. k |-> A(t, i)])[k]
    BY ZenonT(30) DEF Histories
  <2>2. Table!Histories(k, V) = (CHOOSE t : t = [i \in 0 .. k |-> B(t, i)])[k]
    BY ZenonT(30) DEF Table!Histories
  <2>3. \A t, i : A(t, i) = B(t, i)
    <3>1. \A S : {Later(p, V) : p \in S} = {Table!Later(p, V) : p \in S}
      BY <1>27, ZenonT(30)
    <3> QED
      BY <1>24, <3>1, ZenonT(30)
  <2> HIDE DEF A, B
  <2> QED
    BY <2>1, <2>2, <2>3, ZenonT(30)
<1>29. Table!Agrees(k, V) => Agrees(k, V)
  <2> SUFFICES ASSUME Table!Agrees(k, V), NEW p \in Histories(k, V)
               PROVE  /\ p.map.elems = Cardinality(p.pairs)
                      /\ \A f \in DOMAIN Hash :
                            /\ Cardinality(Slots(p.map, f)) = Cardinality({e \in p.pairs : e[1] = f})
                            /\ \A s \in Slots(p.map, f) : <<f, p.map.val[s]>> \in p.pairs
                      /\ {<<p.map.key[s], p.map.val[s]>> : s \in DOMAIN p.map.key}
                            \subseteq p.pairs \cup {<<NoFd, NoValue>>}
    BY ZenonT(30) DEF Agrees
  <2>1. p \in Table!Histories(k, V)
    BY <1>28, ZenonT(30)
  <2>2. /\ p.map.elems = Table!Cardinality(p.pairs)
        /\ \A f \in DOMAIN Hash :
              /\ Table!Cardinality(Table!Slots(p.map, f))
                    = Table!Cardinality({e \in p.pairs : e[1] = f})
              /\ \A s \in Table!Slots(p.map, f) : <<f, p.map.val[s]>> \in p.pairs
        /\ {<<p.map.key[s], p.map.val[s]>> : s \in DOMAIN p.map.key}
              \subseteq p.pairs \cup {<<NoFd, NoValue>>}
    BY <2>1, ZenonT(30) DEF Table!Agrees
  <2> QED
    BY <1>1, <1>8, <2>2, ZenonT(30)
<1> QED
  BY <1>26, <1>29, ZenonT(30)

\* The maps of requests that hold a set of pairs are closed under what the
\* stream does to the table.
LEMMA KeptRequests == Keeps(Table!Kept(UThread), UThread)
<1>1. Table!Keeps(Table!Kept(UThread), UThread)
  BY Table!KeepsPairs, FdMapAssumption, SMTT(30) DEF Table!FdMapAssumption
<1> QED
  BY <1>1, SameTable, ZenonT(30)

\* There are as many requests as calls that wait.
LEMMA RowCount ==
    ASSUME NEW W, IsFiniteSet(Rows(W))
    PROVE  Cardinality(W) = Cardinality(Rows(W))
<1> DEFINE R == Rows(W)
           g == [e \in R |-> e[2]]
<1>1. \A u : <<fd, u>>[2] = u
  OBVIOUS
<1>2. \A e \in R : e[2] \in W /\ e = <<fd, e[2]>>
  BY <1>1, ZenonT(30) DEF Rows
<1>3. \A u \in W : <<fd, u>> \in R
  BY ZenonT(30) DEF Rows
<1> HIDE DEF R
<1>4. g \in [R -> W]
  BY <1>2, ZenonT(30)
<1>5. \A e, f \in R : g[e] = g[f] => e = f
  BY <1>2
<1>6. \A u \in W : \E e \in R : g[e] = u
  BY <1>1, <1>3, ZenonT(30)
<1>7. Table!IsFiniteSet(R)
  BY ZenonT(30) DEF IsFiniteSet, Table!IsFiniteSet, R
<1> HIDE DEF g
<1>8. Table!Cardinality(W) = Table!Cardinality(R)
  BY <1>4, <1>5, <1>6, <1>7, Table!OneToOne, FdMapAssumption, SMTT(30) DEF Table!FdMapAssumption
<1>9. \A S : Table!Cardinality(S) = Cardinality(S)
  BY ZenonT(30) DEF Cardinality, Table!Cardinality
<1> QED
  BY <1>8, <1>9, ZenonT(30) DEF R

(***************************************************************************)
(* The table that poll and notifyAll go through holds exactly the requests *)
(* of the UThreads that wait on the open connection, and the list of       *)
(* sleepers exactly those whose time is not over: however waits, wake-ups, *)
(* timeouts and closes follow each other, neither points at a request that *)
(* is gone from the stack of its UThread, and none is missed.              *)
(***************************************************************************)
THEOREM RequestsRegistered == Spec => []Registered
<1> DEFINE Inv == StreamInv /\ TableInv(Table!Kept(UThread))
<1>1. Init => Inv
  BY KeptRequests, StreamInit, TableInit, ZenonT(30)
<1>2. Inv /\ [Next]_vars => Inv'
  BY KeptRequests, StreamNext, TableNext, ZenonT(30)
<1>3. Inv => Registered
  BY KeptRequests, RowCount, InvRegistered, ZenonT(30)
<1> QED
  BY <1>1, <1>2, <1>3, PTL DEF Spec

\* The table of the model is a multimap after every history of its operations,
\* of any length: what the instances check of the short ones.
THEOREM TableIsMultimap == Spec => []FdMapAgrees
<1>1. FdMapAgrees
  <2>1. MaxOps \in Nat
    BY MCNetStreamAssumption, ZenonT(30)
  <2>2. 1 .. 5 \in SUBSET Nat
    OBVIOUS
  <2>3. Table!Agrees(MaxOps, 1 .. 5)
    BY <2>1, <2>2, Table!Multimap, FdMapAssumption, SMTT(30) DEF Table!FdMapAssumption
  <2> QED
    BY <2>3, SameTable, ZenonT(30) DEF FdMapAgrees
<1> QED
  BY <1>1, PTL

(***************************************************************************)
(* Programs that do not use the streams of a socket they have closed read  *)
(* the bytes of the connection, each once and in order: a timeout, a peek, *)
(* a close from another UThread or the reuse of the descriptor loses,      *)
(* repeats or mixes in none.  With UseAfterClose it fails, as              *)
(* MCNetStreamClosed.cfg shows.                                            *)
(***************************************************************************)
THEOREM BytesOfTheConnection ==
    ASSUME ~UseAfterClose
    PROVE  Spec => []OwnData
<1> DEFINE Inv == StreamInv /\ TableInv(Table!Kept(UThread)) /\ OwnData
<1>1. Init => Inv
  <2>1. Init => OwnData
    <3> SUFFICES ASSUME Init PROVE OwnData
      BY ZenonT(30)
    <3>1. rx = <<>> /\ got = <<>> /\ lookahead = <<>> /\ sent = 0
      BY ZenonT(30) DEF Init
    <3>2. <<>> \o <<>> \o <<>> = [i \in 1 .. 0 |-> i]
      OBVIOUS
    <3> QED
      BY <3>1, <3>2, ZenonT(30) DEF OwnData
  <2> QED
    BY <2>1, KeptRequests, StreamInit, TableInit, ZenonT(30)
<1>2. Inv /\ [Next]_vars => Inv'
  <2>1. TableInv(Table!Kept(UThread)) => WaitersOpen
    BY ZenonT(30) DEF TableInv
  <2> QED
    BY <2>1, KeptRequests, StreamNext, TableNext, DataNext, ZenonT(30)
<1>3. Inv => OwnData
  BY ZenonT(30)
<1> QED
  BY <1>1, <1>2, <1>3, PTL DEF Spec
============================================================================
