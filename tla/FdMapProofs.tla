----------------------------- MODULE FdMapProofs ----------------------------
(***************************************************************************)
(* FdMap is a multimap, for any hash function, any initial capacity and    *)
(* any number of elements.                                                 *)
(***************************************************************************)
EXTENDS FdMap, FiniteSetTheorems, TLAPS

----------------------------------------------------------------------------
(***************************************************************************)
(* Least elements, which stand for induction.                              *)
(***************************************************************************)

\* A set of numbers that is not empty has a least one, and Min is it.
LEMMA LeastOf ==
    ASSUME NEW S \in SUBSET Nat, S # {}
    PROVE  Min(S) \in S /\ \A y \in S : Min(S) <= y
<1> DEFINE R == OpToRel(<, Nat)
<1>1. IsWellFoundedOn(R, Nat)
  BY NatLessThanWellFounded, Zenon
<1>2. \A x, y \in Nat : <<x, y>> \in R <=> x < y
  BY Zenon DEF OpToRel
<1> HIDE DEF R
<1>3. PICK x \in S : \A y \in S : <<y, x>> \notin R
  BY <1>1, WFMin, Zenon
<1>4. ASSUME NEW y \in S PROVE x <= y
  <2>1. x \in Nat /\ y \in Nat
    BY Zenon
  <2>2. ~(y < x)
    BY <1>2, <1>3, <2>1, Zenon
  <2> QED
    BY <2>1, <2>2
<1> QED
  BY <1>4, Zenon DEF Min

\* A set that has 0, and with each number the next one, has all.
LEMMA AllOf ==
    ASSUME NEW S, 0 \in S, \A n \in Nat : n \in S => n + 1 \in S
    PROVE  Nat \subseteq S
<1> DEFINE T == Nat \ S
<1> SUFFICES ASSUME T # {} PROVE FALSE
  BY Zenon
<1>1. T \in SUBSET Nat
  BY Zenon
<1>2. Min(T) \in T /\ \A y \in T : Min(T) <= y
  BY <1>1, LeastOf, Zenon
<1>3. PICK n \in T : \A y \in T : n <= y
  BY <1>2, Zenon
<1>4. n \in Nat /\ n # 0
  BY <1>3, Zenon
<1>5. n - 1 \in Nat /\ ~(n <= n - 1) /\ (n - 1) + 1 = n
  BY <1>4
<1>6. n - 1 \in S
  BY <1>3, <1>5, Zenon
<1> QED
  BY <1>3, <1>5, <1>6, Zenon

----------------------------------------------------------------------------
(***************************************************************************)
(* Chains.  D are the slots, h[s] is the primary slot of the element in s, *)
(* and d[s] how far behind it s is in the chain.                           *)
(***************************************************************************)
Chains(D, info, h, d) ==
    /\ d \in [D -> Nat]
    /\ \A s \in D : info[s] \in D \cup {free, end}
    /\ \A s \in D : info[s] # free => h[s] \in D /\ (d[s] = 0 <=> s = h[s])
    /\ \A s \in D : info[s] \in D =>
          info[info[s]] # free /\ h[info[s]] = h[s] /\ d[info[s]] = d[s] + 1
    /\ \A s \in D : info[s] # free /\ d[s] # 0 => \E t \in D : info[t] = s
    /\ \A s, t \in D : info[s] # free /\ info[t] # free /\ h[s] = h[t] /\ d[s] = d[t] => s = t

\* The markers are not slots.
Slotted(D) == D \subseteq Nat

\* free and end are no slots, and are not each other.
LEMMA Markers ==
    ASSUME NEW D, Slotted(D)
    PROVE  free \notin D /\ end \notin D /\ free # end
  BY DEF Slotted, free, end

\* Every depth up to that of s is taken in the chain of s.
LEMMA Levels ==
    ASSUME NEW D, Slotted(D), NEW info, NEW h, NEW d, Chains(D, info, h, d),
           NEW s \in D, info[s] # free, NEW k \in 0 .. d[s]
    PROVE  \E t \in D : info[t] # free /\ h[t] = h[s] /\ d[t] = k
<1> DEFINE At(n) == \E t \in D : info[t] # free /\ h[t] = h[s] /\ d[t] = n
           S == {n \in Nat : n <= d[s] => At(d[s] - n)}
<1>1. d[s] \in Nat
  BY Zenon DEF Chains
<1>2. 0 \in S
  <2>1. d[s] - 0 = d[s]
    BY <1>1
  <2>2. At(d[s])
    BY Zenon
  <2> QED
    BY <2>1, <2>2
<1>3. ASSUME NEW n \in Nat, n \in S PROVE n + 1 \in S
  <2>0. n + 1 \in Nat
    OBVIOUS
  <2> SUFFICES ASSUME n + 1 <= d[s] PROVE At(d[s] - (n + 1))
    BY <2>0, Zenon
  <2>1. n <= d[s] /\ d[s] - n # 0 /\ d[s] - n \in Nat
    BY <1>1
  <2>2. PICK t \in D : info[t] # free /\ h[t] = h[s] /\ d[t] = d[s] - n
    BY <1>3, <2>1, Zenon
  <2>3. PICK r \in D : info[r] = t
    BY <2>1, <2>2, Zenon DEF Chains
  <2>4. h[t] = h[r] /\ d[t] = d[r] + 1 /\ d[r] \in Nat /\ info[r] # free
    <3>1. info[r] \in D
      BY <2>3, Zenon
    <3>2. info[info[r]] # free /\ h[info[r]] = h[r] /\ d[info[r]] = d[r] + 1
      BY <3>1, Zenon DEF Chains
    <3>3. free \notin D
      BY Markers, Zenon
    <3>4. d[r] \in Nat
      BY Zenon DEF Chains
    <3> QED
      BY <2>3, <3>1, <3>2, <3>3, <3>4, Zenon
  <2>5. d[r] = d[s] - (n + 1)
    BY <1>1, <2>2, <2>4
  <2> QED
    BY <2>2, <2>4, <2>5, Zenon
<1>4. Nat \subseteq S
  <2> HIDE DEF S
  <2> QED
    BY <1>2, <1>3, AllOf, Zenon
<1>5. d[s] - k \in Nat /\ d[s] - k <= d[s] /\ d[s] - (d[s] - k) = k
  BY <1>1
<1> HIDE DEF At
<1>6. At(d[s] - (d[s] - k))
  BY <1>4, <1>5, Zenon
<1> QED
  BY <1>5, <1>6, Zenon DEF At

\* A chain begins in its primary slot.
LEMMA Rooted ==
    ASSUME NEW D, Slotted(D), NEW info, NEW h, NEW d, Chains(D, info, h, d),
           NEW s \in D, info[s] # free
    PROVE  h[s] \in D /\ info[h[s]] # free /\ h[h[s]] = h[s] /\ d[h[s]] = 0
<1>1. 0 \in 0 .. d[s]
  BY DEF Chains
<1>2. PICK t \in D : info[t] # free /\ h[t] = h[s] /\ d[t] = 0
  BY <1>1, Levels
<1>3. t = h[t]
  BY <1>2, Zenon DEF Chains
<1> QED
  BY <1>2, <1>3, Zenon

\* The end of a chain, and where the elements of a chain point.
LEMMA NextInChain ==
    ASSUME NEW D, Slotted(D), NEW info, NEW h, NEW d, Chains(D, info, h, d),
           NEW s \in D, info[s] \in D
    PROVE  /\ info[s] # free /\ info[info[s]] # free /\ h[info[s]] = h[s]
           /\ d[info[s]] = d[s] + 1 /\ d[info[s]] # 0 /\ info[s] # s
<1>1. info[info[s]] # free /\ h[info[s]] = h[s] /\ d[info[s]] = d[s] + 1 /\ d[s] \in Nat
  BY Zenon DEF Chains
<1>2. d[info[s]] # 0 /\ d[info[s]] # d[s]
  BY <1>1
<1>3. free \notin D
  BY Markers, Zenon
<1> QED
  BY <1>1, <1>2, <1>3, Zenon

\* Two slots do not have the same one behind them.
LEMMA OneBefore ==
    ASSUME NEW D, Slotted(D), NEW info, NEW h, NEW d, Chains(D, info, h, d),
           NEW s \in D, NEW t \in D, info[s] \in D, info[t] = info[s]
    PROVE  s = t
<1>1. d[info[s]] = d[s] + 1 /\ h[info[s]] = h[s] /\ info[s] # free
  BY NextInChain
<1>2. d[info[t]] = d[t] + 1 /\ h[info[t]] = h[t] /\ info[t] # free
  <2>1. info[t] \in D
    BY Zenon
  <2> QED
    BY <2>1, NextInChain
<1>3. d[s] \in Nat /\ d[t] \in Nat
  BY Zenon DEF Chains
<1>4. d[s] + 1 = d[t] + 1 /\ h[s] = h[t]
  BY <1>1, <1>2, Zenon
<1>5. d[s] = d[t]
  BY <1>3, <1>4
<1> QED
  BY <1>1, <1>2, <1>4, <1>5, Zenon DEF Chains

\* The free slot a becomes a chain of its own.
IsNew(D, info, h, a, I, H) ==
    /\ a \in D /\ info[a] = free /\ I[a] = end /\ H[a] = a
    /\ \A s \in D : s # a => I[s] = info[s] /\ H[s] = h[s]

\* The element of a moves to b, behind p as before, and a is free.
IsMove(D, info, h, a, b, p, I, H) ==
    /\ a \in D /\ b \in D /\ p \in D /\ info[a] # free /\ h[a] # a
    /\ info[b] = free /\ info[p] = a
    /\ I[p] = b /\ I[b] = info[a] /\ I[a] = free
    /\ \A s \in D : s # a /\ s # b /\ s # p => I[s] = info[s]
    /\ H[b] = h[a] /\ \A s \in D : s # b /\ s # a => H[s] = h[s]

\* The chain closes around a, which was behind p.
IsUnlink(D, info, h, a, p, I, H) ==
    /\ a \in D /\ p \in D /\ info[a] # free /\ h[a] # a /\ info[p] = a
    /\ I[p] = info[a] /\ I[a] = free
    /\ \A s \in D : s # a /\ s # p => I[s] = info[s]
    /\ \A s \in D : s # a => H[s] = h[s]

----------------------------------------------------------------------------
(***************************************************************************)
(* A table of n slots for values of V, and what it holds.                  *)
(***************************************************************************)
Tables(n, V) ==
    [size : {n}, elems : Nat, lastFree : 0 .. n - 1,
     info : [0 .. n - 1 -> (0 .. n - 1) \cup {free, end}],
     key : [0 .. n - 1 -> DOMAIN Hash \cup {NoFd}],
     val : [0 .. n - 1 -> V \cup {NoValue}]]

\* The primary slot of the element in each slot, and the element.
Home(m) == [s \in DOMAIN m.info |-> primarySlot(m, m.key[s])]
Held(m) == [s \in DOMAIN m.info |-> <<m.key[s], m.val[s]>>]

Pairs(m) == {Held(m)[s] : s \in Used(m)}

\* The elements are in chains, each once, and the other slots are blank, so that
\* poll does not see them.
Sound(m, n, V) ==
    /\ n \in Nat \ {0} /\ m \in Tables(n, V)
    /\ \E d : Chains(0 .. n - 1, m.info, Home(m), d)
    /\ \A s \in 0 .. n - 1 : IF m.info[s] = free
                             THEN m.key[s] = NoFd /\ m.val[s] = NoValue
                             ELSE m.key[s] \in DOMAIN Hash /\ m.val[s] \in V
    /\ \A s, t \in Used(m) : Held(m)[s] = Held(m)[t] => s = t
    /\ m.elems = Cardinality(Used(m))

\* The map holds the pairs P.
Holds(m, P, V) ==
    \/ m = EmptyMap /\ P = {}
    \/ Sound(m, m.size, V) /\ P = Pairs(m)

\* The members of a table.
LEMMA Members ==
    ASSUME NEW n, NEW V, NEW m \in Tables(n, V)
    PROVE  /\ m.size = n /\ m.elems \in Nat /\ m.lastFree \in 0 .. n - 1
           /\ m.info \in [0 .. n - 1 -> (0 .. n - 1) \cup {free, end}]
           /\ m.key \in [0 .. n - 1 -> DOMAIN Hash \cup {NoFd}]
           /\ m.val \in [0 .. n - 1 -> V \cup {NoValue}]
           /\ DOMAIN m.info = 0 .. n - 1
  BY Zenon DEF Tables

\* The slots in use are those of the table that are not free.
LEMMA InUse ==
    ASSUME NEW n, NEW V, NEW m \in Tables(n, V)
    PROVE  Used(m) = {s \in 0 .. n - 1 : m.info[s] # free}
  BY Members, Zenon DEF Used

\* The same, of one slot.
LEMMA IsUsed ==
    ASSUME NEW n, NEW V, NEW m \in Tables(n, V), NEW s
    PROVE  s \in Used(m) <=> s \in 0 .. n - 1 /\ m.info[s] # free
  BY Members, Zenon DEF Used

\* The element in a slot.
LEMMA HeldAt ==
    ASSUME NEW n, NEW V, NEW m \in Tables(n, V), NEW s \in 0 .. n - 1
    PROVE  Held(m)[s] = <<m.key[s], m.val[s]>>
  BY Members, Zenon DEF Held

\* The primary slot of the element in a slot.
LEMMA HomeAt ==
    ASSUME NEW n, NEW V, NEW m \in Tables(n, V), NEW s \in 0 .. n - 1
    PROVE  Home(m)[s] = Hash[m.key[s]] % n
  BY Members, Zenon DEF Home, primarySlot

\* Where a hash value leads.
LEMMA InTable ==
    ASSUME NEW n \in Nat \ {0}, NEW f \in DOMAIN Hash
    PROVE  Hash[f] % n \in 0 .. n - 1
<1>1. Hash[f] \in Nat
  BY FdMapAssumption, Zenon
<1> QED
  BY <1>1

\* Only so many slots can be used.
LEMMA CountUsed ==
    ASSUME NEW n, NEW V, NEW m, Sound(m, n, V)
    PROVE  /\ IsFiniteSet(Used(m)) /\ Cardinality(Used(m)) \in Nat
           /\ Cardinality(Used(m)) <= n
           /\ Cardinality(Used(m)) # n => \E s \in 0 .. n - 1 : m.info[s] = free
<1>0. n \in Nat /\ m \in Tables(n, V)
  BY Zenon DEF Sound
<1>1. Used(m) = {s \in 0 .. n - 1 : m.info[s] # free}
  BY <1>0, InUse, Zenon
<1>2. IsFiniteSet(0 .. n - 1) /\ Cardinality(0 .. n - 1) = n
  BY <1>0, FS_Interval
<1>3. Used(m) \in SUBSET (0 .. n - 1)
  BY <1>1, Zenon
<1>4. IsFiniteSet(Used(m)) /\ Cardinality(Used(m)) <= n
  BY <1>2, <1>3, FS_Subset, ZenonT(30)
<1>5. Cardinality(Used(m)) \in Nat
  BY <1>4, FS_CardinalityType, Zenon
<1>6. ASSUME Cardinality(Used(m)) # n PROVE \E s \in 0 .. n - 1 : m.info[s] = free
  <2>1. Used(m) # 0 .. n - 1
    BY <1>2, <1>6, Zenon
  <2> QED
    BY <1>1, <2>1, Zenon
<1> QED
  BY <1>4, <1>5, <1>6, Zenon

----------------------------------------------------------------------------
(***************************************************************************)
(* The walk along a chain.                                                 *)
(***************************************************************************)

\* The walk of find and next meets used slots only, and all that hold f.
\* No other slots are met.
\* Every slot that holds f is met, at its depth.
LEMMA SlotsFound ==
    \A n, V, m : Sound(m, n, V) =>
        \A f \in DOMAIN Hash : Slots(m, f) = {s \in Used(m) : m.key[s] = f}
\* A chain is no longer than the table.
<1>DepthBound.
    ASSUME NEW D, Slotted(D), IsFiniteSet(D),
           NEW info, NEW h, NEW d, Chains(D, info, h, d), NEW s \in D, info[s] # free
    PROVE  d[s] \in Nat /\ d[s] + 1 <= Cardinality(D)
  <2> USE <1>DepthBound
  <2> DEFINE T == 0 .. d[s]
             f == [k \in T |-> CHOOSE t \in D : d[t] = k]
  <2>0. d[s] \in Nat
    BY Zenon DEF Chains
  <2>1. ASSUME NEW k \in T PROVE \E t \in D : d[t] = k
    <3>1. k \in 0 .. d[s]
      BY Zenon
    <3>2. \E t \in D : info[t] # free /\ h[t] = h[s] /\ d[t] = k
      BY <3>1, Levels
    <3> QED
      BY <3>2, Zenon
  <2>2. ASSUME NEW k \in T PROVE f[k] \in D /\ d[f[k]] = k
    BY <2>1, Zenon
  <2>3. Cardinality(T) = d[s] + 1
    <3>1. ASSUME NEW q \in Nat PROVE Cardinality(0 .. q) = q + 1
      <4>1. 0 \in Int /\ q \in Int /\ ~(0 > q) /\ q - 0 + 1 = q + 1
        OBVIOUS
      <4>2. Cardinality(0 .. q) = IF 0 > q THEN 0 ELSE q - 0 + 1
        BY <4>1, FS_Interval, Zenon
      <4> QED
        BY <4>1, <4>2, Zenon
    <3> QED
      BY <2>0, <3>1, Zenon
  <2>4. f \in [T -> D]
    BY <2>2, Zenon
  <2>5. IsInjective(f)
    <3>1. DOMAIN f = T
      BY Zenon
    <3> HIDE DEF f, T
    <3> QED
      BY <2>2, <3>1, Zenon DEF IsInjective
  <2>6. f \in Injection(T, D)
    <3> HIDE DEF f, T
    <3> QED
      BY <2>4, <2>5, Zenon DEF Injection
  <2>7. Cardinality(T) <= Cardinality(D)
    <3> HIDE DEF f, T
    <3> QED
      BY <2>6, FS_Injection, Zenon
  <2> QED
    BY <2>0, <2>3, <2>7, Zenon

\* The walk from the primary slot along the chain gets to s, at its depth.
<1>WalkReaches.
    ASSUME NEW D, Slotted(D), NEW info, NEW h, NEW d, Chains(D, info, h, d),
           NEW s \in D, info[s] # free, NEW at, at[0] = h[s],
           \A k \in 0 .. d[s] : k # 0 /\ at[k - 1] # end => at[k] = info[at[k - 1]]
    PROVE  at[d[s]] = s
  <2> USE <1>WalkReaches
  <2> DEFINE S == {q \in Nat : q <= d[s] =>
                       at[q] \in D /\ info[at[q]] # free /\ h[at[q]] = h[s] /\ d[at[q]] = q}
  <2>0. d[s] \in Nat
    BY Zenon DEF Chains
  <2>1. h[s] \in D /\ info[h[s]] # free /\ h[h[s]] = h[s] /\ d[h[s]] = 0
    BY Rooted
  <2>2. free \notin D /\ end \notin D /\ free # end
    BY Markers, Zenon
  <2>3. 0 \in S
    BY <2>1, Zenon
  <2>4. ASSUME NEW q \in Nat, q \in S PROVE q + 1 \in S
    <3>0. q + 1 \in Nat /\ q + 1 # 0 /\ (q + 1) - 1 = q
      OBVIOUS
    <3> SUFFICES ASSUME q + 1 <= d[s]
                 PROVE  /\ at[q + 1] \in D /\ info[at[q + 1]] # free
                        /\ h[at[q + 1]] = h[s] /\ d[at[q + 1]] = q + 1
      BY <3>0, Zenon
    <3>1. q <= d[s] /\ q + 1 \in 0 .. d[s]
      BY <2>0
    <3>2. at[q] \in D /\ info[at[q]] # free /\ h[at[q]] = h[s] /\ d[at[q]] = q
      BY <2>4, <3>1, Zenon
    <3>3. PICK t \in D : info[t] # free /\ h[t] = h[s] /\ d[t] = q + 1
      BY <3>1, Levels
    <3>4. PICK r \in D : info[r] = t
      BY <3>0, <3>3, Zenon DEF Chains
    <3>5. info[r] \in D /\ info[r] # free
      BY <2>2, <3>4, Zenon
    <3>6. h[info[r]] = h[r] /\ d[info[r]] = d[r] + 1 /\ d[r] \in Nat
      BY <3>5, Zenon DEF Chains
    <3>7. d[r] + 1 = q + 1 /\ h[r] = h[s]
      BY <3>3, <3>4, <3>6, Zenon
    <3>8. d[r] = q
      BY <3>6, <3>7
    <3>9. h[r] = h[at[q]] /\ d[r] = d[at[q]]
      BY <3>2, <3>7, <3>8, Zenon
    <3>10. r = at[q]
      BY <3>2, <3>5, <3>9, Zenon DEF Chains
    <3>11. at[q + 1] = info[at[q]]
      BY <2>2, <3>0, <3>1, <3>2, Zenon
    <3>12. at[q + 1] = t
      BY <3>4, <3>10, <3>11, Zenon
    <3> QED
      BY <3>3, <3>12, Zenon
  <2>5. Nat \subseteq S
    <3> HIDE DEF S
    <3> QED
      BY <2>3, <2>4, AllOf, Zenon
  <2>6. d[s] <= d[s]
    BY <2>0
  <2>7. at[d[s]] \in D /\ info[at[d[s]]] # free /\ h[at[d[s]]] = h[s] /\ d[at[d[s]]] = d[s]
    BY <2>0, <2>5, <2>6, Zenon
  <2> QED
    BY <2>7, Zenon DEF Chains

\* Chain is what its definition says: each slot is the one behind the last.
<1>ChainSteps.
    ASSUME NEW m, NEW f, NEW n \in Nat \ {0}, m.size = n
    PROVE  /\ Chain(m, f)[0] = primarySlot(m, f)
           /\ \A k \in 0 .. n - 1 : k # 0 => Chain(m, f)[k] = Behind(m, Chain(m, f)[k - 1])
  <2> USE <1>ChainSteps
  <2> DEFINE Walk(g, q) ==
                 g = [k \in 0 .. q |-> IF k = 0 THEN primarySlot(m, f) ELSE Behind(m, g[k - 1])]
             S == {q \in Nat : \E g : Walk(g, q)}
  <2>1. 0 \in S
    <3> DEFINE g == [k \in 0 .. 0 |-> primarySlot(m, f)]
    <3>1. \A k \in 0 .. 0 : k = 0
      OBVIOUS
    <3>2. Walk(g, 0)
      BY <3>1, Zenon
    <3> QED
      BY <3>2, Zenon
  <2>2. ASSUME NEW q \in Nat, q \in S PROVE q + 1 \in S
    <3>0. q + 1 \in Nat
      OBVIOUS
    <3>1. PICK g : Walk(g, q)
      BY <2>2, Zenon
    <3> DEFINE e == [k \in 0 .. q + 1 |-> IF k = q + 1 THEN Behind(m, g[q]) ELSE g[k]]
    <3>2. ASSUME NEW k \in 0 .. q + 1
          PROVE  e[k] = IF k = 0 THEN primarySlot(m, f) ELSE Behind(m, e[k - 1])
      <4>1. CASE k = q + 1
        <5>1. k # 0 /\ k - 1 = q /\ q \in 0 .. q + 1 /\ q # q + 1
          BY <4>1
        <5> QED
          BY <4>1, <5>1, Zenon
      <4>2. CASE k # q + 1
        <5>1. k \in 0 .. q /\ (k # 0 => k - 1 \in 0 .. q + 1 /\ k - 1 # q + 1)
          BY <4>2
        <5>2. g[k] = IF k = 0 THEN primarySlot(m, f) ELSE Behind(m, g[k - 1])
          BY <3>1, <5>1, Zenon
        <5> QED
          BY <4>2, <5>1, <5>2, Zenon
      <4> QED
        BY <4>1, <4>2, Zenon
    <3>3. e = [k \in 0 .. q + 1 |-> e[k]]
      BY Zenon
    <3> HIDE DEF e
    <3>4. Walk(e, q + 1)
      BY <3>2, <3>3, Zenon
    <3> HIDE DEF Walk
    <3> QED
      BY <3>0, <3>4, Zenon
  <2>3. Nat \subseteq S
    <3> HIDE DEF S
    <3> QED
      BY <2>1, <2>2, AllOf, Zenon
  <2>4. n - 1 \in Nat /\ 0 \in 0 .. n - 1
    OBVIOUS
  <2>5. PICK g : Walk(g, n - 1)
    BY <2>3, <2>4, Zenon
  <2>6. Walk(Chain(m, f), n - 1)
    BY <2>5, Zenon DEF Chain
  <2> QED
    BY <2>4, <2>6, Zenon

<1>Found.
    ASSUME NEW n, NEW V, NEW m, Sound(m, n, V), NEW f \in DOMAIN Hash
    PROVE  Slots(m, f) = {s \in Used(m) : m.key[s] = f}
  <2> USE <1>Found
  <2> DEFINE a == primarySlot(m, f)
             at == Chain(m, f)
             D == 0 .. n - 1
  <2>0. /\ n \in Nat \ {0} /\ m \in Tables(n, V)
        /\ \E d : Chains(D, m.info, Home(m), d)
    BY Zenon DEF Sound
  <2>1. PICK d : Chains(D, m.info, Home(m), d)
    BY <2>0, Zenon
  <2>2. m.size = n /\ n # 0 /\ Slotted(D) /\ IsFiniteSet(D) /\ Cardinality(D) = n
    <3>1. m.size = n
      BY <2>0, Members, Zenon
    <3>2. n # 0 /\ D \subseteq Nat
      BY <2>0
    <3>3. IsFiniteSet(D) /\ Cardinality(D) = n
      BY <2>0, FS_Interval
    <3> QED
      BY <3>1, <3>2, <3>3, Zenon DEF Slotted
  <2>3. a \in D
    BY <2>0, <2>2, InTable, Zenon DEF primarySlot
  <2>4. /\ at[0] = a
        /\ \A k \in D : k # 0 => at[k] = Behind(m, at[k - 1])
    <3>1. n \in Nat \ {0} /\ m.size = n
      BY <2>0, <2>2, Zenon
    <3>2. /\ Chain(m, f)[0] = primarySlot(m, f)
          /\ \A k \in 0 .. n - 1 : k # 0 => Chain(m, f)[k] = Behind(m, Chain(m, f)[k - 1])
      BY <3>1, <1>ChainSteps, Zenon
    <3> QED
      BY <3>2, Zenon
  <2>5. Used(m) = {s \in D : m.info[s] # free}
    <3>0. m \in Tables(n, V)
      BY <2>0, Zenon
    <3>1. Used(m) = {s \in 0 .. n - 1 : m.info[s] # free}
      BY <3>0, InUse, Zenon
    <3> QED
      BY <3>1, Zenon
  <2>6. free \notin D /\ end \notin D /\ free # end
    BY <2>2, Markers, Zenon
  <2> HIDE DEF at
  <2>7. ASSUME m.info[a] # free, NEW k \in D PROVE at[k] \in Used(m) \cup {end}
    <3> DEFINE S == {q \in Nat : q \in D => at[q] \in Used(m) \cup {end}}
    <3>1. 0 \in S
      BY <2>3, <2>4, <2>5, <2>7, Zenon
    <3>2. ASSUME NEW q \in Nat, q \in S PROVE q + 1 \in S
      <4>0. q + 1 \in Nat /\ q + 1 # 0 /\ (q + 1) - 1 = q /\ (q + 1 \in D => q \in D)
        BY <2>0
      <4> SUFFICES ASSUME q + 1 \in D PROVE at[q + 1] \in Used(m) \cup {end}
        BY <4>0, Zenon
      <4>1. at[q] \in Used(m) \cup {end} /\ at[q + 1] = Behind(m, at[q])
        BY <2>4, <3>2, <4>0, Zenon
      <4>2. CASE at[q] = end
        BY <4>1, <4>2, Zenon DEF Behind
      <4>3. CASE at[q] # end
        <5>1. at[q] \in D /\ m.info[at[q]] # free /\ at[q + 1] = m.info[at[q]]
          BY <2>5, <4>1, <4>3, Zenon DEF Behind
        <5>2. m.info[at[q]] \in D \cup {free, end}
          BY <2>1, <5>1, Zenon DEF Chains
        <5>3. CASE m.info[at[q]] \in D
          <6>1. m.info[m.info[at[q]]] # free
            BY <2>1, <5>1, <5>3, Zenon DEF Chains
          <6> QED
            BY <2>5, <5>1, <5>3, <6>1, Zenon
        <5> QED
          BY <5>1, <5>2, <5>3, Zenon
      <4> QED
        BY <4>2, <4>3, Zenon
    <3>3. Nat \subseteq S
      <4> HIDE DEF S
      <4> QED
        BY <3>1, <3>2, AllOf, Zenon
    <3>4. k \in Nat
      BY <2>0
    <3> QED
      BY <3>3, <3>4, Zenon
  <2>8. ASSUME NEW s \in D, m.info[s] # free, m.key[s] = f
        PROVE  m.info[a] # free /\ \E k \in D : at[k] = s
    <3>1. Home(m)[s] = a
      BY <2>0, <2>2, <2>8, HomeAt, Zenon DEF primarySlot
    <3> DEFINE info == m.info
               h == Home(m)
    <3>0. Chains(D, info, h, d) /\ s \in D /\ info[s] # free /\ Slotted(D) /\ IsFiniteSet(D)
      BY <2>1, <2>2, <2>8, Zenon
    <3> HIDE DEF info, h, D
    <3>2. info[h[s]] # free
      BY <3>0, Rooted
    <3>3. m.info[a] # free
      BY <3>1, <3>2, Zenon DEF info, h
    <3>4. d[s] \in Nat /\ d[s] + 1 <= Cardinality(D)
      BY <3>0, <1>DepthBound
    <3>5. 0 .. d[s] \subseteq D /\ d[s] \in D
      BY <2>0, <2>2, <3>4 DEF D
    <3>6. \A k \in 0 .. d[s] : k # 0 /\ at[k - 1] # end => at[k] = info[at[k - 1]]
      BY <2>4, <3>5, Zenon DEF Behind, info
    <3>7. at[0] = h[s]
      BY <2>4, <3>1, Zenon DEF h
    <3>8. at[d[s]] = s
      BY <3>0, <3>6, <3>7, <1>WalkReaches
    <3> QED
      BY <3>3, <3>5, <3>8, Zenon
  <2>9. Slots(m, f) = IF m.info[a] = free THEN {}
                      ELSE {s \in {at[k] : k \in D} : s # end /\ m.key[s] = f}
    BY <2>2, Zenon DEF Slots, at
  <2> HIDE DEF a
  <2>10. CASE m.info[a] = free
    BY <2>5, <2>8, <2>9, <2>10, Zenon
  <2>11. CASE m.info[a] # free
    <3>1. ASSUME NEW s, s \in Slots(m, f) PROVE s \in Used(m) /\ m.key[s] = f
      <4>1. s \in {at[k] : k \in D} /\ s # end /\ m.key[s] = f
        BY <2>9, <2>11, <3>1, Zenon
      <4> QED
        BY <2>7, <2>11, <4>1, Zenon
    <3>2. ASSUME NEW s \in Used(m), m.key[s] = f PROVE s \in Slots(m, f)
      <4>1. s \in D /\ m.info[s] # free /\ s # end
        BY <2>5, <2>6, Zenon
      <4>2. \E k \in D : at[k] = s
        BY <2>8, <3>2, <4>1, Zenon
      <4> QED
        BY <2>9, <2>11, <3>2, <4>1, <4>2, Zenon
    <3> QED
      BY <3>1, <3>2, Zenon
  <2> QED
    BY <2>10, <2>11, Zenon
<1> QED
  BY <1>Found

\* First finds what there is.
LEMMA FirstFound ==
    ASSUME NEW n, NEW V, NEW m, Sound(m, n, V), NEW f, NEW S \in SUBSET Slots(m, f), S # {}
    PROVE  First(m, f, S) \in S
<1> DEFINE K == {k \in 0 .. m.size - 1 : Chain(m, f)[k] \in S}
<1>1. K \in SUBSET Nat
  OBVIOUS
<1>2. K # {}
  <2>1. PICK s \in S : s \in Slots(m, f)
    BY Zenon
  <2>2. s \in {Chain(m, f)[k] : k \in 0 .. m.size - 1}
    BY <2>1, Zenon DEF Slots
  <2> QED
    BY <2>2, Zenon
<1>3. Min(K) \in K
  <2> HIDE DEF K
  <2> QED
    BY <1>1, <1>2, LeastOf, Zenon
<1> QED
  BY <1>3, Zenon DEF First

----------------------------------------------------------------------------
(***************************************************************************)
(* What is held.  The used slots and what they hold become others, all     *)
(* different: one more, one elsewhere, one less, or one less with another  *)
(* in its place.                                                           *)
(***************************************************************************)
----------------------------------------------------------------------------
(***************************************************************************)
(* The same for a table: w is m after an operation that left its chains in *)
(* order.                                                                  *)
(***************************************************************************)
Alike(m, w, s) ==
    (w.info[s] = free <=> m.info[s] = free) /\ w.key[s] = m.key[s] /\ w.val[s] = m.val[s]

Chained(w, n) == \E d : Chains(0 .. n - 1, w.info, Home(w), d)

----------------------------------------------------------------------------
(***************************************************************************)
(* Writing to a table.                                                     *)
(***************************************************************************)
\* w is m, but for slot s.
Written(m, w, n, s, next, f, v) ==
    /\ w.info[s] = next /\ w.key[s] = f /\ w.val[s] = v
    /\ \A t \in 0 .. n - 1 : t # s =>
          w.info[t] = m.info[t] /\ w.key[t] = m.key[t] /\ w.val[t] = m.val[t]

\* w is m, but for where slot s leads.
Linked(m, w, n, s, next) ==
    /\ w.info[s] = next /\ w.key = m.key /\ w.val = m.val
    /\ \A t \in 0 .. n - 1 : t # s => w.info[t] = m.info[t]

\* What a slot may hold.
Fits(n, V, s, next, f, v) ==
    /\ s \in 0 .. n - 1 /\ next \in (0 .. n - 1) \cup {free, end}
    /\ f \in DOMAIN Hash \cup {NoFd} /\ v \in V \cup {NoValue}

\* A record with new members.
LEMMA Remade ==
    ASSUME NEW n, NEW V, NEW m \in Tables(n, V), NEW e \in Nat, NEW l \in 0 .. n - 1,
           NEW I \in [0 .. n - 1 -> (0 .. n - 1) \cup {free, end}],
           NEW K \in [0 .. n - 1 -> DOMAIN Hash \cup {NoFd}],
           NEW W \in [0 .. n - 1 -> V \cup {NoValue}],
           NEW w, w = [size |-> n, elems |-> e, lastFree |-> l,
                       info |-> I, key |-> K, val |-> W]
    PROVE  /\ w \in Tables(n, V)
           /\ w.elems = e /\ w.lastFree = l /\ w.info = I /\ w.key = K /\ w.val = W
  BY Zenon DEF Tables

\* What Slot leaves of the members of a map.
LEMMA SlotRecord ==
    ASSUME NEW n, NEW V, NEW m \in Tables(n, V), NEW s, NEW next, NEW f, NEW v
    PROVE  Slot(m, s, next, f, v) =
               [size |-> n, elems |-> m.elems, lastFree |-> m.lastFree,
                info |-> With(m.info, s, next), key |-> With(m.key, s, f),
                val |-> With(m.val, s, v)]
<1>1. Slot(m, s, next, f, v) =
          [[[m EXCEPT !.info = With(@, s, next)] EXCEPT !.key = With(@, s, f)]
              EXCEPT !.val = With(@, s, v)]
  BY SMT DEF Tables, Slot
<1> DEFINE a == [m EXCEPT !.info = With(@, s, next)]
           b == [a EXCEPT !.key = With(@, s, f)]
<1>2. a = [size |-> n, elems |-> m.elems, lastFree |-> m.lastFree,
           info |-> With(m.info, s, next), key |-> m.key, val |-> m.val]
  BY SMT DEF Tables
<1>3. Slot(m, s, next, f, v) = [b EXCEPT !.val = With(@, s, v)]
  BY <1>1, Zenon
<1> HIDE DEF a
<1>4. b = [size |-> n, elems |-> m.elems, lastFree |-> m.lastFree,
           info |-> With(m.info, s, next), key |-> With(m.key, s, f), val |-> m.val]
  BY <1>2, SMT
<1> HIDE DEF b
<1> QED
  BY <1>3, <1>4, SMT

\* What Link leaves of the members of a map.
LEMMA LinkRecord ==
    ASSUME NEW n, NEW V, NEW m \in Tables(n, V), NEW s, NEW next
    PROVE  Link(m, s, next) =
               [size |-> n, elems |-> m.elems, lastFree |-> m.lastFree,
                info |-> With(m.info, s, next), key |-> m.key, val |-> m.val]
  BY SMT DEF Tables, Link

\* Slot writes one slot and no other.
LEMMA SlotWrites ==
    ASSUME NEW n, NEW V, NEW m \in Tables(n, V), NEW s, NEW next, NEW f, NEW v,
           Fits(n, V, s, next, f, v)
    PROVE  /\ Slot(m, s, next, f, v) \in Tables(n, V)
           /\ Slot(m, s, next, f, v).elems = m.elems
           /\ Written(m, Slot(m, s, next, f, v), n, s, next, f, v)
<1>0. /\ s \in 0 .. n - 1 /\ next \in (0 .. n - 1) \cup {free, end}
      /\ f \in DOMAIN Hash \cup {NoFd} /\ v \in V \cup {NoValue}
  BY Zenon DEF Fits
<1>1. /\ m.elems \in Nat /\ m.lastFree \in 0 .. n - 1
      /\ m.info \in [0 .. n - 1 -> (0 .. n - 1) \cup {free, end}]
      /\ m.key \in [0 .. n - 1 -> DOMAIN Hash \cup {NoFd}]
      /\ m.val \in [0 .. n - 1 -> V \cup {NoValue}]
  BY Members, Zenon
<1> DEFINE w == Slot(m, s, next, f, v)
           I == With(m.info, s, next)
           K == With(m.key, s, f)
           W == With(m.val, s, v)
<1>2. /\ I \in [0 .. n - 1 -> (0 .. n - 1) \cup {free, end}] /\ I[s] = next
      /\ \A t \in 0 .. n - 1 : t # s => I[t] = m.info[t]
  BY <1>0, <1>1, Zenon DEF With
<1>3. /\ K \in [0 .. n - 1 -> DOMAIN Hash \cup {NoFd}] /\ K[s] = f
      /\ \A t \in 0 .. n - 1 : t # s => K[t] = m.key[t]
  BY <1>0, <1>1, Zenon DEF With
<1>4. /\ W \in [0 .. n - 1 -> V \cup {NoValue}] /\ W[s] = v
      /\ \A t \in 0 .. n - 1 : t # s => W[t] = m.val[t]
  BY <1>0, <1>1, Zenon DEF With
<1>5. w = [size |-> n, elems |-> m.elems, lastFree |-> m.lastFree,
           info |-> I, key |-> K, val |-> W]
  BY SlotRecord
<1> HIDE DEF I, K, W, w
<1>6. /\ w \in Tables(n, V) /\ w.elems = m.elems
      /\ w.info = I /\ w.key = K /\ w.val = W
  BY <1>1, <1>2, <1>3, <1>4, <1>5, Remade
<1>7. Written(m, w, n, s, next, f, v)
  BY <1>2, <1>3, <1>4, <1>6, Zenon DEF Written
<1> QED
  BY <1>6, <1>7, Zenon DEF w

Leads(n, s, next) == s \in 0 .. n - 1 /\ next \in (0 .. n - 1) \cup {free, end}

----------------------------------------------------------------------------
(***************************************************************************)
(* put, in a table with a free slot.                                       *)
(***************************************************************************)

\* The walk of put to the element before one that makes way.
LEMMA BeforeFound ==
    ASSUME NEW n, NEW V, NEW m, Sound(m, n, V), NEW a \in 0 .. n - 1, m.info[a] # free,
           Home(m)[a] # a
    PROVE  Before(m, a) \in 0 .. n - 1 /\ m.info[Before(m, a)] = a
<1>1. m.size = n
  BY Members, Zenon DEF Sound
<1>2. PICK d : Chains(0 .. n - 1, m.info, Home(m), d)
  BY Zenon DEF Sound
<1>3. d[a] # 0
  BY <1>2, Zenon DEF Chains
<1>4. \E p \in 0 .. n - 1 : m.info[p] = a
  BY <1>2, <1>3, Zenon DEF Chains
<1> QED
  BY <1>1, <1>4, Zenon DEF Before

\* put, in a table with a free slot, adds the pair and nothing else.
LEMMA InsertedHolds ==
    \A n, V, m : Sound(m, n, V) /\ m.elems # n =>
        \A f \in DOMAIN Hash, v \in V : <<f, v>> \notin Pairs(m) =>
            /\ Sound(Inserted(m, f, v), n, V)
            /\ Pairs(Inserted(m, f, v)) = Pairs(m) \cup {<<f, v>>}
            /\ Inserted(m, f, v).elems = m.elems + 1
\* put, into a free primary slot: a chain of its own.
<1>NewChain.
    ASSUME NEW D, Slotted(D), NEW info, NEW h, NEW d, Chains(D, info, h, d),
           NEW a \in D, info[a] = free,
           NEW I, I[a] = end, \A s \in D : s # a => I[s] = info[s],
           NEW H, H[a] = a, \A s \in D : s # a => H[s] = h[s]
    PROVE  \E E : Chains(D, I, H, E)
  <2> USE <1>NewChain
  <2> DEFINE E == [s \in D |-> IF s = a THEN 0 ELSE d[s]]
  <2>1. \A s \in D : d[s] \in Nat
    BY DEF Chains
  <2>2. /\ I[a] = end /\ H[a] = a /\ E[a] = 0
        /\ \A s \in D : s # a => I[s] = info[s] /\ H[s] = h[s] /\ E[s] = d[s]
    BY Zenon
  <2>3. E \in [D -> Nat]
    BY <2>1
  <2>4. free \notin D /\ end \notin D /\ free # end
    BY Markers, Zenon
  <2> HIDE DEF E
  <2>5. ASSUME NEW s \in D PROVE I[s] \in D \cup {free, end}
    BY <2>2, Zenon DEF Chains
  <2>6. ASSUME NEW s \in D, I[s] # free PROVE H[s] \in D /\ (E[s] = 0 <=> s = H[s])
    <3>1. CASE s = a
      BY <2>2, <3>1, Zenon
    <3>2. CASE s # a
      <4>1. info[s] # free /\ H[s] = h[s] /\ E[s] = d[s]
        BY <2>2, <2>6, <3>2, Zenon
      <4>2. h[s] \in D /\ (d[s] = 0 <=> s = h[s])
        BY <4>1, Zenon DEF Chains
      <4> QED
        BY <4>1, <4>2, Zenon
    <3> QED
      BY <3>1, <3>2, Zenon
\* Nobody pointed at a, and nobody had it as primary slot.
  <2>7. \A s \in D : info[s] \in D => info[s] # a
    BY NextInChain
  <2>8. \A s \in D : info[s] # free => h[s] # a
    BY Rooted
  <2>9. ASSUME NEW s \in D, I[s] \in D
        PROVE  I[I[s]] # free /\ H[I[s]] = H[s] /\ E[I[s]] = E[s] + 1
    <3>1. s # a
      BY <2>2, <2>4, <2>9, Zenon
    <3>2. I[s] = info[s] /\ H[s] = h[s] /\ E[s] = d[s]
      BY <2>2, <3>1, Zenon
    <3>3. info[s] \in D /\ info[s] # a
      BY <2>7, <2>9, <3>2, Zenon
    <3>4. info[info[s]] # free /\ h[info[s]] = h[s] /\ d[info[s]] = d[s] + 1
      BY <3>3, Zenon DEF Chains
    <3>5. I[info[s]] = info[info[s]] /\ H[info[s]] = h[info[s]] /\ E[info[s]] = d[info[s]]
      BY <2>2, <3>3, Zenon
    <3> QED
      BY <3>2, <3>4, <3>5, Zenon
  <2>10. ASSUME NEW s \in D, I[s] # free, E[s] # 0 PROVE \E t \in D : I[t] = s
    <3>1. s # a
      BY <2>2, <2>10, Zenon
    <3>2. info[s] # free /\ d[s] # 0
      BY <2>2, <2>10, <3>1, Zenon
    <3>3. PICK t \in D : info[t] = s
      BY <3>2, Zenon DEF Chains
    <3>4. t # a
      BY <2>4, <3>3, Zenon
    <3> QED
      BY <2>2, <3>3, <3>4, Zenon
  <2>11. ASSUME NEW s \in D, NEW t \in D, I[s] # free, I[t] # free, H[s] = H[t], E[s] = E[t]
         PROVE  s = t
    <3>1. CASE s # a /\ t # a
      <4>1. info[s] # free /\ info[t] # free /\ h[s] = h[t] /\ d[s] = d[t]
        BY <2>2, <2>11, <3>1, Zenon
      <4> QED
        BY <4>1, Zenon DEF Chains
    <3>2. CASE s = a /\ t # a
      BY <2>2, <2>8, <2>11, <3>2, Zenon
    <3>3. CASE s # a /\ t = a
      BY <2>2, <2>8, <2>11, <3>3, Zenon
    <3> QED
      BY <3>1, <3>2, <3>3, Zenon
  <2>12. Chains(D, I, H, E)
    BY <2>3, <2>5, <2>6, <2>9, <2>10, <2>11, Zenon DEF Chains
  <2> QED
    BY <2>12, Zenon

\* put, behind the element in its primary slot a: b is the second of the chain.
<1>AttachChain.
    ASSUME NEW D, Slotted(D), NEW info, NEW h, NEW d, Chains(D, info, h, d),
           NEW a \in D, info[a] # free, h[a] = a, NEW b \in D, info[b] = free,
           NEW I, I[a] = b, I[b] = info[a], \A s \in D : s # a /\ s # b => I[s] = info[s],
           NEW H, H[b] = a, \A s \in D : s # b => H[s] = h[s]
    PROVE  \E E : Chains(D, I, H, E)
  <2> USE <1>AttachChain
  <2> DEFINE E == [s \in D |-> IF s = b THEN 1
                               ELSE IF h[s] = a /\ d[s] # 0 THEN d[s] + 1 ELSE d[s]]
  <2>1. \A s \in D : d[s] \in Nat
    BY DEF Chains
  <2>2. a # b /\ d[a] = 0
    BY Zenon DEF Chains
  <2>3. E \in [D -> Nat]
    BY <2>1
  <2>4. E[b] = 1 /\ E[a] = 0
    BY <2>2, Zenon
  <2>5. ASSUME NEW s \in D, s # b
        PROVE  /\ E[s] = IF h[s] = a /\ d[s] # 0 THEN d[s] + 1 ELSE d[s]
               /\ E[s] = 0 <=> d[s] = 0
    BY <2>1, <2>5
  <2>6. free \notin D /\ end \notin D /\ free # end
    BY Markers, Zenon
  <2> HIDE DEF E
  <2>7. ASSUME NEW s \in D PROVE I[s] \in D \cup {free, end}
    <3>1. info[s] \in D \cup {free, end} /\ info[a] \in D \cup {free, end}
      BY Zenon DEF Chains
    <3> QED
      BY <3>1, Zenon
  <2>8. ASSUME NEW s \in D, s # b PROVE I[s] # free <=> info[s] # free
    <3>1. CASE s = a
      BY <2>6, <3>1, Zenon
    <3>2. CASE s # a
      BY <2>8, <3>2, Zenon
    <3> QED
      BY <3>1, <3>2, Zenon
  <2>9. ASSUME NEW s \in D, I[s] # free PROVE H[s] \in D /\ (E[s] = 0 <=> s = H[s])
    <3>1. CASE s = b
      <4>1. E[s] # 0
        BY <2>4, <3>1
      <4> QED
        BY <2>2, <3>1, <4>1, Zenon
    <3>2. CASE s # b
      <4>1. info[s] # free /\ H[s] = h[s]
        BY <2>8, <2>9, <3>2, Zenon
      <4>2. h[s] \in D /\ (d[s] = 0 <=> s = h[s])
        BY <4>1, Zenon DEF Chains
      <4> QED
        BY <2>5, <3>2, <4>1, <4>2, Zenon
    <3> QED
      BY <3>1, <3>2, Zenon
\* What was behind a slot is neither a nor b.
  <2>10. ASSUME NEW s \in D, info[s] \in D
         PROVE  /\ info[s] # a /\ info[s] # b /\ I[info[s]] = info[info[s]]
                /\ info[info[s]] # free /\ h[info[s]] = h[s] /\ d[info[s]] = d[s] + 1
                /\ d[info[s]] # 0 /\ H[info[s]] = h[s] /\ s # b
    <3>1. /\ info[info[s]] # free /\ h[info[s]] = h[s]
          /\ d[info[s]] = d[s] + 1 /\ d[info[s]] # 0
      BY <2>10, NextInChain
    <3>2. info[s] # a /\ info[s] # b
      BY <2>2, <3>1, Zenon
    <3>3. s # b
      BY <2>6, <2>10, Zenon
    <3> QED
      BY <2>10, <3>1, <3>2, <3>3, Zenon
  <2>11. ASSUME NEW s \in D, I[s] \in D
         PROVE  I[I[s]] # free /\ H[I[s]] = H[s] /\ E[I[s]] = E[s] + 1
    <3>1. CASE s = a
      <4>1. I[s] = b /\ I[b] = info[a] /\ H[b] = a /\ H[a] = a
        BY <2>2, <3>1, Zenon
      <4>2. E[b] = E[a] + 1
        BY <2>4
      <4> QED
        BY <3>1, <4>1, <4>2, Zenon
    <3>2. CASE s = b
      <4>1. info[a] \in D /\ I[s] = info[a]
        BY <2>11, <3>2, Zenon
      <4>2. /\ info[a] # b /\ I[info[a]] # free
            /\ h[info[a]] = a /\ H[info[a]] = a /\ d[info[a]] = d[a] + 1 /\ d[info[a]] # 0
        BY <2>10, <4>1, Zenon
      <4>3. E[info[a]] = d[info[a]] + 1
        BY <2>5, <4>1, <4>2, Zenon
      <4>4. E[info[a]] = E[b] + 1
        BY <2>2, <2>4, <4>2, <4>3
      <4> QED
        BY <3>2, <4>1, <4>2, <4>4, Zenon
    <3>3. CASE s # a /\ s # b
      <4>1. I[s] = info[s] /\ info[s] \in D /\ H[s] = h[s]
        BY <2>11, <3>3, Zenon
      <4>2. /\ info[s] # b /\ I[info[s]] # free
            /\ h[info[s]] = h[s] /\ H[info[s]] = h[s] /\ d[info[s]] = d[s] + 1 /\ d[info[s]] # 0
        BY <2>10, <4>1, Zenon
      <4>3. h[s] = a => d[s] # 0
        <5>1. info[s] # free
          BY <2>6, <4>1, Zenon
        <5> QED
          BY <3>3, <5>1, Zenon DEF Chains
      <4>4. /\ E[info[s]] = IF h[s] = a THEN d[info[s]] + 1 ELSE d[info[s]]
            /\ E[s] = IF h[s] = a THEN d[s] + 1 ELSE d[s]
        BY <2>5, <3>3, <4>1, <4>2, <4>3, Zenon
      <4>5. E[info[s]] = E[s] + 1
        BY <2>1, <4>2, <4>4
      <4> QED
        BY <4>1, <4>2, <4>5, Zenon
    <3> QED
      BY <3>1, <3>2, <3>3, Zenon
  <2>12. ASSUME NEW s \in D, I[s] # free, E[s] # 0 PROVE \E t \in D : I[t] = s
    <3>1. CASE s = b
      BY <3>1, Zenon
    <3>2. CASE s # b
      <4>1. info[s] # free /\ d[s] # 0
        BY <2>5, <2>8, <2>12, <3>2, Zenon
      <4>2. PICK t \in D : info[t] = s
        BY <4>1, Zenon DEF Chains
      <4>3. t # b
        BY <2>6, <4>2, Zenon
      <4> QED
        BY <4>2, <4>3, Zenon
    <3> QED
      BY <3>1, <3>2, Zenon
  <2>13. ASSUME NEW s \in D, s # b, I[s] # free, H[s] = a PROVE E[s] # 1
    <3>1. h[s] = a
      BY <2>13, Zenon
    <3>2. E[s] = IF d[s] # 0 THEN d[s] + 1 ELSE d[s]
      BY <2>5, <2>13, <3>1, Zenon
    <3> QED
      BY <2>1, <3>2
  <2>14. ASSUME NEW s \in D, NEW t \in D, I[s] # free, I[t] # free, H[s] = H[t], E[s] = E[t]
         PROVE  s = t
    <3>1. CASE s # b /\ t # b
      <4>1. info[s] # free /\ info[t] # free /\ h[s] = h[t]
        BY <2>8, <2>14, <3>1, Zenon
      <4>2. /\ E[s] = IF h[s] = a /\ d[s] # 0 THEN d[s] + 1 ELSE d[s]
            /\ E[t] = IF h[s] = a /\ d[t] # 0 THEN d[t] + 1 ELSE d[t]
        BY <2>5, <3>1, <4>1, Zenon
      <4>3. d[s] \in Nat /\ d[t] \in Nat
        BY <2>1, Zenon
      <4>4. d[s] = d[t]
        <5>1. CASE h[s] = a
          <6>1. E[s] = 0 <=> d[s] = 0
            BY <2>5, <3>1, Zenon
          <6>2. E[t] = 0 <=> d[t] = 0
            BY <2>5, <3>1, Zenon
          <6>3. CASE d[s] = 0
            BY <2>14, <6>1, <6>2, <6>3, Zenon
          <6>4. CASE d[s] # 0
            <7>1. d[s] + 1 = d[t] + 1
              BY <2>14, <4>2, <5>1, <6>1, <6>2, <6>4, Zenon
            <7> QED
              BY <4>3, <7>1
          <6> QED
            BY <6>3, <6>4, Zenon
        <5>2. CASE h[s] # a
          BY <2>14, <4>2, <5>2, Zenon
        <5> QED
          BY <5>1, <5>2, Zenon
      <4> QED
        BY <4>1, <4>4, Zenon DEF Chains
    <3>2. CASE s = b /\ t # b
      BY <2>4, <2>13, <2>14, <3>2, Zenon
    <3>3. CASE s # b /\ t = b
      BY <2>4, <2>13, <2>14, <3>3, Zenon
    <3> QED
      BY <3>1, <3>2, <3>3, Zenon
  <2>15. Chains(D, I, H, E)
    BY <2>3, <2>7, <2>9, <2>11, <2>12, <2>14, ZenonT(30) DEF Chains
  <2> QED
    BY <2>15, Zenon

\* put, when the element in the new one's primary slot a is not in its own: it
\* moves to the free slot b, and p, which is before it, leads there.
<1>MoveChain.
    ASSUME NEW D, Slotted(D), NEW info, NEW h, NEW d, Chains(D, info, h, d),
           NEW a \in D, info[a] # free, h[a] # a, NEW b \in D, info[b] = free,
           NEW p \in D, info[p] = a,
           NEW I, I[p] = b, I[b] = info[a], I[a] = free,
           \A s \in D : s # a /\ s # b /\ s # p => I[s] = info[s],
           NEW H, H[b] = h[a], \A s \in D : s # b /\ s # a => H[s] = h[s]
    PROVE  \E E : Chains(D, I, H, E)
  <2> USE <1>MoveChain
  <2> DEFINE E == [s \in D |-> IF s = b THEN d[a] ELSE d[s]]
  <2>1. \A s \in D : d[s] \in Nat
    BY DEF Chains
  <2>2. free \notin D /\ end \notin D /\ free # end
    BY Markers, Zenon
  <2>3. a # b /\ p # b /\ d[a] # 0 /\ h[a] \in D
    <3>1. h[a] \in D /\ (d[a] = 0 <=> a = h[a])
      BY Zenon DEF Chains
    <3> QED
      BY <2>2, <3>1, Zenon
  <2>4. h[a] = h[p] /\ d[a] = d[p] + 1
    BY NextInChain
  <2>5. p # a
    <3>1. d[p] \in Nat
      BY <2>1, Zenon
    <3>2. d[p] + 1 # d[p]
      BY <3>1
    <3> QED
      BY <2>4, <3>2, Zenon
  <2>6. E \in [D -> Nat]
    BY <2>1
  <2>7. E[b] = d[a] /\ \A s \in D : s # b => E[s] = d[s]
    BY Zenon
  <2> HIDE DEF E
  <2>8. ASSUME NEW s \in D PROVE I[s] \in D \cup {free, end}
    <3>1. info[s] \in D \cup {free, end} /\ info[a] \in D \cup {free, end}
      BY Zenon DEF Chains
    <3> QED
      BY <3>1, Zenon
  <2>9. ASSUME NEW s \in D, s # b, I[s] # free PROVE info[s] # free /\ s # a
    <3>1. CASE s = p
      BY <2>2, <2>5, <3>1, Zenon
    <3>2. CASE s # p
      BY <2>9, <3>2, Zenon
    <3> QED
      BY <3>1, <3>2, Zenon
  <2>10. ASSUME NEW s \in D, I[s] # free PROVE H[s] \in D /\ (E[s] = 0 <=> s = H[s])
    <3>1. CASE s = b
      <4>1. info[h[a]] # free
        BY Rooted
      <4>2. b # h[a]
        BY <4>1, Zenon
      <4> QED
        BY <2>3, <2>7, <3>1, <4>2, Zenon
    <3>2. CASE s # b
      <4>1. info[s] # free /\ H[s] = h[s]
        BY <2>9, <2>10, <3>2, Zenon
      <4>2. h[s] \in D /\ (d[s] = 0 <=> s = h[s])
        BY <4>1, Zenon DEF Chains
      <4> QED
        BY <2>7, <3>2, <4>1, <4>2, Zenon
    <3> QED
      BY <3>1, <3>2, Zenon
\* Only p was before a, and nothing before b.
  <2>11. ASSUME NEW s \in D, s # p, info[s] \in D
         PROVE  /\ info[s] # a /\ info[s] # b /\ info[info[s]] # free
                /\ h[info[s]] = h[s] /\ d[info[s]] = d[s] + 1
    <3>1. info[info[s]] # free /\ h[info[s]] = h[s] /\ d[info[s]] = d[s] + 1
      BY <2>11, NextInChain
    <3>2. info[s] # a
      BY <2>11, OneBefore
    <3> QED
      BY <3>1, <3>2, Zenon
  <2>12. ASSUME NEW t \in D, t # a, t # b, info[t] # free PROVE I[t] # free
    <3>1. CASE t = p
      BY <2>2, <3>1, Zenon
    <3>2. CASE t # p
      BY <2>12, <3>2, Zenon
    <3> QED
      BY <3>1, <3>2, Zenon
  <2>13. ASSUME NEW s \in D, I[s] \in D
         PROVE  I[I[s]] # free /\ H[I[s]] = H[s] /\ E[I[s]] = E[s] + 1
    <3>1. CASE s = p
      <4>1. I[s] = b /\ I[b] # free /\ H[b] = H[p] /\ E[p] = d[p]
        BY <2>3, <2>4, <2>5, <2>7, <3>1, Zenon
      <4>2. E[b] = d[p] + 1
        BY <2>4, <2>7, Zenon
      <4> QED
        BY <3>1, <4>1, <4>2, Zenon
    <3>2. CASE s = b
      <4>1. info[a] \in D /\ I[s] = info[a]
        BY <2>13, <3>2, Zenon
      <4>2. /\ info[a] # a /\ info[a] # b /\ info[info[a]] # free
            /\ h[info[a]] = h[a] /\ d[info[a]] = d[a] + 1
        BY <2>5, <2>11, <4>1, Zenon
      <4>3. I[info[a]] # free /\ H[info[a]] = h[a] /\ E[info[a]] = d[info[a]]
        BY <2>7, <2>12, <4>1, <4>2, Zenon
      <4> QED
        BY <2>7, <3>2, <4>1, <4>2, <4>3, Zenon
    <3>3. CASE s # p /\ s # b
      <4>1. s # a
        BY <2>2, <2>13, Zenon
      <4>2. I[s] = info[s] /\ info[s] \in D /\ H[s] = h[s] /\ E[s] = d[s]
        BY <2>7, <2>13, <3>3, <4>1, Zenon
      <4>3. /\ info[s] # a /\ info[s] # b /\ info[info[s]] # free
            /\ h[info[s]] = h[s] /\ d[info[s]] = d[s] + 1
        BY <2>11, <3>3, <4>2, Zenon
      <4>4. I[info[s]] # free /\ H[info[s]] = h[s] /\ E[info[s]] = d[info[s]]
        BY <2>7, <2>12, <4>2, <4>3, Zenon
      <4> QED
        BY <4>2, <4>3, <4>4, Zenon
    <3> QED
      BY <3>1, <3>2, <3>3, Zenon
  <2>14. ASSUME NEW s \in D, I[s] # free, E[s] # 0 PROVE \E t \in D : I[t] = s
    <3>1. CASE s = b
      BY <3>1, Zenon
    <3>2. CASE s # b
      <4>1. info[s] # free /\ d[s] # 0 /\ s # a
        BY <2>7, <2>9, <2>14, <3>2, Zenon
      <4>2. PICK t \in D : info[t] = s
        BY <4>1, Zenon DEF Chains
      <4>3. t # b /\ t # p
        BY <2>2, <4>1, <4>2, Zenon
      <4> QED
        BY <4>2, <4>3, Zenon
    <3> QED
      BY <3>1, <3>2, Zenon
  <2>15. ASSUME NEW s \in D, NEW t \in D, I[s] # free, I[t] # free, H[s] = H[t], E[s] = E[t]
         PROVE  s = t
    <3>1. \A x \in D : x # b /\ I[x] # free =>
              x # a /\ info[x] # free /\ H[x] = h[x] /\ E[x] = d[x]
      BY <2>7, <2>9, Zenon
    <3>2. \A x, y \in D : info[x] # free /\ info[y] # free /\ h[x] = h[y] /\ d[x] = d[y] => x = y
      BY Zenon DEF Chains
    <3>3. CASE s # b /\ t # b
      <4>1. h[s] = h[t] /\ d[s] = d[t] /\ info[s] # free /\ info[t] # free
        BY <2>15, <3>1, <3>3, Zenon
      <4> QED
        BY <3>2, <4>1, Zenon
    <3>4. CASE s = b /\ t # b
      <4>1. h[t] = h[a] /\ d[t] = d[a] /\ info[t] # free /\ t # a
        BY <2>7, <2>15, <3>1, <3>4, Zenon
      <4> QED
        BY <3>2, <4>1, Zenon
    <3>5. CASE s # b /\ t = b
      <4>1. h[s] = h[a] /\ d[s] = d[a] /\ info[s] # free /\ s # a
        BY <2>7, <2>15, <3>1, <3>5, Zenon
      <4> QED
        BY <3>2, <4>1, Zenon
    <3> QED
      BY <3>3, <3>4, <3>5, Zenon
  <2>16. Chains(D, I, H, E)
    BY <2>6, <2>8, <2>10, <2>13, <2>14, <2>15, Zenon DEF Chains
  <2> QED
    BY <2>16, Zenon

<1>ChainsMove.
    ASSUME NEW D, Slotted(D), NEW info, NEW h, NEW d, Chains(D, info, h, d),
           NEW a, NEW b, NEW p, NEW I, NEW H, IsMove(D, info, h, a, b, p, I, H)
    PROVE  \E E : Chains(D, I, H, E)
    BY <1>ChainsMove, <1>MoveChain DEF IsMove

<1>ChainsNew.
    ASSUME NEW D, Slotted(D), NEW info, NEW h, NEW d, Chains(D, info, h, d),
           NEW a, NEW I, NEW H, IsNew(D, info, h, a, I, H)
    PROVE  \E E : Chains(D, I, H, E)
    BY <1>ChainsNew, <1>NewChain DEF IsNew

<1>OneMore.
    ASSUME NEW U, NEW c, \A s, t \in U : c[s] = c[t] => s = t,
           NEW x, x \notin U, NEW W, W = U \cup {x},
           NEW b, \A s \in U : b[s] = c[s], b[x] \notin {c[s] : s \in U}
    PROVE  /\ \A s, t \in W : b[s] = b[t] => s = t
           /\ {b[s] : s \in W} = {c[s] : s \in U} \cup {b[x]}
  <2> USE <1>OneMore
  <2>1. ASSUME NEW s \in W, NEW t \in W, b[s] = b[t] PROVE s = t
    BY <2>1, Zenon
  <2>2. ASSUME NEW e PROVE e \in {b[s] : s \in W} <=> e \in {c[s] : s \in U} \cup {b[x]}
    BY Zenon
  <2> QED
    BY <2>1, <2>2, Zenon

<1>OneElsewhere.
    ASSUME NEW U, NEW c, \A s, t \in U : c[s] = c[t] => s = t,
           NEW a \in U, NEW x, x \notin U, NEW W, W = (U \ {a}) \cup {x},
           NEW b, \A s \in U \ {a} : b[s] = c[s], b[x] = c[a]
    PROVE  /\ \A s, t \in W : b[s] = b[t] => s = t
           /\ {b[s] : s \in W} = {c[s] : s \in U}
  <2> USE <1>OneElsewhere
  <2>1. ASSUME NEW s \in W, NEW t \in W, b[s] = b[t] PROVE s = t
    BY <2>1, Zenon
  <2>2. ASSUME NEW e PROVE e \in {b[s] : s \in W} <=> e \in {c[s] : s \in U}
    BY Zenon
  <2> QED
    BY <2>1, <2>2, Zenon

<1>Gained.
    ASSUME NEW n, NEW V, NEW m, Sound(m, n, V),
           NEW f \in DOMAIN Hash, NEW v \in V, <<f, v>> \notin Pairs(m),
           NEW x \in 0 .. n - 1, m.info[x] = free,
           NEW w \in Tables(n, V), Chained(w, n), w.elems = m.elems + 1,
           w.info[x] # free, w.key[x] = f, w.val[x] = v,
           \A s \in 0 .. n - 1 : s # x => Alike(m, w, s)
    PROVE  Sound(w, n, V) /\ Pairs(w) = Pairs(m) \cup {<<f, v>>}
  <2> USE <1>Gained
  <2>0. n \in Nat \ {0} /\ m \in Tables(n, V)
    BY Zenon DEF Sound
  <2>1. \A s : s \in Used(m) <=> s \in 0 .. n - 1 /\ m.info[s] # free
    BY <2>0, IsUsed, Zenon
  <2>2. \A s : s \in Used(w) <=> s \in 0 .. n - 1 /\ w.info[s] # free
    BY IsUsed, Zenon
  <2>3. x \notin Used(m) /\ Used(w) = Used(m) \cup {x}
    BY <2>1, <2>2, Zenon DEF Alike
  <2>4. \A s \in 0 .. n - 1 : Held(m)[s] = <<m.key[s], m.val[s]>>
    BY <2>0, HeldAt, Zenon
  <2>5. \A s \in 0 .. n - 1 : Held(w)[s] = <<w.key[s], w.val[s]>>
    BY HeldAt, Zenon
  <2>6. Held(w)[x] = <<f, v>> /\ \A s \in Used(m) : Held(w)[s] = Held(m)[s]
    <3>1. \A s \in Used(m) : s \in 0 .. n - 1 /\ w.key[s] = m.key[s] /\ w.val[s] = m.val[s]
      BY <2>1, <2>3, Zenon DEF Alike
    <3> QED
      BY <2>4, <2>5, <3>1, Zenon
  <2>7. \A s, t \in Used(m) : Held(m)[s] = Held(m)[t] => s = t
    BY Zenon DEF Sound
  <2>8. Held(w)[x] \notin {Held(m)[s] : s \in Used(m)}
    BY <2>6, Zenon DEF Pairs
  <2>9. /\ \A s, t \in Used(w) : Held(w)[s] = Held(w)[t] => s = t
        /\ {Held(w)[s] : s \in Used(w)} = {Held(m)[s] : s \in Used(m)} \cup {Held(w)[x]}
    BY <2>3, <2>6, <2>7, <2>8, <1>OneMore
  <2>10. Pairs(w) = Pairs(m) \cup {<<f, v>>}
    BY <2>6, <2>9, Zenon DEF Pairs
  <2>11. w.elems = Cardinality(Used(w))
    <3>1. IsFiniteSet(Used(m)) /\ m.elems = Cardinality(Used(m))
      BY CountUsed, Zenon DEF Sound
    <3>2. Cardinality(Used(m) \cup {x}) = Cardinality(Used(m)) + 1
      BY <2>3, <3>1, FS_AddElement, Zenon
    <3> QED
      BY <2>3, <3>1, <3>2, Zenon
  <2>12. ASSUME NEW s \in 0 .. n - 1
         PROVE  IF w.info[s] = free THEN w.key[s] = NoFd /\ w.val[s] = NoValue
                ELSE w.key[s] \in DOMAIN Hash /\ w.val[s] \in V
    <3>1. IF m.info[s] = free THEN m.key[s] = NoFd /\ m.val[s] = NoValue
          ELSE m.key[s] \in DOMAIN Hash /\ m.val[s] \in V
      BY Zenon DEF Sound
    <3>2. CASE s = x
      BY <3>2, Zenon
    <3>3. CASE s # x
      BY <3>1, <3>3, Zenon DEF Alike
    <3> QED
      BY <3>2, <3>3, Zenon
  <2>13. Sound(w, n, V)
    BY <2>0, <2>9, <2>11, <2>12, Zenon DEF Sound, Chained
  <2> QED
    BY <2>10, <2>13, Zenon

<1>Shifted.
    ASSUME NEW n, NEW V, NEW m, Sound(m, n, V), NEW a \in 0 .. n - 1, m.info[a] # free,
           NEW x \in 0 .. n - 1, m.info[x] = free,
           NEW w \in Tables(n, V), Chained(w, n), w.elems = m.elems,
           w.info[a] = free, w.key[a] = NoFd, w.val[a] = NoValue,
           w.info[x] # free, w.key[x] = m.key[a], w.val[x] = m.val[a],
           \A s \in 0 .. n - 1 : s # x /\ s # a => Alike(m, w, s)
    PROVE  Sound(w, n, V) /\ Pairs(w) = Pairs(m)
  <2> USE <1>Shifted
  <2>0. n \in Nat \ {0} /\ m \in Tables(n, V)
    BY Zenon DEF Sound
  <2>1. \A s : s \in Used(m) <=> s \in 0 .. n - 1 /\ m.info[s] # free
    BY <2>0, IsUsed, Zenon
  <2>2. \A s : s \in Used(w) <=> s \in 0 .. n - 1 /\ w.info[s] # free
    BY IsUsed, Zenon
  <2>3. a \in Used(m) /\ x \notin Used(m) /\ Used(w) = (Used(m) \ {a}) \cup {x}
    <3>1. a \in Used(m) /\ x \notin Used(m) /\ x \in Used(w) /\ a \notin Used(w)
      BY <2>1, <2>2, Zenon
    <3>2. \A s : s # a /\ s # x => (s \in Used(w) <=> s \in Used(m))
      BY <2>1, <2>2, Zenon DEF Alike
    <3> QED
      BY <3>1, <3>2, Zenon
  <2>4. \A s \in 0 .. n - 1 : Held(m)[s] = <<m.key[s], m.val[s]>>
    BY <2>0, HeldAt, Zenon
  <2>5. \A s \in 0 .. n - 1 : Held(w)[s] = <<w.key[s], w.val[s]>>
    BY HeldAt, Zenon
  <2>6. Held(w)[x] = Held(m)[a] /\ \A s \in Used(m) \ {a} : Held(w)[s] = Held(m)[s]
    <3>1. \A s \in Used(m) \ {a} :
             s \in 0 .. n - 1 /\ w.key[s] = m.key[s] /\ w.val[s] = m.val[s]
      BY <2>1, <2>3, Zenon DEF Alike
    <3>2. ASSUME NEW s \in Used(m) \ {a} PROVE Held(w)[s] = Held(m)[s]
      <4>1. Held(m)[s] = <<m.key[s], m.val[s]>> /\ Held(w)[s] = <<w.key[s], w.val[s]>>
        BY <2>4, <2>5, <3>1, <3>2, Zenon
      <4>2. w.key[s] = m.key[s] /\ w.val[s] = m.val[s]
        BY <3>1, <3>2, Zenon
      <4> QED
        BY <4>1, <4>2, Zenon
    <3>3. Held(w)[x] = <<w.key[x], w.val[x]>> /\ Held(m)[a] = <<m.key[a], m.val[a]>>
      BY <2>4, <2>5, Zenon
    <3> QED
      BY <3>2, <3>3, Zenon
  <2>7. \A s, t \in Used(m) : Held(m)[s] = Held(m)[t] => s = t
    BY Zenon DEF Sound
  <2>9. /\ \A s, t \in Used(w) : Held(w)[s] = Held(w)[t] => s = t
        /\ {Held(w)[s] : s \in Used(w)} = {Held(m)[s] : s \in Used(m)}
    BY <2>3, <2>6, <2>7, <1>OneElsewhere
  <2>10. Pairs(w) = Pairs(m)
    BY <2>9, Zenon DEF Pairs
  <2>11. w.elems = Cardinality(Used(w))
    <3>1. /\ IsFiniteSet(Used(m)) /\ m.elems = Cardinality(Used(m))
          /\ Cardinality(Used(m)) \in Nat
      BY CountUsed, Zenon DEF Sound
    <3>2. IsFiniteSet(Used(m) \ {a}) /\ Cardinality(Used(m) \ {a}) = Cardinality(Used(m)) - 1
      BY <2>3, <3>1, FS_RemoveElement, Zenon
    <3>3. x \notin Used(m) \ {a}
      BY <2>3, Zenon
    <3>4. Cardinality((Used(m) \ {a}) \cup {x}) = Cardinality(Used(m) \ {a}) + 1
      BY <3>2, <3>3, FS_AddElement, Zenon
    <3>5. (Cardinality(Used(m)) - 1) + 1 = Cardinality(Used(m))
      BY <3>1
    <3> QED
      BY <2>3, <3>1, <3>2, <3>4, <3>5, Zenon
  <2>12. ASSUME NEW s \in 0 .. n - 1
         PROVE  IF w.info[s] = free THEN w.key[s] = NoFd /\ w.val[s] = NoValue
                ELSE w.key[s] \in DOMAIN Hash /\ w.val[s] \in V
    <3>1. \A r \in 0 .. n - 1 : IF m.info[r] = free THEN m.key[r] = NoFd /\ m.val[r] = NoValue
          ELSE m.key[r] \in DOMAIN Hash /\ m.val[r] \in V
      BY Zenon DEF Sound
    <3>2. CASE s = x
      BY <3>1, <3>2, Zenon
    <3>3. CASE s = a
      BY <3>3, Zenon
    <3>4. CASE s # x /\ s # a
      BY <3>1, <3>4, Zenon DEF Alike
    <3> QED
      BY <3>2, <3>3, <3>4, Zenon
  <2>13. Sound(w, n, V)
    BY <2>0, <2>9, <2>11, <2>12, Zenon DEF Sound, Chained
  <2> QED
    BY <2>10, <2>13, Zenon

\* The search for a free slot finds one, if there is one.
<1>FreeFound.
    ASSUME NEW n, NEW V, NEW m, Sound(m, n, V), m.elems # n
    PROVE  freeSlot(m) \in 0 .. n - 1 /\ m.info[freeSlot(m)] = free
  <2> USE <1>FreeFound
  <2> DEFINE At(k) == (m.lastFree + k) % m.size
             K == {k \in 0 .. m.size - 1 : m.info[At(k)] = free}
  <2>0. n \in Nat \ {0} /\ m \in Tables(n, V) /\ m.elems = Cardinality(Used(m))
    BY Zenon DEF Sound
  <2>1. m.size = n /\ m.lastFree \in 0 .. n - 1
    BY <2>0, Members, Zenon
  <2>2. PICK s \in 0 .. n - 1 : m.info[s] = free
    BY <2>0, CountUsed, Zenon
  <2>3. \E k \in 0 .. n - 1 : (m.lastFree + k) % n = s
    <3>1. CASE m.lastFree <= s
      <4>1. s - m.lastFree \in 0 .. n - 1 /\ m.lastFree + (s - m.lastFree) = s
        BY <2>0, <2>1, <3>1
      <4>2. s % n = s
        BY <2>0
      <4> QED
        BY <4>1, <4>2, Zenon
    <3>2. CASE ~(m.lastFree <= s)
      <4>1. s + n - m.lastFree \in 0 .. n - 1 /\ m.lastFree + (s + n - m.lastFree) = s + n
        BY <2>0, <2>1, <3>2
      <4>2. (s + n) % n = s
        BY <2>0
      <4> QED
        BY <4>1, <4>2, Zenon
    <3> QED
      BY <3>1, <3>2, Zenon
  <2>4. K \in SUBSET Nat
    BY <2>0, <2>1
  <2>5. K # {}
    BY <2>1, <2>2, <2>3, Zenon
  <2>6. Min(K) \in K
    <3> HIDE DEF K
    <3> QED
      BY <2>4, <2>5, LeastOf, Zenon
  <2>7. freeSlot(m) = At(Min(K))
    BY Zenon DEF freeSlot
  <2>8. PICK k \in K : freeSlot(m) = At(k)
    BY <2>6, <2>7, Zenon
  <2>9. (m.lastFree + k) % n \in 0 .. n - 1
    BY <2>0, <2>1
  <2> QED
    BY <2>1, <2>8, <2>9, Zenon

<1>StoredRecord.
    ASSUME NEW n, NEW V, NEW m \in Tables(n, V), NEW s, NEW next, NEW f, NEW v
    PROVE  Stored(m, s, next, f, v) =
               [size |-> n, elems |-> m.elems + 1, lastFree |-> m.lastFree,
                info |-> With(m.info, s, next), key |-> With(m.key, s, f),
                val |-> With(m.val, s, v)]
    BY <1>StoredRecord, SlotRecord, SMT DEF Stored

<1>StoredWrites.
    ASSUME NEW n, NEW V, NEW m \in Tables(n, V), NEW s, NEW next, NEW f, NEW v,
           Fits(n, V, s, next, f, v)
    PROVE  /\ Stored(m, s, next, f, v) \in Tables(n, V)
           /\ Stored(m, s, next, f, v).elems = m.elems + 1
           /\ Written(m, Stored(m, s, next, f, v), n, s, next, f, v)
  <2> USE <1>StoredWrites
  <2>0. /\ s \in 0 .. n - 1 /\ next \in (0 .. n - 1) \cup {free, end}
        /\ f \in DOMAIN Hash \cup {NoFd} /\ v \in V \cup {NoValue}
    BY Zenon DEF Fits
  <2>1. /\ m.elems + 1 \in Nat /\ m.lastFree \in 0 .. n - 1
        /\ m.info \in [0 .. n - 1 -> (0 .. n - 1) \cup {free, end}]
        /\ m.key \in [0 .. n - 1 -> DOMAIN Hash \cup {NoFd}]
        /\ m.val \in [0 .. n - 1 -> V \cup {NoValue}]
    BY Members
  <2> DEFINE w == Stored(m, s, next, f, v)
             I == With(m.info, s, next)
             K == With(m.key, s, f)
             W == With(m.val, s, v)
  <2>2. /\ I \in [0 .. n - 1 -> (0 .. n - 1) \cup {free, end}] /\ I[s] = next
        /\ \A t \in 0 .. n - 1 : t # s => I[t] = m.info[t]
    BY <2>0, <2>1, Zenon DEF With
  <2>3. /\ K \in [0 .. n - 1 -> DOMAIN Hash \cup {NoFd}] /\ K[s] = f
        /\ \A t \in 0 .. n - 1 : t # s => K[t] = m.key[t]
    BY <2>0, <2>1, Zenon DEF With
  <2>4. /\ W \in [0 .. n - 1 -> V \cup {NoValue}] /\ W[s] = v
        /\ \A t \in 0 .. n - 1 : t # s => W[t] = m.val[t]
    BY <2>0, <2>1, Zenon DEF With
  <2>5. w = [size |-> n, elems |-> m.elems + 1, lastFree |-> m.lastFree,
             info |-> I, key |-> K, val |-> W]
    BY <1>StoredRecord
  <2> HIDE DEF I, K, W, w
  <2>6. /\ w \in Tables(n, V) /\ w.elems = m.elems + 1
        /\ w.info = I /\ w.key = K /\ w.val = W
    BY <2>1, <2>2, <2>3, <2>4, <2>5, Zenon DEF Tables
  <2>7. Written(m, w, n, s, next, f, v)
    BY <2>2, <2>3, <2>4, <2>6, Zenon DEF Written
  <2> QED
    BY <2>6, <2>7, Zenon DEF w

<1>AttachedRecord.
    ASSUME NEW n, NEW V, NEW m \in Tables(n, V), NEW s, NEW to
    PROVE  Attached(m, s, to) =
               [size |-> n, elems |-> m.elems, lastFree |-> to,
                info |-> With(m.info, s, to), key |-> m.key, val |-> m.val]
    BY <1>AttachedRecord, LinkRecord, SMT DEF Attached

<1>AttachedWrites.
    ASSUME NEW n, NEW V, NEW m \in Tables(n, V), NEW s \in 0 .. n - 1,
           NEW to \in 0 .. n - 1
    PROVE  /\ Attached(m, s, to) \in Tables(n, V)
           /\ Attached(m, s, to).elems = m.elems
           /\ Linked(m, Attached(m, s, to), n, s, to)
  <2> USE <1>AttachedWrites
  <2>1. /\ m.elems \in Nat
        /\ m.info \in [0 .. n - 1 -> (0 .. n - 1) \cup {free, end}]
        /\ m.key \in [0 .. n - 1 -> DOMAIN Hash \cup {NoFd}]
        /\ m.val \in [0 .. n - 1 -> V \cup {NoValue}]
    BY Members, Zenon
  <2> DEFINE w == Attached(m, s, to)
             I == With(m.info, s, to)
  <2>2. /\ I \in [0 .. n - 1 -> (0 .. n - 1) \cup {free, end}] /\ I[s] = to
        /\ \A t \in 0 .. n - 1 : t # s => I[t] = m.info[t]
    <3>1. to \in (0 .. n - 1) \cup {free, end}
      BY Zenon
    <3> QED
      BY <2>1, <3>1, Zenon DEF With
  <2>3. w = [size |-> n, elems |-> m.elems, lastFree |-> to,
             info |-> I, key |-> m.key, val |-> m.val]
    BY <1>AttachedRecord
  <2> HIDE DEF I, w
  <2>4. /\ w \in Tables(n, V) /\ w.elems = m.elems
        /\ w.info = I /\ w.key = m.key /\ w.val = m.val
    BY <2>1, <2>2, <2>3, Remade
  <2>5. Linked(m, w, n, s, to)
    BY <2>2, <2>4, Zenon DEF Linked
  <2> QED
    BY <2>4, <2>5, Zenon DEF w

\* The primary slot is free.
<1>PutNew.
    ASSUME NEW n, NEW V, NEW m, Sound(m, n, V),
           NEW f \in DOMAIN Hash, NEW v \in V, <<f, v>> \notin Pairs(m),
           NEW a \in 0 .. n - 1, a = Hash[f] % n, m.info[a] = free,
           NEW w \in Tables(n, V), w.elems = m.elems + 1, Written(m, w, n, a, end, f, v)
    PROVE  Sound(w, n, V) /\ Pairs(w) = Pairs(m) \cup {<<f, v>>}
  <2> USE <1>PutNew
  <2> DEFINE D == 0 .. n - 1
             info == m.info
             h == Home(m)
             I == w.info
             H == Home(w)
  <2>0. m \in Tables(n, V) /\ n \in Nat
    BY Zenon DEF Sound
  <2>1. PICK d : Chains(D, info, h, d)
    BY Zenon DEF Sound
  <2>2. Slotted(D) /\ free # end
    BY <2>0 DEF Slotted, free, end
  <2>3. \A s \in D : s # a => w.info[s] = m.info[s] /\ w.key[s] = m.key[s] /\ w.val[s] = m.val[s]
    BY Zenon DEF Written
  <2>4. w.info[a] = end /\ w.key[a] = f /\ w.val[a] = v
    BY Zenon DEF Written
  <2>5. H[a] = a
    BY <2>4, HomeAt, ZenonT(30)
  <2>6. \A s \in D : s # a => H[s] = h[s]
    <3>1. \A s \in 0 .. n - 1 : Home(m)[s] = Hash[m.key[s]] % n
      BY <2>0, HomeAt, Zenon
    <3>2. \A s \in 0 .. n - 1 : Home(w)[s] = Hash[w.key[s]] % n
      BY HomeAt, Zenon
    <3>3. ASSUME NEW s \in D, s # a PROVE H[s] = h[s]
      <4>1. w.key[s] = m.key[s]
        BY <2>3, <3>3, Zenon
      <4> QED
        BY <3>1, <3>2, <4>1, Zenon
    <3> QED
      BY <3>3, Zenon
  <2>7. a \in D /\ info[a] = free /\ I[a] = end /\ \A s \in D : s # a => I[s] = info[s]
    BY <2>3, <2>4, Zenon
  <2>8. \E E : Chains(D, I, H, E)
    <3> HIDE DEF D, info, h, I, H
    <3>1. IsNew(D, info, h, a, I, H)
      BY <2>5, <2>6, <2>7, Zenon DEF IsNew
    <3> QED
      BY <2>1, <2>2, <3>1, <1>ChainsNew
  <2>9. Chained(w, n)
    BY <2>8, Zenon DEF Chained
  <2>10. \A s \in 0 .. n - 1 : s # a => Alike(m, w, s)
    BY <2>3, Zenon DEF Alike
  <2>11. w.info[a] # free
    BY <2>2, <2>4, Zenon
  <2> QED
    BY <2>4, <2>9, <2>10, <2>11, <1>Gained

\* The element in the primary slot is at home: the new one is put behind it.
<1>PutBehind.
    ASSUME NEW n, NEW V, NEW m, Sound(m, n, V),
           NEW f \in DOMAIN Hash, NEW v \in V, <<f, v>> \notin Pairs(m),
           NEW a \in 0 .. n - 1, a = Hash[f] % n, m.info[a] # free, Home(m)[a] = a,
           NEW b \in 0 .. n - 1, m.info[b] = free,
           NEW g \in Tables(n, V), Linked(m, g, n, a, b),
           NEW w \in Tables(n, V), w.elems = m.elems + 1, Written(g, w, n, b, m.info[a], f, v)
    PROVE  Sound(w, n, V) /\ Pairs(w) = Pairs(m) \cup {<<f, v>>}
  <2> USE <1>PutBehind
  <2> DEFINE D == 0 .. n - 1
             info == m.info
             h == Home(m)
             I == w.info
             H == Home(w)
  <2>0. m \in Tables(n, V) /\ n \in Nat /\ a # b
    BY Zenon DEF Sound
  <2>1. PICK d : Chains(D, info, h, d)
    BY Zenon DEF Sound
  <2>2. Slotted(D)
    BY <2>0 DEF Slotted
  <2>3. /\ g.info[a] = b /\ g.key = m.key /\ g.val = m.val
        /\ \A s \in D : s # a => g.info[s] = m.info[s]
    BY Zenon DEF Linked
  <2>4. /\ w.info[b] = m.info[a] /\ w.key[b] = f /\ w.val[b] = v
        /\ \A s \in D : s # b =>
              w.info[s] = g.info[s] /\ w.key[s] = g.key[s] /\ w.val[s] = g.val[s]
    BY Zenon DEF Written
  <2>5. \A s \in D : s # b => w.key[s] = m.key[s] /\ w.val[s] = m.val[s]
    <3>1. ASSUME NEW s \in D, s # b PROVE w.key[s] = m.key[s] /\ w.val[s] = m.val[s]
      <4>1. w.key[s] = g.key[s] /\ w.val[s] = g.val[s]
        BY <2>4, <3>1, Zenon
      <4>2. g.key = m.key /\ g.val = m.val
        BY <2>3, Zenon
      <4> QED
        BY <4>1, <4>2, Zenon
    <3> QED
      BY <3>1, Zenon
  <2>6. H[b] = a
    BY <2>4, HomeAt, Zenon
  <2>7. \A s \in D : s # b => H[s] = h[s]
    <3>1. \A s \in 0 .. n - 1 : Home(m)[s] = Hash[m.key[s]] % n
      BY <2>0, HomeAt, Zenon
    <3>2. \A s \in 0 .. n - 1 : Home(w)[s] = Hash[w.key[s]] % n
      BY HomeAt, Zenon
    <3>3. ASSUME NEW s \in D, s # b PROVE H[s] = h[s]
      <4>1. w.key[s] = m.key[s]
        BY <2>5, <3>3, Zenon
      <4> QED
        BY <3>1, <3>2, <4>1, Zenon
    <3> QED
      BY <3>3, Zenon
  <2>8. /\ a \in D /\ b \in D /\ info[a] # free /\ h[a] = a /\ info[b] = free
        /\ I[a] = b /\ I[b] = info[a] /\ \A s \in D : s # a /\ s # b => I[s] = info[s]
    BY <2>0, <2>3, <2>4, ZenonT(30)
  <2>9. \E E : Chains(D, I, H, E)
    <3> HIDE DEF D, info, h, I, H
    <3> QED
      BY <2>1, <2>2, <2>6, <2>7, <2>8, <1>AttachChain
  <2>10. Chained(w, n)
    BY <2>9, Zenon DEF Chained
  <2>11. free \notin D
    BY <2>2, Markers, Zenon
  <2>12. ASSUME NEW s \in 0 .. n - 1, s # b PROVE Alike(m, w, s)
    <3>1. CASE s = a
      BY <2>5, <2>8, <2>11, <2>12, <3>1, Zenon DEF Alike
    <3>2. CASE s # a
      BY <2>5, <2>8, <2>12, <3>2, Zenon DEF Alike
    <3> QED
      BY <3>1, <3>2, Zenon
  <2>13. w.info[b] # free
    BY <2>4, Zenon
  <2> QED
    BY <2>4, <2>10, <2>12, <2>13, <1>Gained

\* The element in the primary slot is not at home: it makes way.  u is the table
\* with that slot empty.
<1>MadeWay.
    ASSUME NEW n, NEW V, NEW m, Sound(m, n, V),
           NEW a \in 0 .. n - 1, m.info[a] # free, Home(m)[a] # a,
           NEW b \in 0 .. n - 1, m.info[b] = free,
           NEW p \in 0 .. n - 1, m.info[p] = a,
           NEW g \in Tables(n, V), Linked(m, g, n, p, b),
           NEW e \in Tables(n, V), Written(g, e, n, b, m.info[a], m.key[a], m.val[a]),
           NEW u \in Tables(n, V), u.elems = m.elems, Written(e, u, n, a, free, NoFd, NoValue)
    PROVE  Sound(u, n, V) /\ Pairs(u) = Pairs(m)
  <2> USE <1>MadeWay
  <2> DEFINE D == 0 .. n - 1
             info == m.info
             h == Home(m)
             I == u.info
             H == Home(u)
  <2>0. m \in Tables(n, V) /\ n \in Nat /\ a # b
    BY Zenon DEF Sound
  <2>1. PICK d : Chains(D, info, h, d)
    BY Zenon DEF Sound
  <2>2. Slotted(D)
    BY <2>0 DEF Slotted
  <2>3. free \notin D
    BY <2>2, Markers, Zenon
  <2>4. p # b /\ p # a
    <3>1. p # b
      BY <2>3, Zenon
    <3>2. d[a] \in Nat /\ a \in D /\ info[a] = info[a] /\ a \in D
      BY <2>1, Zenon DEF Chains
    <3>3. ASSUME p = a PROVE FALSE
      <4>1. info[a] = a
        BY <3>3, Zenon
      <4> HIDE DEF info, h, D
      <4>2. d[info[a]] = d[a] + 1
        BY <2>1, <3>2, <4>1, Zenon DEF Chains
      <4>3. d[a] = d[a] + 1
        BY <4>1, <4>2, Zenon
      <4> QED
        BY <3>2, <4>3
    <3> QED
      BY <3>1, <3>3, Zenon
  <2>5. /\ g.info[p] = b /\ g.key = m.key /\ g.val = m.val
        /\ \A s \in D : s # p => g.info[s] = m.info[s]
    BY Zenon DEF Linked
  <2>6. /\ e.info[b] = m.info[a] /\ e.key[b] = m.key[a] /\ e.val[b] = m.val[a]
        /\ \A s \in D : s # b =>
              e.info[s] = g.info[s] /\ e.key[s] = g.key[s] /\ e.val[s] = g.val[s]
    BY Zenon DEF Written
  <2>7. /\ u.info[a] = free /\ u.key[a] = NoFd /\ u.val[a] = NoValue
        /\ \A s \in D : s # a =>
              u.info[s] = e.info[s] /\ u.key[s] = e.key[s] /\ u.val[s] = e.val[s]
    BY Zenon DEF Written
  <2>8. u.info[b] = m.info[a] /\ u.key[b] = m.key[a] /\ u.val[b] = m.val[a]
    BY <2>0, <2>6, <2>7, Zenon
  <2>9. ASSUME NEW s \in D, s # a, s # b
        PROVE  /\ u.key[s] = m.key[s] /\ u.val[s] = m.val[s]
               /\ u.info[s] = IF s = p THEN b ELSE m.info[s]
    <3>1. u.info[s] = g.info[s] /\ u.key[s] = g.key[s] /\ u.val[s] = g.val[s]
      BY <2>6, <2>7, <2>9, Zenon
    <3>2. CASE s = p
      BY <2>5, <3>1, <3>2, Zenon
    <3>3. CASE s # p
      BY <2>5, <3>1, <3>3, Zenon
    <3> QED
      BY <3>2, <3>3, Zenon
  <2>10. H[b] = h[a] /\ \A s \in D : s # b /\ s # a => H[s] = h[s]
    <3>1. \A s \in 0 .. n - 1 : Home(m)[s] = Hash[m.key[s]] % n
      BY <2>0, HomeAt, Zenon
    <3>2. \A s \in 0 .. n - 1 : Home(u)[s] = Hash[u.key[s]] % n
      BY HomeAt, Zenon
    <3>3. H[b] = h[a]
      BY <2>8, <3>1, <3>2, Zenon
    <3>4. ASSUME NEW s \in D, s # b, s # a PROVE H[s] = h[s]
      <4>1. u.key[s] = m.key[s]
        BY <2>9, <3>4, Zenon
      <4> QED
        BY <3>1, <3>2, <4>1, Zenon
    <3> QED
      BY <3>3, <3>4, Zenon
  <2>11. /\ a \in D /\ b \in D /\ p \in D /\ info[a] # free /\ h[a] # a
         /\ info[b] = free /\ info[p] = a
         /\ I[p] = b /\ I[b] = info[a] /\ I[a] = free
         /\ \A s \in D : s # a /\ s # b /\ s # p => I[s] = info[s]
    <3>1. I[p] = b
      BY <2>4, <2>9, Zenon
    <3>2. \A s \in D : s # a /\ s # b /\ s # p => I[s] = info[s]
      BY <2>9, Zenon
    <3> QED
      BY <2>7, <2>8, <3>1, <3>2, Zenon
  <2>12. \E E : Chains(D, I, H, E)
    <3> HIDE DEF D, info, h, I, H
    <3>1. IsMove(D, info, h, a, b, p, I, H)
      BY <2>10, <2>11, Zenon DEF IsMove
    <3> QED
      BY <2>1, <2>2, <3>1, <1>ChainsMove
  <2>13. Chained(u, n)
    BY <2>12, Zenon DEF Chained
  <2>14. ASSUME NEW s \in 0 .. n - 1, s # b, s # a PROVE Alike(m, u, s)
    <3>1. CASE s = p
      BY <2>3, <2>9, <2>14, <3>1, Zenon DEF Alike
    <3>2. CASE s # p
      BY <2>9, <2>14, <3>2, Zenon DEF Alike
    <3> QED
      BY <3>1, <3>2, Zenon
  <2>15. u.info[b] # free
    BY <2>8, Zenon
  <2> QED
    BY <2>7, <2>8, <2>13, <2>14, <2>15, <1>Shifted

<1>Insert.
    ASSUME NEW n, NEW V, NEW m, Sound(m, n, V), m.elems # n,
           NEW f \in DOMAIN Hash, NEW v \in V, <<f, v>> \notin Pairs(m)
    PROVE  /\ Sound(Inserted(m, f, v), n, V)
           /\ Pairs(Inserted(m, f, v)) = Pairs(m) \cup {<<f, v>>}
           /\ Inserted(m, f, v).elems = m.elems + 1
  <2> USE <1>Insert
  <2> DEFINE a == primarySlot(m, f)
             b == freeSlot(m)
             w == Inserted(m, f, v)
  <2>0. n \in Nat \ {0} /\ m \in Tables(n, V)
    BY Zenon DEF Sound
  <2>1. /\ m.size = n
        /\ m.info \in [0 .. n - 1 -> (0 .. n - 1) \cup {free, end}]
        /\ m.key \in [0 .. n - 1 -> DOMAIN Hash \cup {NoFd}]
        /\ m.val \in [0 .. n - 1 -> V \cup {NoValue}]
    BY <2>0, Members, Zenon
  <2>2. a \in 0 .. n - 1 /\ a = Hash[f] % n
    BY <2>0, <2>1, InTable, Zenon DEF primarySlot
  <2>3. b \in 0 .. n - 1 /\ m.info[b] = free
    BY <1>FreeFound
  <2>4. /\ end \in (0 .. n - 1) \cup {free, end} /\ free \in (0 .. n - 1) \cup {free, end}
        /\ f \in DOMAIN Hash \cup {NoFd} /\ v \in V \cup {NoValue}
        /\ NoFd \in DOMAIN Hash \cup {NoFd} /\ NoValue \in V \cup {NoValue}
    BY Zenon
  <2>5a. Fits(n, V, a, end, f, v) /\ Fits(n, V, a, free, NoFd, NoValue)
    BY <2>2, <2>4, Zenon DEF Fits
  <2>5. /\ m.info[a] \in (0 .. n - 1) \cup {free, end}
        /\ m.key[a] \in DOMAIN Hash \cup {NoFd} /\ m.val[a] \in V \cup {NoValue}
    BY <2>1, <2>2, Zenon
  <2>5b. Fits(n, V, b, m.info[a], f, v) /\ Fits(n, V, b, m.info[a], m.key[a], m.val[a])
    BY <2>3, <2>4, <2>5, Zenon DEF Fits
  <2>6. Home(m)[a] = primarySlot(m, m.key[a])
    BY <2>0, <2>1, <2>2, HomeAt, Zenon DEF primarySlot
  <2>7. CASE m.info[a] = free
    <3>1. w = Stored(m, a, end, f, v)
      BY <2>7, Zenon DEF Inserted
    <3> HIDE DEF w, a
    <3>2. w \in Tables(n, V) /\ w.elems = m.elems + 1 /\ Written(m, w, n, a, end, f, v)
      BY <2>0, <2>5a, <3>1, <1>StoredWrites
    <3>3. Sound(w, n, V) /\ Pairs(w) = Pairs(m) \cup {<<f, v>>}
      BY <2>2, <2>7, <3>2, <1>PutNew
    <3> QED
      BY <3>2, <3>3, Zenon DEF w
  <2>8. CASE m.info[a] # free /\ primarySlot(m, m.key[a]) = a
    <3> DEFINE g == Attached(m, a, b)
    <3>1. w = Stored(g, b, m.info[a], f, v)
      BY <2>8, Zenon DEF Inserted
    <3> HIDE DEF w, a, b
    <3>2. g \in Tables(n, V) /\ g.elems = m.elems /\ Linked(m, g, n, a, b)
      <4> HIDE <1>Insert
      <4> QED
        BY <2>0, <2>2, <2>3, <1>AttachedWrites
    <3> HIDE DEF g
    <3>3. /\ w \in Tables(n, V) /\ w.elems = g.elems + 1
          /\ Written(g, w, n, b, m.info[a], f, v)
      BY <2>5b, <3>1, <3>2, <1>StoredWrites
    <3>4. w.elems = m.elems + 1 /\ Home(m)[a] = a /\ m.info[a] # free
      BY <2>6, <2>8, <3>2, <3>3, Zenon
    <3>5. Sound(w, n, V) /\ Pairs(w) = Pairs(m) \cup {<<f, v>>}
      BY <2>2, <2>3, <3>2, <3>3, <3>4, <1>PutBehind
    <3> QED
      BY <3>4, <3>5, Zenon DEF w
  <2>9. CASE m.info[a] # free /\ primarySlot(m, m.key[a]) # a
    <3> DEFINE p == Before(m, a)
               g == Attached(m, p, b)
               e == Slot(g, b, m.info[a], m.key[a], m.val[a])
               u == Slot(e, a, free, NoFd, NoValue)
    <3>1. w = Stored(e, a, end, f, v)
      BY <2>9, Zenon DEF Inserted
    <3>2. p \in 0 .. n - 1 /\ m.info[p] = a
      <4> HIDE DEF a
      <4> QED
        BY <2>2, <2>6, <2>9, BeforeFound
    <3>3. g = Attached(m, p, b) /\ e = Slot(g, b, m.info[a], m.key[a], m.val[a])
          /\ u = Slot(e, a, free, NoFd, NoValue)
      OBVIOUS
    <3> HIDE DEF w, a, b, p, g, e, u
    <3>4. g \in Tables(n, V) /\ g.elems = m.elems /\ Linked(m, g, n, p, b)
      BY <2>0, <2>3, <3>2, <3>3, <1>AttachedWrites
    <3>5. /\ e \in Tables(n, V) /\ e.elems = g.elems
          /\ Written(g, e, n, b, m.info[a], m.key[a], m.val[a])
      BY <2>5b, <3>3, <3>4, SlotWrites
    <3>6. u \in Tables(n, V) /\ u.elems = e.elems /\ Written(e, u, n, a, free, NoFd, NoValue)
      BY <2>5a, <3>3, <3>5, SlotWrites
    <3>7. w \in Tables(n, V) /\ w.elems = e.elems + 1 /\ Written(e, w, n, a, end, f, v)
      BY <2>5a, <3>1, <3>5, <1>StoredWrites
    <3>8. Home(m)[a] # a /\ m.info[a] # free /\ u.elems = m.elems
      BY <2>6, <2>9, <3>4, <3>5, <3>6, Zenon
    <3>9. Sound(u, n, V) /\ Pairs(u) = Pairs(m)
      BY <2>2, <2>3, <3>2, <3>4, <3>5, <3>6, <3>8, <1>MadeWay
    <3>10. w.elems = u.elems + 1 /\ Written(u, w, n, a, end, f, v) /\ u.info[a] = free
      BY <3>6, <3>7, Zenon DEF Written
    <3>11. Sound(w, n, V) /\ Pairs(w) = Pairs(u) \cup {<<f, v>>}
      BY <2>2, <3>7, <3>9, <3>10, <1>PutNew
    <3> QED
      BY <3>8, <3>9, <3>10, <3>11, Zenon DEF w
  <2> QED
    BY <2>7, <2>8, <2>9, Zenon
<1> QED
  BY <1>Insert

----------------------------------------------------------------------------
(***************************************************************************)
(* remove.                                                                 *)
(***************************************************************************)
\* remove, before the table shrinks.
Unlinked(m, pos) ==
    LET next == m.info[pos]
    IN  IF pos # primarySlot(m, m.key[pos]) THEN Link(Erased(m, pos), Before(m, pos), next)
        ELSE IF next = end THEN Erased(m, pos)
        ELSE Slot(Erased(m, next), pos, m.info[next], m.key[next], m.val[next])

OneFewer(g, w) == w = [g EXCEPT !.elems = @ - 1]

\* remove, before it shrinks the table: one pair goes, the others stay.
LEMMA UnlinkedHolds ==
    \A n, V, m : Sound(m, n, V) =>
        \A pos \in Used(m) : \A w : OneFewer(Unlinked(m, pos), w) =>
            /\ Sound(w, n, V) /\ Pairs(w) = Pairs(m) \ {<<m.key[pos], m.val[pos]>>}
            /\ w.elems = m.elems - 1
\* remove, of the only element of a chain.
<1>EndChain.
    ASSUME NEW D, Slotted(D), NEW info, NEW h, NEW d, Chains(D, info, h, d),
           NEW a \in D, h[a] = a, info[a] = end,
           NEW I, I[a] = free, \A s \in D : s # a => I[s] = info[s],
           NEW H, \A s \in D : s # a => H[s] = h[s]
    PROVE  \E E : Chains(D, I, H, E)
  <2> USE <1>EndChain
  <2>1. free \notin D /\ end \notin D /\ free # end
    BY Markers, Zenon
  <2>2. ASSUME NEW s \in D PROVE I[s] \in D \cup {free, end}
    <3>1. info[s] \in D \cup {free, end}
      BY Zenon DEF Chains
    <3> QED
      BY <3>1, Zenon
  <2>3. ASSUME NEW s \in D, I[s] # free
        PROVE  s # a /\ I[s] = info[s] /\ H[s] = h[s] /\ info[s] # free
    BY <2>3, Zenon
  <2>4. ASSUME NEW s \in D, I[s] # free PROVE H[s] \in D /\ (d[s] = 0 <=> s = H[s])
    <3>1. h[s] \in D /\ (d[s] = 0 <=> s = h[s])
      BY <2>3, <2>4, Zenon DEF Chains
    <3> QED
      BY <2>3, <2>4, <3>1, Zenon
  <2>5. ASSUME NEW s \in D, I[s] \in D
        PROVE  I[I[s]] # free /\ H[I[s]] = H[s] /\ d[I[s]] = d[s] + 1
    <3>1. s # a /\ I[s] = info[s] /\ H[s] = h[s] /\ info[s] \in D
      BY <2>1, <2>3, <2>5, Zenon
    <3>2. /\ info[info[s]] # free /\ h[info[s]] = h[s]
          /\ d[info[s]] = d[s] + 1 /\ d[info[s]] # 0
      BY <3>1, NextInChain
    <3>3. d[a] = 0
      BY <2>1, Zenon DEF Chains
    <3>4. info[s] # a
      BY <3>2, <3>3, Zenon
    <3> QED
      BY <3>1, <3>2, <3>4, Zenon
  <2>6. ASSUME NEW s \in D, I[s] # free, d[s] # 0 PROVE \E t \in D : I[t] = s
    <3>1. PICK t \in D : info[t] = s
      BY <2>3, <2>6, Zenon DEF Chains
    <3>2. t # a
      BY <2>1, <3>1, Zenon
    <3> QED
      BY <3>1, <3>2, Zenon
  <2>7. ASSUME NEW s \in D, NEW t \in D, I[s] # free, I[t] # free, H[s] = H[t], d[s] = d[t]
        PROVE  s = t
    <3>1. h[s] = h[t] /\ info[s] # free /\ info[t] # free
      BY <2>3, <2>7, Zenon
    <3> QED
      BY <2>7, <3>1, Zenon DEF Chains
  <2>8. d \in [D -> Nat]
    BY Zenon DEF Chains
  <2>9. Chains(D, I, H, d)
    BY <2>2, <2>4, <2>5, <2>6, <2>7, <2>8, Zenon DEF Chains
  <2> QED
    BY <2>9, Zenon

\* remove, of an element that is not in its primary slot: p, which is before it,
\* leads to the one behind it.
<1>UnlinkChain.
    ASSUME NEW D, Slotted(D), NEW info, NEW h, NEW d, Chains(D, info, h, d),
           NEW a \in D, info[a] # free, h[a] # a, NEW p \in D, info[p] = a,
           NEW I, I[p] = info[a], I[a] = free, \A s \in D : s # a /\ s # p => I[s] = info[s],
           NEW H, \A s \in D : s # a => H[s] = h[s]
    PROVE  \E E : Chains(D, I, H, E)
  <2> USE <1>UnlinkChain
  <2> DEFINE E == [s \in D |-> IF h[s] = h[a] /\ d[a] < d[s] THEN d[s] - 1 ELSE d[s]]
  <2>1. ASSUME NEW s \in D PROVE d[s] \in Nat
    BY DEF Chains
  <2>2. free \notin D /\ end \notin D /\ free # end
    BY Markers, Zenon
  <2>3. d[a] # 0 /\ h[a] \in D
    <3>1. h[a] \in D /\ (d[a] = 0 <=> a = h[a])
      BY Zenon DEF Chains
    <3> QED
      BY <3>1, Zenon
  <2>4. h[p] = h[a] /\ d[a] = d[p] + 1
    BY NextInChain
  <2>5. p # a /\ ~(d[a] < d[p])
    <3>1. d[p] \in Nat
      BY <2>1, Zenon
    <3>2. d[p] + 1 # d[p] /\ ~(d[p] + 1 < d[p])
      BY <3>1
    <3> QED
      BY <2>4, <3>2, Zenon
  <2>6. ASSUME NEW s \in D
        PROVE  /\ E[s] = IF h[s] = h[a] /\ d[a] < d[s] THEN d[s] - 1 ELSE d[s]
               /\ E[s] \in Nat /\ (E[s] = 0 <=> d[s] = 0)
    <3>1. E[s] = IF h[s] = h[a] /\ d[a] < d[s] THEN d[s] - 1 ELSE d[s]
      BY Zenon
    <3>2. d[s] \in Nat /\ d[a] \in Nat
      BY <2>1, Zenon
    <3> HIDE DEF E
    <3> QED
      BY <2>3, <3>1, <3>2
  <2>7. E \in [D -> Nat]
    BY <2>6, Zenon
  <2> HIDE DEF E
  <2>8. ASSUME NEW s \in D PROVE I[s] \in D \cup {free, end}
    <3>1. info[s] \in D \cup {free, end} /\ info[a] \in D \cup {free, end}
      BY Zenon DEF Chains
    <3> QED
      BY <3>1, Zenon
  <2>9. ASSUME NEW s \in D, I[s] # free PROVE info[s] # free /\ s # a /\ H[s] = h[s]
    <3>1. s # a
      BY <2>9, Zenon
    <3>2. CASE s = p
      BY <2>2, <3>1, <3>2, Zenon
    <3>3. CASE s # p
      BY <2>9, <3>1, <3>3, Zenon
    <3> QED
      BY <3>1, <3>2, <3>3, Zenon
  <2>10. ASSUME NEW s \in D, s # a, info[s] # free PROVE I[s] # free
    <3>1. CASE s = p
      BY <3>1, Zenon
    <3>2. CASE s # p
      BY <2>10, <3>2, Zenon
    <3> QED
      BY <3>1, <3>2, Zenon
  <2>11. ASSUME NEW s \in D, I[s] # free PROVE H[s] \in D /\ (E[s] = 0 <=> s = H[s])
    <3>1. h[s] \in D /\ (d[s] = 0 <=> s = h[s])
      BY <2>9, <2>11, Zenon DEF Chains
    <3> QED
      BY <2>6, <2>9, <2>11, <3>1, Zenon
\* Only a has its depth in its chain, so the others keep their order.
  <2>12. ASSUME NEW s \in D, s # a, info[s] # free, h[s] = h[a] PROVE d[s] # d[a]
    BY <2>12, Zenon DEF Chains
  <2>13. ASSUME NEW s \in D, info[s] \in D
         PROVE  /\ info[info[s]] # free /\ h[info[s]] = h[s] /\ d[info[s]] = d[s] + 1
                /\ info[s] = a => s = p
    <3>1. info[info[s]] # free /\ h[info[s]] = h[s] /\ d[info[s]] = d[s] + 1
      BY <2>13, NextInChain
    <3>2. info[s] = a => s = p
      BY <2>13, OneBefore
    <3> QED
      BY <3>1, <3>2, Zenon
  <2>14. ASSUME NEW s \in D, I[s] \in D
         PROVE  I[I[s]] # free /\ H[I[s]] = H[s] /\ E[I[s]] = E[s] + 1
    <3>1. s # a /\ info[s] # free /\ H[s] = h[s]
      BY <2>2, <2>9, <2>14, Zenon
    <3>2. CASE s = p
      <4>1. I[s] = info[a] /\ info[a] \in D
        BY <2>14, <3>2, Zenon
      <4>2. /\ info[info[a]] # free /\ h[info[a]] = h[a] /\ d[info[a]] = d[a] + 1
            /\ info[a] # a
        BY <2>5, <2>13, <4>1, Zenon
      <4>3. I[info[a]] # free /\ H[info[a]] = h[a]
        BY <2>10, <4>1, <4>2, Zenon
      <4>4. d[p] \in Nat /\ d[a] \in Nat
        BY <2>1, Zenon
      <4>5. d[a] < d[info[a]] /\ d[info[a]] - 1 = d[p] + 1
        BY <2>4, <4>2, <4>4
      <4>6. E[info[a]] = d[info[a]] - 1
        BY <2>6, <4>1, <4>2, <4>5, Zenon
      <4>7. E[p] = d[p]
        BY <2>5, <2>6, Zenon
      <4>8. E[info[a]] = E[p] + 1
        BY <4>5, <4>6, <4>7, Zenon
      <4> QED
        BY <2>4, <3>1, <3>2, <4>1, <4>3, <4>8, Zenon
    <3>3. CASE s # p
      <4>1. I[s] = info[s] /\ info[s] \in D
        BY <2>14, <3>1, <3>3, Zenon
      <4>2. /\ info[info[s]] # free /\ h[info[s]] = h[s] /\ d[info[s]] = d[s] + 1
            /\ info[s] # a
        BY <2>13, <3>3, <4>1, Zenon
      <4>3. I[info[s]] # free /\ H[info[s]] = h[s]
        BY <2>10, <4>1, <4>2, Zenon
      <4>4. d[s] \in Nat /\ d[a] \in Nat
        BY <2>1, Zenon
      <4>5. h[s] = h[a] => d[s] # d[a] /\ d[s] + 1 # d[a]
        BY <2>12, <3>1, <4>1, <4>2, Zenon
      <4>6. E[s] = IF h[s] = h[a] /\ d[a] < d[s] THEN d[s] - 1 ELSE d[s]
        BY <2>6, Zenon
      <4>7. E[info[s]] = IF h[s] = h[a] /\ d[a] < d[s] + 1 THEN (d[s] + 1) - 1 ELSE d[s] + 1
        BY <2>6, <4>1, <4>2, Zenon
      <4>8. E[info[s]] = E[s] + 1
        BY <4>4, <4>5, <4>6, <4>7
      <4> QED
        BY <3>1, <4>1, <4>3, <4>8, Zenon
    <3> QED
      BY <3>2, <3>3, Zenon
  <2>15. ASSUME NEW s \in D, I[s] # free, E[s] # 0 PROVE \E t \in D : I[t] = s
    <3>1. info[s] # free /\ d[s] # 0 /\ s # a
      BY <2>6, <2>9, <2>15, Zenon
    <3>2. PICK t \in D : info[t] = s
      BY <3>1, Zenon DEF Chains
    <3>3. t # p
      BY <3>1, <3>2, Zenon
    <3>4. CASE t = a
      BY <3>2, <3>4, Zenon
    <3>5. CASE t # a
      BY <3>2, <3>3, <3>5, Zenon
    <3> QED
      BY <3>4, <3>5, Zenon
  <2>16. ASSUME NEW s \in D, NEW t \in D, I[s] # free, I[t] # free, H[s] = H[t], E[s] = E[t]
         PROVE  s = t
    <3>1. h[s] = h[t] /\ s # a /\ t # a /\ info[s] # free /\ info[t] # free
      BY <2>9, <2>16, Zenon
    <3>2. d[s] \in Nat /\ d[t] \in Nat /\ d[a] \in Nat
      BY <2>1, Zenon
    <3>3. h[s] = h[a] => d[s] # d[a] /\ d[t] # d[a]
      BY <2>12, <3>1, Zenon
    <3>4. /\ E[s] = IF h[s] = h[a] /\ d[a] < d[s] THEN d[s] - 1 ELSE d[s]
          /\ E[t] = IF h[s] = h[a] /\ d[a] < d[t] THEN d[t] - 1 ELSE d[t]
      BY <2>6, <3>1, Zenon
    <3>5. d[s] = d[t]
      <4>1. CASE h[s] # h[a]
        BY <2>16, <3>4, <4>1, Zenon
      <4>2. CASE h[s] = h[a] /\ d[a] < d[s] /\ d[a] < d[t]
        <5>1. d[s] - 1 = d[t] - 1
          BY <2>16, <3>4, <4>2, Zenon
        <5> QED
          BY <3>2, <5>1
      <4>3. CASE h[s] = h[a] /\ ~(d[a] < d[s]) /\ ~(d[a] < d[t])
        BY <2>16, <3>4, <4>3, Zenon
      <4>4. CASE h[s] = h[a] /\ d[a] < d[s] /\ ~(d[a] < d[t])
        <5>1. d[s] - 1 = d[t] /\ d[t] # d[a]
          BY <2>16, <3>3, <3>4, <4>4, Zenon
        <5> QED
          BY <3>2, <4>4, <5>1
      <4>5. CASE h[s] = h[a] /\ ~(d[a] < d[s]) /\ d[a] < d[t]
        <5>1. d[s] = d[t] - 1 /\ d[s] # d[a]
          BY <2>16, <3>3, <3>4, <4>5, Zenon
        <5> QED
          BY <3>2, <4>5, <5>1
      <4> QED
        BY <4>1, <4>2, <4>3, <4>4, <4>5, Zenon
    <3> QED
      BY <3>1, <3>5, Zenon DEF Chains
  <2>17. Chains(D, I, H, E)
    BY <2>7, <2>8, <2>11, <2>14, <2>15, <2>16, Zenon DEF Chains
  <2> QED
    BY <2>17, Zenon

<1>ChainsUnlink.
    ASSUME NEW D, Slotted(D), NEW info, NEW h, NEW d, Chains(D, info, h, d),
           NEW a, NEW p, NEW I, NEW H, IsUnlink(D, info, h, a, p, I, H)
    PROVE  \E E : Chains(D, I, H, E)
    BY <1>ChainsUnlink, <1>UnlinkChain DEF IsUnlink

<1>OneLess.
    ASSUME NEW U, NEW c, \A s, t \in U : c[s] = c[t] => s = t,
           NEW x \in U, NEW W, W = U \ {x}, NEW b, \A s \in W : b[s] = c[s]
    PROVE  /\ \A s, t \in W : b[s] = b[t] => s = t
           /\ {b[s] : s \in W} = {c[s] : s \in U} \ {c[x]}
  <2> USE <1>OneLess
  <2>1. ASSUME NEW s \in W, NEW t \in W, b[s] = b[t] PROVE s = t
    BY <2>1, Zenon
  <2>2. ASSUME NEW e PROVE e \in {b[s] : s \in W} <=> e \in {c[s] : s \in U} \ {c[x]}
    BY Zenon
  <2> QED
    BY <2>1, <2>2, Zenon

<1>OneInPlace.
    ASSUME NEW U, NEW c, \A s, t \in U : c[s] = c[t] => s = t,
           NEW a \in U, NEW x \in U, x # a, NEW W, W = U \ {x},
           NEW b, \A s \in W \ {a} : b[s] = c[s], b[a] = c[x]
    PROVE  /\ \A s, t \in W : b[s] = b[t] => s = t
           /\ {b[s] : s \in W} = {c[s] : s \in U} \ {c[a]}
  <2> USE <1>OneInPlace
  <2>1. ASSUME NEW s \in W, NEW t \in W, b[s] = b[t] PROVE s = t
    <3>1. \A r \in W : \E q \in U : q # a /\ b[r] = c[q] /\ IF r = a THEN q = x ELSE q = r
      BY Zenon
    <3>2. PICK q \in U : q # a /\ b[s] = c[q] /\ IF s = a THEN q = x ELSE q = s
      BY <3>1, Zenon
    <3>3. PICK r \in U : r # a /\ b[t] = c[r] /\ IF t = a THEN r = x ELSE r = t
      BY <3>1, Zenon
    <3>4. q = r
      BY <2>1, <3>2, <3>3, Zenon
    <3> QED
      BY <3>2, <3>3, <3>4, Zenon
  <2>2. ASSUME NEW e PROVE e \in {b[s] : s \in W} <=> e \in {c[s] : s \in U} \ {c[a]}
    <3>1. ASSUME e \in {b[s] : s \in W} PROVE e \in {c[s] : s \in U} \ {c[a]}
      <4>1. PICK r \in W : e = b[r]
        BY <3>1, Zenon
      <4>2. \E q \in U : q # a /\ e = c[q]
        BY <4>1, Zenon
      <4> QED
        BY <4>2, Zenon
    <3>2. ASSUME e \in {c[s] : s \in U} \ {c[a]} PROVE e \in {b[s] : s \in W}
      <4>1. PICK q \in U : e = c[q] /\ q # a
        BY <3>2, Zenon
      <4>2. \E r \in W : e = b[r]
        <5>1. CASE q = x
          BY <4>1, <5>1, Zenon
        <5>2. CASE q # x
          BY <4>1, <5>2, Zenon
        <5> QED
          BY <5>1, <5>2, Zenon
      <4> QED
        BY <4>2, Zenon
    <3> QED
      BY <3>1, <3>2, Zenon
  <2> QED
    BY <2>1, <2>2, Zenon

<1>Lost.
    ASSUME NEW n, NEW V, NEW m, Sound(m, n, V), NEW x \in 0 .. n - 1, m.info[x] # free,
           NEW w \in Tables(n, V), Chained(w, n), w.elems = m.elems - 1,
           w.info[x] = free, w.key[x] = NoFd, w.val[x] = NoValue,
           \A s \in 0 .. n - 1 : s # x => Alike(m, w, s)
    PROVE  Sound(w, n, V) /\ Pairs(w) = Pairs(m) \ {<<m.key[x], m.val[x]>>}
  <2> USE <1>Lost
  <2>0. n \in Nat \ {0} /\ m \in Tables(n, V)
    BY Zenon DEF Sound
  <2>1. \A s : s \in Used(m) <=> s \in 0 .. n - 1 /\ m.info[s] # free
    BY <2>0, IsUsed, Zenon
  <2>2. \A s : s \in Used(w) <=> s \in 0 .. n - 1 /\ w.info[s] # free
    BY IsUsed, Zenon
  <2>3. x \in Used(m) /\ Used(w) = Used(m) \ {x}
    BY <2>1, <2>2, Zenon DEF Alike
  <2>4. \A s \in 0 .. n - 1 : Held(m)[s] = <<m.key[s], m.val[s]>>
    BY <2>0, HeldAt, Zenon
  <2>5. \A s \in 0 .. n - 1 : Held(w)[s] = <<w.key[s], w.val[s]>>
    BY HeldAt, Zenon
  <2>6. \A s \in Used(w) : Held(w)[s] = Held(m)[s]
    <3>1. \A s \in Used(w) : s \in 0 .. n - 1 /\ w.key[s] = m.key[s] /\ w.val[s] = m.val[s]
      BY <2>1, <2>3, Zenon DEF Alike
    <3> QED
      BY <2>4, <2>5, <3>1, Zenon
  <2>7. \A s, t \in Used(m) : Held(m)[s] = Held(m)[t] => s = t
    BY Zenon DEF Sound
  <2>9. /\ \A s, t \in Used(w) : Held(w)[s] = Held(w)[t] => s = t
        /\ {Held(w)[s] : s \in Used(w)} = {Held(m)[s] : s \in Used(m)} \ {Held(m)[x]}
    <3> HIDE <1>Lost
    <3> QED
      BY <2>3, <2>6, <2>7, <1>OneLess
  <2>10. Pairs(w) = Pairs(m) \ {<<m.key[x], m.val[x]>>}
    BY <2>4, <2>9, Zenon DEF Pairs
  <2>11. w.elems = Cardinality(Used(w))
    <3>1. IsFiniteSet(Used(m)) /\ m.elems = Cardinality(Used(m))
      BY CountUsed, Zenon DEF Sound
    <3>2. Cardinality(Used(m) \ {x}) = Cardinality(Used(m)) - 1
      BY <2>3, <3>1, FS_RemoveElement, Zenon
    <3> QED
      BY <2>3, <3>1, <3>2, Zenon
  <2>12. ASSUME NEW s \in 0 .. n - 1
         PROVE  IF w.info[s] = free THEN w.key[s] = NoFd /\ w.val[s] = NoValue
                ELSE w.key[s] \in DOMAIN Hash /\ w.val[s] \in V
    <3>1. \A r \in 0 .. n - 1 : IF m.info[r] = free THEN m.key[r] = NoFd /\ m.val[r] = NoValue
          ELSE m.key[r] \in DOMAIN Hash /\ m.val[r] \in V
      BY Zenon DEF Sound
    <3>2. CASE s = x
      BY <3>2, Zenon
    <3>3. CASE s # x
      BY <3>1, <3>3, Zenon DEF Alike
    <3> QED
      BY <3>2, <3>3, Zenon
  <2>13. Sound(w, n, V)
    BY <2>0, <2>9, <2>11, <2>12, Zenon DEF Sound, Chained
  <2> QED
    BY <2>10, <2>13, Zenon

<1>Pulled.
    ASSUME NEW n, NEW V, NEW m, Sound(m, n, V), NEW a \in 0 .. n - 1, m.info[a] # free,
           NEW x \in 0 .. n - 1, m.info[x] # free, x # a,
           NEW w \in Tables(n, V), Chained(w, n), w.elems = m.elems - 1,
           w.info[x] = free, w.key[x] = NoFd, w.val[x] = NoValue,
           w.info[a] # free, w.key[a] = m.key[x], w.val[a] = m.val[x],
           \A s \in 0 .. n - 1 : s # x /\ s # a => Alike(m, w, s)
    PROVE  Sound(w, n, V) /\ Pairs(w) = Pairs(m) \ {<<m.key[a], m.val[a]>>}
  <2> USE <1>Pulled
  <2>0. n \in Nat \ {0} /\ m \in Tables(n, V)
    BY Zenon DEF Sound
  <2>1. \A s : s \in Used(m) <=> s \in 0 .. n - 1 /\ m.info[s] # free
    BY <2>0, IsUsed, Zenon
  <2>2. \A s : s \in Used(w) <=> s \in 0 .. n - 1 /\ w.info[s] # free
    BY IsUsed, Zenon
  <2>3. a \in Used(m) /\ x \in Used(m) /\ Used(w) = Used(m) \ {x}
    <3>1. a \in Used(m) /\ x \in Used(m) /\ x \notin Used(w) /\ a \in Used(w)
      BY <2>1, <2>2, Zenon
    <3>2. \A s : s # a /\ s # x => (s \in Used(w) <=> s \in Used(m))
      BY <2>1, <2>2, Zenon DEF Alike
    <3> QED
      BY <3>1, <3>2, Zenon
  <2>4. \A s \in 0 .. n - 1 : Held(m)[s] = <<m.key[s], m.val[s]>>
    BY <2>0, HeldAt, Zenon
  <2>5. \A s \in 0 .. n - 1 : Held(w)[s] = <<w.key[s], w.val[s]>>
    BY HeldAt, Zenon
  <2>6. Held(w)[a] = Held(m)[x] /\ \A s \in Used(w) \ {a} : Held(w)[s] = Held(m)[s]
    <3>1. \A s \in Used(w) \ {a} :
             s \in 0 .. n - 1 /\ w.key[s] = m.key[s] /\ w.val[s] = m.val[s]
      BY <2>1, <2>3, Zenon DEF Alike
    <3> QED
      BY <2>4, <2>5, <3>1, ZenonT(30)
  <2>7. \A s, t \in Used(m) : Held(m)[s] = Held(m)[t] => s = t
    BY Zenon DEF Sound
  <2>9. /\ \A s, t \in Used(w) : Held(w)[s] = Held(w)[t] => s = t
        /\ {Held(w)[s] : s \in Used(w)} = {Held(m)[s] : s \in Used(m)} \ {Held(m)[a]}
    BY <2>3, <2>6, <2>7, <1>OneInPlace
  <2>10. Pairs(w) = Pairs(m) \ {<<m.key[a], m.val[a]>>}
    BY <2>4, <2>9, Zenon DEF Pairs
  <2>11. w.elems = Cardinality(Used(w))
    <3>1. IsFiniteSet(Used(m)) /\ m.elems = Cardinality(Used(m))
      BY CountUsed, Zenon DEF Sound
    <3>2. Cardinality(Used(m) \ {x}) = Cardinality(Used(m)) - 1
      BY <2>3, <3>1, FS_RemoveElement, Zenon
    <3> QED
      BY <2>3, <3>1, <3>2, Zenon
  <2>12. ASSUME NEW s \in 0 .. n - 1
         PROVE  IF w.info[s] = free THEN w.key[s] = NoFd /\ w.val[s] = NoValue
                ELSE w.key[s] \in DOMAIN Hash /\ w.val[s] \in V
    <3>1. \A r \in 0 .. n - 1 : IF m.info[r] = free THEN m.key[r] = NoFd /\ m.val[r] = NoValue
          ELSE m.key[r] \in DOMAIN Hash /\ m.val[r] \in V
      BY Zenon DEF Sound
    <3>2. CASE s = a
      BY <3>1, <3>2, Zenon
    <3>3. CASE s = x
      BY <3>3, Zenon
    <3>4. CASE s # x /\ s # a
      BY <3>1, <3>4, Zenon DEF Alike
    <3> QED
      BY <3>2, <3>3, <3>4, Zenon
  <2>13. Sound(w, n, V)
    BY <2>0, <2>9, <2>11, <2>12, Zenon DEF Sound, Chained
  <2> QED
    BY <2>10, <2>13, Zenon

<1>LinkWrites.
    ASSUME NEW n, NEW V, NEW m \in Tables(n, V), NEW s, NEW next, Leads(n, s, next)
    PROVE  /\ Link(m, s, next) \in Tables(n, V)
           /\ Link(m, s, next).elems = m.elems
           /\ Linked(m, Link(m, s, next), n, s, next)
  <2> USE <1>LinkWrites
  <2>0. s \in 0 .. n - 1 /\ next \in (0 .. n - 1) \cup {free, end}
    BY Zenon DEF Leads
  <2>1. /\ m.elems \in Nat /\ m.lastFree \in 0 .. n - 1
        /\ m.info \in [0 .. n - 1 -> (0 .. n - 1) \cup {free, end}]
        /\ m.key \in [0 .. n - 1 -> DOMAIN Hash \cup {NoFd}]
        /\ m.val \in [0 .. n - 1 -> V \cup {NoValue}]
    BY Members, Zenon
  <2> DEFINE w == Link(m, s, next)
             I == With(m.info, s, next)
  <2>2. /\ I \in [0 .. n - 1 -> (0 .. n - 1) \cup {free, end}] /\ I[s] = next
        /\ \A t \in 0 .. n - 1 : t # s => I[t] = m.info[t]
    BY <2>0, <2>1, Zenon DEF With
  <2>3. w = [size |-> n, elems |-> m.elems, lastFree |-> m.lastFree,
             info |-> I, key |-> m.key, val |-> m.val]
    BY LinkRecord
  <2> HIDE DEF I, w
  <2>4. /\ w \in Tables(n, V) /\ w.elems = m.elems
        /\ w.info = I /\ w.key = m.key /\ w.val = m.val
    BY <2>1, <2>2, <2>3, Remade
  <2>5. Linked(m, w, n, s, next)
    BY <2>2, <2>4, Zenon DEF Linked
  <2> QED
    BY <2>4, <2>5, Zenon DEF w

<1>LessRecord.
    ASSUME NEW n, NEW V, NEW g \in Tables(n, V), g.elems # 0
    PROVE  /\ [g EXCEPT !.elems = @ - 1] \in Tables(n, V)
           /\ [g EXCEPT !.elems = @ - 1].elems = g.elems - 1
           /\ [g EXCEPT !.elems = @ - 1].info = g.info
           /\ [g EXCEPT !.elems = @ - 1].key = g.key
           /\ [g EXCEPT !.elems = @ - 1].val = g.val
  <2> USE <1>LessRecord
  <2>1. g.elems - 1 \in Nat
    BY Members
  <2>2. [g EXCEPT !.elems = @ - 1] =
            [size |-> n, elems |-> g.elems - 1, lastFree |-> g.lastFree,
             info |-> g.info, key |-> g.key, val |-> g.val]
    BY SMT DEF Tables
  <2>3. /\ g.lastFree \in 0 .. n - 1
        /\ g.info \in [0 .. n - 1 -> (0 .. n - 1) \cup {free, end}]
        /\ g.key \in [0 .. n - 1 -> DOMAIN Hash \cup {NoFd}]
        /\ g.val \in [0 .. n - 1 -> V \cup {NoValue}]
    BY Members, Zenon
  <2> QED
    BY <2>1, <2>2, <2>3, Zenon DEF Tables

\* The only element of its chain.
<1>RemoveOnly.
    ASSUME NEW n, NEW V, NEW m, Sound(m, n, V), NEW a \in 0 .. n - 1,
           Home(m)[a] = a, m.info[a] = end,
           NEW w \in Tables(n, V), w.elems = m.elems - 1,
           Written(m, w, n, a, free, NoFd, NoValue)
    PROVE  Sound(w, n, V) /\ Pairs(w) = Pairs(m) \ {<<m.key[a], m.val[a]>>}
  <2> USE <1>RemoveOnly
  <2> DEFINE D == 0 .. n - 1
             info == m.info
             h == Home(m)
             I == w.info
             H == Home(w)
  <2>0. m \in Tables(n, V) /\ n \in Nat
    BY Zenon DEF Sound
  <2>1. PICK d : Chains(D, info, h, d)
    BY Zenon DEF Sound
  <2>2. Slotted(D) /\ free # end
    BY <2>0 DEF Slotted, free, end
  <2>3. \A s \in D : s # a => w.info[s] = m.info[s] /\ w.key[s] = m.key[s] /\ w.val[s] = m.val[s]
    BY Zenon DEF Written
  <2>4. w.info[a] = free /\ w.key[a] = NoFd /\ w.val[a] = NoValue
    BY Zenon DEF Written
  <2>5. \A s \in D : s # a => H[s] = h[s]
    <3>1. \A s \in 0 .. n - 1 : Home(m)[s] = Hash[m.key[s]] % n
      BY <2>0, HomeAt, Zenon
    <3>2. \A s \in 0 .. n - 1 : Home(w)[s] = Hash[w.key[s]] % n
      BY HomeAt, Zenon
    <3>3. ASSUME NEW s \in D, s # a PROVE H[s] = h[s]
      <4>1. w.key[s] = m.key[s]
        BY <2>3, <3>3, Zenon
      <4> QED
        BY <3>1, <3>2, <4>1, Zenon
    <3> QED
      BY <3>3, Zenon
  <2>6. /\ a \in D /\ h[a] = a /\ info[a] = end
        /\ I[a] = free /\ \A s \in D : s # a => I[s] = info[s]
    BY <2>3, <2>4, Zenon
  <2>7. \E E : Chains(D, I, H, E)
    <3> HIDE DEF D, info, h, I, H
    <3> QED
      BY <2>1, <2>2, <2>5, <2>6, <1>EndChain
  <2>8. Chained(w, n)
    BY <2>7, Zenon DEF Chained
  <2>9. \A s \in 0 .. n - 1 : s # a => Alike(m, w, s)
    BY <2>3, Zenon DEF Alike
  <2>10. m.info[a] # free
    BY <2>2, Zenon
  <2> QED
    BY <2>4, <2>8, <2>9, <2>10, <1>Lost

\* An element behind others: the chain closes around it.
<1>RemoveBehind.
    ASSUME NEW n, NEW V, NEW m, Sound(m, n, V), NEW a \in 0 .. n - 1,
           m.info[a] # free, Home(m)[a] # a, NEW p \in 0 .. n - 1, m.info[p] = a,
           NEW g \in Tables(n, V), Written(m, g, n, a, free, NoFd, NoValue),
           NEW w \in Tables(n, V), w.elems = m.elems - 1, Linked(g, w, n, p, m.info[a])
    PROVE  Sound(w, n, V) /\ Pairs(w) = Pairs(m) \ {<<m.key[a], m.val[a]>>}
  <2> USE <1>RemoveBehind
  <2> DEFINE D == 0 .. n - 1
             info == m.info
             h == Home(m)
             I == w.info
             H == Home(w)
  <2>0. m \in Tables(n, V) /\ n \in Nat
    BY Zenon DEF Sound
  <2>1. PICK d : Chains(D, info, h, d)
    BY Zenon DEF Sound
  <2>2. Slotted(D)
    BY <2>0 DEF Slotted
  <2>3. free \notin D
    BY <2>2, Markers, Zenon
  <2>4. p # a
    <3>1. d[a] \in Nat /\ a \in D
      BY <2>1, Zenon DEF Chains
    <3>2. ASSUME p = a PROVE FALSE
      <4>1. info[a] = a
        BY <3>2, Zenon
      <4> HIDE DEF info, h, D
      <4>2. d[info[a]] = d[a] + 1
        BY <2>1, <3>1, <4>1, Zenon DEF Chains
      <4>3. d[a] = d[a] + 1
        BY <4>1, <4>2, Zenon
      <4> QED
        BY <3>1, <4>3
    <3> QED
      BY <3>2, Zenon
  <2>5. /\ g.info[a] = free /\ g.key[a] = NoFd /\ g.val[a] = NoValue
        /\ \A s \in D : s # a =>
              g.info[s] = m.info[s] /\ g.key[s] = m.key[s] /\ g.val[s] = m.val[s]
    BY Zenon DEF Written
  <2>6. /\ w.info[p] = m.info[a] /\ w.key = g.key /\ w.val = g.val
        /\ \A s \in D : s # p => w.info[s] = g.info[s]
    BY Zenon DEF Linked
  <2>7. w.info[a] = free /\ w.key[a] = NoFd /\ w.val[a] = NoValue
    BY <2>4, <2>5, <2>6, Zenon
  <2>8. ASSUME NEW s \in D, s # a
        PROVE  /\ w.key[s] = m.key[s] /\ w.val[s] = m.val[s]
               /\ s # p => w.info[s] = m.info[s]
    BY <2>5, <2>6, <2>8, Zenon
  <2>9. \A s \in D : s # a => H[s] = h[s]
    <3>1. \A s \in 0 .. n - 1 : Home(m)[s] = Hash[m.key[s]] % n
      BY <2>0, HomeAt, Zenon
    <3>2. \A s \in 0 .. n - 1 : Home(w)[s] = Hash[w.key[s]] % n
      BY HomeAt, Zenon
    <3>3. ASSUME NEW s \in D, s # a PROVE H[s] = h[s]
      <4>1. w.key[s] = m.key[s]
        BY <2>8, <3>3, Zenon
      <4> QED
        BY <3>1, <3>2, <4>1, Zenon
    <3> QED
      BY <3>3, Zenon
  <2>10. \E E : Chains(D, I, H, E)
    <3>1. IsUnlink(D, info, h, a, p, I, H)
      BY <2>6, <2>7, <2>8, <2>9, Zenon DEF IsUnlink
    <3> HIDE DEF D, info, h, I, H
    <3> QED
      BY <2>1, <2>2, <3>1, <1>ChainsUnlink
  <2>11. Chained(w, n)
    BY <2>10, Zenon DEF Chained
  <2>12. ASSUME NEW s \in 0 .. n - 1, s # a PROVE Alike(m, w, s)
    <3>1. CASE s = p
      BY <2>3, <2>6, <2>8, <2>12, <3>1, Zenon DEF Alike
    <3>2. CASE s # p
      BY <2>8, <2>12, <3>2, Zenon DEF Alike
    <3> QED
      BY <3>1, <3>2, Zenon
  <2> QED
    BY <2>7, <2>11, <2>12, <1>Lost

\* An element in its primary slot, with others behind it: the next takes its place.
<1>RemoveFirst.
    ASSUME NEW n, NEW V, NEW m, Sound(m, n, V), NEW a \in 0 .. n - 1,
           m.info[a] # free, Home(m)[a] = a, NEW x \in 0 .. n - 1, m.info[a] = x,
           NEW g \in Tables(n, V), Written(m, g, n, x, free, NoFd, NoValue),
           NEW w \in Tables(n, V), w.elems = m.elems - 1,
           Written(g, w, n, a, m.info[x], m.key[x], m.val[x])
    PROVE  Sound(w, n, V) /\ Pairs(w) = Pairs(m) \ {<<m.key[a], m.val[a]>>}
  <2> USE <1>RemoveFirst
  <2> DEFINE D == 0 .. n - 1
             info == m.info
             h == Home(m)
             I == w.info
             H == Home(w)
  <2>0. m \in Tables(n, V) /\ n \in Nat
    BY Zenon DEF Sound
  <2>1. PICK d : Chains(D, info, h, d)
    BY Zenon DEF Sound
  <2>2. Slotted(D)
    BY <2>0 DEF Slotted
  <2>3. info[x] # free /\ h[x] = a /\ d[x] = d[a] + 1 /\ d[a] \in Nat
    <3>1. info[a] \in D /\ a \in D /\ info[a] = x /\ h[a] = a
      BY Zenon
    <3> HIDE DEF D, info, h
    <3>2. info[info[a]] # free /\ h[info[a]] = h[a] /\ d[info[a]] = d[a] + 1 /\ d[a] \in Nat
      BY <2>1, <3>1, Zenon DEF Chains
    <3> QED
      BY <3>1, <3>2, Zenon
  <2>4. x # a
    <3>1. d[a] + 1 # d[a]
      BY <2>3
    <3> QED
      BY <2>3, <3>1, Zenon
  <2>5. /\ g.info[x] = free /\ g.key[x] = NoFd /\ g.val[x] = NoValue
        /\ \A s \in D : s # x =>
              g.info[s] = m.info[s] /\ g.key[s] = m.key[s] /\ g.val[s] = m.val[s]
    BY Zenon DEF Written
  <2>6. /\ w.info[a] = m.info[x] /\ w.key[a] = m.key[x] /\ w.val[a] = m.val[x]
        /\ \A s \in D : s # a =>
              w.info[s] = g.info[s] /\ w.key[s] = g.key[s] /\ w.val[s] = g.val[s]
    BY Zenon DEF Written
  <2>7. w.info[x] = free /\ w.key[x] = NoFd /\ w.val[x] = NoValue
    BY <2>4, <2>5, <2>6, Zenon
  <2>8. ASSUME NEW s \in D, s # a, s # x
        PROVE  w.key[s] = m.key[s] /\ w.val[s] = m.val[s] /\ w.info[s] = m.info[s]
    BY <2>5, <2>6, <2>8, Zenon
  <2>9. \A s \in D : s # x => H[s] = h[s]
    <3>1. \A s \in 0 .. n - 1 : Home(m)[s] = Hash[m.key[s]] % n
      BY <2>0, HomeAt, Zenon
    <3>2. \A s \in 0 .. n - 1 : Home(w)[s] = Hash[w.key[s]] % n
      BY HomeAt, Zenon
    <3>3. Hash[w.key[a]] % n = Hash[m.key[x]] % n
      BY <2>6, Zenon
    <3>4. H[a] = h[a]
      BY <2>3, <3>1, <3>2, <3>3, Zenon
    <3>5. ASSUME NEW s \in D, s # a, s # x PROVE H[s] = h[s]
      <4>1. w.key[s] = m.key[s]
        BY <2>8, <3>5, Zenon
      <4> QED
        BY <3>1, <3>2, <4>1, Zenon
    <3> QED
      BY <3>4, <3>5, Zenon
  <2>10. \E E : Chains(D, I, H, E)
    <3>1. IsUnlink(D, info, h, x, a, I, H)
      <4>1. h[x] # x /\ info[a] = x /\ info[x] # free
        BY <2>3, <2>4, Zenon
      <4>2. I[a] = info[x] /\ I[x] = free
        BY <2>6, <2>7, Zenon
      <4>3. \A s \in D : s # x /\ s # a => I[s] = info[s]
        BY <2>8, Zenon
      <4> HIDE DEF info, h, I, H
      <4> QED
        BY <2>9, <4>1, <4>2, <4>3, Zenon DEF IsUnlink
    <3> HIDE DEF D, info, h, I, H
    <3> QED
      BY <2>1, <2>2, <3>1, <1>ChainsUnlink
  <2>11. Chained(w, n)
    BY <2>10, Zenon DEF Chained
  <2>12. ASSUME NEW s \in 0 .. n - 1, s # x, s # a PROVE Alike(m, w, s)
    BY <2>8, <2>12, Zenon DEF Alike
  <2>13. w.info[a] # free /\ m.info[x] # free
    BY <2>3, <2>6, Zenon
  <2> QED
    BY <2>4, <2>6, <2>7, <2>11, <2>12, <2>13, <1>Pulled

<1>Unlink.
    ASSUME NEW n, NEW V, NEW m, Sound(m, n, V), NEW pos \in Used(m),
           NEW w, OneFewer(Unlinked(m, pos), w)
    PROVE  /\ Sound(w, n, V) /\ Pairs(w) = Pairs(m) \ {<<m.key[pos], m.val[pos]>>}
           /\ w.elems = m.elems - 1
  <2> USE <1>Unlink
  <2>0. n \in Nat \ {0} /\ m \in Tables(n, V)
    BY Zenon DEF Sound
  <2>1. /\ m.size = n
        /\ m.info \in [0 .. n - 1 -> (0 .. n - 1) \cup {free, end}]
        /\ m.key \in [0 .. n - 1 -> DOMAIN Hash \cup {NoFd}]
        /\ m.val \in [0 .. n - 1 -> V \cup {NoValue}]
    BY <2>0, Members, Zenon
  <2>2. pos \in 0 .. n - 1 /\ m.info[pos] # free
    BY <2>0, IsUsed, Zenon
  <2>3. m.elems # 0
    <3>1. IsFiniteSet(Used(m)) /\ m.elems = Cardinality(Used(m))
      BY CountUsed, Zenon DEF Sound
    <3>2. Used(m) # {}
      BY Zenon
    <3> QED
      BY <3>1, <3>2, FS_EmptySet, Zenon
  <2>4. Home(m)[pos] = primarySlot(m, m.key[pos])
    BY <2>0, <2>1, <2>2, HomeAt, Zenon DEF primarySlot
  <2>5. /\ free \in (0 .. n - 1) \cup {free, end}
        /\ NoFd \in DOMAIN Hash \cup {NoFd} /\ NoValue \in V \cup {NoValue}
    BY Zenon
  <2>6. \A s \in 0 .. n - 1 : Fits(n, V, s, free, NoFd, NoValue)
    BY <2>5, Zenon DEF Fits
  <2>7. \A s \in 0 .. n - 1 : /\ Erased(m, s) \in Tables(n, V)
                              /\ Erased(m, s).elems = m.elems
                              /\ Written(m, Erased(m, s), n, s, free, NoFd, NoValue)
    BY <2>0, <2>6, SlotWrites DEF Erased
  <2>8. ASSUME NEW g \in Tables(n, V), g = Unlinked(m, pos), g.elems = m.elems
        PROVE  /\ w \in Tables(n, V) /\ w.elems = m.elems - 1
               /\ w.info = g.info /\ w.key = g.key /\ w.val = g.val
    BY <2>3, <2>8, <1>LessRecord DEF OneFewer
  <2>9. CASE pos # primarySlot(m, m.key[pos])
    <3> DEFINE p == Before(m, pos)
               g == Erased(m, pos)
               e == Link(g, p, m.info[pos])
    <3>1. p \in 0 .. n - 1 /\ m.info[p] = pos
      BY <2>2, <2>4, <2>9, BeforeFound
    <3>2. e = Unlinked(m, pos)
      BY <2>9, Zenon DEF Unlinked
    <3>3. /\ g \in Tables(n, V) /\ g.elems = m.elems
          /\ Written(m, g, n, pos, free, NoFd, NoValue)
      BY <2>2, <2>7, Zenon
    <3>4. m.info[pos] \in (0 .. n - 1) \cup {free, end}
      BY <2>1, <2>2, Zenon
    <3> HIDE DEF p, g
    <3>5. e \in Tables(n, V) /\ e.elems = g.elems /\ Linked(g, e, n, p, m.info[pos])
      <4>1. Leads(n, p, m.info[pos])
        BY <3>1, <3>4, Zenon DEF Leads
      <4> QED
        BY <3>3, <4>1, <1>LinkWrites
    <3> HIDE DEF e
    <3>6. /\ w \in Tables(n, V) /\ w.elems = m.elems - 1
          /\ w.info = e.info /\ w.key = e.key /\ w.val = e.val
      BY <2>8, <3>2, <3>3, <3>5, Zenon
    <3>7. Linked(g, w, n, p, m.info[pos])
      BY <3>5, <3>6, Zenon DEF Linked
    <3>8. Home(m)[pos] # pos
      BY <2>4, <2>9, Zenon
    <3>9. Sound(w, n, V) /\ Pairs(w) = Pairs(m) \ {<<m.key[pos], m.val[pos]>>}
      BY <2>2, <3>1, <3>3, <3>6, <3>7, <3>8, <1>RemoveBehind
    <3> QED
      BY <3>6, <3>9, Zenon
  <2>10. CASE pos = primarySlot(m, m.key[pos]) /\ m.info[pos] = end
    <3> DEFINE g == Erased(m, pos)
    <3>1. g = Unlinked(m, pos)
      BY <2>10, Zenon DEF Unlinked
    <3>2. /\ g \in Tables(n, V) /\ g.elems = m.elems
          /\ Written(m, g, n, pos, free, NoFd, NoValue)
      BY <2>2, <2>7, Zenon
    <3> HIDE DEF g
    <3>3. /\ w \in Tables(n, V) /\ w.elems = m.elems - 1
          /\ w.info = g.info /\ w.key = g.key /\ w.val = g.val
      BY <2>8, <3>1, <3>2, Zenon
    <3>4. Written(m, w, n, pos, free, NoFd, NoValue)
      BY <3>2, <3>3, Zenon DEF Written
    <3>5. Home(m)[pos] = pos
      BY <2>4, <2>10, Zenon
    <3>6. Sound(w, n, V) /\ Pairs(w) = Pairs(m) \ {<<m.key[pos], m.val[pos]>>}
      BY <2>2, <2>10, <3>3, <3>4, <3>5, <1>RemoveOnly
    <3> QED
      BY <3>3, <3>6, Zenon
  <2>11. CASE pos = primarySlot(m, m.key[pos]) /\ m.info[pos] # end
    <3> DEFINE x == m.info[pos]
               g == Erased(m, x)
               e == Slot(g, pos, m.info[x], m.key[x], m.val[x])
    <3>1. x \in 0 .. n - 1
      BY <2>1, <2>2, <2>11, Zenon
    <3>2. e = Unlinked(m, pos)
      BY <2>11, Zenon DEF Unlinked
    <3>3. /\ g \in Tables(n, V) /\ g.elems = m.elems
          /\ Written(m, g, n, x, free, NoFd, NoValue)
      BY <2>7, <3>1, Zenon
    <3>4. Fits(n, V, pos, m.info[x], m.key[x], m.val[x])
      BY <2>1, <2>2, <3>1, Zenon DEF Fits
    <3>5. m.info[pos] = x
      BY Zenon
    <3> HIDE DEF x, g
    <3>6. /\ e \in Tables(n, V) /\ e.elems = g.elems
          /\ Written(g, e, n, pos, m.info[x], m.key[x], m.val[x])
      BY <3>3, <3>4, SlotWrites
    <3> HIDE DEF e
    <3>7. /\ w \in Tables(n, V) /\ w.elems = m.elems - 1
          /\ w.info = e.info /\ w.key = e.key /\ w.val = e.val
      BY <2>8, <3>2, <3>3, <3>6, Zenon
    <3>8. Written(g, w, n, pos, m.info[x], m.key[x], m.val[x])
      BY <3>6, <3>7, Zenon DEF Written
    <3>9. Home(m)[pos] = pos
      BY <2>4, <2>11, Zenon
    <3>10. Sound(w, n, V) /\ Pairs(w) = Pairs(m) \ {<<m.key[pos], m.val[pos]>>}
      BY <2>2, <3>1, <3>3, <3>5, <3>7, <3>8, <3>9, <1>RemoveFirst
    <3> QED
      BY <3>7, <3>10, Zenon
  <2> QED
    BY <2>9, <2>10, <2>11, Zenon
<1> QED
  BY <1>Unlink

----------------------------------------------------------------------------
(***************************************************************************)
(* grow and shrink.                                                        *)
(***************************************************************************)

\* A new table holds nothing.
LEMMA ClearedHolds ==
    ASSUME NEW n \in Nat \ {0}, NEW V
    PROVE  Sound(Cleared(n), n, V) /\ Pairs(Cleared(n)) = {} /\ Cleared(n).elems = 0
<1> DEFINE m == Cleared(n)
           D == 0 .. n - 1
           d == [s \in D |-> 0]
<1>1. 0 \in Nat /\ 0 \in D
  OBVIOUS
<1>2. m = [size |-> n, elems |-> 0, lastFree |-> 0, info |-> [s \in D |-> free],
           key |-> [s \in D |-> NoFd], val |-> [s \in D |-> NoValue]]
  BY Zenon DEF Cleared
<1> HIDE DEF m
<1>3. m \in Tables(n, V)
  <2>1. [s \in D |-> free] \in [D -> D \cup {free, end}]
    BY Zenon
  <2>2. [s \in D |-> NoFd] \in [D -> DOMAIN Hash \cup {NoFd}]
    BY Zenon
  <2>3. [s \in D |-> NoValue] \in [D -> V \cup {NoValue}]
    BY Zenon
  <2>4. n \in {n}
    BY Zenon
  <2> QED
    BY <1>1, <1>2, <2>1, <2>2, <2>3, <2>4, SMT DEF Tables
<1>4. /\ m.elems = 0
      /\ \A s \in D : m.info[s] = free /\ m.key[s] = NoFd /\ m.val[s] = NoValue
  <2>1. /\ m.elems = 0 /\ m.info = [s \in D |-> free]
        /\ m.key = [s \in D |-> NoFd] /\ m.val = [s \in D |-> NoValue]
    BY <1>2, SMT
  <2> QED
    BY <2>1, Zenon
<1>5. Used(m) = {}
  <2>1. ASSUME NEW s \in Used(m) PROVE FALSE
    <3>1. s \in D /\ m.info[s] # free
      BY <1>3, IsUsed, Zenon
    <3> QED
      BY <1>4, <3>1, Zenon
  <2> QED
    BY <2>1, Zenon
<1>6. free \notin D
  BY DEF free
<1>7. Chains(D, m.info, Home(m), d)
  <2>1. d \in [D -> Nat] /\ \A s \in D : m.info[s] = free
    BY <1>1, <1>4, Zenon
  <2> HIDE DEF d, D
  <2> QED
    BY <1>6, <2>1, Zenon DEF Chains
<1>8. m.elems = Cardinality(Used(m))
  BY <1>4, <1>5, FS_EmptySet, Zenon
<1>9. Sound(m, n, V)
  <2>1. \E c : Chains(0 .. n - 1, m.info, Home(m), c)
    BY <1>7, Zenon
  <2> QED
    BY <1>3, <1>4, <1>5, <1>8, <2>1, Zenon DEF Sound
<1>10. Pairs(m) = {}
  BY <1>5, Zenon DEF Pairs
<1> QED
  BY <1>4, <1>9, <1>10, Zenon DEF m

\* The tables that Moved goes through.
Filled(table, m, q, n) ==
    /\ table[0] = Cleared(q) /\ table[n] = Moved(m, q, n)
    /\ \A i \in 0 .. n - 1 : table[i + 1] = IF m.info[i] = free THEN table[i]
                                            ELSE Inserted(table[i], m.key[i], m.val[i])

\* Moved is what its definition says: slot by slot.
LEMMA MovedSteps ==
    ASSUME NEW m, NEW q, NEW n \in Nat
    PROVE  \E table : Filled(table, m, q, n)
<1> DEFINE Step(T, i) == IF m.info[i] = free THEN T ELSE Inserted(T, m.key[i], m.val[i])
           Fills(g, k) == g = [i \in 0 .. k |-> IF i = 0 THEN Cleared(q)
                                                ELSE IF m.info[i - 1] = free THEN g[i - 1]
                                                ELSE Inserted(g[i - 1], m.key[i - 1], m.val[i - 1])]
           S == {k \in Nat : \E g : Fills(g, k)}
<1>1. 0 \in S
  <2> DEFINE g == [i \in 0 .. 0 |-> Cleared(q)]
  <2>1. \A i \in 0 .. 0 : i = 0
    OBVIOUS
  <2>2. Fills(g, 0)
    BY <2>1, Zenon
  <2> QED
    BY <2>2, Zenon
<1>2. ASSUME NEW k \in Nat, k \in S PROVE k + 1 \in S
  <2>0. k + 1 \in Nat
    OBVIOUS
  <2>1. PICK g : Fills(g, k)
    BY <1>2, Zenon
  <2> DEFINE e == [i \in 0 .. k + 1 |-> IF i = k + 1 THEN Step(g[k], k) ELSE g[i]]
  <2>2. ASSUME NEW i \in 0 .. k + 1
        PROVE  e[i] = IF i = 0 THEN Cleared(q)
                      ELSE IF m.info[i - 1] = free THEN e[i - 1]
                      ELSE Inserted(e[i - 1], m.key[i - 1], m.val[i - 1])
    <3>1. CASE i = k + 1
      <4>1. i # 0 /\ i - 1 = k /\ k \in 0 .. k + 1 /\ k # k + 1
        BY <3>1
      <4>2. e[i] = Step(g[k], k) /\ e[k] = g[k]
        BY <3>1, <4>1, Zenon
      <4> HIDE DEF e
      <4> QED
        BY <4>1, <4>2, Zenon
    <3>2. CASE i # k + 1
      <4>1. i \in 0 .. k /\ (i # 0 => i - 1 \in 0 .. k + 1 /\ i - 1 # k + 1)
        BY <3>2
      <4>2. g[i] = IF i = 0 THEN Cleared(q)
                   ELSE IF m.info[i - 1] = free THEN g[i - 1]
                   ELSE Inserted(g[i - 1], m.key[i - 1], m.val[i - 1])
        BY <2>1, <4>1, Zenon
      <4>3. e[i] = g[i] /\ (i # 0 => e[i - 1] = g[i - 1])
        BY <3>2, <4>1, Zenon
      <4> HIDE DEF e
      <4> QED
        BY <4>2, <4>3, Zenon
    <3> QED
      BY <3>1, <3>2, Zenon
  <2>3. e = [i \in 0 .. k + 1 |-> e[i]]
    BY Zenon
  <2> HIDE DEF e
  <2>4. Fills(e, k + 1)
    BY <2>2, <2>3, Zenon
  <2> HIDE DEF Fills
  <2> QED
    BY <2>0, <2>4, Zenon
<1>3. Nat \subseteq S
  <2> HIDE DEF S
  <2> QED
    BY <1>1, <1>2, AllOf, Zenon
<1>4. PICK g : Fills(g, n)
  BY <1>3, Zenon
<1>5. PICK table : Fills(table, n) /\ Moved(m, q, n) = table[n]
  BY <1>4, Zenon DEF Moved
<1>6. 0 \in 0 .. n /\ \A i \in 0 .. n - 1 : i + 1 \in 0 .. n /\ i + 1 # 0 /\ (i + 1) - 1 = i
  OBVIOUS
<1>7. table[0] = Cleared(q)
  BY <1>5, <1>6, Zenon
<1>8. ASSUME NEW i \in 0 .. n - 1
      PROVE  table[i + 1] = IF m.info[i] = free THEN table[i]
                            ELSE Inserted(table[i], m.key[i], m.val[i])
  <2>1. i + 1 \in 0 .. n /\ i + 1 # 0 /\ (i + 1) - 1 = i
    BY <1>6, Zenon
  <2>2. table[i + 1] = IF m.info[(i + 1) - 1] = free THEN table[(i + 1) - 1]
                       ELSE Inserted(table[(i + 1) - 1], m.key[(i + 1) - 1], m.val[(i + 1) - 1])
    BY <1>5, <2>1, Zenon
  <2> QED
    BY <2>1, <2>2, Zenon
<1> QED
  BY <1>5, <1>7, <1>8, Zenon DEF Filled

\* A table that is large enough takes the elements of another.
LEMMA MovedHolds ==
    ASSUME NEW n, NEW V, NEW m, Sound(m, n, V),
           NEW q \in Nat \ {0}, m.elems <= q
    PROVE  /\ Sound(rehash(m, q), q, V) /\ Pairs(rehash(m, q)) = Pairs(m)
           /\ rehash(m, q).elems = m.elems
<1> DEFINE U(i) == {r \in Used(m) : r < i}
           Has(T, i) == /\ Sound(T, q, V) /\ T.elems = Cardinality(U(i))
                        /\ Pairs(T) = {Held(m)[s] : s \in U(i)}
<1>0. n \in Nat \ {0} /\ m \in Tables(n, V) /\ m.elems = Cardinality(Used(m))
  BY Zenon DEF Sound
<1>a. m \in Tables(n, V) /\ n \in Nat
  BY <1>0, Zenon
<1>1. m.size = n
  BY <1>a, Members, Zenon
<1>2. IsFiniteSet(Used(m)) /\ Cardinality(Used(m)) \in Nat
  BY <1>0, CountUsed
<1>3. \A s : s \in Used(m) <=> s \in 0 .. n - 1 /\ m.info[s] # free
  BY <1>a, IsUsed, Zenon
<1>b. \E table : Filled(table, m, q, n)
  BY <1>a, MovedSteps
<1>4. PICK table : /\ table[0] = Cleared(q) /\ table[n] = Moved(m, q, n)
                   /\ \A i \in 0 .. n - 1 :
                         table[i + 1] = IF m.info[i] = free THEN table[i]
                                        ELSE Inserted(table[i], m.key[i], m.val[i])
  BY <1>b, Zenon DEF Filled
<1> DEFINE S == {i \in Nat : i <= n => Has(table[i], i)}
<1>5. 0 \in S
  <2>1. U(0) = {}
    <3>1. \A r \in 0 .. n - 1 : ~(r < 0)
      BY <1>0
    <3> QED
      BY <1>3, <3>1, Zenon
  <2>2. Sound(Cleared(q), q, V) /\ Pairs(Cleared(q)) = {} /\ Cleared(q).elems = 0
    BY ClearedHolds, Zenon
  <2>3. Cardinality({}) = 0
    BY FS_EmptySet, Zenon
  <2>4. Has(Cleared(q), 0)
    BY <2>1, <2>2, <2>3, Zenon
  <2> HIDE DEF Has
  <2> QED
    BY <1>4, <2>4, Zenon
<1>6. ASSUME NEW i \in Nat, i \in S PROVE i + 1 \in S
  <2>0. i + 1 \in Nat
    OBVIOUS
  <2> SUFFICES ASSUME i + 1 <= n PROVE Has(table[i + 1], i + 1)
    BY <2>0, Zenon
  <2>1. i <= n /\ i \in 0 .. n - 1
    BY <1>0
  <2>2. Has(table[i], i)
    <3> HIDE DEF Has
    <3> QED
      BY <1>6, <2>1, Zenon
  <2>3. \A r \in 0 .. n - 1 : r < i + 1 <=> r < i \/ r = i
    BY <1>0
  <2>4. table[i + 1] = IF m.info[i] = free THEN table[i]
                       ELSE Inserted(table[i], m.key[i], m.val[i])
    BY <1>4, <2>1, Zenon
  <2>5. CASE m.info[i] = free
    <3>1. U(i + 1) = U(i)
      BY <1>3, <2>3, <2>5, Zenon
    <3>2. table[i + 1] = table[i]
      BY <2>4, <2>5, Zenon
    <3> HIDE DEF U
    <3> QED
      BY <2>2, <3>1, <3>2, Zenon
  <2>6. CASE m.info[i] # free
    <3>1. i \in Used(m)
      BY <1>3, <2>1, <2>6, Zenon
    <3>2. U(i + 1) = U(i) \cup {i}
      BY <1>3, <2>3, <3>1, Zenon
    <3>3. i \notin U(i)
      <4>1. ~(i < i)
        OBVIOUS
      <4> QED
        BY <4>1, Zenon
    <3>4. IsFiniteSet(U(i)) /\ Cardinality(U(i)) < Cardinality(Used(m))
      <4>1. U(i) \in SUBSET (Used(m) \ {i})
        BY <3>3, Zenon
      <4> HIDE DEF U
      <4>2. /\ IsFiniteSet(Used(m) \ {i})
            /\ Cardinality(Used(m) \ {i}) = Cardinality(Used(m)) - 1
        BY <1>2, <3>1, FS_RemoveElement, Zenon
      <4>3. /\ IsFiniteSet(U(i)) /\ Cardinality(U(i)) <= Cardinality(Used(m) \ {i})
        BY <4>1, <4>2, FS_Subset, Zenon
      <4>4. Cardinality(U(i)) \in Nat
        BY <4>3, FS_CardinalityType, Zenon
      <4> QED
        BY <1>2, <4>2, <4>3, <4>4
    <3>5. Cardinality(U(i)) \in Nat
      BY <3>4, FS_CardinalityType, Zenon
    <3>6. table[i].elems # q
      <4>1. table[i].elems = Cardinality(U(i))
        BY <2>2, Zenon
      <4> HIDE DEF U
      <4> QED
        BY <1>0, <1>2, <3>4, <3>5, <4>1
    <3>7. m.key[i] \in DOMAIN Hash /\ m.val[i] \in V
      BY <2>1, <2>6, Zenon DEF Sound
    <3>8. Held(m)[i] = <<m.key[i], m.val[i]>>
      BY <1>0, <2>1, HeldAt, Zenon
    <3>9. <<m.key[i], m.val[i]>> \notin Pairs(table[i])
      <4>1. \A s, t \in Used(m) : Held(m)[s] = Held(m)[t] => s = t
        BY Zenon DEF Sound
      <4>2. Pairs(table[i]) = {Held(m)[s] : s \in U(i)}
        BY <2>2, Zenon
      <4> QED
        BY <3>1, <3>3, <3>8, <4>1, <4>2, Zenon
    <3> DEFINE w == Inserted(table[i], m.key[i], m.val[i])
    <3>10. /\ Sound(w, q, V) /\ Pairs(w) = Pairs(table[i]) \cup {<<m.key[i], m.val[i]>>}
           /\ w.elems = table[i].elems + 1
      <4>1. Sound(table[i], q, V)
        BY <2>2, Zenon
      <4> QED
        BY <3>6, <3>7, <3>9, <4>1, InsertedHolds
    <3>11. Cardinality(U(i) \cup {i}) = Cardinality(U(i)) + 1
      <4> HIDE DEF U
      <4> QED
        BY <3>3, <3>4, FS_AddElement, Zenon
    <3>12. table[i + 1] = w
      BY <2>4, <2>6, Zenon
    <3> HIDE DEF w
    <3>13. w.elems = Cardinality(U(i + 1))
      BY <2>2, <3>2, <3>10, <3>11, Zenon
    <3>14. Pairs(w) = {Held(m)[s] : s \in U(i + 1)}
      <4>1. Pairs(w) = {Held(m)[s] : s \in U(i)} \cup {Held(m)[i]}
        BY <2>2, <3>8, <3>10, Zenon
      <4> HIDE DEF U
      <4> QED
        BY <3>2, <4>1, Zenon
    <3> QED
      BY <3>10, <3>12, <3>13, <3>14, Zenon
  <2> QED
    BY <2>5, <2>6, Zenon
<1>7. Nat \subseteq S
  <2> HIDE DEF S
  <2> QED
    BY <1>5, <1>6, AllOf, Zenon
<1>8. n \in Nat /\ n <= n /\ \A r \in 0 .. n - 1 : r < n
  BY <1>0
<1>9. Has(table[n], n)
  <2> HIDE DEF Has
  <2> QED
    BY <1>7, <1>8, Zenon
<1>10. U(n) = Used(m)
  BY <1>3, <1>8, Zenon
<1>11. rehash(m, q) = table[n]
  BY <1>1, <1>4, Zenon DEF rehash
<1> HIDE DEF U
<1> QED
  BY <1>0, <1>9, <1>10, <1>11, Zenon DEF Pairs


\* What a sound table holds is what Holds says.
LEMMA SoundHolds ==
    ASSUME NEW n, NEW V, NEW m, Sound(m, n, V)
    PROVE  Holds(m, Pairs(m), V) /\ m.size = n
<1>1. m \in Tables(n, V)
  BY Zenon DEF Sound
<1>2. m.size = n
  BY <1>1, Members, Zenon
<1> QED
  BY <1>2, Zenon DEF Holds

\* What the empty map consists of.
LEMMA Nothing ==
    EmptyMap.size = 0 /\ EmptyMap.elems = 0 /\ Used(EmptyMap) = {}
<1>1. EmptyMap.info = <<>> /\ EmptyMap.size = 0 /\ EmptyMap.elems = 0
  BY Zenon DEF EmptyMap
<1>2. DOMAIN <<>> = {}
  OBVIOUS
<1> QED
  BY <1>1, <1>2, Zenon DEF Used

\* grow makes room for an element.
Roomy(m, n, P, V) == Sound(m, n, V) /\ m.elems # n /\ Pairs(m) = P

\* grow keeps the pairs, and leaves a free slot.
LEMMA growHolds ==
    ASSUME NEW V, NEW m, NEW P, Holds(m, P, V)
    PROVE  \E n \in Nat : Roomy(grow(m), n, P, V)
<1>1. CASE m = EmptyMap /\ P = {}
  <2>1. grow(m) = Cleared(MinSize)
    BY <1>1, Nothing, Zenon DEF grow
  <2>2. MinSize \in Nat \ {0} /\ MinSize \in Nat /\ MinSize # 0
    BY FdMapAssumption, Zenon
  <2>3. Sound(Cleared(MinSize), MinSize, V) /\ Pairs(Cleared(MinSize)) = {} /\ Cleared(MinSize).elems = 0
    BY <2>2, ClearedHolds, Zenon
  <2> QED
    BY <1>1, <2>1, <2>2, <2>3, Zenon DEF Roomy
<1>2. CASE Sound(m, m.size, V) /\ P = Pairs(m)
  <2> DEFINE n == m.size
  <2>1. n \in Nat \ {0} /\ n \in Nat /\ n # 0
    BY <1>2, Zenon DEF Sound
  <2> HIDE DEF n
  <2>2. CASE n = m.elems
    <3>1. grow(m) = rehash(m, 2 * n)
      BY <2>1, <2>2, Zenon DEF grow, n
    <3>2. 2 * n \in Nat \ {0} /\ n <= 2 * n /\ 2 * n \in Nat /\ n # 2 * n
      BY <2>1
    <3> DEFINE q == 2 * n
    <3>3. q \in Nat \ {0} /\ m.elems <= q /\ q \in Nat /\ m.elems # q /\ grow(m) = rehash(m, q)
      BY <2>2, <3>1, <3>2, Zenon
    <3> HIDE DEF q
    <3>4. Sound(m, n, V)
      BY <1>2, Zenon DEF n
    <3>5. /\ Sound(rehash(m, q), q, V) /\ Pairs(rehash(m, q)) = Pairs(m)
          /\ rehash(m, q).elems = m.elems
      BY <3>3, <3>4, MovedHolds
    <3>6. Roomy(grow(m), q, P, V)
      BY <1>2, <3>3, <3>5, Zenon DEF Roomy
    <3> QED
      BY <3>3, <3>6, Zenon
  <2>3. CASE n # m.elems
    <3>1. grow(m) = m
      BY <2>1, <2>3, Zenon DEF grow, n
    <3>2. Roomy(m, n, P, V)
      BY <1>2, <2>3, Zenon DEF Roomy, n
    <3> QED
      BY <2>1, <3>1, <3>2, Zenon
  <2> QED
    BY <2>2, <2>3, Zenon
<1> QED
  BY <1>1, <1>2, Zenon DEF Holds

\* shrink keeps the elements.
LEMMA shrinkHolds ==
    ASSUME NEW n, NEW V, NEW m, Sound(m, n, V)
    PROVE  Holds(shrink(m), Pairs(m), V)
<1>0. n \in Nat /\ m.elems = Cardinality(Used(m))
  BY Zenon DEF Sound
<1>1. m.size = n
  BY SoundHolds, Zenon
<1>2. Cardinality(Used(m)) \in Nat
  BY CountUsed
<1>3. CASE m.size > MinSize /\ m.elems * 3 <= m.size
  <2> DEFINE q == n \div 2
             c == m.elems
  <2>1. MinSize \in Nat /\ MinSize >= 1 /\ c \in Nat /\ n > MinSize /\ c * 3 <= n
    <3>1. MinSize \in Nat \ {0}
      BY FdMapAssumption, Zenon
    <3>2. c \in Nat
      BY <1>0, <1>2, Zenon
    <3> QED
      BY <1>1, <1>3, <3>1, <3>2
  <2> HIDE DEF c
  <2>2. q \in Nat \ {0} /\ c <= q
    BY <1>0, <2>1
  <2>3. shrink(m) = rehash(m, q)
    BY <1>1, <1>3, Zenon DEF shrink
  <2> HIDE DEF q
  <2>4. Sound(rehash(m, q), q, V) /\ Pairs(rehash(m, q)) = Pairs(m)
    BY <2>2, MovedHolds DEF c
  <2>5. Holds(rehash(m, q), Pairs(rehash(m, q)), V)
    BY <2>4, SoundHolds
  <2> QED
    BY <2>3, <2>4, <2>5, Zenon
<1>4. CASE ~(m.size > MinSize /\ m.elems * 3 <= m.size)
  <2>1. shrink(m) = m
    BY <1>4, Zenon DEF shrink
  <2>2. Holds(m, Pairs(m), V)
    BY SoundHolds
  <2> QED
    BY <2>1, <2>2, Zenon
<1> QED
  BY <1>3, <1>4, Zenon

\* put adds a pair that is not yet held.
LEMMA putHolds ==
    ASSUME NEW V, NEW m, NEW P, Holds(m, P, V),
           NEW f \in DOMAIN Hash, NEW v \in V, <<f, v>> \notin P
    PROVE  Holds(put(m, f, v), P \cup {<<f, v>>}, V)
<1> DEFINE g == grow(m)
<1>1. PICK n \in Nat : Roomy(g, n, P, V)
  BY growHolds
<1>2. put(m, f, v) = Inserted(g, f, v)
  BY Zenon DEF put
<1> HIDE DEF g
<1>3. Sound(g, n, V) /\ g.elems # n /\ Pairs(g) = P /\ <<f, v>> \notin Pairs(g)
  BY <1>1, Zenon DEF Roomy
<1>4. Sound(Inserted(g, f, v), n, V) /\ Pairs(Inserted(g, f, v)) = Pairs(g) \cup {<<f, v>>}
  BY <1>3, InsertedHolds
<1>5. Holds(Inserted(g, f, v), Pairs(Inserted(g, f, v)), V)
  BY <1>4, SoundHolds
<1> QED
  BY <1>2, <1>3, <1>4, <1>5, Zenon

\* remove takes away the pair of its slot.
LEMMA removeHolds ==
    ASSUME NEW V, NEW m, NEW P, Holds(m, P, V), NEW pos \in Used(m)
    PROVE  Holds(remove(m, pos), P \ {<<m.key[pos], m.val[pos]>>}, V)
<1> DEFINE w == [Unlinked(m, pos) EXCEPT !.elems = @ - 1]
<1>1. m # EmptyMap
  BY Nothing, Zenon
<1>2. Sound(m, m.size, V) /\ P = Pairs(m)
  BY <1>1, Zenon DEF Holds
<1>3. OneFewer(Unlinked(m, pos), w)
  BY Zenon DEF OneFewer
<1>4. remove(m, pos) = shrink(w)
  BY Zenon DEF remove, Unlinked
<1> HIDE DEF w
<1>5. Sound(w, m.size, V) /\ Pairs(w) = Pairs(m) \ {<<m.key[pos], m.val[pos]>>}
  BY <1>2, <1>3, UnlinkedHolds
<1>6. Holds(shrink(w), Pairs(w), V)
  BY <1>5, shrinkHolds
<1> QED
  BY <1>2, <1>4, <1>5, <1>6, Zenon


----------------------------------------------------------------------------
(***************************************************************************)
(* What a map that holds P answers.                                        *)
(***************************************************************************)

\* What is matched one to one with a finite set has as many elements.
LEMMA OneToOne ==
    ASSUME NEW S, NEW T, NEW g, g \in [S -> T], IsFiniteSet(S),
           \A s, t \in S : g[s] = g[t] => s = t, \A y \in T : \E s \in S : g[s] = y
    PROVE  IsFiniteSet(T) /\ Cardinality(T) = Cardinality(S)
<1>1. g \in Bijection(S, T)
  BY Zenon DEF Bijection, Injection, Surjection, IsInjective
<1>2. ExistsBijection(S, T)
  BY <1>1, Zenon DEF ExistsBijection
<1> QED
  BY <1>2, FS_Bijection, Zenon

\* As many elements as pairs.
LEMMA HoldsCount ==
    ASSUME NEW V, NEW m, NEW P, Holds(m, P, V)
    PROVE  IsFiniteSet(P) /\ m.elems = Cardinality(P) /\ m.elems \in Nat
<1>1. CASE m = EmptyMap /\ P = {}
  <2>1. IsFiniteSet({}) /\ Cardinality({}) = 0 /\ 0 \in Nat
    BY FS_EmptySet
  <2> QED
    BY <1>1, <2>1, Nothing, Zenon
<1>2. CASE Sound(m, m.size, V) /\ P = Pairs(m)
  <2> DEFINE U == Used(m)
             g == [s \in U |-> Held(m)[s]]
  <2>1. Sound(m, m.size, V)
    BY <1>2, Zenon
  <2>2. IsFiniteSet(U) /\ Cardinality(U) \in Nat
    BY <2>1, CountUsed
  <2>3. /\ \A s, t \in U : Held(m)[s] = Held(m)[t] => s = t
        /\ m.elems = Cardinality(U)
    BY <2>1, Zenon DEF Sound
  <2>4. P = {Held(m)[s] : s \in U}
    BY <1>2, Zenon DEF Pairs
  <2> HIDE DEF U
  <2>5. /\ g \in [U -> P] /\ \A s, t \in U : g[s] = g[t] => s = t
        /\ \A y \in P : \E s \in U : g[s] = y
    BY <2>3, <2>4, Zenon
  <2> HIDE DEF g
  <2>7. IsFiniteSet(P) /\ Cardinality(P) = Cardinality(U)
    BY <2>2, <2>5, OneToOne
  <2> QED
    BY <2>2, <2>3, <2>7, Zenon
<1> QED
  BY <1>1, <1>2, Zenon DEF Holds

\* The slots of a descriptor hold its pairs.
LEMMA HoldsSlots ==
    ASSUME NEW V, NEW m, NEW P, Holds(m, P, V), NEW f \in DOMAIN Hash
    PROVE  /\ \A s \in Slots(m, f) : s \in Used(m) /\ m.key[s] = f /\ <<f, m.val[s]>> \in P
           /\ \A v : <<f, v>> \in P => \E s \in Slots(m, f) : m.val[s] = v
           /\ \A s, t \in Slots(m, f) : m.val[s] = m.val[t] => s = t
<1>1. CASE m = EmptyMap /\ P = {}
  <2>1. Slots(m, f) = {}
    BY <1>1, Nothing, Zenon DEF Slots
  <2> QED
    BY <1>1, <2>1, Zenon
<1>2. CASE Sound(m, m.size, V) /\ P = Pairs(m)
  <2>1. Sound(m, m.size, V) /\ m \in Tables(m.size, V) /\ P = {Held(m)[s] : s \in Used(m)}
    BY <1>2, Zenon DEF Sound, Pairs
  <2>2. Slots(m, f) = {s \in Used(m) : m.key[s] = f}
    BY <2>1, SlotsFound
  <2>3. \A s, t \in Used(m) : Held(m)[s] = Held(m)[t] => s = t
    BY <2>1, Zenon DEF Sound
  <2>4. ASSUME NEW s \in Used(m) PROVE Held(m)[s] = <<m.key[s], m.val[s]>>
    <3>1. s \in 0 .. m.size - 1
      BY <2>1, IsUsed
    <3> QED
      BY <2>1, <3>1, HeldAt
  <2>5. \A s \in Slots(m, f) : s \in Used(m) /\ m.key[s] = f /\ <<f, m.val[s]>> \in P
    BY <2>1, <2>2, <2>4, Zenon
  <2>6. ASSUME NEW v, <<f, v>> \in P PROVE \E s \in Slots(m, f) : m.val[s] = v
    <3>1. PICK s \in Used(m) : Held(m)[s] = <<f, v>>
      BY <2>1, <2>6, Zenon
    <3>2. <<m.key[s], m.val[s]>> = <<f, v>>
      BY <2>4, <3>1, Zenon
    <3>3. m.key[s] = f /\ m.val[s] = v
      BY <3>2
    <3> QED
      BY <2>2, <3>3, Zenon
  <2>7. ASSUME NEW s \in Slots(m, f), NEW t \in Slots(m, f), m.val[s] = m.val[t] PROVE s = t
    <3>1. s \in Used(m) /\ t \in Used(m) /\ m.key[s] = m.key[t]
      BY <2>2, Zenon
    <3>2. Held(m)[s] = Held(m)[t]
      BY <2>4, <2>7, <3>1, Zenon
    <3> QED
      BY <2>3, <3>1, <3>2, Zenon
  <2> QED
    BY <2>5, <2>6, <2>7, Zenon
<1> QED
  BY <1>1, <1>2, Zenon DEF Holds

\* A descriptor has finitely many slots.
LEMMA HoldsFinite ==
    ASSUME NEW V, NEW m, NEW P, Holds(m, P, V), NEW f \in DOMAIN Hash
    PROVE  IsFiniteSet(Slots(m, f))
<1>1. CASE m = EmptyMap /\ P = {}
  <2>1. Slots(m, f) = {}
    BY <1>1, Nothing, Zenon DEF Slots
  <2> QED
    BY <2>1, FS_EmptySet, Zenon
<1>2. CASE Sound(m, m.size, V) /\ P = Pairs(m)
  <2>1. IsFiniteSet(Used(m))
    BY <1>2, CountUsed
  <2>2. Slots(m, f) \in SUBSET Used(m)
    BY HoldsSlots, Zenon
  <2> QED
    BY <2>1, <2>2, FS_Subset, Zenon
<1> QED
  BY <1>1, <1>2, Zenon DEF Holds

\* What is held are pairs.
LEMMA HoldsPairs ==
    ASSUME NEW V, NEW m, NEW P, Holds(m, P, V), NEW e \in P
    PROVE  \E v : e = <<e[1], v>>
<1>1. Sound(m, m.size, V) /\ P = Pairs(m)
  BY Zenon DEF Holds
<1>2. m \in Tables(m.size, V) /\ P = {Held(m)[s] : s \in Used(m)}
  BY <1>1, Zenon DEF Sound, Pairs
<1>3. PICK s \in Used(m) : e = Held(m)[s]
  BY <1>2, Zenon
<1>4. s \in 0 .. m.size - 1
  BY <1>2, IsUsed
<1>5. e = <<m.key[s], m.val[s]>>
  BY <1>2, <1>3, <1>4, HeldAt
<1>6. e[1] = m.key[s]
  BY <1>5
<1> QED
  BY <1>5, <1>6, Zenon

\* First finds one of the slots it is asked for.
LEMMA HoldsFirst ==
    ASSUME NEW V, NEW m, NEW P, Holds(m, P, V), NEW f, NEW S \in SUBSET Slots(m, f), S # {}
    PROVE  First(m, f, S) \in S
<1>1. CASE m = EmptyMap /\ P = {}
  <2>1. Slots(m, f) = {}
    BY <1>1, Nothing, Zenon DEF Slots
  <2> QED
    BY <2>1, Zenon
<1>2. CASE Sound(m, m.size, V) /\ P = Pairs(m)
  BY <1>2, FirstFound
<1> QED
  BY <1>1, <1>2, Zenon DEF Holds

\* One turn of the loop of IOHandle::remove.
LEMMA TurnHolds ==
    ASSUME NEW V, NEW m, NEW P, Holds(m, P, V), NEW f \in DOMAIN Hash, Slots(m, f) # {}
    PROVE  \E e \in P : /\ Holds(remove(m, find(m, f)), P \ {e}, V)
                        /\ e[1] = f
<1> DEFINE pos == find(m, f)
           S == Slots(m, f)
           e == <<f, m.val[pos]>>
<1>1. S \in SUBSET Slots(m, f) /\ S # {}
  BY Zenon
<1>2. pos = First(m, f, S)
  BY Zenon DEF find
<1> HIDE DEF S, pos
<1>3. First(m, f, S) \in S
  BY <1>1, HoldsFirst
<1>4. pos \in Slots(m, f)
  BY <1>1, <1>2, <1>3, Zenon
<1>5. pos \in Used(m) /\ m.key[pos] = f /\ e \in P
  BY <1>4, HoldsSlots
<1>6. Holds(remove(m, pos), P \ {<<m.key[pos], m.val[pos]>>}, V)
  BY <1>5, removeHolds
<1>7. e[1] = f
  OBVIOUS
<1>8. Holds(remove(m, pos), P \ {e}, V)
  BY <1>5, <1>6, Zenon
<1> HIDE DEF e
<1> QED
  BY <1>5, <1>7, <1>8, Zenon DEF pos

\* The maps that removeAll goes through.
Emptied(after, m, f) ==
    /\ after[0] = m /\ after[m.elems] = removeAll(m, f)
    /\ \A i \in 0 .. m.elems - 1 :
          after[i + 1] = IF Slots(after[i], f) = {} THEN after[i]
                         ELSE remove(after[i], find(after[i], f))

\* removeAll is what its definition says: turn by turn.
LEMMA EmptiedSteps ==
    ASSUME NEW m, NEW f, m.elems \in Nat
    PROVE  \E after : Emptied(after, m, f)
<1> DEFINE n == m.elems
           Turn(x) == IF Slots(x, f) = {} THEN x ELSE remove(x, find(x, f))
           Takes(g, k) == g = [i \in 0 .. k |-> IF i = 0 THEN m
                                                ELSE IF Slots(g[i - 1], f) = {} THEN g[i - 1]
                                                ELSE remove(g[i - 1], find(g[i - 1], f))]
           S == {k \in Nat : \E g : Takes(g, k)}
<1>1. 0 \in S
  <2> DEFINE g == [i \in 0 .. 0 |-> m]
  <2>1. \A i \in 0 .. 0 : i = 0
    OBVIOUS
  <2>2. Takes(g, 0)
    BY <2>1, Zenon
  <2> QED
    BY <2>2, Zenon
<1>2. ASSUME NEW k \in Nat, k \in S PROVE k + 1 \in S
  <2>0. k + 1 \in Nat
    OBVIOUS
  <2>1. PICK g : Takes(g, k)
    BY <1>2, Zenon
  <2> DEFINE e == [i \in 0 .. k + 1 |-> IF i = k + 1 THEN Turn(g[k]) ELSE g[i]]
  <2>2. ASSUME NEW i \in 0 .. k + 1
        PROVE  e[i] = IF i = 0 THEN m
                      ELSE IF Slots(e[i - 1], f) = {} THEN e[i - 1]
                      ELSE remove(e[i - 1], find(e[i - 1], f))
    <3>1. CASE i = k + 1
      <4>1. i # 0 /\ i - 1 = k /\ k \in 0 .. k + 1 /\ k # k + 1
        BY <3>1
      <4>2. e[i] = Turn(g[k]) /\ e[k] = g[k]
        BY <3>1, <4>1, Zenon
      <4> HIDE DEF e
      <4> QED
        BY <4>1, <4>2, Zenon
    <3>2. CASE i # k + 1
      <4>1. i \in 0 .. k /\ (i # 0 => i - 1 \in 0 .. k + 1 /\ i - 1 # k + 1)
        BY <3>2
      <4>2. g[i] = IF i = 0 THEN m
                   ELSE IF Slots(g[i - 1], f) = {} THEN g[i - 1]
                   ELSE remove(g[i - 1], find(g[i - 1], f))
        BY <2>1, <4>1, Zenon
      <4>3. e[i] = g[i] /\ (i # 0 => e[i - 1] = g[i - 1])
        BY <3>2, <4>1, Zenon
      <4> HIDE DEF e
      <4> QED
        BY <4>2, <4>3, Zenon
    <3> QED
      BY <3>1, <3>2, Zenon
  <2>3. e = [i \in 0 .. k + 1 |-> e[i]]
    BY Zenon
  <2> HIDE DEF e
  <2>4. Takes(e, k + 1)
    BY <2>2, <2>3, Zenon
  <2> HIDE DEF Takes
  <2> QED
    BY <2>0, <2>4, Zenon
<1>3. Nat \subseteq S
  <2> HIDE DEF S
  <2> QED
    BY <1>1, <1>2, AllOf, Zenon
<1>4. PICK g : Takes(g, n)
  BY <1>3, Zenon
<1>5. PICK after : Takes(after, n) /\ removeAll(m, f) = after[n]
  BY <1>4, Zenon DEF removeAll
<1>6. n \in Nat
  BY Zenon
<1>7. after[0] = m
  <2>1. 0 \in 0 .. n
    BY <1>6
  <2> QED
    BY <1>5, <2>1, Zenon
<1>8. ASSUME NEW i \in 0 .. n - 1
      PROVE  after[i + 1] = IF Slots(after[i], f) = {} THEN after[i]
                            ELSE remove(after[i], find(after[i], f))
  <2>1. i + 1 \in 0 .. n /\ i + 1 # 0 /\ (i + 1) - 1 = i
    BY <1>6
  <2>2. after[i + 1] = IF Slots(after[(i + 1) - 1], f) = {} THEN after[(i + 1) - 1]
                       ELSE remove(after[(i + 1) - 1], find(after[(i + 1) - 1], f))
    BY <1>5, <2>1, Zenon
  <2> QED
    BY <2>1, <2>2, Zenon
<1> QED
  BY <1>5, <1>7, <1>8, Zenon DEF Emptied

\* IOHandle::remove leaves the pairs of the other descriptors.
LEMMA removeAllHolds ==
    ASSUME NEW V, NEW m, NEW P, Holds(m, P, V), NEW f \in DOMAIN Hash
    PROVE  Holds(removeAll(m, f), Others(P, f), V)
<1> DEFINE n == m.elems
           Left(Q, i) == /\ Others(P, f) \subseteq Q /\ Q \subseteq P
                         /\ (Q = Others(P, f) \/ Cardinality(Q) <= n - i)
           Fine(x, i) == \E Q : Holds(x, Q, V) /\ Left(Q, i)
<1>1. IsFiniteSet(P) /\ n = Cardinality(P) /\ n \in Nat
  BY HoldsCount
<1>2. \E after : Emptied(after, m, f)
  BY <1>1, EmptiedSteps
<1>3. PICK after : Emptied(after, m, f)
  BY <1>2, Zenon
<1>4. /\ after[0] = m /\ after[n] = removeAll(m, f)
      /\ \A i \in 0 .. n - 1 : after[i + 1] = IF Slots(after[i], f) = {} THEN after[i]
                                              ELSE remove(after[i], find(after[i], f))
  BY <1>3, Zenon DEF Emptied
<1> HIDE DEF n
<1> DEFINE S == {i \in Nat : i <= n => Fine(after[i], i)}
<1>5. 0 \in S
  <2>1. Cardinality(P) <= n - 0 /\ 0 \in Nat
    BY <1>1
  <2>2. Others(P, f) \subseteq P /\ P \subseteq P
    BY Zenon DEF Others
  <2>3. Fine(m, 0)
    BY <2>1, <2>2, Zenon
  <2> HIDE DEF Fine
  <2> QED
    BY <1>4, <2>1, <2>3, Zenon
<1>6. ASSUME NEW i \in Nat, i \in S PROVE i + 1 \in S
  <2>0. i + 1 \in Nat
    OBVIOUS
  <2> SUFFICES ASSUME i + 1 <= n PROVE Fine(after[i + 1], i + 1)
    BY <2>0, Zenon
  <2>1. i <= n /\ i \in 0 .. n - 1
    BY <1>1
  <2> DEFINE x == after[i]
  <2>2. after[i + 1] = IF Slots(x, f) = {} THEN x ELSE remove(x, find(x, f))
    BY <1>4, <2>1, Zenon
  <2>3. Fine(x, i)
    <3> HIDE DEF Fine
    <3> QED
      BY <1>6, <2>1, Zenon
  <2> HIDE DEF x
  <2>4. PICK Q : Holds(x, Q, V) /\ Left(Q, i)
    BY <2>3, Zenon
  <2>5. IsFiniteSet(Q) /\ Cardinality(Q) \in Nat
    <3>1. IsFiniteSet(Q) /\ x.elems = Cardinality(Q) /\ x.elems \in Nat
      BY <2>4, HoldsCount
    <3> QED
      BY <3>1, Zenon
  <2>6. CASE Slots(x, f) = {}
    <3>1. \A v : <<f, v>> \notin Q
      <4>1. \A v : <<f, v>> \in Q => \E s \in Slots(x, f) : x.val[s] = v
        BY <2>4, HoldsSlots
      <4> QED
        BY <2>6, <4>1, Zenon
    <3>2. ASSUME NEW e \in Q PROVE e[1] # f
      <4>1. \E v : e = <<e[1], v>>
        BY <2>4, HoldsPairs
      <4> QED
        BY <3>1, <4>1, Zenon
    <3>3. Q = Others(P, f)
      BY <2>4, <3>2, Zenon DEF Others
    <3> QED
      BY <2>2, <2>4, <2>6, <3>3, Zenon
  <2>7. CASE Slots(x, f) # {}
    <3>1. PICK e \in Q : Holds(remove(x, find(x, f)), Q \ {e}, V) /\ e[1] = f
      BY <2>4, <2>7, TurnHolds
    <3>2. e \notin Others(P, f)
      BY <3>1, Zenon DEF Others
    <3>3. Q # Others(P, f)
      BY <3>2, Zenon
    <3>4. Cardinality(Q) <= n - i
      BY <2>4, <3>3, Zenon
    <3>5. Cardinality(Q \ {e}) = Cardinality(Q) - 1
      BY <2>5, FS_RemoveElement, Zenon
    <3>6. Cardinality(Q \ {e}) <= n - (i + 1)
      BY <1>1, <2>5, <3>4, <3>5
    <3>7. Others(P, f) \subseteq Q \ {e} /\ Q \ {e} \subseteq P
      BY <2>4, <3>2, Zenon
    <3>8. Left(Q \ {e}, i + 1)
      BY <3>6, <3>7, Zenon
    <3> HIDE DEF Left
    <3> QED
      BY <2>2, <2>7, <3>1, <3>8, Zenon
  <2> QED
    BY <2>6, <2>7, Zenon
<1>7. Nat \subseteq S
  <2> HIDE DEF S
  <2> QED
    BY <1>5, <1>6, AllOf, Zenon
<1>8. n <= n
  BY <1>1
<1>9. Fine(after[n], n)
  <2> HIDE DEF Fine
  <2> QED
    BY <1>1, <1>7, <1>8, Zenon
<1>10. PICK Q : Holds(after[n], Q, V) /\ Left(Q, n)
  BY <1>9, Zenon
<1>11. Q = Others(P, f)
  <2>1. CASE Cardinality(Q) <= n - n
    <3>1. IsFiniteSet(Q) /\ after[n].elems = Cardinality(Q) /\ after[n].elems \in Nat
      BY <1>10, HoldsCount
    <3>2. Cardinality(Q) = 0
      BY <1>1, <2>1, <3>1
    <3>3. Q = {}
      BY <3>1, <3>2, FS_EmptySet, Zenon
    <3> QED
      BY <1>10, <3>3, Zenon
  <2> QED
    BY <1>10, <2>1, Zenon
<1> QED
  BY <1>4, <1>10, <1>11, Zenon


----------------------------------------------------------------------------
(***************************************************************************)
(* Every history.                                                          *)
(***************************************************************************)

\* The histories of one more operation at a time.
Lengthened(upTo, n, values) ==
    /\ upTo[0] = {[map |-> EmptyMap, pairs |-> {}]} /\ upTo[n] = Histories(n, values)
    /\ \A i \in 0 .. n - 1 : upTo[i + 1] = upTo[i] \cup UNION {Later(p, values) : p \in upTo[i]}

\* Histories is what its definition says: operation by operation.
LEMMA HistorySteps ==
    ASSUME NEW n \in Nat, NEW values
    PROVE  \E upTo : Lengthened(upTo, n, values)
<1> DEFINE More(H) == H \cup UNION {Later(p, values) : p \in H}
           Start == {[map |-> EmptyMap, pairs |-> {}]}
           Runs(g, k) == g = [i \in 0 .. k |->
                                 IF i = 0 THEN {[map |-> EmptyMap, pairs |-> {}]}
                                 ELSE g[i - 1] \cup UNION {Later(p, values) : p \in g[i - 1]}]
           S == {k \in Nat : \E g : Runs(g, k)}
<1>1. 0 \in S
  <2> DEFINE g == [i \in 0 .. 0 |-> Start]
  <2>1. \A i \in 0 .. 0 : i = 0
    OBVIOUS
  <2>2. Runs(g, 0)
    BY <2>1, Zenon
  <2> QED
    BY <2>2, Zenon
<1>2. ASSUME NEW k \in Nat, k \in S PROVE k + 1 \in S
  <2>0. k + 1 \in Nat
    OBVIOUS
  <2>1. PICK g : Runs(g, k)
    BY <1>2, Zenon
  <2> DEFINE e == [i \in 0 .. k + 1 |-> IF i = k + 1 THEN More(g[k]) ELSE g[i]]
  <2>2. ASSUME NEW i \in 0 .. k + 1
        PROVE  e[i] = IF i = 0 THEN Start ELSE More(e[i - 1])
    <3>1. CASE i = k + 1
      <4>1. i # 0 /\ i - 1 = k /\ k \in 0 .. k + 1 /\ k # k + 1
        BY <3>1
      <4>2. e[i] = More(g[k]) /\ e[k] = g[k]
        BY <3>1, <4>1, Zenon
      <4> HIDE DEF e, More
      <4> QED
        BY <4>1, <4>2, Zenon
    <3>2. CASE i # k + 1
      <4>1. i \in 0 .. k /\ (i # 0 => i - 1 \in 0 .. k + 1 /\ i - 1 # k + 1)
        BY <3>2
      <4>2. g[i] = IF i = 0 THEN Start ELSE More(g[i - 1])
        BY <2>1, <4>1, Zenon
      <4>3. e[i] = g[i] /\ (i # 0 => e[i - 1] = g[i - 1])
        BY <3>2, <4>1, Zenon
      <4> HIDE DEF e, More
      <4> QED
        BY <4>2, <4>3, Zenon
    <3> QED
      BY <3>1, <3>2, Zenon
  <2>3. e = [i \in 0 .. k + 1 |-> e[i]]
    BY Zenon
  <2> HIDE DEF e
  <2>4. Runs(e, k + 1)
    BY <2>2, <2>3, Zenon
  <2> HIDE DEF Runs
  <2> QED
    BY <2>0, <2>4, Zenon
<1>3. Nat \subseteq S
  <2> HIDE DEF S
  <2> QED
    BY <1>1, <1>2, AllOf, Zenon
<1>4. PICK g : Runs(g, n)
  BY <1>3, Zenon
<1>5. PICK upTo : Runs(upTo, n) /\ Histories(n, values) = upTo[n]
  BY <1>4, Zenon DEF Histories
<1>6. upTo[0] = Start
  <2>1. 0 \in 0 .. n
    OBVIOUS
  <2> QED
    BY <1>5, <2>1, Zenon
<1>7. ASSUME NEW i \in 0 .. n - 1
      PROVE  upTo[i + 1] = More(upTo[i])
  <2>1. i + 1 \in 0 .. n /\ i + 1 # 0 /\ (i + 1) - 1 = i
    OBVIOUS
  <2>2. upTo[i + 1] = More(upTo[(i + 1) - 1])
    BY <1>5, <2>1, Zenon
  <2> HIDE DEF More
  <2> QED
    BY <2>1, <2>2, Zenon
<1> QED
  BY <1>5, <1>6, <1>7, Zenon DEF Lengthened

\* One more operation, on a map that holds what it should.
LEMMA LaterHolds ==
    ASSUME NEW values \in SUBSET Nat, NEW p, Holds(p.map, p.pairs, values),
           NEW q \in Later(p, values)
    PROVE  Holds(q.map, q.pairs, values)
<1> DEFINE m == p.map
           P == p.pairs
           fresh == {v \in values : \A e \in P : e[2] # v}
           least == CHOOSE v \in fresh : \A w \in fresh : v <= w
<1>1. \/ \E s \in Used(m) : q = [map |-> remove(m, s), pairs |-> P \ {<<m.key[s], m.val[s]>>}]
      \/ \E f \in DOMAIN Hash : q = [map |-> removeAll(m, f), pairs |-> {e \in P : e[1] # f}]
      \/ /\ fresh # {}
         /\ \E f \in DOMAIN Hash : q = [map |-> put(m, f, least), pairs |-> P \cup {<<f, least>>}]
  BY Zenon DEF Later
<1>2. Holds(m, P, values)
  BY Zenon
<1> HIDE DEF m, P
<1>3. CASE \E s \in Used(m) : q = [map |-> remove(m, s), pairs |-> P \ {<<m.key[s], m.val[s]>>}]
  <2>1. PICK s \in Used(m) : q = [map |-> remove(m, s), pairs |-> P \ {<<m.key[s], m.val[s]>>}]
    BY <1>3, Zenon
  <2>2. Holds(remove(m, s), P \ {<<m.key[s], m.val[s]>>}, values)
    BY <1>2, removeHolds
  <2>3. q.map = remove(m, s) /\ q.pairs = P \ {<<m.key[s], m.val[s]>>}
    BY <2>1, Zenon
  <2> QED
    BY <2>2, <2>3, Zenon
<1>4. CASE \E f \in DOMAIN Hash : q = [map |-> removeAll(m, f), pairs |-> {e \in P : e[1] # f}]
  <2>1. PICK f \in DOMAIN Hash : q = [map |-> removeAll(m, f), pairs |-> {e \in P : e[1] # f}]
    BY <1>4, Zenon
  <2>2. Holds(removeAll(m, f), Others(P, f), values)
    BY <1>2, removeAllHolds
  <2>3. q.map = removeAll(m, f) /\ q.pairs = Others(P, f)
    BY <2>1, Zenon DEF Others
  <2> QED
    BY <2>2, <2>3, Zenon
<1>5. CASE /\ fresh # {}
           /\ \E f \in DOMAIN Hash : q = [map |-> put(m, f, least), pairs |-> P \cup {<<f, least>>}]
  <2>1. PICK f \in DOMAIN Hash : q = [map |-> put(m, f, least), pairs |-> P \cup {<<f, least>>}]
    BY <1>5, Zenon
  <2>2. fresh \in SUBSET Nat /\ fresh # {}
    BY <1>5, Zenon
  <2>3. least \in fresh
    <3> HIDE DEF fresh
    <3>1. \E v \in fresh : \A w \in fresh : v <= w
      BY <2>2, LeastOf, Zenon
    <3> QED
      BY <3>1, Zenon
  <2>4. least \in values /\ \A e \in P : e[2] # least
    BY <2>3, Zenon
  <2> HIDE DEF least, fresh
  <2>5. <<f, least>>[2] = least
    OBVIOUS
  <2>6. <<f, least>> \notin P
    BY <2>4, <2>5, Zenon
  <2>7. Holds(put(m, f, least), P \cup {<<f, least>>}, values)
    BY <1>2, <2>4, <2>6, putHolds
  <2>8. q.map = put(m, f, least) /\ q.pairs = P \cup {<<f, least>>}
    BY <2>1, Zenon
  <2> QED
    BY <2>7, <2>8, Zenon
<1> QED
  BY <1>1, <1>3, <1>4, <1>5, Zenon

\* After every history the map holds what it should.
LEMMA HistoryHolds ==
    ASSUME NEW n \in Nat, NEW values \in SUBSET Nat, NEW p \in Histories(n, values)
    PROVE  Holds(p.map, p.pairs, values)
<1>1. \E upTo : Lengthened(upTo, n, values)
  BY HistorySteps
<1>2. PICK upTo : Lengthened(upTo, n, values)
  BY <1>1, Zenon
<1>3. /\ upTo[0] = {[map |-> EmptyMap, pairs |-> {}]} /\ upTo[n] = Histories(n, values)
      /\ \A i \in 0 .. n - 1 : upTo[i + 1] = upTo[i] \cup UNION {Later(r, values) : r \in upTo[i]}
  BY <1>2, Zenon DEF Lengthened
<1> DEFINE Good(H) == \A r \in H : Holds(r.map, r.pairs, values)
           S == {i \in Nat : i <= n => Good(upTo[i])}
<1>4. 0 \in S
  <2>1. Holds(EmptyMap, {}, values)
    BY Zenon DEF Holds
  <2> DEFINE r == [map |-> EmptyMap, pairs |-> {}]
  <2>a. r.map = EmptyMap /\ r.pairs = {}
    BY Zenon
  <2>b. upTo[0] = {r}
    BY <1>3, Zenon
  <2> HIDE DEF r
  <2>2. Good({r})
    BY <2>1, <2>a, Zenon
  <2>3. 0 \in Nat
    OBVIOUS
  <2> HIDE DEF Good
  <2> QED
    BY <2>b, <2>2, <2>3, Zenon
<1>5. ASSUME NEW i \in Nat, i \in S PROVE i + 1 \in S
  <2>0. i + 1 \in Nat
    OBVIOUS
  <2> SUFFICES ASSUME i + 1 <= n PROVE Good(upTo[i + 1])
    BY <2>0, Zenon
  <2>1. i <= n /\ i \in 0 .. n - 1
    OBVIOUS
  <2>2. Good(upTo[i])
    <3> HIDE DEF Good
    <3> QED
      BY <1>5, <2>1, Zenon
  <2> SUFFICES ASSUME NEW r \in upTo[i + 1] PROVE Holds(r.map, r.pairs, values)
    BY Zenon
  <2>3. r \in upTo[i] \/ \E o \in upTo[i] : r \in Later(o, values)
    <3>1. upTo[i + 1] = upTo[i] \cup UNION {Later(o, values) : o \in upTo[i]}
      BY <1>3, <2>1, Zenon
    <3> QED
      BY <3>1, Zenon
  <2>4. CASE r \in upTo[i]
    BY <2>2, <2>4, Zenon
  <2>5. CASE \E o \in upTo[i] : r \in Later(o, values)
    <3>1. PICK o \in upTo[i] : r \in Later(o, values)
      BY <2>5, Zenon
    <3>2. Holds(o.map, o.pairs, values)
      BY <2>2, <3>1, Zenon
    <3> QED
      BY <3>1, <3>2, LaterHolds
  <2> QED
    BY <2>3, <2>4, <2>5, Zenon
<1>6. Nat \subseteq S
  <2> HIDE DEF S
  <2> QED
    BY <1>4, <1>5, AllOf, Zenon
<1>7. n <= n
  OBVIOUS
<1>8. Good(upTo[n])
  <2> HIDE DEF Good
  <2> QED
    BY <1>6, <1>7, Zenon
<1> QED
  BY <1>3, <1>8, Zenon


(***************************************************************************)
(* FdMap is a multimap: whatever puts, removes and removals of a           *)
(* descriptor a map has seen, and however it grew, shrank and moved its    *)
(* elements meanwhile, it has as many elements as it should, find and next *)
(* reach each element of a descriptor once, and poll is given no others.   *)
(***************************************************************************)
THEOREM Multimap ==
    ASSUME NEW n \in Nat, NEW values \in SUBSET Nat
    PROVE  Agrees(n, values)
<1> SUFFICES ASSUME NEW p \in Histories(n, values)
             PROVE  /\ p.map.elems = Cardinality(p.pairs)
                    /\ \A f \in DOMAIN Hash :
                          /\ Cardinality(Slots(p.map, f)) = Cardinality({e \in p.pairs : e[1] = f})
                          /\ \A s \in Slots(p.map, f) : <<f, p.map.val[s]>> \in p.pairs
                    /\ {<<p.map.key[s], p.map.val[s]>> : s \in DOMAIN p.map.key}
                          \subseteq p.pairs \cup {<<NoFd, NoValue>>}
  BY Zenon DEF Agrees
<1> DEFINE m == p.map
           P == p.pairs
<1>1. Holds(m, P, values)
  BY HistoryHolds
<1> HIDE DEF m, P
<1>2. IsFiniteSet(P) /\ m.elems = Cardinality(P)
  BY <1>1, HoldsCount
<1>3. ASSUME NEW f \in DOMAIN Hash
      PROVE  /\ Cardinality(Slots(m, f)) = Cardinality({e \in P : e[1] = f})
             /\ \A s \in Slots(m, f) : <<f, m.val[s]>> \in P
  <2> DEFINE S == Slots(m, f)
             T == {e \in P : e[1] = f}
             g == [s \in S |-> <<f, m.val[s]>>]
  <2>1. /\ \A s \in S : s \in Used(m) /\ m.key[s] = f /\ <<f, m.val[s]>> \in P
        /\ \A v : <<f, v>> \in P => \E s \in S : m.val[s] = v
        /\ \A s, t \in S : m.val[s] = m.val[t] => s = t
    BY <1>1, HoldsSlots
  <2> HIDE DEF S
  <2>2. \A v : <<f, v>>[1] = f
    OBVIOUS
  <2>3. g \in [S -> T]
    BY <2>1, <2>2, Zenon
  <2>4. ASSUME NEW s \in S, NEW t \in S, g[s] = g[t] PROVE s = t
    <3>1. <<f, m.val[s]>> = <<f, m.val[t]>>
      BY <2>4, Zenon
    <3>2. m.val[s] = m.val[t]
      BY <3>1
    <3> QED
      BY <2>1, <3>2, Zenon
  <2>5. ASSUME NEW y \in T PROVE \E s \in S : g[s] = y
    <3>1. y \in P /\ y[1] = f
      BY Zenon
    <3>2. \E v : y = <<y[1], v>>
      BY <1>1, <3>1, HoldsPairs
    <3>3. PICK v : y = <<f, v>>
      BY <3>1, <3>2, Zenon
    <3>4. PICK s \in S : m.val[s] = v
      BY <2>1, <3>1, <3>3, Zenon
    <3> QED
      BY <3>3, <3>4, Zenon
  <2>6. IsFiniteSet(S)
    BY <1>1, HoldsFinite DEF S
  <2> HIDE DEF g, T
  <2>7. Cardinality(S) = Cardinality(T)
    BY <2>3, <2>4, <2>5, <2>6, OneToOne
  <2> QED
    BY <2>1, <2>7, Zenon DEF S, T
<1>4. ASSUME NEW s \in DOMAIN m.key
      PROVE  <<m.key[s], m.val[s]>> \in P \cup {<<NoFd, NoValue>>}
  <2>1. CASE m = EmptyMap /\ P = {}
    <3>1. m.key = <<>>
      BY <2>1, Zenon DEF EmptyMap
    <3>2. DOMAIN <<>> = {}
      OBVIOUS
    <3> QED
      BY <3>1, <3>2, Zenon
  <2>2. CASE Sound(m, m.size, values) /\ P = Pairs(m)
    <3>1. /\ m \in Tables(m.size, values) /\ P = {Held(m)[r] : r \in Used(m)}
          /\ \A r \in 0 .. m.size - 1 : m.info[r] = free => m.key[r] = NoFd /\ m.val[r] = NoValue
      BY <2>2, Zenon DEF Sound, Pairs
    <3>2. m.key \in [0 .. m.size - 1 -> DOMAIN Hash \cup {NoFd}]
      BY <3>1, Members
    <3>3. s \in 0 .. m.size - 1
      BY <3>2, Zenon
    <3>4. CASE m.info[s] = free
      BY <3>1, <3>3, <3>4, Zenon
    <3>5. CASE m.info[s] # free
      <4>1. s \in Used(m)
        BY <3>1, <3>3, <3>5, IsUsed
      <4>2. Held(m)[s] = <<m.key[s], m.val[s]>>
        BY <3>1, <3>3, HeldAt
      <4> QED
        BY <3>1, <4>1, <4>2, Zenon
    <3> QED
      BY <3>4, <3>5, Zenon
  <2> QED
    BY <1>1, <2>1, <2>2, Zenon DEF Holds
<1> QED
  BY <1>2, <1>3, <1>4, Zenon DEF m, P

----------------------------------------------------------------------------
(***************************************************************************)
(* The maps with the pairs they hold, as a set.                            *)
(***************************************************************************)
Maps(V) == {EmptyMap} \cup UNION {Tables(n, V) : n \in Nat}
Kept(V) == {e \in Maps(V) \X SUBSET ((DOMAIN Hash) \X V) : Holds(e[1], e[2], V)}

\* The pairs that a map of Kept holds.
LEMMA KeptHolds ==
    ASSUME NEW V, NEW m, NEW P
    PROVE  <<m, P>> \in Kept(V) <=> Holds(m, P, V)
<1>1. <<m, P>>[1] = m /\ <<m, P>>[2] = P
  OBVIOUS
<1>2. <<m, P>> \in Kept(V) => Holds(m, P, V)
  BY <1>1, Zenon DEF Kept
<1>3. ASSUME Holds(m, P, V) PROVE m \in Maps(V) /\ P \in SUBSET ((DOMAIN Hash) \X V)
  <2>1. CASE m = EmptyMap /\ P = {}
    BY <2>1, Zenon DEF Maps
  <2>2. CASE Sound(m, m.size, V) /\ P = Pairs(m)
    <3>1. /\ m.size \in Nat /\ m \in Tables(m.size, V) /\ P = {Held(m)[s] : s \in Used(m)}
          /\ \A s \in 0 .. m.size - 1 :
                m.info[s] # free => m.key[s] \in DOMAIN Hash /\ m.val[s] \in V
      BY <2>2, Zenon DEF Sound, Pairs
    <3>2. ASSUME NEW s \in Used(m) PROVE Held(m)[s] \in (DOMAIN Hash) \X V
      <4>1. s \in 0 .. m.size - 1 /\ m.info[s] # free
        BY <3>1, IsUsed
      <4>2. Held(m)[s] = <<m.key[s], m.val[s]>>
        BY <3>1, <4>1, HeldAt
      <4>3. m.key[s] \in DOMAIN Hash /\ m.val[s] \in V
        BY <3>1, <4>1, Zenon
      <4> QED
        BY <4>2, <4>3
    <3>3. P \subseteq (DOMAIN Hash) \X V
      BY <3>1, <3>2, Zenon
    <3> QED
      BY <3>1, <3>3, Zenon DEF Maps
  <2> QED
    BY <1>3, <2>1, <2>2, Zenon DEF Holds
<1>4. ASSUME Holds(m, P, V) PROVE <<m, P>> \in Kept(V)
  <2> DEFINE E == Maps(V) \X SUBSET ((DOMAIN Hash) \X V)
  <2>1. <<m, P>> \in E
    BY <1>3, <1>4
  <2> QED
    BY <1>1, <1>4, <2>1, Zenon DEF Kept
<1> QED
  BY <1>2, <1>4, Zenon

(***************************************************************************)
(* The maps the operations lead to keep exactly the pairs that were put    *)
(* and not removed, and give them back.                                    *)
(***************************************************************************)
THEOREM KeepsPairs ==
    ASSUME NEW V
    PROVE  Keeps(Kept(V), V)
<1>1. <<EmptyMap, {}>> \in Kept(V)
  <2>1. Holds(EmptyMap, {}, V)
    BY Zenon DEF Holds
  <2> QED
    BY <2>1, KeptHolds
<1>2. ASSUME NEW m, NEW P, <<m, P>> \in Kept(V)
      PROVE  /\ Answers(m, P)
             /\ \A s \in Used(m) : <<remove(m, s), P \ {<<m.key[s], m.val[s]>>}>> \in Kept(V)
             /\ \A f \in DOMAIN Hash : <<removeAll(m, f), Others(P, f)>> \in Kept(V)
             /\ \A f \in DOMAIN Hash, v \in V :
                   <<f, v>> \notin P => <<put(m, f, v), P \cup {<<f, v>>}>> \in Kept(V)
  <2>1. Holds(m, P, V)
    BY <1>2, KeptHolds
  <2>2. m.elems = Cardinality(P) /\ IsFiniteSet(P)
    BY <2>1, HoldsCount
  <2>3. ASSUME NEW s \in Used(m)
        PROVE  <<remove(m, s), P \ {<<m.key[s], m.val[s]>>}>> \in Kept(V)
    <3>1. Holds(remove(m, s), P \ {<<m.key[s], m.val[s]>>}, V)
      BY <2>1, removeHolds
    <3> QED
      BY <3>1, KeptHolds
  <2>4. ASSUME NEW f \in DOMAIN Hash
        PROVE  <<removeAll(m, f), Others(P, f)>> \in Kept(V)
    <3>1. Holds(removeAll(m, f), Others(P, f), V)
      BY <2>1, removeAllHolds
    <3> QED
      BY <3>1, KeptHolds
  <2>5. ASSUME NEW f \in DOMAIN Hash, NEW v \in V, <<f, v>> \notin P
        PROVE  <<put(m, f, v), P \cup {<<f, v>>}>> \in Kept(V)
    <3>1. Holds(put(m, f, v), P \cup {<<f, v>>}, V)
      BY <2>1, <2>5, putHolds
    <3> QED
      BY <3>1, KeptHolds
  <2>6. ASSUME NEW f \in DOMAIN Hash
        PROVE  /\ \A s \in Slots(m, f) : s \in Used(m) /\ m.key[s] = f /\ <<f, m.val[s]>> \in P
               /\ \A v : <<f, v>> \in P => \E s \in Slots(m, f) : m.val[s] = v
    BY <2>1, HoldsSlots
  <2>7. ASSUME NEW f, NEW S \in SUBSET Slots(m, f), S # {} PROVE First(m, f, S) \in S
    BY <2>1, <2>7, HoldsFirst
  <2>8. Answers(m, P)
    BY <2>2, <2>6, <2>7, Zenon DEF Answers
  <2> QED
    BY <2>3, <2>4, <2>5, <2>8, Zenon
<1> QED
  BY <1>1, <1>2, Zenon DEF Keeps
============================================================================
