------------------------------- MODULE FdMap --------------------------------
(***************************************************************************)
(* os::FdMap (OS/FdMap.h): a hash table from file descriptors to requests, *)
(* several per descriptor, whose keys are the array that poll looks at.    *)
(* Elements with the same primary slot form a chain that begins there; the *)
(* rest of it lies wherever a slot was free.                               *)
(*                                                                         *)
(* A map is a record of the members.  Hash stands for hash() and MinSize   *)
(* for the initial capacity, 8 in the code.                                *)
(***************************************************************************)
EXTENDS Integers, Sequences, FiniteSetsExt

CONSTANTS Hash, MinSize, NoFd, NoValue

ASSUME FdMapAssumption ==
    /\ \A f \in DOMAIN Hash : Hash[f] \in Nat
    /\ NoFd \notin DOMAIN Hash /\ MinSize \in Nat \ {0}

free == -1
end == -2

EmptyMap == [size |-> 0, elems |-> 0, lastFree |-> 0,
             info |-> <<>>, key |-> <<>>, val |-> <<>>]

Cleared(n) ==
    [size |-> n, elems |-> 0, lastFree |-> 0,
     info |-> [s \in 0 .. n - 1 |-> free],
     key |-> [s \in 0 .. n - 1 |-> NoFd],
     val |-> [s \in 0 .. n - 1 |-> NoValue]]

primarySlot(m, f) == Hash[f] % m.size

\* The first free slot from lastFree on, around the end.
freeSlot(m) ==
    LET At(k) == (m.lastFree + k) % m.size
    IN  At(Min({k \in 0 .. m.size - 1 : m.info[At(k)] = free}))

\* The slot behind s in its chain.
Behind(m, s) == IF s = end THEN end ELSE m.info[s]

\* The slots of the chain that f belongs to, from its primary slot on.
Chain(m, f) ==
    LET at[k \in 0 .. m.size - 1] ==
            IF k = 0 THEN primarySlot(m, f) ELSE Behind(m, at[k - 1])
    IN  at

\* find and then next, until they return free: the slots that hold f.
Slots(m, f) ==
    IF m.size = 0 \/ m.info[primarySlot(m, f)] = free THEN {}
    ELSE {s \in {Chain(m, f)[k] : k \in 0 .. m.size - 1} : s # end /\ m.key[s] = f}

\* The first slot of the chain that is in S.
First(m, f, S) == Chain(m, f)[Min({k \in 0 .. m.size - 1 : Chain(m, f)[k] \in S})]

find(m, f) == First(m, f, Slots(m, f))

\* An array with x in slot s.
With(a, s, x) == [i \in DOMAIN a |-> IF i = s THEN x ELSE a[i]]

\* Slot s of m, rewritten.
Slot(m, s, next, f, v) ==
    [m EXCEPT !.info = With(@, s, next), !.key = With(@, s, f), !.val = With(@, s, v)]

Link(m, s, next) == [m EXCEPT !.info = With(@, s, next)]

Stored(m, s, next, f, v) == [Slot(m, s, next, f, v) EXCEPT !.elems = @ + 1]

\* The chain of slot s goes on at to, which was free.
Attached(m, s, to) == [Link(m, s, to) EXCEPT !.lastFree = to]

\* The slot before s, which the walk from the primary slot finds.
Before(m, s) == CHOOSE p \in 0 .. m.size - 1 : m.info[p] = s

\* put, in a table with a free slot.  An element that is not in its primary slot
\* makes way; one that is gets the new element behind it in its chain.
Inserted(m, f, v) ==
    LET into == primarySlot(m, f)
        to == freeSlot(m)
    IN  IF m.info[into] = free THEN Stored(m, into, end, f, v)
        ELSE IF primarySlot(m, m.key[into]) = into
             THEN Stored(Attached(m, into, to), to, m.info[into], f, v)
             ELSE Stored(Slot(Attached(m, Before(m, into), to),
                              to, m.info[into], m.key[into], m.val[into]),
                         into, end, f, v)

\* The elements of the first k slots of m, in a table of n slots.
Moved(m, n, k) ==
    LET table[i \in 0 .. k] ==
            IF i = 0 THEN Cleared(n)
            ELSE IF m.info[i - 1] = free THEN table[i - 1]
            ELSE Inserted(table[i - 1], m.key[i - 1], m.val[i - 1])
    IN  table[k]

\* Mutant of rehash: the last slot is not looked at.
rehashShort(m, n) == Moved(m, n, m.size - 1)

rehash(m, n) == Moved(m, n, m.size)

grow(m) ==
    IF m.size = 0 THEN Cleared(MinSize)
    ELSE IF m.size = m.elems THEN rehash(m, 2 * m.size)
    ELSE m

shrink(m) ==
    IF m.size > MinSize /\ m.elems * 3 <= m.size THEN rehash(m, m.size \div 2) ELSE m

put(m, f, v) == Inserted(grow(m), f, v)

\* Destroyed: the slot is free again.
Erased(m, s) == Slot(m, s, free, NoFd, NoValue)

\* The slot at pos goes.  In a primary slot the next element of the chain takes
\* its place, elsewhere the chain closes around it.
remove(m, pos) ==
    LET next == m.info[pos]
        unlinked ==
            IF pos # primarySlot(m, m.key[pos]) THEN Link(Erased(m, pos), Before(m, pos), next)
            ELSE IF next = end THEN Erased(m, pos)
            ELSE Slot(Erased(m, next), pos, m.info[next], m.key[next], m.val[next])
    IN  shrink([unlinked EXCEPT !.elems = @ - 1])

\* The loop of IOHandle::remove: while there is an element of f, it goes.
removeAll(m, f) ==
    LET after[i \in 0 .. m.elems] ==
            IF i = 0 THEN m
            ELSE IF Slots(after[i - 1], f) = {} THEN after[i - 1]
            ELSE remove(after[i - 1], find(after[i - 1], f))
    IN  after[m.elems]

----------------------------------------------------------------------------
\* A map and the set of pairs it should hold, one operation later.
Used(m) == {s \in DOMAIN m.info : m.info[s] # free}

Later(p, values) ==
    LET fresh == {v \in values : \A e \in p.pairs : e[2] # v}
        least == CHOOSE v \in fresh : \A w \in fresh : v <= w
    IN  {[map |-> remove(p.map, s), pairs |-> p.pairs \ {<<p.map.key[s], p.map.val[s]>>}] :
            s \in Used(p.map)}
        \cup {[map |-> removeAll(p.map, f), pairs |-> {e \in p.pairs : e[1] # f}] :
            f \in DOMAIN Hash}
        \cup IF fresh = {} THEN {}
             ELSE {[map |-> put(p.map, f, least), pairs |-> p.pairs \cup {<<f, least>>}] :
                      f \in DOMAIN Hash}

Histories(n, values) ==
    LET upTo[i \in 0 .. n] ==
            IF i = 0 THEN {[map |-> EmptyMap, pairs |-> {}]}
            ELSE upTo[i - 1] \cup UNION {Later(p, values) : p \in upTo[i - 1]}
    IN  upTo[n]

\* After up to n puts and removes, with up to as many elements as there are
\* values, the table is a multimap: find and next reach every element of a
\* descriptor, once, and the array that poll is given has no others.
Agrees(n, values) ==
    \A p \in Histories(n, values) :
        /\ p.map.elems = Cardinality(p.pairs)
        /\ \A f \in DOMAIN Hash :
              /\ Cardinality(Slots(p.map, f)) = Cardinality({e \in p.pairs : e[1] = f})
              /\ \A s \in Slots(p.map, f) : <<f, p.map.val[s]>> \in p.pairs
        /\ {<<p.map.key[s], p.map.val[s]>> : s \in DOMAIN p.map.key}
              \subseteq p.pairs \cup {<<NoFd, NoValue>>}

\* The pairs of other descriptors than f.
Others(P, f) == {e \in P : e[1] # f}

\* A map that holds the pairs P answers so: an element is found by its descriptor,
\* and the walk through a chain stops at an element it is looking for.
Answers(m, P) ==
    /\ m.elems = Cardinality(P) /\ IsFiniteSet(P)
    /\ \A f \in DOMAIN Hash :
          /\ \A s \in Slots(m, f) : s \in Used(m) /\ m.key[s] = f /\ <<f, m.val[s]>> \in P
          /\ \A v : <<f, v>> \in P => \E s \in Slots(m, f) : m.val[s] = v
          /\ \A S \in SUBSET Slots(m, f) : S # {} => First(m, f, S) \in S

\* What that rests on: G is a set of maps with the pairs they hold, and every
\* operation leads from one of them to another.
Keeps(G, V) ==
    /\ <<EmptyMap, {}>> \in G
    /\ \A m, P : <<m, P>> \in G =>
          /\ Answers(m, P)
          /\ \A s \in Used(m) : <<remove(m, s), P \ {<<m.key[s], m.val[s]>>}>> \in G
          /\ \A f \in DOMAIN Hash : <<removeAll(m, f), Others(P, f)>> \in G
          /\ \A f \in DOMAIN Hash, v \in V :
                <<f, v>> \notin P => <<put(m, f, v), P \cup {<<f, v>>}>> \in G
============================================================================
