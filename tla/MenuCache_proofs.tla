-------------------------- MODULE MenuCache_proofs --------------------------
(***************************************************************************)
(* Lemmas about the operators of MenuCache, for all keys, menus and TTLs:  *)
(* the modules with a cache of walks rest on them.                         *)
(***************************************************************************)
EXTENDS MenuCache, TLAPS

\* The cache stays well formed (put).
LEMMA PutType ==
    ASSUME NEW K, NEW M, NEW c, IsCacheMap(c, K, M), NEW k \in K,
           NEW m \in {{}} \cup {{x} : x \in M}
    PROVE  IsCacheMap(Put(c, k, m), K, M)
  <1> DEFINE r == Put(c, k, m)
  <1>1. DOMAIN r = DOMAIN c \cup {k}
    BY DEF Put
  <1>2. [menu |-> m, age |-> 0] \in Entry(M)
    BY MenuCacheTtlAssumption DEF Entry
  <1>3. \A x \in DOMAIN c \cup {k} : r[x] \in Entry(M)
    BY <1>2 DEF Put, IsCacheMap
  <1>4. r = [x \in DOMAIN r |-> r[x]]
    BY DEF Put
  <1> QED
    BY <1>1, <1>3, <1>4 DEF IsCacheMap

\* The cache stays well formed (the passing of time).
LEMMA AgeEntriesType ==
    ASSUME NEW K, NEW M, NEW c, IsCacheMap(c, K, M)
    PROVE  IsCacheMap(AgeEntries(c), K, M)
  <1> DEFINE r == AgeEntries(c)
  <1>1. DOMAIN r = DOMAIN c
    BY DEF AgeEntries
  <1>2. ASSUME NEW k \in DOMAIN c
        PROVE  r[k] \in Entry(M)
    <2>1. c[k] \in Entry(M)
      BY DEF IsCacheMap
    <2>2. r[k] = [c[k] EXCEPT !.age = IF @ <= MenuCacheTtl THEN @ + 1 ELSE @]
      BY DEF AgeEntries
    <2> QED
      BY <2>1, <2>2, MenuCacheTtlAssumption DEF Entry
  <1>3. r = [x \in DOMAIN r |-> r[x]]
    BY DEF AgeEntries
  <1> QED
    BY <1>1, <1>2, <1>3 DEF IsCacheMap

\* Time takes no menu away and changes none; each entry is a tick older, and
\* one that is past the TTL stays so.
LEMMA AgeEntriesKeepMenus ==
    ASSUME NEW K, NEW M, NEW c, IsCacheMap(c, K, M)
    PROVE  /\ DOMAIN AgeEntries(c) = DOMAIN c
           /\ \A k \in DOMAIN c :
                /\ AgeEntries(c)[k].menu = c[k].menu
                /\ AgeEntries(c)[k].age = IF IsFresh(c[k]) THEN c[k].age + 1 ELSE c[k].age
  <1>1. DOMAIN AgeEntries(c) = DOMAIN c
    BY DEF AgeEntries
  <1>2. ASSUME NEW k \in DOMAIN c
        PROVE  /\ AgeEntries(c)[k].menu = c[k].menu
               /\ AgeEntries(c)[k].age = IF IsFresh(c[k]) THEN c[k].age + 1 ELSE c[k].age
    <2> DEFINE e == c[k]
    <2>1. e \in Entry(M)
      BY DEF IsCacheMap
    <2>2. AgeEntries(c)[k] = [e EXCEPT !.age = IF @ <= MenuCacheTtl THEN @ + 1 ELSE @]
      BY DEF AgeEntries
    <2> HIDE DEF e
    <2>3. /\ AgeEntries(c)[k].menu = e.menu
          /\ AgeEntries(c)[k].age = IF e.age <= MenuCacheTtl THEN e.age + 1 ELSE e.age
      BY <2>1, <2>2 DEF Entry
    <2>4. IsFresh(e) <=> e.age <= MenuCacheTtl
      BY <2>1, MenuCacheTtlAssumption DEF Entry, IsFresh
    <2> QED
      BY <2>3, <2>4 DEF e
  <1> QED
    BY <1>1, <1>2

\* What a hit returns was put under this very key, and is fresh.
LEMMA HitAfterPut ==
    ASSUME NEW c, NEW k, NEW m, NEW q, IsHit(Put(c, k, m), q)
    PROVE  IF q = k THEN Put(c, k, m)[q].menu = m
           ELSE IsHit(c, q) /\ Put(c, k, m)[q] = c[q]
  BY DEF IsHit, Put

=============================================================================
