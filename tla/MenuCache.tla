----------------------------- MODULE MenuCache -----------------------------
(***************************************************************************)
(* bridge/src/atspi.rs, mod menu_cache: the TTL-bounded cache of AT-SPI    *)
(* walks. The static CACHE is a function from the keys present to entries, *)
(* held in a variable by the module that extends this one. An entry's menu *)
(* is an Option<MenuItem>: {} is None (the walk found no menubar), {m} is  *)
(* Some(m). fetched_at is kept as an age in ticks (AgeEntries).            *)
(*                                                                         *)
(* menu_cache::invalidate is not here: no code of the bridge calls it.     *)
(***************************************************************************)
EXTENDS Naturals

CONSTANT
    MenuCacheTtl  \* MENU_CACHE_TTL, 30 s

ASSUME MenuCacheTtlAssumption == MenuCacheTtl \in Nat

Entry(M) == [menu : {{}} \cup {{m} : m \in M}, age : 0..(MenuCacheTtl + 1)]

\* The values CACHE may have over the keys in K and the menus in M.
IsCacheMap(cache, K, M) ==
    /\ DOMAIN cache \subseteq K
    /\ cache \in [DOMAIN cache -> Entry(M)]

----------------------------------------------------------------------------

\* Fault: an entry is served however old it is.
IsFresh_Always(entry) == TRUE

\* The staleness test of get: elapsed > TTL is stale, so the TTL itself is
\* still fresh (a learned-skip verdict of the same age is not).
IsFresh(entry) == ~(entry.age > MenuCacheTtl)

\* get: a hit is a fresh entry, positive or negative.
IsHit(cache, key) == key \in DOMAIN cache /\ IsFresh(cache[key])

\* put
Put(cache, key, menu) ==
    [k \in DOMAIN cache \cup {key} |->
        IF k = key THEN [menu |-> menu, age |-> 0] ELSE cache[k]]

\* Fault: the age of an entry is not capped.
AgeEntries_Uncapped(cache) ==
    [k \in DOMAIN cache |-> [cache[k] EXCEPT !.age = @ + 1]]

\* A tick of Instant::elapsed; all ages past the TTL are alike.
AgeEntries(cache) ==
    [k \in DOMAIN cache |->
        [cache[k] EXCEPT !.age = IF @ <= MenuCacheTtl THEN @ + 1 ELSE @]]

=============================================================================
