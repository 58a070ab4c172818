------------------------- MODULE ActiveLoopHistory -------------------------
(***************************************************************************)
(* ActiveLoop with a history variable, for the property that relates a     *)
(* published menu to what the applications exposed earlier. It follows the *)
(* steps of ActiveLoop and never restricts them.                           *)
(***************************************************************************)
EXTENDS ActiveLoop

VARIABLE
    gone  \* for each window and menu, the ticks since it was last exposed

histVars == <<vars, gone>>

GoneMax == MenuCacheTtl + 2

\* Types of the variables, the history variable included.
TypeOKHistory ==
    /\ TypeOK
    /\ gone \in [Windows -> [Readable -> 0..GoneMax]]

InitHistory ==
    /\ Init
    /\ gone = [w \in Windows |-> [c \in Readable |-> IF exposed[w] = c THEN 0 ELSE GoneMax]]

\* A menu ages while it is not exposed, and not while it is.
AgeGone ==
    gone' = [w \in Windows |-> [c \in Readable |->
                IF exposed'[w] = c THEN 0
                ELSE IF gone[w][c] < GoneMax THEN gone[w][c] + 1
                ELSE gone[w][c]]]

KeepGone ==
    gone' = [w \in Windows |-> [c \in Readable |->
                IF exposed'[w] = c THEN 0 ELSE gone[w][c]]]

NextHistory ==
    \/ (Loop \/ WatcherPoll \/ Environment) /\ KeepGone
    \/ Tick /\ AgeGone

SpecHistory == InitHistory /\ [][NextHistory]_histVars

----------------------------------------------------------------------------

\* The payloads a step puts into the file or shows to the widget anew.
NewlyPublished == (lastBody' \ lastBody) \cup (pushed' \ pushed)

\* A walk for window w could have read menu c, n ticks ago at most.
ExposedWithin(w, c, n) == \E x \in Scope(w) : gone[x][c] <= n

\* A stale cache is bounded: a native menu that is published was exposed
\* MENU_CACHE_TTL ago at most, plus the walk that read it: by its window, or
\* where windows are not told apart by a sibling. (While writes succeed, no
\* payload with a menu is coalesced: the eager one, with none, comes before
\* it.)
RecentMenu(b) == \A m \in b.menu : ExposedWithin(b.snap, m.content, MenuCacheTtl + 1)

PublishedMenuIsRecent ==
    [][\A b \in NewlyPublished : b.source = "atspi" => RecentMenu(b)]_histVars

----------------------------------------------------------------------------
(* Why it holds                                                            *)

\* A cache entry is younger by one tick at most than what it holds, because
\* the walk that made it may have taken one.
CacheIsRecent ==
    \A w \in Windows :
        IsHit(cache, KeyOf(w)) =>
            \A m \in cache[KeyOf(w)].menu :
                m.content \in Readable =>
                    ExposedWithin(w, m.content, cache[KeyOf(w)].age + 1)

\* What a walk in progress has read is no older than the walk.
ReadsAreRecent ==
    \A c \in walk.reads \cap Readable :
        pc = "walking" /\ ExposedWithin(snap, c, IF walk.ticked THEN 1 ELSE 0)

\* No time passes between the end of a walk and the use of what it returned.
WalkIsRecent ==
    \A m \in walk.menu : m.content \in Readable => ExposedWithin(snap, m.content, 1)

IInvHistory == IInv /\ TypeOKHistory /\ CacheIsRecent /\ ReadsAreRecent /\ WalkIsRecent

=============================================================================
