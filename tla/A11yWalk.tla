------------------------------ MODULE A11yWalk ------------------------------
(***************************************************************************)
(* bridge/src/atspi.rs, fetch_menubar_for_pid_inner: one walk of the       *)
(* accessibility tree, from the focused window's pid, app-id and title to  *)
(* the rows of its menubar.                                                *)
(*                                                                         *)
(* The walk is a long chain of D-Bus calls to an application that goes on  *)
(* opening, closing and renaming its windows; STATE_ACTIVE follows the     *)
(* focus in its own time, and is not cleared when a window without         *)
(* accessibles takes focus. So a walk is a step per list element it reads. *)
(* One search below a chosen root, and one read of a menubar, are a step.  *)
(*                                                                         *)
(* An application has one connection to the a11y bus. Its pid is the one   *)
(* niri has for the window unless it is foreign: under XWayland, in a      *)
(* sandbox, started by a wrapper.                                          *)
(***************************************************************************)
EXTENDS MenuTree, FiniteSets

CONSTANTS
    Apps, AppOf,  \* the applications; the one of each window
    Windows,
    Registry,     \* the registry's children
    Nested,       \* those with a node between the root and the windows (Qt)
    Resembling,   \* fuzzy_app_match: the Names that pass for each app-id
    Marks,        \* the accessibles that may have STATE_ACTIVE
    Titles, NoTitle,
    Faults

ASSUME WindowAssumption ==
    /\ Windows \subseteq Nodes /\ IsFiniteSet(Windows)
    /\ Apps \cap Nodes = {} /\ AppOf \in [Windows -> Apps]
    /\ \A w, v \in Windows : w # v => Below(w) \cap Below(v) = {}
    /\ Registry \in Seq(Apps) /\ Range(Registry) = Apps
    /\ Nested \subseteq Apps
    /\ Resembling \in [Apps -> SUBSET Apps]
    /\ NoTitle \notin Titles

\* error: a read fails.
ASSUME FaultAssumption == Faults \subseteq {"error"}

VARIABLES
    open,    \* the windows of each application, in the order of its root
    title,   \* the Name of each window
    active,  \* the accessibles with STATE_ACTIVE
    pc,
    focus,   \* the walk's arguments: the window (so its app-id), its pid, title
    rest,    \* registry: the candidates not yet scanned
    cands,   \* registry: all candidates
    frames,  \* list_frames: what was read so far
    at,      \* the index of the next child to read
    count,   \* the ChildCount that was read
    root,    \* where to look for the menubar
    menu,    \* the tree that is returned, {} for None
    seen     \* history of the walk: quiet, nothing has changed or failed;
             \* heard, no read has failed; crowded, the focused application
             \* has had several windows

envVars  == <<open, title, active>>
findVars == <<rest, cands, frames, at, count>>
vars == <<envVars, pc, focus, findVars, root, menu, seen>>

----------------------------------------------------------------------------
(* Data                                                                    *)

App == AppOf[focus.win]

IsOpen(w) == w \in Range(open[AppOf[w]])

\* A window and its children.
Frame(w) == {w} \cup Range(Kids[w])

\* A tree of rows of a menubar.
IsTree(t) == \A item \in ItemsOf(t) : item.node \in Nodes

\* Types of the variables.
TypeOK ==
    /\ open \in [Apps -> Seq(Windows)]
    /\ \A a \in Apps : IsInjective(open[a]) /\ \A w \in Range(open[a]) : AppOf[w] = a
    /\ title \in [Windows -> Titles] /\ active \subseteq Marks
    /\ pc \in {"idle", "registry", "count", "list", "tiebreak", "state", "find", "fetch",
               "done"}
    /\ focus \in [win : Windows, foreign : BOOLEAN, title : Titles \cup {NoTitle}]
    /\ cands \in Seq(Apps) /\ \E i \in 0..Len(cands) : rest = SubSeq(cands, i + 1, Len(cands))
    /\ frames \in Seq([win : Windows \cup Apps, name : Titles \cup {NoTitle}])
    /\ count \in 0..Cardinality(Windows) /\ at \in 0..(count + 1) /\ Len(frames) <= count
    /\ root \in Nodes \cup Apps
    /\ menu = {} \/ \E t \in menu : menu = {t} /\ IsTree(t)
    /\ seen \in [quiet : BOOLEAN, heard : BOOLEAN, crowded : BOOLEAN]

----------------------------------------------------------------------------
(* The applications                                                        *)

\* Each change ends the quiet; crowded holds while there are two windows.
Changes ==
    /\ seen' = [seen EXCEPT !.quiet = FALSE, !.crowded = @ /\ Len(open'[App]) > 1]
    /\ UNCHANGED <<pc, focus, findVars, root, menu>>

Opens(w) ==
    /\ ~IsOpen(w)
    /\ open' = [open EXCEPT ![AppOf[w]] = Append(@, w)]
    /\ UNCHANGED <<title, active>> /\ Changes

Closes(w) ==
    /\ \E i \in DOMAIN open[AppOf[w]] :
          /\ open[AppOf[w]][i] = w
          /\ open' = [open EXCEPT ![AppOf[w]] = RemoveAt(@, i)]
    /\ active' = active \ Frame(w)
    /\ UNCHANGED title /\ Changes

Retitles(w, t) ==
    /\ IsOpen(w) /\ title[w] # t
    /\ title' = [title EXCEPT ![w] = t]
    /\ UNCHANGED <<open, active>> /\ Changes

\* STATE_ACTIVE is set or cleared, of a window, of one of its children or of
\* an application root; two may have it for a while.
Activates(x) ==
    /\ x \in Apps \/ \E w \in Windows : IsOpen(w) /\ x \in Frame(w)
    /\ active' = IF x \in active THEN active \ {x} ELSE active \cup {x}
    /\ UNCHANGED <<open, title>> /\ Changes

----------------------------------------------------------------------------
(* The walk                                                                *)

\* A read of this step went well, or failed.
Heard  == UNCHANGED seen
Failed == "error" \in Faults /\ seen' = [seen EXCEPT !.quiet = FALSE, !.heard = FALSE]

\* The locals of find_app_for_pid.
NoLocals ==
    /\ cands' = <<>> /\ rest' = <<>> /\ frames' = <<>> /\ at' = 0 /\ count' = 0

\* The active loop walks for window w; t is niri's title of it, if any.
Begin(w, foreign, t) ==
    /\ pc \in {"idle", "done"}
    /\ pc' = "registry"
    /\ focus' = [win |-> w, foreign |-> foreign, title |-> t]
    /\ seen' = [quiet |-> TRUE, heard |-> TRUE, crowded |-> Len(open[AppOf[w]]) > 1]
    /\ NoLocals
    /\ root' = AppOf[w] /\ menu' = {}
    /\ UNCHANGED envVars

Returns(result) == pc' = "done" /\ menu' = result /\ root' = App /\ NoLocals

LooksIn(r) == pc' = "find" /\ root' = r /\ NoLocals /\ UNCHANGED menu

\* Among the applications that tell their pid: the one with the pid is scoped
\* to a frame, and its verdict is final.
PassOne(answering) ==
    IF ~focus.foreign /\ App \in Range(answering)
    THEN pc' = "count" /\ UNCHANGED <<cands, rest>>
    ELSE pc' = "state" /\ cands' = answering /\ rest' = answering

\* find_app_for_pid, pass 1. An application whose pid cannot be read is out.
ReadRegistry ==
    /\ pc = "registry"
    /\ \/ Heard /\ PassOne(Registry)
       \/ \E i \in DOMAIN Registry : Failed /\ PassOne(RemoveAt(Registry, i))
    /\ UNCHANGED <<envVars, focus, frames, at, count, root, menu>>

\* The children of the application root: windows, or what is above them.
TopLevel(a) == IF a \in Nested THEN <<a>> ELSE open[a]

\* list_frames: read_child_count, then every child and its Name. A child
\* that is gone is skipped, a Name that fails is empty.
CountFrames ==
    /\ pc = "count"
    /\ \/ Heard /\ count' = Len(TopLevel(App))
       \/ Failed /\ count' = 0
    /\ at' = 1 /\ pc' = "list"
    /\ UNCHANGED <<envVars, focus, rest, cands, frames, root, menu>>

NameOf(x) == IF x \in Windows THEN title[x] ELSE NoTitle

ReadFrame ==
    /\ pc = "list" /\ at <= count
    /\ \/ /\ at \in DOMAIN TopLevel(App)
          /\ Heard
          /\ LET x == TopLevel(App)[at]
             IN  frames' = Append(frames, [win |-> x, name |-> NameOf(x)])
       \/ /\ at \in DOMAIN TopLevel(App)
          /\ Failed
          /\ LET x == TopLevel(App)[at]
             IN  frames' = Append(frames, [win |-> x, name |-> NoTitle])
       \/ /\ \/ at \notin DOMAIN TopLevel(App) /\ Heard
             \/ Failed
          /\ UNCHANGED frames
    /\ at' = at + 1
    /\ UNCHANGED <<envVars, pc, focus, rest, cands, count, root, menu>>

\* Fault: titles that only resemble each other match.
TitleMatches_Fuzzy(name, t) == name # NoTitle

\* title_matches; an empty title is no discriminator.
TitleMatches(name, t) == name # NoTitle /\ name = t

\* The first of some indices of a list.
First(hits) == CHOOSE i \in hits : \A j \in hits : i <= j

TitleHits == {i \in DOMAIN frames : TitleMatches(frames[i].name, focus.title)}

\* Fault: an application with two windows counts as unambiguous.
IsUnambiguous_OffByOne == Len(frames) <= 2

IsUnambiguous == Len(frames) <= 1

\* choose_frame, up to the tiebreaker.
ChooseFrame ==
    /\ pc = "list" /\ at > count
    /\ \/ IsUnambiguous /\ LooksIn(App)
       \/ /\ ~IsUnambiguous /\ TitleHits # {}
          /\ LooksIn(frames[First(TitleHits)].win)
       \/ /\ ~IsUnambiguous /\ TitleHits = {}
          /\ pc' = "tiebreak" /\ rest' = <<App>> /\ cands' = <<App>>
          /\ frames' = <<>> /\ at' = 0 /\ count' = 0
          /\ UNCHANGED <<root, menu>>
    /\ UNCHANGED <<envVars, focus, seen>>

----------------------------------------------------------------------------
(* scan_for_active_frame, the tiebreaker and pass 2                        *)

Scanning == pc \in {"tiebreak", "state"} /\ rest # <<>>

\* What is tested at once: first the root of the application, then each window
\* with its children. The windows are at depth 1, and at depth 2, which is the
\* last, in a nested application, whose second node counts as its root.
Tested ==
    LET a == Head(rest)
    IN  IF at = 0 THEN <<a>>
        ELSE IF at \notin DOMAIN open[a] THEN <<>>
        ELSE IF a \in Nested THEN <<open[a][at]>>
        ELSE <<open[a][at]>> \o Kids[open[a][at]]

ActiveHits == {i \in DOMAIN Tested : Tested[i] \in active}

\* The root is not active, or does not say.
ScanCounts ==
    /\ Scanning /\ at = 0
    /\ \/ ActiveHits = {} /\ Heard /\ count' = Len(open[Head(rest)])
       \/ Failed /\ count' \in {0, Len(open[Head(rest)])}
    /\ at' = 1
    /\ UNCHANGED <<envVars, pc, focus, rest, cands, frames, root, menu>>

\* The next window is gone, fails or is not active, nor a child of it.
ScanPasses ==
    /\ Scanning /\ at \in 1..count
    /\ \/ ActiveHits = {} /\ Heard
       \/ Failed
    /\ at' = at + 1
    /\ UNCHANGED <<envVars, pc, focus, rest, cands, frames, count, root, menu>>

\* Fault: the index is not reset.
NextCandidate_KeepsIndex ==
    /\ rest' = Tail(rest) /\ count' = 0
    /\ UNCHANGED <<pc, cands, frames, at, root, menu>>

NextCandidate ==
    /\ rest' = Tail(rest) /\ at' = 0 /\ count' = 0
    /\ UNCHANGED <<pc, cands, frames, root, menu>>

\* Fault: STATE_ACTIVE is trusted whoever has it.
IsCorroborated_Never(a) == TRUE

\* The Name of application a passes for the app-id that is looked for.
IsCorroborated(a) == a \in Resembling[App]

\* Fault: the application of the active window is searched, not the window.
ActiveHit_AppRoot(x) == LooksIn(Head(rest))

ActiveHit(x) == LooksIn(x)

\* The first with STATE_ACTIVE is the hit, or a later one if that fails to
\* tell. The tiebreaker takes it; pass 2 asks for the application's Name
\* first, and goes on when it is another's or cannot be read.
ScanHits ==
    /\ Scanning /\ at \in 0..count
    /\ \/ \E i \in ActiveHits :
             /\ IF i = First(ActiveHits) THEN Heard ELSE Failed
             /\ pc = "state" => IsCorroborated(Head(rest))
             /\ ActiveHit(Tested[i])
       \/ /\ pc = "state" /\ ActiveHits # {}
          /\ (~IsCorroborated(Head(rest)) /\ Heard) \/ Failed
          /\ NextCandidate
    /\ UNCHANGED <<envVars, focus>>

\* Nothing in the application is active. For the tiebreaker this is the
\* end: FrameChoice::NoMenu.
ScanMisses ==
    /\ Scanning /\ at > count
    /\ \/ pc = "tiebreak" /\ Returns({})
       \/ pc = "state" /\ NextCandidate
    /\ UNCHANGED <<envVars, focus, seen>>

\* Pass 3: the first candidate with a Name that passes, active or not.
NameFallback ==
    /\ pc = "state" /\ rest = <<>>
    /\ \E deaf \in {{}} \cup {{i} : i \in DOMAIN cands} :
          LET named == {i \in DOMAIN cands \ deaf : IsCorroborated(cands[i])}
          IN  /\ IF deaf = {} THEN Heard ELSE Failed
              /\ IF named = {} THEN Returns({})
                 ELSE LooksIn(cands[First(named)])
    /\ UNCHANGED <<envVars, focus>>

----------------------------------------------------------------------------
(* The menubar                                                             *)

\* The window an accessible is in.
WindowOf(n) == CHOOSE w \in Windows : n \in Below(w)

\* find_menubar on the chosen root, from an application root through all of
\* its windows.
MenubarIn(r, deaf) ==
    IF r \in Apps
    THEN FirstSome([i \in DOMAIN open[r] |->
                       FindMenubar(open[r][i], IF r \in Nested THEN 2 ELSE 1, deaf)])
    ELSE IF IsOpen(WindowOf(r)) THEN FindMenubar(r, 0, deaf) ELSE {}

FindsMenubar ==
    /\ pc = "find"
    /\ \E deaf \in Failures(IF root \in Apps THEN Range(open[root]) ELSE {root},
                           MaxFindDepth, {"role", "kids", "child"}) :
          /\ IF deaf = {} THEN Heard ELSE Failed
          /\ \/ MenubarIn(root, deaf) = {} /\ Returns({})
             \/ /\ root' \in MenubarIn(root, deaf) /\ pc' = "fetch"
                /\ UNCHANGED <<findVars, menu>>
    /\ UNCHANGED <<envVars, focus>>

\* fetch_menu_tree and menubar_is_empty; a window that has closed answers
\* nothing.
FetchesMenu ==
    /\ pc = "fetch"
    /\ \E deaf \in Failures({root}, MaxFetchDepth, {"name", "kids", "child"}) :
          LET tree == IF IsOpen(WindowOf(root)) THEN FetchMenuTree(root, deaf)
                      ELSE [node |-> root, rows |-> <<>>]
          IN  /\ IF deaf = {} THEN Heard ELSE Failed
              /\ Returns(IF tree.rows = <<>> THEN {} ELSE {tree})
    /\ UNCHANGED <<envVars, focus>>

\* The registry cannot be read, or the walk exceeds FETCH_BUDGET.
GivesUp ==
    /\ pc \notin {"idle", "done"}
    /\ Failed /\ Returns({})
    /\ UNCHANGED <<envVars, focus>>

----------------------------------------------------------------------------

Init ==
    /\ open = [a \in Apps |-> <<>>] /\ title \in [Windows -> Titles] /\ active = {}
    /\ pc = "idle"
    /\ focus \in [win : Windows, foreign : {FALSE}, title : {NoTitle}]
    /\ cands = <<>> /\ rest = <<>> /\ frames = <<>> /\ at = 0 /\ count = 0
    /\ root = App /\ menu = {}
    /\ seen = [quiet |-> FALSE, heard |-> TRUE, crowded |-> FALSE]

Change ==
    \/ \E w \in Windows : Opens(w) \/ Closes(w) \/ (\E t \in Titles : Retitles(w, t))
    \/ \E x \in Marks : Activates(x)

Next ==
    \/ Change
    \/ \E w \in Windows, f \in BOOLEAN, t \in Titles \cup {NoTitle} : Begin(w, f, t)
    \/ ReadRegistry \/ CountFrames \/ ReadFrame \/ ChooseFrame
    \/ ScanCounts \/ ScanPasses \/ ScanHits \/ ScanMisses \/ NameFallback
    \/ FindsMenubar \/ FetchesMenu \/ GivesUp

Spec == Init /\ [][Next]_vars

----------------------------------------------------------------------------

\* What the bar should show of window w.
MenuOf(w) ==
    LET bars == FindMenubar(w, 0, {})
        trees == {FetchMenuTree(bar, {}) : bar \in bars}
    IN  {t \in trees : t.rows # <<>>}

\* The title tells the focused window from the others of its application.
TitleIsUnique ==
    /\ focus.title = title[focus.win]
    /\ \A w \in Range(open[App]) : title[w] = focus.title => w = focus.win

\* Nothing happened during the walk that could mislead it.
Undisturbed == pc = "done" /\ seen.quiet /\ IsOpen(focus.win)

\* ADR-0030: of an application that niri knows the pid of, an undisturbed
\* walk returns the menu of the focused window, of no other and not nothing,
\* if this is the only window or has a title of its own. For a nested
\* application it must be the only one.
MenuOfFocusedWindow ==
    Undisturbed /\ ~focus.foreign
        /\ (Len(open[App]) = 1 \/ (App \notin Nested /\ TitleIsUnique))
            => menu = MenuOf(focus.win)

\* Refuted for nested applications ("do NOT return the app root for a
\* multi-window process"): the same for any application.
MenuOfTitledWindow ==
    Undisturbed /\ ~focus.foreign /\ TitleIsUnique => menu = MenuOf(focus.win)

\* Of an application that niri does not know the pid of, an undisturbed walk
\* returns the menu of the focused window if this alone has STATE_ACTIVE and
\* the application's Name passes for the app-id.
MenuOfActiveWindow ==
    Undisturbed /\ focus.foreign /\ active = {focus.win} /\ App \in Resembling[App]
        => menu = MenuOf(focus.win)

\* Whatever changes or fails under the walk, the menu is of the focused
\* application or of one whose Name passes for it: STATE_ACTIVE on another
\* application never brings its menu up.
MenuOfResemblingApp ==
    \A t \in menu : AppOf[WindowOf(t.node)] \in {App} \cup Resembling[App]

\* ADR-0030: while its application has several windows, whichever open and
\* close, the search starts in one of them, never at the application root,
\* where it would find the first one's menu. (A failed read may hide them, and
\* a root that has STATE_ACTIVE itself is taken for the active window.)
NeverGuesses ==
    pc = "find" /\ seen.heard /\ seen.crowded
        /\ ~focus.foreign /\ App \notin Nested \cup Marks
            => root \notin Apps

\* Spec 009: the rows are what the application has, down to MAX_FETCH_DEPTH,
\* and no popup is a single nameless row that hides the others.
RowsAreComplete ==
    Undisturbed =>
        \A t \in menu : WrapperFree(t, {}) /\ {item.node : item \in ItemsOf(t)} = RowsBelow(t.node)

----------------------------------------------------------------------------
(* Why they hold.                                                          *)

\* Where the walk is, and how it came there.
Phases ==
    /\ seen.quiet => seen.heard
    /\ seen.crowded => Len(open[App]) > 1
    /\ pc \in {"count", "list", "tiebreak"} => ~focus.foreign
    /\ pc = "state" /\ ~focus.foreign => ~seen.heard
    /\ pc = "tiebreak" => Range(rest) \subseteq {App}
    /\ pc # "list" => frames = <<>>
    /\ pc = "registry" => at = 0
    /\ pc = "find" => root \in Apps \/ \E w \in Windows : root \in Frame(w)
    /\ pc = "fetch" => root \in Nodes

\* list_frames: what was read so far are windows of the application, or what
\* is above them. With at least two and no failure, none of the first two is
\* missed.
FramesOfApp ==
    pc = "list" =>
        /\ at >= 1 /\ Len(frames) < at
        /\ \A i \in DOMAIN frames :
              frames[i].win = App \/ (frames[i].win \in Windows /\ AppOf[frames[i].win] = App)
        /\ IF App \in Nested THEN count <= 1
           ELSE /\ \A i \in DOMAIN frames : frames[i].win \in Windows
                /\ seen.heard /\ seen.crowded
                      => count > 1 /\ Len(frames) >= (IF at > 2 THEN 2 ELSE at - 1)

\* The application in which the search for a menubar starts, or ended.
AppOfRoot == IF root \in Apps THEN root ELSE AppOf[WindowOf(root)]

RootResembles == pc \in {"find", "fetch"} => AppOfRoot \in {App} \cup Resembling[App]

IInv ==
    TypeOK /\ Phases /\ FramesOfApp /\ RootResembles /\ NeverGuesses /\ MenuOfResemblingApp

\* The focused window can be told: by STATE_ACTIVE, or by its title.
ToldByState ==
    focus.foreign /\ active = {focus.win} /\ App \in Resembling[App]

ToldByTitle ==
    ~focus.foreign /\ (Len(open[App]) = 1 \/ (App \notin Nested /\ TitleIsUnique))

Told == seen.quiet /\ IsOpen(focus.win) /\ (ToldByState \/ ToldByTitle)

\* The walk is on the way to the focused window: pass 2 has it still ahead,
\* list_frames has read all frames so far, the search starts at it or above
\* it alone.
OnTheWay ==
    /\ pc = "list" =>
          /\ count = Len(TopLevel(App)) /\ Len(frames) = at - 1
          /\ \A i \in DOMAIN frames :
                frames[i] = [win |-> TopLevel(App)[i], name |-> NameOf(TopLevel(App)[i])]
    /\ pc # "tiebreak"
    /\ pc = "state" =>
          /\ App \in Range(rest)
          /\ Head(rest) = App /\ at > 0 =>
                \E i \in at .. count : i \in DOMAIN open[App] /\ open[App][i] = focus.win
    /\ pc = "find" => root = focus.win \/ (root = App /\ open[App] = <<focus.win>>)
    /\ pc = "fetch" => FindMenubar(focus.win, 0, {}) = {root}
    /\ pc = "done" => menu = MenuOf(focus.win)

\* An undisturbed walk is on the way to the window that it can tell.
FindsTold == Told => OnTheWay

\* The rows that a walk returns undisturbed were read without a failure.
FetchedWhole ==
    pc = "done" /\ seen.quiet => \A t \in menu : \E n \in Nodes : t = FetchMenuTree(n, {})

\* No menubar is so deep in its window that MAX_FIND_DEPTH cuts it off when
\* the search starts at the application instead.
DepthSuffices ==
    \A w \in Windows :
        FindMenubar(w, IF AppOf[w] \in Nested THEN 2 ELSE 1, {}) = FindMenubar(w, 0, {})

=============================================================================
