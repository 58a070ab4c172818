# Verification of noctalia-appmenu

TLA+ models of the app-menu bridge for the niri compositor (`bridge/`, Rust) and
of its Noctalia plugin (`plugin/`, QML), the TLC runs that check
them, and TLAPS proofs about them. Paths below are relative to the repository.

## 1. The system

    niri --event stream--> niri.rs --watch--> active.rs --watch--> proxy.rs (active
loop)                                                                      |  ^
|                                           AT-SPI walk <--------------+  |
+--> active.json  --inotify--+                                           (atspi.rs)
|          +--> qs ipc call  ----------+--> BarWidget.qml     watch_a11y_status
(atspi.rs) --drops connection, verdicts-----------+          +--> D-Bus properties
|     |  popups
|                                      |     |
org.noctalia.AppMenu.Active.RefreshActive  <--- `atspi-click` process (main.rs)
<-----QProcess-------------+-----+
`atspi-expand` process

The bridge is one tokio process of four tasks (`main.rs`): the focus stream, the
joiner, the active loop and the a11y watcher. If any of them ends, the process
ends, and systemd starts it again. The widget lives in the shell's process. Each
click and each lazy expansion is a short-lived process of its own, a second run
of the same binary.

| part | code | state | operations | what is hard | what makes it right |
|---|---|---|---|---|---|
| active loop | `proxy.rs` `run`, `write_active_json`, `push_ipc_update`, `publish_props`, `RefreshActive` | `last_body`, the snapshot of the iteration, the `Notify` permit, the properties of the D-Bus object, `active.json` | wake on a snapshot or a kick; eager publish; skip / cache hit / walk; trailing publish | three outputs written at different points of an iteration; writes and pushes that fail; focus that moves during the walk; two wake-up sources with one mark-as-seen | the menu shown is of the window shown; provenance is honest; a loop at rest shows the latest focus; every focus settles |
| learned skip | `atspi.rs` `mod learned_skip` | `SKIP`, `RESOLVED_ONCE` | `should_skip`, `record_negative`, `forget`, `clear_expensive` | three TTLs; verdicts from hung, racing or failing walks | no verdict strands an application |
| menu cache | `atspi.rs` `mod menu_cache` | `CACHE` | `get`, `put` (`invalidate` is never called) | granularity of the key, staleness | a menu served is of its window and recent |
| a11y connection, watcher | `AtspiClient`, `watch_a11y_status`, `enable_a11y` | the cached connection, `IsEnabled` | connect once, invalidate, poll every 3 s | a bus that restarts between polls, or under a walk | a dead connection is dropped some day |
| AT-SPI walk | `find_app_for_pid`, `resolve_focused_frame`, `find_menubar`, `fetch_menu_tree`, ... | none of its own | application by PID or name, frame by title or state, menubar by depth-first search, tree with depth limits | remote tree that changes and fails under the walk | the frame is the focused window's, or none |
| focus stream | `niri.rs`, `focus.rs` | backoff, session start, an `EventStreamState` per session | connect, subscribe, read and apply events, retry | reconnects, reordered announcements, windows without a pid | the snapshot settles on the focused window; values appear in order; reconnection in bounded time |
| joiner | `active.rs` | the debounce | wait, sleep, forward the latest | values that arrive during the sleep | nothing is lost |
| click, expand | `main.rs` `run_atspi_click`, `run_atspi_expand`; `atspi.rs` `do_action`, `expand_and_fetch`, `dispatch_*` | none; they act on the application | pre-focus, probe, act or dispatch, exit code; `RefreshActive` when stale | a path that was valid when the menu was walked; focus that moves between pre-focus and act | an action reaches the window the menu was of |
| desktop fallback | `desktop.rs` | a memo with a TTL, in the bridge and in each click process | resolve an app-id, read an entry, build the fallback, launch an item of it | three tiers over directories listed in any order; entries edited while an answer is remembered or a menu shown | the best entry is resolved, no later than the TTL, and a click launches what was shown |
| bar widget | `BarWidget.qml` | the snapshot shown, the pending one, the captured window, one click and one expand process | apply a snapshot (file or push), click, expand | file reads against pushes, popups open over a changing menu, a process that answers late | the bar converges on the last publish; a click goes to the window whose menu was opened |
| popups | `AppmenuPopupWindow.qml`, `SubmenuPopup.qml`, `MenuRow.qml` | rows, open cascade | open, nest, close, click a row | popups open over a changing menu | the rows are of the focused app |
| supervision | `main.rs` `main`, `nix/module.nix` | | a task that ends ends the process; `Restart=on-failure` | half-published state over a restart | the restarted bridge overwrites it |
| configuration, packaging, test tools, release scripts | `config.rs`, `nix/`, `tools/`, `scripts/` | | | | not part of the running system's behaviour |

## 2. Modules

| module | models | extends |
|---|---|---|
| `LearnedSkip` | the operations of `mod learned_skip`, on values | |
| `MenuCache` | the operations of `mod menu_cache`, on values | |
| `MenuCache_proofs` | lemmas: what `get`, `put` and aging keep | `MenuCache`, `TLAPS` |
| `ActiveLoop` | the active loop, the watcher, the a11y bus, with the joiner, applications, disk and systemd as environment | the two above |
| `ActiveLoopHistory` | the same with a history variable: how long ago a menu was exposed | `ActiveLoop` |
| `MCActiveLoop`, `MCActiveLoopHistory` | instances for TLC (which window belongs to which process) | |
| `ActiveLoop_proofs` | theorems about both | `ActiveLoopHistory`, `MenuCache_proofs` |
| `FocusFeed` | the abstract promise of the focus pipeline | |
| `FocusPipeline` | `niri.rs` and `active.rs` between niri and the active loop; its refinement of `FocusFeed` | |
| `FocusTiming` | the same with an observing clock, since niri last failed the bridge | `FocusPipeline` |
| `FocusStillness` | the same with another, since the last focus value, for what does not hold | `FocusPipeline` |
| `FocusPipeline_proofs` | theorems about both, the refinement among them | `FocusTiming`, `Induction` |
| `Widget` | `BarWidget.qml` with the root popup, with the bridge's side of `active.json` and the IPC call, FileView, the pointer and the two child processes as environment | |
| `MCWidget` | instances for TLC (which window belongs to which app) | `Widget` |
| `Widget_proofs` | theorems | `Widget`, `TLAPS` |
| `ClickForward` | the `atspi-click` and `atspi-expand` processes, beside the bridge's loop and an application that rebuilds its menus | `MenuCache` |
| `ClickForward_proofs` | theorems | `ClickForward`, `MenuCache_proofs` |
| `MenuTree` | `find_menubar`, `fetch_menu_tree`, `flatten_qt_wrapper`, as functions, with a reference definition of the rows | |
| `A11yWalk` | one walk, read by read, over applications that change under it | `MenuTree` |
| `MCA11yWalk` | an instance for TLC (windows and the trees below them) | `A11yWalk` |
| `A11yWalk_proofs` | theorems about the walk and the two searches | `A11yWalk`, `Induction` |
| `Desktop` | `desktop.rs`: resolution, memo, fallback menu, launch, while entries are edited | |
| `MCDesktop` | an instance for TLC (ids and the entries of each tier) | `Desktop` |
| `Desktop_proofs` | theorems about the fallback and the scan | `Desktop`, `Induction` |
| `Induction` | natural induction and recursion, for the proofs above | `FiniteSetTheorems`, `TLAPS` |

How they compose: `ActiveLoop` has the loop with everything that reaches it, and takes
a walk as one stretch with few outcomes; `A11yWalk` opens it up. `FocusPipeline` ends
where `ActiveLoop` begins, at the snapshot. `Widget` begins where `ActiveLoop` ends,
at the payload, and ends where `ClickForward` begins, at a started process;
`ClickForward` has a loop of one action and the same menu cache, to close the circle
of click, `RefreshActive`, cached walk and click. `Desktop` is the fallback that
`ActiveLoop` publishes as a provenance.

### ActiveLoop

A tokio task is atomic between two awaits, so the loop is cut there and nowhere
else; `pc` says where it is.

| pc | what happens next | code |
|---|---|---|
| `down` | `Start`: `main` turns a11y on (best effort) and `run` writes the empty snapshot | proxy.rs:319-361 |
| `waiting` | `WakeOnChange`, `WakeOnKick`: mark the snapshot seen, publish it eagerly | proxy.rs:368-426 |
| `publishing` | `PublishProps`, `PublishPropsFails` (which ends the process) | proxy.rs:427, 577-606 |
| `resolving` | `ResolveEmpty`, `ResolveCached` (through to the trailing write), `StartWalk` | proxy.rs:448-474 |
| `walking` | `WalkFinds`, `WalkFindsNothing`, `WalkFails`, `WalkTimesOut` | atspi.rs:1392-1458 |
| `walked` | `WalkReturns`: cache, verdict, provenance ladder, trailing write | proxy.rs:481-568 |

Every publish goes through `WriteActiveJson`: dedup against `last_body`, a write
that may fail and may truncate, and a push made whether or not the write
succeeded. A menu is abstracted to the window whose focus it was walked for and
whether it has anything below its top level (`Readable` or `Lazy`); this is what
the provenance ladder tells apart. A body of `active.json` is a snapshot, a
source and an optional menu. An `Instant` is an age in ticks that stops growing
where it stops mattering; a tick is longer than `FETCH_BUDGET`, so a walk sees
one at most. A duration of a walk is its cost, compared with `EXPENSIVE_WALK`.

A walk takes time, and applications change under it: `walk.reads` has every
menubar that it may have come upon, those of the windows in its `Scope` when it
began and whatever they became since. Its result is one of them, or nothing if
one of them was nothing. A walk is `Torn` if its connection was cut, if single
reads may fail, or if what it reads changed meanwhile. Then it may also find a
menu that lost what made it readable, or nothing: the loops over applications,
frames and children skip what they cannot read (atspi.rs:736-748, 948,
1166-1175), and `Ok(None)` of a walk that skipped its application teaches a
cheap verdict like any other. Only the few errors that are not swallowed are
`WalkFails`. With the fault `frame` the focused window is not told from its
siblings, and `Scope` is all of them: a failed child count, a nested root or equal
titles bring up a sibling's tree. `MenuOfItsWindow` is therefore about the window
that a walk was *made for*; whose tree it read is the question of `A11yWalk`.

The class `Faults` says what the environment may do in a run: `disk` (a write
fails), `props` (a signal emission fails), `crash`, `bus` (the a11y bus
restarts), `frame`, `error` (single D-Bus calls of a walk fail). An application
that does not answer is always possible. `BusStatus` is what `IsEnabled` may say
when the bus comes up. Whether a push arrives is `Widget`'s question.

### FocusPipeline

niri is the environment: it opens, retitles, focuses and closes windows, writes
an event for each to a subscribed connection, drops and refuses connections,
stops and starts. The bridge's side follows `run_once_at` and
`drive_events_with`: connect, acknowledge, then read events one by one, each
applied to the session's own `EventStreamState` (`known`) *before*
`detect_focus_change` decides whether to publish. A session that ends goes
through `next_backoff`, a sleep, and a doubling up to the ceiling. The joiner
wakes on a change, sleeps the debounce, and forwards the latest value.
`SessionEnds` to `Retry` and `WakeActive` to `PublishActive` are separate
actions, so that anything can happen during both sleeps. `Tick` waits for
everything that is due: hand-overs between tasks take no time, the answers of
niri and the reading of its events take any.

`FocusFeed` is what the pipeline promises without any of this: a display that
may miss and skip values, but shows only values the truth had, in their order.
The refinement maps the values under way to the one the joiner is about to
forward followed by those the unread events will yield (`Reading`, a recursive
function: what is known and what has been published after each event).

### Widget

QML runs one handler to its end before the next, so an action is a handler.

| action | code |
|---|---|
| `BridgeBegins`, `BridgeTruncates`, `BridgeWrites`, `Push` | the order of proxy.rs:165-222, as the widget sees it: truncate, write, call, one or two payloads an iteration |
| `FileChanged`, `ReadFile`, `LoadSkipped`, `Loaded` | `FileView`: reload on an inotify event, asynchronous read, `onLoaded` |
| `ApplyPending` | `_applyPending`, `_applySnapshotInner`, with `onAppIdChanged` |
| `ClickBar` | `onClicked` of a button: `ClickAnchor`, `ClickGroup`, `ClickLazy`, `ClickLeaf` |
| `RowClicked`, `OutsideClicked` | the rows and the backdrop of `AppmenuPopupWindow` |
| `ExpandEnds`, `ClickEnds` | `onStreamFinished` of `expandProcess`, the exit of `clickProcess` |

The popup remembers the window whose nodes its rows are (`of`), the button they
belong to (`node`), and the delegate it hangs from (`anchor`). A new model of the
strip destroys the delegates, and QML sets references to them to null: this is
how `_pendingRetryButton` and `anchorItem` lose their values without an
assignment (`SetTopLevel`, `Anchored`). `opened` observes what focus was at
`openAt`. `Shapes` is what `_sameTopLevel` compares: two menus of one shape are
not told apart. `BridgeBegins` chooses any iteration at any time, which includes
those of `ActiveLoop`; that an equal payload is coalesced does not matter here.

Comments in the two QML files differ on whether a click on the bar reaches a
button while the popup's surface is open, so both may happen. `Faults` has
`push` (a `qs ipc` call is lost) and `screens` (`openAt` refuses, because the
bar clicked is not on the screen of the focused window).

### ClickForward

At most one process of each kind runs; `proc` holds them, and `stage` says where
each is. The widget starts one in `ClickRow` and `ClickLazy`, and reads the answer of
an expand in `Answered` (`onStreamFinished`).

| stage | what happens next | code |
|---|---|---|
| `focus` | `PreFocus`: `niri_focus_window`, skipped without `--winid`; an error does not block | main.rs:249-272 |
| `settle` | `Settled`, after `focus_settle_ms` | main.rs:256 |
| `probe` | `Probe`: the `GetRole` call; a synthetic row has none | atspi.rs `do_action`, `expand_and_fetch` |
| `stale` | `StaleExit`: signal, exit code 2 | `run_atspi_click`, `signal_refresh_active` |
| `act` | `ClickActs`, `Expands`: `DoAction(0)`, or a niri action | atspi.rs, main.rs |
| `realise`, `collapse`, `refresh`, `answer` | `FetchesItems`, `Collapses`, `Refreshes`, `Answered` | `expand_and_fetch`; BarWidget.qml |

The application is the environment: it follows niri's focus within `SyncTicks`,
rebuilds its accessibles (a path is the number of the tree it was read from),
fills a lazy menu only when that is open, and its leaf actions go to the window
that *it* takes to be active. `Publish` is an iteration of the active loop as far
as the bar sees it; with the fault `coalesce` the eager payload, which empties the
strip, does not arrive, and `_sameTopLevel` then spares a strip with the same
items though its accessibles are gone. Two variables are history, not state of the
code: `steady` in a process (its pre-focus succeeded and focus has not moved), and
`flash` (a menu that was closed is open because an expand opened it, until it is
closed, replaced, clicked or rebuilt; `dropped` once the widget has dropped the
native click that would have closed it). Windows are not closed in this module:
`FocusWindow` on a closed window fails, which is the fault `niri`.

### MenuTree and A11yWalk

`MenuTree` translates the two recursions of the walk as recursive functions on
node and depth, with every `unwrap_or` of the code. Each read of each accessible
may fail on its own, one in a search: `deaf` says which, and then a role is 0, a
Name empty (which makes a labelled only child look like a wrapper), a child count
0, or one child is passed over. They recurse on the depth that is left, one
level at a time for all accessibles, which needs no assumption that the remote
children are a tree. `RowsBelow` says what the rows of a menubar should be without
the recursion: by the levels below it. `A11yWalk` is `fetch_menubar_for_pid_inner`:

| pc | what happens next | code |
|---|---|---|
| `registry` | `ReadRegistry`: the pid of each candidate | `find_app_for_pid`, pass 1 |
| `count`, `list` | `CountFrames`, `ReadFrame`, `ChooseFrame` | `list_frames`, `choose_frame` |
| `tiebreak`, `state` | `ScanCounts`, `ScanPasses`, `ScanHits`, `ScanMisses` | `scan_for_active_frame`, pass 2 |
| `state`, with none left | `NameFallback` | pass 3 |
| `find`, `fetch` | `FindsMenubar`, `FetchesMenu` | `find_menubar`, `fetch_menu_tree` |

Windows open, close, change title and change `STATE_ACTIVE` between any two
steps. A step of a loop reads one child; in the scan for `STATE_ACTIVE`, which goes
to depth 2, it tests the root, or one window with its children (`Tested`: for a
nested application the node below the root stands for it, and the windows are the
last level). `Marks` is what may carry the state: windows, their children, roots.
The reads below one root (a search for a menubar, a read of its rows) are one
step each, with at most one failing read. Matching of names
(`fuzzy_app_match`) is a relation, `Resembling`; in the instance an application
resembles itself only, which is the case in which a menu of the other
one would be wrong. `Nested` applications have a node between the root and the
windows. A read that fails in pass 1 takes one candidate out (`PassOne` of the
others); a window that closes leaves its application's list by index.
`seen` is history: what happened since the walk began. The module ends with the
invariants that its properties rest on (`IInv`, `FindsTold`, `FetchedWhole`).

### Desktop

A `.desktop` file is the keys the code reads; an `Exec` is runnable (there is a
program left once the field codes are gone) or not. `Resolutions` is every
result `resolve_in` can have over the orders in which `read_dir` may list each
directory: the file named after the id, else one scan (`Consider` a file,
`ScanDir` a directory, `Scan` them all) that fills three tiers and stops after
the directory of a class hit. `FallbackMenu` is `resolve` with its
memo, `ClickItem` is `launch_app` or `launch_action` in a process of its own,
which has an empty memo and so resolves afresh, and resolves the *entry's* file
name. `Edit` installs, changes or removes a file at any moment. `Best` states
the ladder without a scan, from the comment at desktop.rs:431-445, and
`ResolvesBest` compares the two. `wrong` and `launched` are history.

## 3. Runs

Every pass run's bounds are chosen so that each hazard in question happens, and
each property has a mutant: a defect of the code that TLC then finds under the
same bounds.

| run | instance | properties | shows |
|---|---|---|---|
| `windows` | two windows of one process and app, symmetric; faults `frame`, `disk`; no fallback; the cache's TTL is 0 ticks | `TypeOK`, `MenuOfItsWindow`, `PublishedMenuIsRecent`, `SentinelFollowsFile` | focus moves between sibling windows during walks, cache hits and verdicts: no menu is published for a window it was not walked for (the mutant is the cache key without the window, the defect before v1.0.25), none later than the cache's TTL and one walk after it was exposed, and a failed write is never taken for a published one |
| `restarts` | one window with readable and lazy menus; `bus`, `error`, `props`, `crash`; a bus that comes up disabled | `ProvenanceHonest`, `SettledIsCurrent`, `FocusSettles`, `SelfHeals` | honesty of the source label on every path, no lost focus between the two wake-ups, and the two liveness promises: a focus settles however slow the application; a window with a readable menu, focused again and again, is published again and again with its menu (no verdict, cache entry or dead connection strands it) |
| `reconnect` | two windows, one without a pid, two titles; all faults; delays at their minimum | `TypeOK`, `SettledOnFocusedWindow`, `ImplementsFeed` | sessions, bursts and reordered announcements in every order |
| `delays` | one window, two titles; delays 1-2-4, reset after 2, debounce 2 | `ReconnectsInTime`, `FocusComesThrough` | the arithmetic of the backoff over time, and that a window which keeps focus is published in the end. (That a good session resets the backoff is in the model, but neither property depends on it: the ceiling is all they need.) |
| `clicks` | two windows of one app, a button of each kind, no faults; windows symmetric | `TypeOK`, `PopupOfFocusedApp`, `CapturedWhileOpen`, `RowClickKeepsWindow` | popups of walked and of realised menus over a changing strip: a click on a row goes to the window it was opened for, though focus has moved to its sibling |
| `converges` | three windows of two apps, no buttons; fault `push` | `Converges` | reads of a truncated file, reads overtaken by writes, lost calls: the bar ends with the last payload |
| `forward` | two windows, one lazy menu, one rebuild; all faults | `TypeOK`, `FlashEnds`, `ActsInCapturedWindow`, `StaleClicksEnd` | both processes and the widget's answers in every order: an action lands in the window it was captured for as long as focus stays there (the settle delay is what makes it so); a menu that is open because an expand opened it is about to be closed, unless its native click was dropped; and stale clicks end once the application stops rebuilding |
| `walk` | three windows of two apps, two symmetric titles; `STATE_ACTIVE` on a window, and on the other application's root or the child of its window; fault `error` | `TypeOK`, `MenuOfFocusedWindow`, `MenuOfActiveWindow`, `MenuOfResemblingApp`, `NeverGuesses`, `RowsAreComplete` | the window is found by title or state, never guessed among several, another application's menu never comes up, and no row of the menu found is lost |
| `desktop` | two directories, four file names, five contents, three files, one edit | `TypeOK`, `FallbackIsRecent`, `ResolvesBest`, `LaunchesShown` | the scan implements the ladder in any listing order; the memo never answers with what was wrong for its TTL; a click launches the item of the entry shown |
| `screens` | two windows of two apps, fault `screens` | violation of `ClicksStayInApp` | section 6 |
| `nested` | as `walk`, one app nested | violation of `MenuOfTitledWindow` | section 6 |
| `stillness` | one window, two titles, debounce 2, no faults | violation of `PublishedAfterStillness` | section 6 |

**Why the bounds are enough.** The loop handles one snapshot at a time, and all
its state that is not of that snapshot is a map by app-id or by window: an error
of attribution needs two windows, an error of staleness or of recovery one. Two
windows of one process share app-id and PID and so collide wherever a key is too
coarse. TTLs are the smallest that keep the order the unit tests assert (recheck
< expensive recheck, resolved < expensive recheck); in `restarts` all verdict TTLs differ. A
cache entry is served at exactly its TTL and a verdict is not, so that with a TTL
of 0 an entry still serves every iteration until the next tick, and the walk that
made it may have taken a tick itself: `windows` has both ages that
`PublishedMenuIsRecent` allows. Its two windows share a process and an app, so that
each name in it belongs to both, and its properties are safety properties: the
symmetry is sound. The stream of events
holds two at most (`MaxInFlight`), enough for an announcement in either order
and for one event to supersede another; the debounce and the backoff have
several ticks in `delays`, where two doublings, the ceiling and a reset all
happen. `reconnect` sets the delays to their minimum because it is about order,
which they do not change. The widget holds one pending payload, one popup and one
process of each kind. Two windows are the window captured and the one focus
drifted to; the third in `converges` lets a late read of the first payload arrive
after the second was applied and the third written. The windows of `clicks` are
interchangeable (one app, one shape each) and its properties are safety
properties, so the symmetry is sound.

In `forward` the delays are one tick each and equal, the least that separates an
application that has followed the focus from one that has not; a click can be stale by
one rebuild (`MaxRebuilds`), and the cached walk that is published again before it
expires needs no TTL above zero, since it is served at exactly its TTL. One lazy menu
is enough for what the click action toggles. `walk` has two windows of one
application, to be told apart, and one of another, to be kept out; their trees have a
plain submenu, a popup, a popup in a popup, and rows below both depth limits
(`MaxFindDepth` is 4 here and 8 in the code; the shapes scale with it). Titles are
only compared, so they are symmetric. `Marks` has a child of a window, which the scan
comes to, and the root of the other application; the root of the first is left out to
keep `NeverGuesses` about windows. In `desktop` every tier of the ladder has an entry,
every pair of tiers can be in either directory, and one edit in a memo's life is what
a memo can be wrong about; a second edit finds it either wrong already or right again.

**Fairness.** `ActiveLoop!Fairness` is weak fairness of the loop's own
stretches, of the time-out of the walk, of the watcher's poll, of time and of
`Start`: the runtime polls a ready task, timers fire, and systemd restarts the
bridge (`Restart=on-failure`, nix/module.nix:267; a task that ends is a failure).
The outcomes of a walk other than the time-out have none: nothing is assumed of
applications, of the bus, of the user. `SelfHeals` therefore states its own
premises: the window exposes a readable menu on a working bus, is focused again
and again, and walks are not disturbed any more. `FocusPipeline!Fairness` adds
that niri comes up again and answers a subscription it has not rejected.
`FocusComesThrough` assumes in its premise that the disruptions end.
`Widget!Fairness` is that the bridge finishes an iteration it has begun and that
the shell's event loop delivers inotify events, finished reads and deferred
calls; nothing is assumed of the user, nor of the child processes, whose D-Bus
calls have no time limit. `ClickForward!FairSpec` is that time passes, that the
bridge answers what it is woken for and that the processes run: here the
application does answer, with an error where the accessible is gone. Its strong
fairness says that of the signals of stale clicks sent for ever again one
arrives, and of the menus published for ever again one comes after an eager
payload that did (`InFull`): the bridge is not down for good, has its default
name, and the shell is not deaf for good.
`A11yWalk` and `Desktop` have no fairness and no liveness property: the walk's
end is its time-out, in `ActiveLoop`. One
assumption is implicit: `push_ipc_update` (proxy.rs:212-217) runs `qs` and waits
for its exit without a time limit inside the async loop, so `FocusSettles` holds
of a `qs` that exits.

**Deadlock** is checked in every run.

**Assumptions on data.** `Widget!ShapeAssumption`: the menus of two applications
differ in a label. Two applications with identical labels throughout would keep
each other's accessibles on the strip (`_sameTopLevel`, section 6).

## 4. Proofs

TLC checks small instances; the theorems below hold for all values of the
constants, from the assumptions that the modules name (every `ASSUME` is
evaluated by TLC on each instance). Every invariant and every action property
that a passing run checks is the statement of a theorem. Where one has a premise
beyond those assumptions, it is in its statement and explained here. What is left
to TLC alone is liveness.

An inductive invariant is a conjunction of named parts. It stands at the end of
the module it is about ("Why they hold"), so that it can be given to TLC, which
was done before it was proved.

### The active loop

`ActiveLoop_proofs`, from `SkipTtlAssumption`, `WalkCostAssumption`,
`MenuCacheTtlAssumption`, `WindowAssumption` and `FaultAssumption`, for any
windows, processes, applications, TTLs, budgets and faults:

| theorem | statement |
|---|---|
| `Inductive` | `IInv` is kept by every step |
| `TypeCorrect` | `Spec => []TypeOK` |
| `MenusAreOfTheirWindow` | `Spec => []MenuOfItsWindow` |
| `ProvenanceIsHonest` | `Spec => []ProvenanceHonest` |
| `SentinelIsWritten` | `Spec => SentinelFollowsFile` |
| `SettledLoopIsCurrent` | `Spec => []SettledIsCurrent`, if `"disk"` is not among the faults |
| `PublishesRecentMenus` | `SpecHistory => PublishedMenuIsRecent` |

`MenuOfItsWindow` is not inductive: a publish takes its menu from the walk in
flight or from the cache, of which it says nothing. `IInv` adds `WalkInIteration`
(a walk's result is of the snapshot of the iteration that started it, is there
only between the walk's end and its use, and the snapshot is a window) and
`CacheOfItsWindow` (a cached menu is the menu of the window in its key; this is
where the proof needs that `KeyOf` tells windows apart). The payloads are then
handled once: everything published is in `TrustedBody`, a set closed under
`WriteActiveJson` whatever fails (`WriteKeeps`), and the bodies the loop builds
are in it (`EagerBodyType`, `FinalBodyType`). The rest of the state is in
`StateInv`, proved action by action. `SettledIsCurrent` has an invariant of its
own (`CurrentInv`), which relates the snapshot, the channel's mark, the sentinel
and the properties; it needs writes to succeed, since a failed write keeps the
sentinel of an older window.

The clock of the second module ages each menu since it was last exposed. That a
published one is recent holds because what a walk has read is no older than the
walk (`ReadsAreRecent`), because no time passes between its end and the use of its
result (`WalkIsRecent`), and because a cache entry never looks younger than what is
in it by more than the tick the walk may have taken (`CacheIsRecent`). All three
allow that what was read was a sibling's menu (`ExposedWithin`).

### The focus pipeline

`FocusPipeline_proofs`, from `WindowAssumption` and `DelayAssumption`, for any
windows and titles, any delays, any number of events in flight:

| theorem | statement |
|---|---|
| `TypeCorrect` | `Spec => []TypeOK`, with the bounds of the backoff |
| `Invariant` | `Spec => []IInv` |
| `SettlesOnFocus` | `Spec => []SettledOnFocusedWindow` |
| `Refines` | `Spec => ImplementsFeed`: the pipeline implements `FocusFeed` |
| `Reconnects` | `SpecTiming => []ReconnectsInTime` |

What settles is not visible in the state of the bridge alone: the invariant is
about the events that have not been read. `ReadsWindows` says that a session which
read all of them would know niri's windows, `ReadsFocus` that the last value it
would have published is the focused window, `Forwarded` that a joiner at rest has
handed on what it was sent. Each action of niri appends events, so the lemmas
`AfterAppend`, `OneMore` and `TwoMore` say what reading one more does; each read
takes the first event away, and `AfterTail` says that reading the rest from the
new `known` yields what remains. `Reading` is a recursive function over the
stream, and all of this is by induction on its length (`UptoExists`,
`ReadingPrefix`, `ReadingType`).

The refinement uses the same lemmas: `FeedInit` maps the initial states, and
`FeedNiri` and `FeedBridge` each action to a step of `FocusFeed` or a stutter, with
`Underway` as the values in flight. An event of niri moves the truth and lengthens
`Underway`; a lost session drops what it had unread; `ReadOne` moves a value from
the unread events to the joiner and may skip the one before it.

The clock of `FocusTiming` bounds real time by a sum that does not change while
the timer runs: `calm + timer <= BackoffMax` in a sleep (`SleepsInTime`). It needs
that the backoff never exceeds its ceiling, which is in `TypeOK`.

### Clicks and expands

`ClickForward_proofs`, from `ForwardAssumption` and `MenuCacheTtlAssumption`, for
any windows, menus, rows and faults, any number of rebuilds and any delays of
which the settle delay is no shorter than the application's:

| theorem | statement |
|---|---|
| `TypeCorrect` | `Spec => []TypeOK` |
| `Invariant` | `Spec => []IInv` |
| `ActsInItsWindow` | `Spec => ActsInCapturedWindow` |
| `FlashesEnd` | `Spec => []FlashEnds` |

`SteadyIsFollowed` relates two countdowns: as long as the application still takes
another window to be active, the process is in its settle delay, and what has
passed of that delay is no more than what has passed since the focus moved
(`SettleTicks - left <= lag`). An application that has not followed by the end
would have lagged longer than `SyncTicks <= SettleTicks`. `FlashEnds` is inductive
as it stands: whoever clears the last reason for an open menu to be closed either
closes it, or ends the flash (a click on the same menu, a rebuild, the user), or is
the widget dropping its own click, which the history records.

### The walk

`A11yWalk_proofs`, from `TreeAssumption`, `WindowAssumption` and
`FaultAssumption`, for any applications, any number of windows that open and close
under the walk, any accessibles with any children, any depth limits:

| theorem | statement |
|---|---|
| `TypeCorrect` | `Spec => []TypeOK` |
| `NoGuess` | `Spec => []NeverGuesses` |
| `ResemblingMenu` | `Spec => []MenuOfResemblingApp` |
| `FocusedMenu` | `Spec => []MenuOfFocusedWindow`, if `DepthSuffices` |
| `ActiveMenu` | `Spec => []MenuOfActiveWindow`, if `DepthSuffices` |
| `CompleteRows` | `Spec => []RowsAreComplete`, if the accessibles are a forest (`IsForest`) |

`IInv` follows the walk through its phases. For `NeverGuesses` the loop of
`list_frames` has to be known in the middle (`FramesOfApp`): if the application
has had two windows throughout and no read failed, then neither of the first two
indices was missed, whichever windows closed and moved the others up, so that
`choose_frame` sees two. `RootResembles` carries the application from the choice
of a root to the menu that is returned.

`FindsTold` is what an undisturbed walk adds to it: if the focused window can be
told (by the title, or by the state), the walk is on the way to it. In pass 2 its
application is still ahead, and in it the active window is; in `list_frames` what
was read is the list itself up to here; a search starts at the window, or above it
alone. `FetchedWhole` says that what such a walk returns was read without failures.

What the two searches compute is proved by induction on the depth.
`MenubarIsBelow`: what is found is below the node where the search starts
(`Below`); this is what makes "the window a menubar is in" mean something.
`FetchIsComplete`: the items of the tree are the levels below the menubar without
the hidden wrappers. It has two directions, `ShownAreItems` (nothing is lost: by
levels downwards) and `RowsAreShown` (nothing else appears: an item's rows are
its children, or those of a wrapper it took the place of).

Two premises are about the data, and each is needed. `DepthSuffices`: no menubar
lies so deep that `MAX_FIND_DEPTH` cuts it off when the search starts a level
higher, at the application. `IsForest(depth)`: no two accessibles share a child;
otherwise a wrapper of one could be a row of the other. Both are evaluated by TLC
in `MCA11yWalk`, whose trees satisfy them and still have rows below
`MAX_FETCH_DEPTH`.

### The desktop fallback

`Desktop_proofs`, from `DesktopAssumption` and `NoneAssumption`, for any number of
directories and files, any contents, any orders of listing, any edits:

| theorem | statement |
|---|---|
| `TypeCorrect` | `Spec => []TypeOK` |
| `AnswersAreRecent` | `Spec => []FallbackIsRecent` |
| `FreshAnswersAreBest` | `Spec => ResolvesBest` |
| `ClicksLaunchShown` | `Spec => LaunchesShown` |

A memo is as old as its answer may be wrong (`AgesInStep`), and it cannot be
wrong when it is made: this is `ResolvesBest`. That one is about two nested
recursions, over the files of a directory in the order they are listed and over
the directories. The invariants of the scan say that each tier holds a hit of the
earliest directory that has one, that a tier is empty only if nothing read so far
could fill it, and that the scan stops early only in the directory of its class
hit, in which case the lower tiers no longer matter. The same lemmas give
`LaunchesShown`: an intact entry is found again under its own file name, before
any scan (`WasFound`).

### The widget

`Widget_proofs`, from `WindowAssumption`, `ShapeAssumption` and
`ButtonAssumption`, for any windows, apps, shapes, buttons and faults:

| theorem | statement |
|---|---|
| `TypeCorrect` | `Spec => []TypeOK` |
| `PopupIsOfFocusedApp` | `Spec => []PopupOfFocusedApp` |
| `CapturedExactlyWhileOpen` | `Spec => []CapturedWhileOpen`, if `"screens"` is not among the faults |
| `RowClicksKeepWindow` | `Spec => RowClickKeepsWindow`, under the same premise |

The popup takes its rows from the strip, so `IInv` adds `TopLevelOfApp`: the
strip may keep the nodes of a sibling window (`_sameTopLevel` says they are the
same), but not of another app. This is where `ShapeAssumption` is used.
`CapturedWhileOpen` needs the same fact for another reason: a button that can be
clicked is proof that a window has focus, so what is captured is a window.
`RetryOnStrip` carries this over to the answer of `atspi-expand`.
`RowClickKeepsWindow` adds `CapturedOfPopup`: what is captured is the window that
had focus when the popup that is open was opened. The premise on `"screens"`
cannot be dropped: the run `screens` starts from its failure.

### Induction, and what is not proved

The library's induction theorems take an operator as a parameter, which the
provers here cannot instantiate. `Induction` states the same for sets: from the
fact that finite sets are well-founded under inclusion it proves that a set of
naturals has a least element (`LeastNatural`), then induction for a set
(`NaturalInduction`, `BoundedInduction`) and the existence of a function defined by
recursion on `0..n` (`BoundedRecursion`). A recursive function `f[n \in S] == ...`
is a `CHOOSE`, so before anything is proved about it, it has to be proved to exist:
by `BoundedRecursion` where its values are in a known set (`FindSteps`,
`LevelSteps`, `ItemsSteps`), level by level where they are not (`FetchSteps`).

Only model-checked: the liveness properties `FocusSettles`, `SelfHeals`,
`FocusComesThrough`, `Converges` and `StaleClicksEnd`. Each rests on fairness, which is
a statement about `ENABLED`, beyond these provers. The three properties that the
code violates (`screens`, `nested`, `stillness`) are counterexamples of TLC.

## 5. Plan

Modelled: everything of section 2. A submenu cascade with its retry timer was
planned and dropped: `MenuRow` asks for a submenu only for rows that have
children, so the timer is never started (section 6), and what is left is view
state. Proved: every safety property of the runs. Next, in this order:

1. An abstract specification of a walk, as `ActiveLoop` takes it (one step, with
   the outcomes it may have), and that `A11yWalk` implements it.
2. An abstract specification of what the bar shows (a payload published before,
   never of an app without focus), and that `Widget` implements it.
3. The safety half of the liveness properties: that while a premise of
   `Converges` or `SelfHeals` holds, no step leads away from its conclusion.

A run is kept for each question worth asking again. The runs that only exhibited
a known divergence gave way to those of new modules, except three; the divergences
stay in section 6.

## 6. Where code and documentation disagree

Found while modelling; the first three each have a run that shows the behaviour.

- `screens`: `_capturedWinid` is set before `openAt` is called, and reset only
  when the popup closes. An `openAt` that refuses leaves it set, and the next
  click on a top-level leaf or a failed expand of another app sends that window's
  id (plugin/BarWidget.qml:86-88 and 657).
- `nested`: `list_frames` counts the direct children of an application's root, so
  an application with a node in between (Qt, as atspi.rs:902 says) counts as one
  with a single window, and the search starts at its root, which the comment at
  750-752 rules out. The first window's menu is served for the others
  (atspi.rs:893).
- `stillness`: ADR-0009 decides for focus changes "wait 75 ms; if no further focus
  event arrives, emit. If another arrives, restart the timer"
  (docs/adr/ADR-0009-debouncing-policy.md:12), and active.rs:103 says "Wait for
  stillness before publishing". The joiner sleeps once per wake-up and publishes
  what is latest then; a change during the sleep restarts nothing. In the run a
  change one tick before the end of a debounce of two is published one tick later.
  The code cannot be held up by a storm of changes, which a timer that restarts
  could be.

Without a run of their own. The active loop and the focus stream:

- Verdicts are by app-id and come before the cache, which is by window; one
  window's negative walk publishes the fallback for another whose readable menu is
  cached (proxy.rs:448-457; desktop.rs:685-686).
- A bus restart between two polls is not noticed, and the dead connection is kept
  for good (atspi.rs:664-667, 1486-1519).
- Losing focus while not connected leaves the snapshot on the old window until the
  next focus event (active.rs:22-23; niri.rs:75).
- A failed write keeps the sentinel of the last good one, though
  the file may be truncated and the widget was pushed the failed payload; an
  equal payload is then coalesced (proxy.rs:172-186).
- A walk that spans a bus restart records an expensive verdict
  after the watcher cleared them (atspi.rs:140-141, 295-303).
- A `RefreshActive` consumes a pending focus change (proxy.rs:372-375
  and 392). Nothing is lost by it: `SettledIsCurrent` holds.
- A walk records nothing "on Err" (atspi.rs:148), but the reads that fail in it are
  skipped, not returned (736-748, 948, 1166-1175): of an application with a readable
  menu, an `Ok(None)` comes back quickly and teaches a cheap verdict, on a live bus
  as well as on one that dies under the walk. `SelfHeals` says that it ends.
- A cheap verdict of an app whose menubar is known is held for `RECHECK_TTL`
  (300 s), not "seconds" (atspi.rs:214-232).
- An identical snapshot is written twice when the window has a native menu,
  since the eager publish differs from the final one (proxy.rs:136-141, 420).
- `RefreshActive` promises an immediate re-walk (proxy.rs:253-255); within the
  cache's TTL it is answered from the cache, `menu_cache::invalidate` having no
  caller.
- After focus moved to a window without a pid the snapshot names the window
  before it (niri.rs:91; active.rs:20-23).
- The subscription's ack has no time-out (niri.rs:271;
  specs/004-project-completion/contracts/focus-sink-trait.md:51).

The widget:

- The guard against a second expand is `_pendingRetryButton`, which becomes null
  when the strip is rebuilt while the process runs. The next click is accepted, the
  process is not started again, and the items of the first button are shown under
  the second (plugin/BarWidget.qml:675-677).
- A read between truncation and write gives an empty file, which clears the
  widget and closes the popup (`Loaded`); proxy.rs:40-48 expects a parse error,
  which would be skipped.
- The file is still read on every publish, though plugin/BarWidget.qml:322-334
  calls it the path of the first load.
- An `atspi-expand` ends with `RefreshActive`, whose eager payload without a menu
  empties the strip. If it arrives before the answer, the answer is dropped
  (`ExpandUnwanted`), against "click still does something"
  (plugin/BarWidget.qml:837-839).
- For the same reason `_sameTopLevel` seldom spares the delegates: between two
  equal menus there is an empty one. Where that one is lost or overtaken, two levels
  of labels are compared and the old accessibles are kept, which may be gone
  (the fault `coalesce` of `ClickForward`; `Converges` is up to this).
- The rows of an expand are captured when its answer opens the popup
  (plugin/BarWidget.qml:868), not at the click: focus that drifts to a sibling while
  the expand runs is taken over.
- A click while `clickProcess` runs is lost (`StartClick`). Its exit code 2, "stale
  path" (main.rs:225-226), is not interpreted.
- A click on a leaf of the strip and a failed expand carry no `--winid`, since the
  popup is closed first, or was never open (`ClickLeaf`, `ExpandFails`).
- The cascade's retry timer (plugin/SubmenuPopup.qml:289) is for a row whose
  children are not there yet, but `MenuRow` emits `submenuRequested` only for a row
  that has children.

The click and expand processes:

- After a stale click "the snapshot will repaint shortly" (main.rs:225-226), and
  after an expand the next click opens "directly from the snapshot", so that the
  flash is "first-click-per-menu only" (main.rs:337-339). But within the cache's
  30 s the `RefreshActive` of both is answered from the cache (proxy.rs:457): the
  stale paths, or the menu without items, are published again, until the entry
  expires. `StaleClicksEnd` says no more than that it ends.
- A slow lazy menu whose items arrive after the realise delay is left open by the
  expand, and the widget's native click in answer toggles it closed again
  (BarWidget.qml:869-873; atspi.rs:1697-1706).
- The native click that answers an expand without items is dropped when a click
  process still runs (`setting running on a running process`). A menu that fills too
  late for the expand to close it then stays open until the user closes it, against
  "self-corrects" (docs/adr/ADR-0034-lazy-menu-expand-on-demand.md) and "so the click
  still does *something*" (plugin/BarWidget.qml:838-839). It is the exception in
  `FlashEnds`.
- An expand of a menu that is natively open closes it first, sees the items that it
  has, and toggles it open again. `FlashEnds` is about menus that were closed.
- An expand whose menu is rebuilt in its delay reads nothing, which is no error: it
  prints no items and signals the bridge (atspi.rs:1210-1213; main.rs:330-346).
- A rebuild between the probe and `DoAction` is an untyped error: exit code 1, and
  no refresh signal (atspi.rs:1625).
- `RefreshActive` is sent to the default name and path; with a custom
  `publish_service` it reaches nobody (main.rs:380).

The walk:

- A failed `read_child_count` in `list_frames` counts no window and so gives the
  application root, the guess that ADR-0030 excludes (`NeverGuesses` has the
  premise that no read failed).
- The scan for `STATE_ACTIVE` tests the root before the windows (atspi.rs:1054-1061),
  so that a root which carries the state is taken for the active window, and its
  first window's menu is served (the premise on `Marks` in `NeverGuesses`).
- Of two windows with one title, the first listed is served for both
  (`TitleIsUnique` in the premise of `MenuOfFocusedWindow`).

The desktop fallback:

- A `Hidden` or `NoDisplay` file is said to lead to the minimal fallback
  (desktop.rs:257-259); it is skipped, and an entry of the same name in a later
  directory, or of a lower tier, is used.
- When two directories have a file of one name, the scan may choose the later one,
  while the click resolves the name to the earlier (desktop.rs:440-441). `Intact`
  excludes this, and the next.
- An entry whose file name is no valid desktop id is shown, and none of its items
  can be launched. The same goes for an action without `Exec` and an `Exec` of
  field codes only (desktop.rs:24-30).

## 7. Not modelled

The rendering of the D-Bus object's getters (no state), logging, the CLI,
configuration loading, packaging, tests and release scripts; SIGTERM and SIGINT,
after which nothing runs. Outside `src/` the model has niri and the crate
niri-ipc, applications on the a11y bus and the bus itself, as far as the code
here sees them. To `ActiveLoop` the walk is one stretch that ends with a menu that
was there while it ran, whole or unreadable, with nothing, with an error or out of
time, and to `Widget` a child process is what it was started with; `A11yWalk`
and `ClickForward` have the inside of both. Of a menu row, the label, the states
and the toggle are left out, which are read beside its address and decide nothing;
of a `.desktop` file the locale and the icons. Of the widget, rendering, the
counters it logs and the failed state (a payload that does not parse or has a
version the bridge does not write) are left out. The cascade of submenus is view
state: its rows end in the same click as those of the root popup.
