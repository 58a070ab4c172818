------------------------------- MODULE Desktop -------------------------------
(***************************************************************************)
(* The desktop fallback of desktop.rs: how an application id is resolved   *)
(* to a .desktop entry over the XDG directories, the memo the bridge keeps *)
(* of it, the menu built from it, and the click process that resolves the  *)
(* entry's own id again, with a memo of its own, to launch an item.  Files *)
(* are installed, edited and removed at any moment in between.             *)
(***************************************************************************)
EXTENDS Integers, Sequences, FiniteSets, SequencesExt

CONSTANTS NDirs,      \* XDG application directories, 1 has precedence
          AppIds,     \* Wayland app_ids that get a fallback menu
          Stems,      \* file names, without .desktop
          Fold,       \* [id or WM class -> its lower-case form]
          Norm,       \* [id or name -> its normal form]
          ValidIds,   \* the ids is_valid_desktop_id accepts
          Base,       \* [runnable Exec -> normal form of its program's name]
          Contents,   \* what a .desktop file may hold
          ResolveTtl, \* RESOLVE_TTL in ticks
          MaxFiles, MaxEdits, \* bounds of the instance
          None        \* no entry, file, memo, class, name, Exec

Dirs == 1 .. NDirs

ASSUME DesktopAssumption ==
    /\ NDirs \in Nat \ {0}
    /\ ResolveTtl \in Nat \ {0}
    /\ MaxEdits \in Nat
    /\ AppIds \subseteq ValidIds
    /\ IsFiniteSet(Stems)

\* A file's text: is it an application to be shown (its type, NoDisplay and
\* Hidden), and the keys the fallback reads.  `listed` is Actions=, `groups`
\* the [Desktop Action] groups in file order.
Content == [shown : BOOLEAN, class : DOMAIN Fold \cup {None},
            name : DOMAIN Norm \cup {None}, exec : STRING,
            listed : Seq(STRING), groups : Seq([id : STRING, exec : STRING])]

\* A .desktop entry that is found: its file's name, directory and text.
Entry == [id : Stems, dir : Dirs, content : Contents]

\* None is Option::None, so none of the things there may be.
ASSUME NoneAssumption ==
    /\ Contents \subseteq Content
    /\ None \notin Contents /\ None \notin Entry
    /\ None \notin DOMAIN Base
    /\ \A e \in Entry \cup {None} :
          /\ None # [entry |-> e]
          /\ \A age \in 0 .. ResolveTtl : None # [entry |-> e, age |-> age]

VARIABLES
    files,    \* [Dirs -> [Stems -> a content or None]]
    edits,    \* edits made, up to MaxEdits
    memo,     \* RESOLVE_CACHE of the bridge: [entry, age] or None
    menu,     \* the entry of the fallback menu in the bar: [entry] or None
    wrong,    \* history: ticks since memo[app].entry was last a right answer
    launched  \* history: this step's click, [item, exec], or None

vars == <<files, edits, memo, menu, wrong, launched>>

NoExec == ""
Runnable(exec) == exec \in DOMAIN Base

(***************************************************************************)
(* Reading a file.                                                         *)
(***************************************************************************)
\* The groups `Actions=` names, or without it all of them; the first group
\* of an id stands for it.
GroupOf(c, a) == SelectInSeq(c.groups, LAMBDA g : g.id = a)
ActionsOf(c) ==
    LET wanted == IF c.listed # <<>> THEN c.listed
                  ELSE [i \in DOMAIN c.groups |-> c.groups[i].id]
        present == SelectSeq(wanted, LAMBDA a : GroupOf(c, a) # 0)
    IN  [i \in DOMAIN present |-> c.groups[GroupOf(c, present[i])]]

\* An entry remembers its directory here only to say where it came from.
IsCandidate(fs, d, s) == fs[d][s] # None /\ fs[d][s].shown
Candidate(fs, d, s) == [id |-> s, dir |-> d, content |-> fs[d][s]]

(***************************************************************************)
(* Resolution: the file named after the id, else one scan for three tiers. *)
(***************************************************************************)
ClassHit(e, id) == e.content.class # None /\ Fold[e.content.class] = Fold[id]
ExecHit(e, id)  == Runnable(e.content.exec) /\ Base[e.content.exec] = Norm[id]
FuzzyHit(e, id) == \/ Norm[e.id] = Norm[id]
                   \/ e.content.name # None /\ Norm[e.content.name] = Norm[id]

Direct(fs, id) == {d \in Dirs : id \in Stems /\ IsCandidate(fs, d, id)}
Earliest(D) == CHOOSE d \in D : \A x \in D : d <= x

OrElse(a, b) == IF a # None THEN a ELSE b

\* Mutant: a later hit of a tier replaces an earlier one.
Consider_LastHit(best, e, id) ==
    IF best.class = None /\ ClassHit(e, id) THEN [best EXCEPT !.class = e]
    ELSE [best EXCEPT
            !.exec  = IF ExecHit(e, id) THEN e ELSE @,
            !.fuzzy = IF FuzzyHit(e, id) THEN e ELSE @]

\* One file of the scan.  The first class hit is set apart; any other file may
\* fill the two tiers below it.
Consider(best, e, id) ==
    IF best.class = None /\ ClassHit(e, id) THEN [best EXCEPT !.class = e]
    ELSE [best EXCEPT
            !.exec  = OrElse(@, IF ExecHit(e, id) THEN e ELSE None),
            !.fuzzy = OrElse(@, IF FuzzyHit(e, id) THEN e ELSE None)]

\* The files of one directory, as they are listed.
ScanDir(best, listing, id) ==
    LET after[i \in 0 .. Len(listing)] ==
          IF i = 0 THEN best ELSE Consider(after[i - 1], listing[i], id)
    IN  after[Len(listing)]

\* The orders read_dir may list a directory's candidates in.
ReadOrders(fs, d) ==
    {[i \in DOMAIN o |-> Candidate(fs, d, o[i])] :
        o \in SetToSeqs({s \in Stems : IsCandidate(fs, d, s)})}

NoHit == [class |-> None, exec |-> None, fuzzy |-> None]

\* The directories in their order; a class hit ends the scan with its own.
Scan(order, id) ==
    LET upto[d \in 0 .. NDirs] ==
          IF d = 0 THEN NoHit
          ELSE IF upto[d - 1].class # None THEN upto[d - 1]
          ELSE ScanDir(upto[d - 1], order[d], id)
        best == upto[NDirs]
    IN  OrElse(best.class, OrElse(best.exec, best.fuzzy))

\* Mutant: the file of that name is not looked for first.
Resolutions_ScanOnly(fs, id) ==
    IF id \notin ValidIds THEN {None}
    ELSE {Scan(order, id) :
            order \in {o \in [Dirs -> UNION {ReadOrders(fs, d) : d \in Dirs}] :
                         \A d \in Dirs : o[d] \in ReadOrders(fs, d)}}

\* Every result resolve_in can return, over the orders of its directories.
Resolutions(fs, id) ==
    IF id \notin ValidIds THEN {None}
    ELSE IF Direct(fs, id) # {} THEN {Candidate(fs, Earliest(Direct(fs, id)), id)}
    ELSE {Scan(order, id) :
            order \in {o \in [Dirs -> UNION {ReadOrders(fs, d) : d \in Dirs}] :
                         \A d \in Dirs : o[d] \in ReadOrders(fs, d)}}

IsFresh(m) == m # None /\ m.age < ResolveTtl

(***************************************************************************)
(* The menu of an entry, and what an item of it spawns.                    *)
(***************************************************************************)
\* Without actions a launch item, when Exec is not empty.  Quit and the
\* Window menu are always there and are niri's own actions.
Launch == [kind |-> "launch"]
Action(a) == [kind |-> "action", id |-> a]
ItemsOf(e) ==
    IF ActionsOf(e.content) = <<>>
    THEN IF e.content.exec = NoExec THEN {} ELSE {Launch}
    ELSE {Action(a.id) : a \in ToSet(ActionsOf(e.content))}

\* The Exec of an item in an entry: NoExec when the entry has no such action.
ExecOf(e, item) ==
    IF item = Launch THEN e.content.exec
    ELSE LET same == SelectSeq(ActionsOf(e.content), LAMBDA a : a.id = item.id)
         IN  IF same = <<>> THEN NoExec ELSE same[1].exec

\* Mutant: an Exec with nothing to run is spawned all the same.
Spawned_Unchecked(e, item) == IF e # None THEN ExecOf(e, item) ELSE None

\* launch_app, launch_action: what the click process spawns.
Spawned(e, item) ==
    IF e # None /\ Runnable(ExecOf(e, item)) THEN ExecOf(e, item) ELSE None

(***************************************************************************)
(* The bridge, the click process, and the file system.                     *)
(***************************************************************************)
Installed(fs) == {p \in Dirs \X Stems : fs[p[1]][p[2]] # None}

Init ==
    /\ files \in {fs \in [Dirs -> [Stems -> Contents \cup {None}]] :
                    Cardinality(Installed(fs)) <= MaxFiles}
    /\ edits = 0
    /\ memo = [a \in AppIds |-> None]
    /\ menu = None
    /\ wrong = [a \in AppIds |-> 0]
    /\ launched = None

\* Mutant: an answer from the memo starts its time to live again.
FallbackMenu_Slides(app) ==
    /\ \/ /\ IsFresh(memo[app])
          /\ memo' = [memo EXCEPT ![app].age = 0]
          /\ UNCHANGED wrong
       \/ /\ ~IsFresh(memo[app])
          /\ \E e \in Resolutions(files, app) :
                memo' = [memo EXCEPT ![app] = [entry |-> e, age |-> 0]]
          /\ wrong' = [wrong EXCEPT ![app] = 0]
    /\ menu' = [entry |-> memo'[app].entry]
    /\ launched' = None
    /\ UNCHANGED <<files, edits>>

\* The loop publishes a fallback for an application: fallback_menu, with
\* resolve and its memo.  A failed resolution is remembered as well.
FallbackMenu(app) ==
    /\ \/ /\ IsFresh(memo[app])
          /\ UNCHANGED <<memo, wrong>>
       \/ /\ ~IsFresh(memo[app])
          /\ \E e \in Resolutions(files, app) :
                memo' = [memo EXCEPT ![app] = [entry |-> e, age |-> 0]]
          /\ wrong' = [wrong EXCEPT ![app] = 0]
    /\ menu' = [entry |-> memo'[app].entry]
    /\ launched' = None
    /\ UNCHANGED <<files, edits>>

\* A click on an item: a new process resolves the id the item carries.
ClickItem(item) ==
    /\ menu # None /\ menu.entry # None
    /\ item \in ItemsOf(menu.entry)
    /\ \E e \in Resolutions(files, menu.entry.id) :
            launched' = [item |-> item, exec |-> Spawned(e, item)]
    /\ UNCHANGED <<files, edits, memo, menu, wrong>>

\* A package is installed, changed or removed.
Edit(d, s) ==
    /\ edits < MaxEdits
    /\ edits' = edits + 1
    /\ \E c \in (Contents \cup {None}) \ {files[d][s]} :
          files' = [files EXCEPT ![d][s] = c]
    /\ Cardinality(Installed(files')) <= MaxFiles
    /\ launched' = None
    /\ UNCHANGED <<memo, menu, wrong>>

\* Time passes.  An age stops at the limit; `wrong` goes one tick past it.
Tick ==
    /\ memo' = [a \in AppIds |->
                  IF ~IsFresh(memo[a]) THEN memo[a]
                  ELSE [memo[a] EXCEPT !.age = @ + 1]]
    /\ wrong' = [a \in AppIds |->
                  IF memo[a] = None \/ memo[a].entry \in Resolutions(files, a)
                  THEN 0
                  ELSE IF wrong[a] > ResolveTtl THEN wrong[a] ELSE wrong[a] + 1]
    /\ launched' = None
    /\ UNCHANGED <<files, edits, menu>>

Items == UNION {{Launch}, {Action(g.id) : g \in
                  UNION {ToSet(c.groups) : c \in Contents}}}

Next ==
    \/ \E app \in AppIds : FallbackMenu(app)
    \/ \E item \in Items : ClickItem(item)
    \/ \E d \in Dirs, s \in Stems : Edit(d, s)
    \/ Tick

Spec == Init /\ [][Next]_vars

(***************************************************************************)
(* Properties.                                                             *)
(***************************************************************************)
\* Types; a memo's age never passes its time to live.
TypeOK ==
    /\ files \in [Dirs -> [Stems -> Contents \cup {None}]]
    /\ edits \in 0 .. MaxEdits
    /\ memo \in [AppIds ->
          [entry : Entry \cup {None}, age : 0 .. ResolveTtl] \cup {None}]
    /\ menu \in [entry : Entry \cup {None}] \cup {None}
    /\ wrong \in [AppIds -> 0 .. ResolveTtl + 1]
    /\ launched \in [item : Items, exec : DOMAIN Base \cup {None}] \cup {None}

\* The ladder as desktop.rs:431-445 tells it: the file of that name, then the
\* class, then the program, then the name; in a tier the earliest directory.
Candidates(fs) == {Candidate(fs, p[1], p[2]) :
                     p \in {q \in Dirs \X Stems : IsCandidate(fs, q[1], q[2])}}
Tier(fs, id, k) ==
    {e \in Candidates(fs) : CASE k = 1 -> e.id = id
                              [] k = 2 -> ClassHit(e, id)
                              [] k = 3 -> ExecHit(e, id)
                              [] k = 4 -> FuzzyHit(e, id)}
Best(fs, id) ==
    IF \A k \in 1 .. 4 : Tier(fs, id, k) = {} THEN {None}
    ELSE LET T == Tier(fs, id, CHOOSE k \in 1 .. 4 :
                     /\ Tier(fs, id, k) # {}
                     /\ \A j \in 1 .. k - 1 : Tier(fs, id, j) = {})
         IN  {e \in T : \A f \in T : e.dir <= f.dir}

\* Whatever the order of the directory listings, an application that is
\* resolved afresh gets the best entry of the ladder: no lower tier and no
\* later directory wins over it (pass 1, the scan and its `break`).
ResolvesBest ==
    [][\A app \in AppIds :
          memo'[app] # memo[app] /\ memo'[app].age = 0
              => memo'[app].entry \in Best(files, app)]_vars

\* An answer the memo would still give was the right one less than RESOLVE_TTL
\* ago, also for an application that had no entry: a file installed meanwhile
\* is picked up "within this window" (desktop.rs:518-520), however often the
\* application is focused.
FallbackIsRecent ==
    \A app \in AppIds : IsFresh(memo[app]) => wrong[app] < ResolveTtl

\* The file an entry came from still says the same, its name is an id the
\* click can carry and no other directory holds a file of that name.
Intact(e) ==
    /\ e.id \in ValidIds
    /\ files[e.dir][e.id] = e.content
    /\ \A d \in Dirs \ {e.dir} : files[d][e.id] = None

\* A click on an item whose entry is intact launches that item of that entry,
\* though its process resolves the entry's file name and not the application:
\* no other file's class, program or name can take the click over.  (An Exec
\* with nothing to run is refused.)
LaunchesShown ==
    [][launched' # None /\ Intact(menu.entry)
          => launched'.exec = Spawned(menu.entry, launched'.item)]_vars

(***************************************************************************)
(* Why they hold.                                                          *)
(***************************************************************************)
\* What is remembered, and what the bar shows, was found as a file to be shown.
WasFound(e) == e # None => e \in Entry /\ e.content.shown

\* The ticks since an answer was right are at most its age.
AgesInStep == \A app \in AppIds : IsFresh(memo[app]) => wrong[app] <= memo[app].age

IInv ==
    /\ TypeOK
    /\ \A app \in AppIds : memo[app] # None => WasFound(memo[app].entry)
    /\ menu # None => WasFound(menu.entry)
    /\ AgesInStep

=============================================================================
