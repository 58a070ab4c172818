------------------------------ MODULE MenuTree ------------------------------
(***************************************************************************)
(* bridge/src/atspi.rs, find_menubar, fetch_menu_tree and                  *)
(* flatten_qt_wrapper: how the accessibles below one window become the     *)
(* tree of menu rows that the bar renders.                                 *)
(*                                                                         *)
(* Of a row only the accessible it addresses and its rows below are kept.  *)
(* deaf is the read that fails, if one does, and of which accessible: its  *)
(* role is then 0, its Name empty, its ChildCount 0, or its parent goes on *)
(* to the next child without it.                                           *)
(***************************************************************************)
EXTENDS Naturals, SequencesExt

CONSTANTS
    Nodes,        \* the accessibles: windows, menubars, menu items
    Kids,         \* the children of each, in order
    MenuBars,     \* those with role MENU_BAR
    Named,        \* those with a Name
    MaxFindDepth, \* MAX_FIND_DEPTH, 8
    MaxFetchDepth \* MAX_FETCH_DEPTH, 3

ASSUME TreeAssumption ==
    /\ MenuBars \subseteq Nodes /\ Named \subseteq Nodes
    /\ Kids \in [Nodes -> Seq(Nodes)]
    /\ MaxFindDepth \in Nat \ {0, 1} /\ MaxFetchDepth \in Nat

\* The accessibles at each depth below accessible n.
LevelsBelow(n, max) ==
    LET Level[d \in 0..max] ==
          IF d = 0 THEN {n} ELSE UNION {Range(Kids[x]) : x \in Level[d - 1]}
    IN  Level

\* Of the reads that a search from some accessibles downwards makes of each
\* that it comes to none fails, or one.
Failures(starts, depth, reads) ==
    LET met == UNION {UNION Range(LevelsBelow(n, depth)) : n \in starts}
    IN  {{}} \cup {{f} : f \in met \X reads}

\* The children of accessible n that get_child_at_index comes to.
KidsOf(n, deaf) ==
    LET lost == {i \in DOMAIN Kids[n] : <<Kids[n][i], "child">> \in deaf}
    IN  IF <<n, "kids">> \in deaf THEN <<>>
        ELSE IF lost = {} THEN Kids[n]
        ELSE RemoveAt(Kids[n], CHOOSE i \in lost : TRUE)

\* The first element of a sequence of options that is not {}.
FirstSome(s) ==
    IF \E i \in DOMAIN s : s[i] # {}
    THEN s[CHOOSE i \in DOMAIN s : s[i] # {} /\ \A j \in 1..(i - 1) : s[j] = {}]
    ELSE {}

\* find_menubar, called on accessible n with cur_depth: depth first, in child
\* order, the first menubar.
FindMenubar(node, cur_depth, deaf) ==
    LET Find[left \in 0..MaxFindDepth] ==
          [n \in Nodes |->
              IF left = 0 THEN {}
              ELSE IF n \in MenuBars /\ <<n, "role">> \notin deaf THEN {n}
              ELSE LET kids == KidsOf(n, deaf)
                   IN  FirstSome([i \in DOMAIN kids |-> Find[left - 1][kids[i]]])]
    IN  Find[MaxFindDepth - cur_depth][node]

----------------------------------------------------------------------------

HasLabel(item, deaf) == item.node \in Named /\ <<item.node, "name">> \notin deaf

\* Fault: a submenu that is an only child is taken for a wrapper, label or not.
WrapsRows_Labelled(item, deaf) == Len(item.rows) = 1 /\ item.rows[1].rows # <<>>

\* Qt puts the rows of a menu below an unnamed popup, its only child.
WrapsRows(item, deaf) ==
    /\ Len(item.rows) = 1
    /\ ~HasLabel(item.rows[1], deaf)
    /\ item.rows[1].rows # <<>>

\* flatten_qt_wrapper
FlattenQtWrapper(item, deaf) ==
    IF WrapsRows(item, deaf) THEN [item EXCEPT !.rows = item.rows[1].rows] ELSE item

\* fetch_menu_tree, called on accessible node with cur_depth 0.
FetchMenuTree(node, deaf) ==
    LET Fetch[left \in 0..MaxFetchDepth] ==
          [n \in Nodes |->
              IF left = 0 THEN [node |-> n, rows |-> <<>>]
              ELSE LET kids == KidsOf(n, deaf)
                       rows == [i \in DOMAIN kids |-> Fetch[left - 1][kids[i]]]
                   IN  FlattenQtWrapper([node |-> n, rows |-> rows], deaf)]
    IN  Fetch[MaxFetchDepth][node]

----------------------------------------------------------------------------
(* What the result should be, not how it is made.                          *)

\* What a search that starts at accessible n can come to.
Below(n) ==
    LET Level == LevelsBelow(n, MaxFindDepth)
    IN  UNION {Level[d] : d \in 0..MaxFindDepth}

\* All rows of a tree, its menubar included.
ItemsOf(tree) ==
    LET Upto[d \in 0..MaxFetchDepth] ==
          IF d = 0 THEN {tree}
          ELSE Upto[d - 1] \cup UNION {Range(item.rows) : item \in Upto[d - 1]}
    IN  Upto[MaxFetchDepth]

\* The bar never shows a popup whose one row is nameless and hides the rest.
WrapperFree(tree, deaf) == \A item \in ItemsOf(tree) : ~WrapsRows(item, deaf)

\* What a bar has down to MAX_FETCH_DEPTH, without the nameless only children
\* whose own children are shown in their place.
RowsBelow(bar) ==
    LET Level == LevelsBelow(bar, MaxFetchDepth)
        Wrappers(d) == {n \in Level[d] \ Named :
                           Kids[n] # <<>> /\ \E p \in Level[d - 1] : Kids[p] = <<n>>}
    IN  (UNION {Level[d] : d \in 0..MaxFetchDepth})
            \ (UNION {Wrappers(d) : d \in 1..(MaxFetchDepth - 1)})

\* The accessibles are a forest: no two have a child in common, and each is
\* one deeper than its parent.
IsForest(depth) ==
    \A p, q \in Nodes : \A i \in DOMAIN Kids[p], j \in DOMAIN Kids[q] :
        /\ Kids[p][i] = Kids[q][j] => p = q
        /\ depth[Kids[p][i]] = depth[p] + 1

=============================================================================
