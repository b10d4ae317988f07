----------------------------- MODULE ProcessTree -----------------------------
(***************************************************************************)
(* The tree view of top: ProcessList_sort and ProcessList_buildTree.  A    *)
(* Process is a record of its pid, tgid, ppid, showChildren, show and      *)
(* indent, whose bits say at which levels a line is drawn to its left.     *)
(***************************************************************************)
EXTENDS Containers

CONSTANT TreePids        \* the pids of the processes, 1 .. n

VARIABLES list, treeView, direction, sorted   \* sorted: by the last key pressed

treeVars == <<list, treeView, direction, sorted>>

Process_pidCompare(p1, p2) == p1.pid - p2.pid

(* By the pid, forwards or backwards.                                      *)
Process_compare(dir, p1, p2) ==
  IF dir = 1 THEN Process_pidCompare(p1, p2) ELSE Process_pidCompare(p2, p1)

IsChild(p, pid) == p.tgid = pid \/ (p.tgid = p.pid /\ p.ppid = pid)

(* indent | (1 << level), for fewer levels than an int has bits.           *)
HasBit(indent, level) == (indent \div 2 ^ level) % 2 = 1
WithBit(indent, level) == IF HasBit(indent, level) THEN indent ELSE indent + 2 ^ level

Placed(tree, p, dir) == IF dir = 1 THEN Vector_add(tree, p) ELSE Vector_insert(tree, 0, p)

(* What a level of the recursion leaves: the processes not yet taken, and  *)
(* the tree.  The children are taken from the last to the first.           *)
RECURSIVE ProcessList_buildTree(_, _, _, _, _, _)
ProcessList_buildTree(left, pid, level, indent, dir, show) ==
  LET children == Reverse(SelectSeq(left.processes, LAMBDA p : IsChild(p, pid)))
      rest == SelectSeq(left.processes, LAMBDA p : ~IsChild(p, pid))
      nextIndent == WithBit(indent, level)
      Child(acc, i) ==
        LET last == i = Len(children)
            p == [children[i] EXCEPT !.show = @ /\ show,
                                     !.indent = IF last THEN -nextIndent ELSE nextIndent]
        IN ProcessList_buildTree([acc EXCEPT !.tree = Placed(@, p, dir)], p.pid, level + 1,
                                 IF last THEN indent ELSE nextIndent, dir,
                                 show /\ p.showChildren)
  IN FoldLeft(Child, [left EXCEPT !.processes = rest], [i \in DOMAIN children |-> i])

(* The first one is the root; what it does not reach follows as more roots.*)
RECURSIVE FromRoots(_, _, _)
FromRoots(left, dir, shown) ==
  IF left.processes = << >> THEN left.tree
  ELSE LET root == [Vector_get(left.processes, 0) EXCEPT !.indent = 0]
           taken == [processes |-> Vector_take(left.processes, 0),
                     tree |-> Vector_add(left.tree, root)]
       IN FromRoots(ProcessList_buildTree(taken, root.pid, 0, 0, dir,
                                          shown \/ root.showChildren), dir, FALSE)

Tree(ps, dir) ==
  FromRoots([processes |-> Vector_quickSort(ps, Process_pidCompare), tree |-> << >>], dir, TRUE)

(* Mutant: the children are left in the list of the processes.             *)
SortedNoTake(ps, tree, dir) ==
  IF tree THEN Tree(ps, dir) \o SelectSeq(ps, LAMBDA p : p.ppid = Min(TreePids))
  ELSE Vector_insertionSort(ps, LAMBDA p1, p2 : Process_compare(dir, p1, p2))

ProcessList_sort(ps, tree, dir) ==
  IF tree THEN Tree(ps, dir)
  ELSE Vector_insertionSort(ps, LAMBDA p1, p2 : Process_compare(dir, p1, p2))
-----------------------------------------------------------------------------
(* A scan shows what is not hidden, and is followed by a sort.             *)
Rescanned(ps) == [i \in DOMAIN ps |-> [ps[i] EXCEPT !.show = TRUE]]

Refresh ==
  /\ list' = ProcessList_sort(Rescanned(list), treeView, direction) /\ sorted' = TRUE
  /\ UNCHANGED <<treeView, direction>>

ProcessList_expandTree(ps) == [i \in DOMAIN ps |-> [ps[i] EXCEPT !.showChildren = TRUE]]

(* Keys: `t', `I' and `+', and that of a sort order, which leaves the tree;*)
(* a click on the column sorted by; and the box of the setup screen.       *)
ToggleTree ==
  /\ treeView' = ~treeView /\ direction' = (IF treeView' THEN 1 ELSE direction)
  /\ list' = ProcessList_expandTree(list) /\ sorted' = FALSE

ProcessList_invertSortOrder ==
  direction' = -direction /\ sorted' = FALSE /\ UNCHANGED <<list, treeView>>

ToggleChildren(i) ==
  /\ list' = [list EXCEPT ![i].showChildren = ~@] /\ sorted' = FALSE
  /\ UNCHANGED <<treeView, direction>>

SetSortKey == /\ direction' = 1 /\ treeView' = FALSE /\ sorted' = FALSE /\ UNCHANGED list

ClickHeader ==
  /\ direction' = -direction /\ treeView' = FALSE /\ sorted' = FALSE /\ UNCHANGED list

CheckTreeView == treeView' = ~treeView /\ sorted' = FALSE /\ UNCHANGED <<list, direction>>

(* A process is one of its own, with a parent that may come later or not  *)
(* be listed, or a thread of another one, which may not be listed, either. *)
(* 0 stands for who is not listed.                                         *)
Relatives == {r \in [TreePids -> [tgid : TreePids \cup {0}, ppid : TreePids \cup {0}]] :
                /\ r[Min(TreePids)] = [tgid |-> Min(TreePids), ppid |-> 0]
                /\ \A p \in TreePids :
                     \/ r[p].tgid = p /\ r[p].ppid # p
                     \/ r[p].ppid = 0 /\ (r[p].tgid = 0 \/ r[r[p].tgid].tgid = r[p].tgid)}

Init ==
  /\ \E relatives \in Relatives :
       list = [p \in TreePids |-> [pid |-> p, tgid |-> relatives[p].tgid,
                                  ppid |-> relatives[p].ppid,
                                  showChildren |-> TRUE, show |-> TRUE, indent |-> 0]]
  /\ treeView = FALSE /\ direction = 1 /\ sorted = FALSE

Next == Refresh \/ ToggleTree \/ ProcessList_invertSortOrder \/ SetSortKey \/ ClickHeader
        \/ CheckTreeView \/ \E i \in DOMAIN list : ToggleChildren(i)

Spec == Init /\ [][Next]_treeVars
-----------------------------------------------------------------------------
Positions == DOMAIN list
Root(i) == list[i].indent = 0

(* The positions above i: its parent, and so on up to a root.              *)
Parent(i) == CHOOSE j \in Positions : i # j /\ IsChild(list[i], list[j].pid)
RECURSIVE Above(_)
Above(i) == IF Root(i) THEN {} ELSE {Parent(i)} \cup Above(Parent(i))
Siblings(i) == {j \in Positions : ~Root(j) /\ Parent(j) = Parent(i)}

FirstRoot == CHOOSE i \in Positions : list[i].pid = Min(TreePids)

(* Between a process and one below it there are only others below it.      *)
Together(i, j) ==
  \A k \in IF i < j THEN i + 1 .. j - 1 ELSE j + 1 .. i - 1 : i \in Above(k)

(* A process stays in the list however it is sorted; in the tree it comes  *)
(* behind its parent, before it when the order is inverted, with nobody    *)
(* between who is not below the parent - but backwards the children of a   *)
(* root other than the first are put in front of the whole list.           *)
TreeInOrder ==
  /\ {list[i].pid : i \in Positions} = TreePids /\ Len(list) = Cardinality(TreePids)
  /\ sorted /\ treeView =>
       \A j \in {k \in Positions : ~Root(k)} :
         /\ direction * Parent(j) < direction * j
         /\ direction = 1 \/ ~Root(Parent(j)) \/ Parent(j) = FirstRoot
              => Together(Parent(j), j)
  /\ sorted /\ ~treeView =>
       \A i, j \in Positions : i < j => direction * list[i].pid < direction * list[j].pid

(* Who is below a process with hidden children is not shown, the first one *)
(* excepted, and the bits of an indent are the levels whose line goes on:  *)
(* at those where a sibling is still to come, and at its own.              *)
Depth(i) == Cardinality(Above(i)) - 1
Youngest(i) == \A j \in Siblings(i) : list[j].pid >= list[i].pid
TreeDrawn ==
  sorted /\ treeView =>
    \A i \in {k \in Positions : ~Root(k)} :
      /\ list[i].show = (\A j \in Above(i) : list[j].showChildren \/ j = FirstRoot)
      /\ Youngest(i) = (list[i].indent < 0)
      /\ LET bits == IF Youngest(i) THEN -list[i].indent ELSE list[i].indent IN
         \A level \in 0 .. Cardinality(TreePids) :
           HasBit(bits, level) = (level = Depth(i) \/ \E j \in Above(i) :
                                    ~Root(j) /\ Depth(j) = level /\ ~Youngest(j))
=============================================================================
