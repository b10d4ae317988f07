----------------------------- MODULE TopScreen -----------------------------
(***************************************************************************)
(* The main screen of top: the loop of htop.c, the rows of its Panel, and  *)
(* ProcessList_rebuildPanel, which fills them again after every scan and   *)
(* sort.  A name is as many times one letter as nameLength says, and so is *)
(* what is typed to search or filter.                                      *)
(***************************************************************************)
EXTENDS Containers

CONSTANTS Shown,               \* the pids of the processes
          nameLength,          \* the length of their names
          ofUser,              \* those of the user that is picked
          Hideable,            \* those that may be hidden: threads, whose parent is
                               \* collapsed, not asked for by -p
          INCSEARCH_MAX, resetRefreshTimeout

NoPid == -1

VARIABLES running, list,       \* the processes, and those top knows of
          tagged, items, selected,           \* the panel
          hidden,              \* ~p->show: changes with a scan or a sort
          follow, following,   \* of the loop, and of the list
          userOnly, filtering, incMode, typed,
          doRefresh, doRecalculate, refreshTimeout,
          dialog, unfollow, chosen, kept,    \* the dialog and who it is for
          signalled, at        \* who the last action went to; where the loop is

processVars == <<running, list, tagged, hidden>>
panelVars == <<items, selected>>
modeVars == <<userOnly, filtering, incMode, typed>>
refreshVars == <<doRefresh, doRecalculate, refreshTimeout>>
dialogVars == <<dialog, unfollow, chosen, kept, signalled>>
screenVars == <<processVars, panelVars, follow, following, modeVars, refreshVars, dialogVars, at>>

Rows == Range(items)
-----------------------------------------------------------------------------
(* Processes start and end at any time; the list knows after a scan, which *)
(* takes one with the pid of another for the other.                        *)
Start(p) == /\ p \notin running /\ running' = running \cup {p}
            /\ UNCHANGED <<list, tagged, hidden, panelVars, follow, following, modeVars,
                           refreshVars, dialogVars, at>>

End(p) == /\ p \in running /\ running' = running \ {p}
          /\ UNCHANGED <<list, tagged, hidden, panelVars, follow, following, modeVars, refreshVars,
                         dialogVars, at>>

Scanned == SelectSeq(list, LAMBDA p : p \in running)
           \o SetToSortSeq(running \ Range(list), <)

(* The order of the CPU usage is any.                                      *)
Sorts(ps) == {s \in [DOMAIN ps -> Range(ps)] : IsInjective(s)}
-----------------------------------------------------------------------------
(* It compares at every position but the last one where the text would fit.*)
String_contains_i(p, text) == text < nameLength[p]

Panel_getSelected == IF items = << >> THEN NoPid ELSE Vector_get(items, selected)

Hides(p) == \/ userOnly /\ p \notin ofUser
            \/ filtering /\ ~String_contains_i(p, typed.filter)

(* Mutant: who is followed is looked for by the old position.              *)
RebuildByPosition(ps, pid) ==
  /\ list' = ps /\ tagged' = tagged \cap Range(ps) /\ following' = pid
  /\ items' = SelectSeq(ps, LAMBDA p : p \notin hidden' /\ ~Hides(p))
  /\ selected' = IF selected \in 0 .. Len(items') - 1 THEN selected ELSE 0

(* The selection is at row 0 after the prune; it stays there when the old  *)
(* position, or who is followed, is not met again.                         *)
ProcessList_rebuildPanel(ps, pid) ==
  /\ list' = ps /\ tagged' = tagged \cap Range(ps) /\ following' = pid
  /\ items' = SelectSeq(ps, LAMBDA p : p \notin hidden' /\ ~Hides(p))
  /\ selected' = LET at1 == IF pid = NoPid THEN selected
                            ELSE Vector_indexOf(items', LAMBDA p : p = pid)
                 IN IF at1 \in 0 .. Len(items') - 1 THEN at1 ELSE 0

(* Sorted on a key, when the user has done something else for a while, and *)
(* always in the tree.  Panel_draw stops the program at its assert when    *)
(* there is no row -1.                                                     *)
Refresh ==
  /\ at = "top" /\ doRefresh' = TRUE
  /\ \/ /\ ~doRefresh
        /\ UNCHANGED <<list, tagged, hidden, panelVars, following, doRecalculate, refreshTimeout>>
     \/ /\ doRefresh /\ doRecalculate' = FALSE
        /\ LET pid == IF follow THEN Panel_getSelected ELSE NoPid IN
           \E scans \in {doRecalculate, TRUE}, sorts \in {refreshTimeout = 0, TRUE} :
             LET ps == IF scans THEN Scanned ELSE list
             IN /\ hidden' \in IF scans \/ sorts THEN SUBSET Hideable ELSE {hidden}
                /\ \E sorted \in IF sorts THEN Sorts(ps) ELSE {ps} :
                     ProcessList_rebuildPanel(sorted, pid)
                /\ refreshTimeout' = IF sorts THEN 1 ELSE refreshTimeout
  /\ at' = IF selected' < 0 THEN "aborted" ELSE "key"
  /\ chosen' = NoPid /\ kept' = NoPid /\ signalled' = {}
  /\ UNCHANGED <<running, follow, modeVars, dialog, unfollow>>
-----------------------------------------------------------------------------
(* No key within the delay; when that goes on and on the terminal is gone. *)
Err ==
  /\ at = "key" /\ at' \in {"top", "quit"}
  /\ refreshTimeout' = IF incMode = "none" THEN refreshTimeout - 1 ELSE refreshTimeout
  /\ UNCHANGED <<processVars, panelVars, follow, following, modeVars, doRefresh, doRecalculate,
                 dialogVars>>

FirstMatch(rows, text) ==
  LET found == SelectSeq(rows, LAMBDA i : String_contains_i(Vector_get(items, i), text))
  IN IF found = << >> THEN NoPid ELSE Head(found)

Rest == [k \in 1 .. Len(items) - 1 - selected |-> selected + k]
Before == [k \in 1 .. selected |-> k - 1]

(* F3 goes round from the row behind the selected one until it is back     *)
(* there; past the last row it goes to row 0 without asking if that is it. *)
NextMatch ==
  /\ at = "key" /\ incMode # "none" /\ doRefresh' = FALSE
  /\ LET i == FirstMatch(Rest \o (IF selected = 0 THEN <<0>> ELSE Before), typed[incMode]) IN
     IF items = << >> THEN at' = "top" /\ UNCHANGED selected
     ELSE IF i # NoPid THEN at' = "top" /\ selected' = i
     ELSE at' = (IF selected = 0 THEN "hung" ELSE "top") /\ UNCHANGED selected
  /\ UNCHANGED <<processVars, items, follow, following, modeVars, doRecalculate,
                 refreshTimeout, dialogVars>>

(* The byte behind the buffer is the lowest one of `index': with the last  *)
(* letter that fits, the end of the text sets it to 0.                     *)
Index(mode) == typed[mode] % INCSEARCH_MAX

(* What has been typed to search selects the first row that has it, when   *)
(* something is typed to filter, too.                                      *)
SelectTyped == LET i == FirstMatch([k \in DOMAIN items |-> k - 1], typed'.search)
               IN selected' = IF i # NoPid THEN i ELSE selected

Type(count) ==
  /\ typed' = [typed EXCEPT ![incMode] = count]
  /\ IF incMode = "filter" THEN doRefresh' = TRUE ELSE doRefresh' = FALSE
  /\ SelectTyped /\ at' = "top" /\ UNCHANGED incMode

TypeLetter ==
  /\ at = "key" /\ incMode # "none" /\ Type(Index(incMode) + 1)
  /\ filtering' = (filtering \/ (incMode = "filter" /\ Index("filter") = 0))
  /\ UNCHANGED <<processVars, items, follow, following, userOnly, doRecalculate,
                 refreshTimeout, dialogVars>>

Backspace ==
  /\ at = "key" /\ incMode # "none" /\ Index(incMode) > 0 /\ Type(Index(incMode) - 1)
  /\ filtering' = (filtering /\ (incMode = "search" \/ Index("filter") > 1))
  /\ UNCHANGED <<processVars, items, follow, following, userOnly, doRecalculate,
                 refreshTimeout, dialogVars>>

(* Any other key leaves the mode; Esc ends the filter.                     *)
LeaveMode ==
  /\ at = "key" /\ incMode # "none" /\ incMode' = "none" /\ at' = "top"
  /\ doRefresh' = (incMode = "filter")
  /\ \/ UNCHANGED <<filtering, typed>>
     \/ /\ incMode = "filter" /\ filtering' = FALSE
        /\ typed' = [typed EXCEPT !.filter = 0]
  /\ UNCHANGED <<processVars, panelVars, follow, following, userOnly, doRecalculate,
                 refreshTimeout, dialogVars>>
-----------------------------------------------------------------------------
Key == at = "key" /\ incMode = "none" /\ at' = "top"

(* The digits of a pid: row by row until it is selected, or the last row.  *)
Digit(pid) ==
  /\ Key /\ items # << >>
  /\ selected' = IF pid \in Rows THEN Vector_indexOf(items, LAMBDA p : p = pid)
                 ELSE Len(items) - 1
  /\ UNCHANGED <<processVars, items, follow, following, modeVars, refreshVars, dialogVars>>

Click(row) ==
  /\ Key /\ row \in 0 .. Len(items) - 1
  /\ selected' = row /\ follow' = TRUE
  /\ doRefresh' = FALSE /\ refreshTimeout' = resetRefreshTimeout
  /\ UNCHANGED <<processVars, items, following, modeVars, doRecalculate, dialogVars>>

FollowKey == /\ Key /\ follow' = TRUE
             /\ UNCHANGED <<processVars, panelVars, following, modeVars, refreshVars, dialogVars>>

(* Home, End, up and down.  End and page down on an empty panel select row *)
(* -1, and Refresh draws it.                                               *)
Panel_onKey ==
  /\ Key /\ follow' = FALSE /\ doRefresh' = FALSE /\ refreshTimeout' = resetRefreshTimeout
  /\ \/ selected' = 0
     \/ selected' = Len(items) - 1
     \/ selected' = IF selected > 0 THEN selected - 1 ELSE selected
     \/ selected' = IF selected + 1 < Len(items) THEN selected + 1 ELSE selected
  /\ UNCHANGED <<processVars, items, following, modeVars, doRecalculate, dialogVars>>

(* Space, and `U', which untags the rows but not who is hidden.            *)
Tag ==
  /\ Key /\ follow' = FALSE
  /\ \/ /\ items # << >>
        /\ tagged' = SymDiff(tagged, {Panel_getSelected})
        /\ selected' = IF selected + 1 < Len(items) THEN selected + 1 ELSE selected
     \/ tagged' = tagged \ Rows /\ UNCHANGED selected
  /\ UNCHANGED <<running, list, hidden, items, following, modeVars, refreshVars, dialogVars>>

(* The keys that change the order or what is shown (P M T I t + H K), the  *)
(* help and the screens of a process: some of them scan again, and the one *)
(* for the tree goes on following.                                         *)
Reorder ==
  /\ Key /\ refreshTimeout' = 0
  /\ \/ follow' = FALSE /\ doRecalculate' \in {doRecalculate, TRUE}
     \/ follow /\ items # << >> /\ UNCHANGED <<follow, doRecalculate>>
  /\ UNCHANGED <<processVars, panelVars, following, modeVars, doRefresh, dialogVars>>

EnterMode ==
  /\ Key
  /\ \/ /\ incMode' = "search" /\ typed' = [typed EXCEPT !.search = 0]
        /\ follow' = FALSE /\ UNCHANGED refreshVars
     \/ /\ incMode' = "filter" /\ refreshTimeout' = 0
        /\ UNCHANGED <<typed, follow, doRefresh, doRecalculate>>
  /\ UNCHANGED <<processVars, panelVars, following, userOnly, filtering, dialogVars>>

(* foreachProcess: the tagged rows, or the selected one.                   *)
Targets == IF tagged \cap Rows # {} THEN tagged \cap Rows
           ELSE {Panel_getSelected} \ {NoPid}

ChangePriority ==
  /\ Key /\ follow' = FALSE /\ doRefresh' = (tagged \cap Rows # {})
  /\ signalled' = Targets /\ chosen' = Panel_getSelected /\ kept' = NoPid
  /\ UNCHANGED <<processVars, panelVars, following, modeVars, doRecalculate, refreshTimeout,
                 dialog, unfollow>>

-----------------------------------------------------------------------------
(* pickFromVector: who is selected is followed while the dialog is open,   *)
(* unless somebody is followed from before.  Setup_run follows nobody new. *)
Open(what) ==
  /\ at = "key" /\ incMode = "none" /\ at' = "scan" /\ dialog' = what
  /\ chosen' = Panel_getSelected /\ kept' = following /\ signalled' = {}
  /\ unfollow' = (what # "setup" /\ following = NoPid)
  /\ following' = IF unfollow' THEN Panel_getSelected ELSE following
  /\ UNCHANGED <<processVars, panelVars, follow, modeVars, refreshVars>>

(* A turn of ScreenManager_run: the first one scans.                       *)
DialogTurn ==
  /\ at \in {"scan", "dialog"} /\ at' = "pick"
  /\ \/ /\ at = "dialog" /\ UNCHANGED hidden
        /\ ProcessList_rebuildPanel(list, following)
     \/ /\ hidden' \in SUBSET Hideable
        /\ \E sort \in Sorts(Scanned) : ProcessList_rebuildPanel(sort, following)
  /\ UNCHANGED <<running, follow, modeVars, refreshVars, dialogVars>>

OtherKey == /\ at = "pick" /\ at' = "dialog"
            /\ UNCHANGED <<processVars, panelVars, follow, following, modeVars, refreshVars,
                           dialogVars>>

(* Esc picks nothing.  A signal or a priority goes to who is selected now. *)
Close(picks) ==
  /\ at = "pick" /\ at' = "top"
  /\ following' = IF unfollow THEN NoPid ELSE following
  /\ follow' = FALSE
  /\ signalled' = IF picks /\ dialog = "signal" THEN Targets ELSE {}
  /\ \/ picks /\ dialog = "user" /\ userOnly' \in BOOLEAN
     \/ ~(picks /\ dialog = "user") /\ UNCHANGED userOnly
  /\ refreshTimeout' = IF dialog = "user" THEN refreshTimeout ELSE 0
  /\ dialog' = "none" /\ unfollow' = FALSE
  /\ UNCHANGED <<processVars, panelVars, filtering, incMode, typed, doRefresh, doRecalculate,
                 chosen, kept>>
-----------------------------------------------------------------------------
Init ==
  /\ running = Shown /\ list = << >> /\ tagged = {} /\ hidden = {} /\ items = << >> /\ selected = 0
  /\ follow = FALSE /\ following = NoPid
  /\ userOnly = FALSE /\ filtering = FALSE /\ incMode = "none"
  /\ typed = [search |-> 0, filter |-> 0]
  /\ doRefresh = TRUE /\ doRecalculate = TRUE /\ refreshTimeout = 0
  /\ dialog = "none" /\ unfollow = FALSE /\ chosen = NoPid /\ kept = NoPid
  /\ signalled = {} /\ at = "top"

Next ==
  \/ Refresh \/ Err \/ NextMatch \/ TypeLetter \/ Backspace \/ LeaveMode
  \/ FollowKey \/ Panel_onKey \/ Tag \/ Reorder \/ EnterMode \/ ChangePriority
  \/ \E p \in Shown : Start(p) \/ End(p) \/ Digit(p) \/ Click(p - 1)
  \/ \E what \in {"signal", "user", "setup"} : Open(what)
  \/ DialogTurn \/ OtherKey \/ \E picks \in BOOLEAN : Close(picks)

Spec == Init /\ [][Next]_screenVars
-----------------------------------------------------------------------------
TypeOK ==
  /\ running \subseteq Shown /\ Range(list) \subseteq Shown /\ IsInjective(list)
  /\ selected \in -1 .. Cardinality(Shown) - 1 /\ refreshTimeout \in 0 .. resetRefreshTimeout
  /\ hidden \subseteq Hideable /\ follow \in BOOLEAN /\ following \in Shown \cup {NoPid}
  /\ userOnly \in BOOLEAN /\ filtering \in BOOLEAN
  /\ incMode \in {"none", "search", "filter"}
  /\ typed \in [{"search", "filter"} -> 0 .. INCSEARCH_MAX]
  /\ at \in {"top", "key", "scan", "pick", "dialog", "hung", "aborted", "quit"}

(* What a key can reach is a process that the list still holds: the rows   *)
(* are never left behind by a scan, and the selected one is a row.         *)
RowsAreListed ==
  /\ at \in {"key", "pick"} => Rows \subseteq Range(list) /\ IsInjective(items)
  /\ items # << >> => selected \in 0 .. Len(items) - 1

(* A signal goes to the rows that are tagged, or else to the process that  *)
(* was selected when the dialog was opened, while it is listed and nobody  *)
(* else is followed from before.                                           *)
SignalReachesChosen ==
  (signalled # {} /\ tagged \cap Rows = {}) =>
     signalled = {chosen} \/ chosen \notin Rows \/ kept \notin {NoPid, chosen}

(* What is shown when a key is awaited is what the list holds, less what is*)
(* hidden and what the filter and the user hide now, and there is a filter *)
(* as long as it has a text.                                               *)
FilterShown ==
  /\ at \in {"key", "pick"} => Rows = {p \in Range(list) \ hidden : ~Hides(p)}
  /\ filtering = (typed.filter > 0)
=============================================================================
