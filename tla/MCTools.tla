------------------------------- MODULE MCTools -------------------------------
(***************************************************************************)
(* The programs that run alone, for TLC: the parts of top, SystemInformation*)
(* and the programs of ExceptionsProcessing.  `tool' says which one it is; *)
(* nothing happens to the variables of the others.                         *)
(***************************************************************************)
EXTENDS ProcessTable

CONSTANTS TreePids,                                                \* ProcessTree
          Shown, Longest, ofUser, Hideable, INCSEARCH_MAX, resetRefreshTimeout, \* TopScreen
          MeterTypes, LAST_PROCESSFIELD, LAST_METERMODE, Options,
          MaxMeters, MaxColumns,                                   \* SetupScreen
          Drives, Disks, Cards, Nothing                            \* SystemInformation

VARIABLES tool,
          tree, treeView, order, sorted,
          running, list, tagged, hidden, items, selected, follow, following, userOnly,
          filtering, incMode, typed, doRefresh, doRecalculate, refreshTimeout, dialog,
          unfollow, chosen, kept, signalled, at,
          rcfile, legacyDotfile, systemSettings, fields, sortKey, direction, options,
          colorScheme, meters, changed, panel, columns, emptied, page, where, session, stored,
          left, clicked,
          name, task, block, raised, level, late, abnormal, logged, onDisk, events, line,
          uptime, volumes, present, adapters, screens, section, shownUptime, letters,
          shownVolumes, shownAdapters, shownScreens, allClassGuids, class, found, iIdx, did,
          result, failed, seen

(* A name that ends in another one matches whatever that one matches, and  *)
(* the longest name is the last.                                           *)
Tree == INSTANCE ProcessTree WITH list <- tree, direction <- order
Screen == INSTANCE TopScreen WITH nameLength <- [p \in Shown |-> Min({p, Longest})]
Setup == INSTANCE SetupScreen
Exceptions == INSTANCE StructuredExceptions WITH step <- line
System == INSTANCE SystemInformation WITH items <- found,
            classOf <- [d \in Disks \cup Cards |-> IF d \in Disks THEN "disk" ELSE "net"]

treeVars == <<tree, treeView, order, sorted>>
screenVars == <<running, list, tagged, hidden, items, selected, follow, following, userOnly,
                filtering, incMode, typed, doRefresh, doRecalculate, refreshTimeout, dialog,
                unfollow, chosen, kept, signalled, at>>
setupVars == <<rcfile, legacyDotfile, systemSettings, fields, sortKey, direction, options,
               colorScheme, meters, changed, panel, columns, emptied, page, where, session,
               stored, left, clicked>>
exceptionVars == <<name, task, block, raised, level, late, abnormal, logged, onDisk, events, line>>
systemVars == <<uptime, volumes, present, adapters, screens, section, shownUptime, letters,
                shownVolumes, shownAdapters, shownScreens, allClassGuids, class, found, iIdx,
                did, result, failed, seen>>
mcvars == <<tool, tableVars, treeVars, screenVars, setupVars, exceptionVars, systemVars>>

(* What runs starts anywhere it can start, what does not in one state.  The *)
(* sections of SystemInformation do not depend on each other.              *)
MCInit ==
  /\ tool \in {"table", "tree", "screen", "setup", "exceptions", "system"}
  /\ Init /\ Screen!Init
  /\ Tree!Init /\ (tool # "tree" => \A i \in DOMAIN tree : tree[i].ppid = 0)
                /\ (tool # "tree" => \A i \in DOMAIN tree : tree[i].tgid = tree[i].pid)
  /\ Setup!Init /\ (tool # "setup" => page = "meters" /\ rcfile = Setup!None
                       /\ legacyDotfile = Setup!None /\ systemSettings = Setup!None)
  /\ (systemSettings # Setup!None => rcfile = Setup!None /\ legacyDotfile = Setup!None)
  /\ Exceptions!Init /\ (tool # "exceptions" => name = "WinAPI" /\ task = "divide")
  /\ System!Init /\ (tool # "system" => volumes = {} /\ present = {} /\ uptime = 0
                        /\ adapters = 0 /\ Len(screens) = 1)
  /\ (present # {} => volumes = {} /\ uptime = 0 /\ adapters = 0 /\ Len(screens) = 1)
  /\ (volumes # {} => uptime = 0 /\ adapters = 0 /\ Len(screens) = 1)

InTable(action) ==
  /\ tool = "table"
  /\ UNCHANGED <<tool, treeVars, screenVars, setupVars, exceptionVars, systemVars>>
  /\ action
InTree(action) ==
  /\ tool = "tree"
  /\ UNCHANGED <<tool, tableVars, screenVars, setupVars, exceptionVars, systemVars>>
  /\ action
InScreen(action) ==
  /\ tool = "screen"
  /\ UNCHANGED <<tool, tableVars, treeVars, setupVars, exceptionVars, systemVars>>
  /\ action
InSetup(action) ==
  /\ tool = "setup"
  /\ UNCHANGED <<tool, tableVars, treeVars, screenVars, exceptionVars, systemVars>>
  /\ action
InExceptions(action) ==
  /\ tool = "exceptions"
  /\ UNCHANGED <<tool, tableVars, treeVars, screenVars, setupVars, systemVars>>
  /\ action
InSystem(action) ==
  /\ tool = "system"
  /\ UNCHANGED <<tool, tableVars, treeVars, screenVars, setupVars, exceptionVars>>
  /\ action

MCNext == InTable(Next) \/ InTree(Tree!Next) \/ InScreen(Screen!Next) \/ InSetup(Setup!Next)
          \/ InExceptions(Exceptions!Next) \/ InSystem(System!Next)

MCSpec == MCInit /\ [][MCNext]_mcvars
-----------------------------------------------------------------------------
(* top knows the processes there are: what the list, the table and the     *)
(* counters say agrees, and the tree has every one of them in its place.   *)
ProcessesListed ==
  /\ tool = "table" => /\ TypeOK /\ ListIsTable /\ NoneMissed /\ CountersMatch
                       /\ ShownRight /\ TgidRight
  /\ tool = "tree" => Tree!TreeInOrder /\ Tree!TreeDrawn

(* What is chosen on the main screen is what is acted on.                  *)
ChosenIsMeant ==
  tool = "screen" => /\ Screen!TypeOK /\ Screen!RowsAreListed /\ Screen!SignalReachesChosen
                     /\ Screen!FilterShown

(* What is set on the setup screen is what the next session starts with.   *)
SettingsLast ==
  /\ [](tool = "setup" => Setup!TypeOK /\ Setup!SettingsKept /\ Setup!RowsMatch)
  /\ Setup!LastColumnStays

(* What the other programs report is what has happened and what there is.  *)
ReportsTrue ==
  /\ tool = "exceptions" => /\ Exceptions!TypeOK /\ Exceptions!LogKept
                            /\ Exceptions!CaughtOnce /\ Exceptions!GotoIsAbnormal
  /\ tool = "system" => System!DevicesListed /\ System!UptimeShown
=============================================================================
