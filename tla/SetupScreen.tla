----------------------------- MODULE SetupScreen -----------------------------
(***************************************************************************)
(* The settings of top: the files they come from and go to (Settings.c),   *)
(* the meters of the Header, and the panels of the setup screen, which     *)
(* show the meters and the columns and change them.  A session is changed  *)
(* on one page, and a second one starts from what it has left.             *)
(***************************************************************************)
EXTENDS Containers

CONSTANTS MeterTypes,          \* the types of meters this version knows
          LAST_PROCESSFIELD, LAST_METERMODE,
          Options,             \* the flags: tree view, hidden threads, margin, ...
          MaxMeters, MaxColumns          \* bounds of what is added

Sides == {"left", "right"}
None == [kind |-> "no file"]
Empty == [kind |-> "empty"]    \* a file that could not be filled

VARIABLES rcfile, legacyDotfile, systemSettings,     \* None, Empty or what they say
          fields, sortKey, direction, options, colorScheme, meters, changed,
          panel, columns,      \* the rows and the selection of the panels
          emptied,             \* the sides that had no meter at some time
          page, where, session, stored, left, clicked

diskVars == <<rcfile, legacyDotfile, systemSettings>>
settingVars == <<fields, sortKey, direction, options, colorScheme, meters>>
panelVars == <<panel, columns, emptied>>
courseVars == <<page, session, stored, left, clicked>>
setupVars == <<diskVars, settingVars, changed, panelVars, courseVars, where>>
-----------------------------------------------------------------------------
(* The panels (Panel.c): rows, and which one is selected.                  *)
Panel_new(rows) == [items |-> rows, selected |-> 0]

Panel_insert(p, idx, row) == [p EXCEPT !.items = Vector_insert(@, idx, row)]

Panel_remove(p, idx) ==
  LET items == Vector_take(p.items, idx)
  IN [items |-> items,
      selected |-> IF p.selected > 0 /\ p.selected >= Len(items) THEN p.selected - 1
                   ELSE p.selected]

Panel_moveSelectedUp(p) ==
  [items |-> Vector_moveUp(p.items, p.selected),
   selected |-> IF p.selected > 0 THEN p.selected - 1 ELSE p.selected]

(* An empty vector has two more pointers to swap, both NULL.               *)
Panel_moveSelectedDown(p) ==
  [items |-> IF p.items = << >> THEN << >> ELSE Vector_moveDown(p.items, p.selected),
   selected |-> IF p.selected + 1 < Len(p.items) THEN p.selected + 1 ELSE p.selected]

Panel_setSelected(p, idx) == [p EXCEPT !.selected = Max({0, Min({Len(p.items) - 1, idx})})]

(* End on an empty panel selects row -1.                                   *)
Selections(p) == (0 .. Len(p.items) - 1) \cup {Len(p.items) - 1}
-----------------------------------------------------------------------------
Meter_new(type, param) == [type |-> type, param |-> param, mode |-> 1]

Meter_setMode(meter, mode) == [meter EXCEPT !.mode = IF mode = 0 THEN 1 ELSE mode]

(* What the row of a meter shows.                                          *)
Meter_toListItem(meter) == meter
ListOf(vector) == [i \in DOMAIN vector |-> Meter_toListItem(vector[i])]

Header_defaultMeters ==
  [left |-> <<Meter_new("Memory", 0)>>, right |-> <<Meter_new("CPU", 0)>>]

(* A meter whose type is not known is left out ...                         *)
Header_createMeter(vector, name) ==
  IF name.type \in MeterTypes THEN Vector_add(vector, Meter_new(name.type, name.param))
  ELSE vector

(* ... but its mode is still in the file, for the meter that follows.      *)
Header_setMode(vector, idx, mode) ==
  IF idx >= Len(vector) THEN vector
  ELSE Vector_set(vector, idx, Meter_setMode(Vector_get(vector, idx), mode))

Settings_readMeters(names) == FoldLeft(Header_createMeter, << >>, names)

Settings_readMeterModes(vector, modes) ==
  FoldLeft(LAMBDA v, i : Header_setMode(v, i - 1, modes[i]), vector, [i \in DOMAIN modes |-> i])

(* Mutant: the parameter of a meter is not written.                        *)
Settings_writeNoParam ==
  [fields |-> [i \in DOMAIN fields |-> fields[i] - 1], sort_key |-> sortKey - 1,
   sort_direction |-> direction, options |-> options, color_scheme |-> colorScheme,
   names |-> [s \in Sides |-> [i \in DOMAIN meters[s] |->
                                 [type |-> meters[s][i].type, param |-> 0]]],
   modes |-> [s \in Sides |-> [i \in DOMAIN meters[s] |-> meters[s][i].mode]]]

(* The fields count from 0 in the file and from 1 in the program.          *)
Settings_write ==
  [fields |-> [i \in DOMAIN fields |-> fields[i] - 1], sort_key |-> sortKey - 1,
   sort_direction |-> direction, options |-> options, color_scheme |-> colorScheme,
   names |-> [s \in Sides |-> [i \in DOMAIN meters[s] |->
                                 [type |-> meters[s][i].type, param |-> meters[s][i].param]]],
   modes |-> [s \in Sides |-> [i \in DOMAIN meters[s] |-> meters[s][i].mode]]]

ReadFields(ids) ==
  SelectSeq([i \in 1 .. Min({Len(ids), LAST_PROCESSFIELD}) |-> ids[i] + 1],
            LAMBDA id : id > 0 /\ id < LAST_PROCESSFIELD)

Settings_read(file) ==
  /\ fields' = ReadFields(file.fields) /\ sortKey' = file.sort_key + 1
  /\ direction' = file.sort_direction /\ options' = file.options
  /\ colorScheme' = Min({5, file.color_scheme})
  /\ meters' = [s \in Sides |-> Settings_readMeterModes(Settings_readMeters(file.names[s]),
                                                        file.modes[s])]

ProcessList_defaults ==
  /\ fields' = <<1, 2>> /\ sortKey' = 1 /\ direction' = 1 /\ options' = {}
  /\ colorScheme' = 0 /\ meters' = Header_defaultMeters

ReadFrom(file) == IF file \in {None, Empty} THEN ProcessList_defaults ELSE Settings_read(file)

Memory == <<fields, sortKey, direction, options, colorScheme, meters>>

(* fopen fails, or nothing can be written: nobody looks at what fprintf    *)
(* and fclose return.                                                      *)
Stored(outcome, written) ==
  rcfile' = CASE outcome = "written" -> written
              [] outcome = "full" -> Empty
              [] outcome = "failed" -> rcfile

(* The old file of the home directory, as long as there is one, before the *)
(* new one; it is rewritten at its new place and deleted.                  *)
Settings_new ==
  /\ where = "off" /\ where' = "main" /\ session' = session + 1
  /\ \/ /\ legacyDotfile # None /\ ReadFrom(legacyDotfile) /\ changed' = FALSE
        /\ \E outcome \in {"written", "full", "failed"} :
             /\ Stored(outcome, Settings_write')
             /\ legacyDotfile' = IF outcome = "failed" THEN legacyDotfile ELSE None
             /\ stored' = stored \cup {outcome}
     \/ /\ legacyDotfile = None /\ rcfile # None /\ ReadFrom(rcfile) /\ changed' = FALSE
        /\ UNCHANGED <<rcfile, legacyDotfile, stored>>
     \/ /\ legacyDotfile = None /\ rcfile = None /\ ReadFrom(systemSettings) /\ changed' = TRUE
        /\ UNCHANGED <<rcfile, legacyDotfile, stored>>
  /\ UNCHANGED <<systemSettings, panelVars, page, left, clicked>>

Quit ==
  /\ where \in {"main", "setup"} /\ session = 1 /\ where' = "off"
  /\ left' = Memory
  /\ \/ changed /\ \E outcome \in {"written", "full", "failed"} :
                     Stored(outcome, Settings_write) /\ stored' = stored \cup {outcome}
     \/ ~changed /\ UNCHANGED <<rcfile, stored>>
  /\ panel' = [s \in Sides |-> Panel_new(<< >>)] /\ columns' = Panel_new(<< >>)
  /\ emptied' = {}
  /\ UNCHANGED <<legacyDotfile, systemSettings, settingVars, changed, page, session, clicked>>
-----------------------------------------------------------------------------
(* The main screen: keys and clicks that change what is stored.  A click   *)
(* on the header of the column that is sorted by does not count as one.    *)
Main == where = "main" /\ session = 1 /\ page = "options" /\ where' = where

SortKey(key) ==
  /\ Main /\ sortKey' = key /\ direction' = 1 /\ options' = options \ {"tree"}
  /\ changed' = TRUE
  /\ UNCHANGED <<diskVars, fields, colorScheme, meters, panelVars, courseVars>>

InvertByKey ==
  /\ Main /\ direction' = -direction /\ changed' = TRUE
  /\ UNCHANGED <<diskVars, fields, sortKey, options, colorScheme, meters, panelVars,
                 courseVars>>

InvertByClick ==
  /\ Main /\ direction' = -direction /\ options' = options \ {"tree"} /\ clicked' = TRUE
  /\ UNCHANGED <<diskVars, fields, sortKey, colorScheme, meters, changed, panelVars, page,
                 session, stored, left>>

(* Categories: the panels of a page are made anew when it is selected.     *)
EnterPage ==
  /\ where \in {"main", "setup"} /\ session = 1 /\ where' = "setup"
  /\ panel' = [s \in Sides |-> Panel_new(ListOf(meters[s]))]
  /\ columns' = Panel_new(fields)
  /\ emptied' = emptied \cup {s \in Sides : meters[s] = << >>}
  /\ UNCHANGED <<diskVars, settingVars, changed, courseVars>>

In(p) == where = "setup" /\ page = p
-----------------------------------------------------------------------------
Valid(s) == panel[s].selected \in 0 .. Len(meters[s]) - 1

MetersUnchanged == UNCHANGED <<diskVars, fields, sortKey, direction, options, colorScheme,
                               columns, courseVars>>

NextMode(s) ==
  /\ In("meters") /\ Valid(s) /\ where' = where
  /\ LET i == panel[s].selected
         mode == Vector_get(meters[s], i).mode + 1
         meter == Meter_setMode(Vector_get(meters[s], i), IF mode = LAST_METERMODE THEN 1 ELSE mode)
     IN /\ meters' = [meters EXCEPT ![s] = Vector_set(@, i, meter)]
        /\ panel' = [panel EXCEPT ![s].items = Vector_set(@, i, Meter_toListItem(meter))]
  /\ changed' = TRUE /\ UNCHANGED emptied /\ MetersUnchanged

MoveMeterUp(s) ==
  /\ In("meters") /\ panel[s].selected # -1 /\ where' = where
  /\ meters' = [meters EXCEPT ![s] = Vector_moveUp(@, panel[s].selected)]
  /\ panel' = [panel EXCEPT ![s] = Panel_moveSelectedUp(@)]
  /\ changed' = TRUE /\ UNCHANGED emptied /\ MetersUnchanged

MoveMeterDown(s) ==
  /\ In("meters") /\ panel[s].selected # -1 /\ where' = where
  /\ meters' = [meters EXCEPT ![s] = IF @ = << >> THEN << >>
                                     ELSE Vector_moveDown(@, panel[s].selected)]
  /\ panel' = [panel EXCEPT ![s] = Panel_moveSelectedDown(@)]
  /\ changed' = TRUE /\ UNCHANGED emptied /\ MetersUnchanged

(* Mutant: the meter stays in the header.                                  *)
RemoveRowOnly(s) ==
  /\ In("meters") /\ Valid(s) /\ where' = where
  /\ panel' = [panel EXCEPT ![s] = Panel_remove(@, panel[s].selected)]
  /\ emptied' = IF Len(meters[s]) = 1 THEN emptied \cup {s} ELSE emptied
  /\ changed' = TRUE /\ UNCHANGED meters /\ MetersUnchanged

RemoveMeter(s) ==
  /\ In("meters") /\ Valid(s) /\ where' = where
  /\ meters' = [meters EXCEPT ![s] = Vector_take(@, panel[s].selected)]
  /\ panel' = [panel EXCEPT ![s] = Panel_remove(@, panel[s].selected)]
  /\ emptied' = IF Len(meters[s]) = 1 THEN emptied \cup {s} ELSE emptied
  /\ changed' = TRUE /\ MetersUnchanged

(* The row is added behind all others; the selection stays where it is.    *)
AddMeter(s, type, param) ==
  /\ In("meters") /\ (param > 0 => type = "CPU") /\ Len(meters[s]) < MaxMeters /\ where' = where
  /\ meters' = [meters EXCEPT ![s] = Vector_add(@, Meter_new(type, param))]
  /\ panel' = [panel EXCEPT ![s] = Panel_insert(@, Len(@.items),
                                               Meter_toListItem(Meter_new(type, param)))]
  /\ changed' = TRUE /\ UNCHANGED emptied /\ MetersUnchanged

SelectMeter(s) ==
  /\ In("meters") /\ where' = where
  /\ \E row \in Selections(panel[s]) : panel' = [panel EXCEPT ![s].selected = row]
  /\ UNCHANGED <<diskVars, settingVars, changed, columns, emptied, courseVars>>

(* Enter takes the mode of the meter that is selected, if there is one or  *)
(* not, and in row -1 every key takes the pointer before the first.        *)
NoSuchMeter(s) ==
  /\ In("meters") /\ ~Valid(s) /\ where' = "undefined"
  /\ UNCHANGED <<diskVars, settingVars, changed, panelVars, courseVars>>
-----------------------------------------------------------------------------
(* Every change of the columns makes the fields anew from their names.     *)
ColumnsPanel_update(p) ==
  /\ columns' = p /\ fields' = p.items /\ changed' = TRUE /\ where' = where
  /\ UNCHANGED <<diskVars, sortKey, direction, options, colorScheme, meters, panel, emptied,
                 courseVars>>

(* Mutant: the last but one column can be moved, too.                      *)
MoveColumnPastLast ==
  /\ In("columns")
  /\ ColumnsPanel_update(IF columns.selected < Len(columns.items) - 1
                         THEN Panel_moveSelectedDown(columns) ELSE columns)

MoveColumnUp ==
  /\ In("columns")
  /\ ColumnsPanel_update(IF columns.selected < Len(columns.items) - 1
                         THEN Panel_moveSelectedUp(columns) ELSE columns)

MoveColumnDown ==
  /\ In("columns")
  /\ ColumnsPanel_update(IF columns.selected < Len(columns.items) - 2
                         THEN Panel_moveSelectedDown(columns) ELSE columns)

RemoveColumn ==
  /\ In("columns")
  /\ ColumnsPanel_update(IF columns.selected < Len(columns.items) - 1
                         THEN Panel_remove(columns, columns.selected) ELSE columns)

AddColumn(field) ==
  /\ In("columns") /\ Len(columns.items) < MaxColumns
  /\ ColumnsPanel_update(Panel_setSelected(Panel_insert(columns, columns.selected, field),
                                           columns.selected + 1))

SelectColumn ==
  /\ In("columns") /\ where' = where
  /\ \E row \in Selections(columns) : columns' = [columns EXCEPT !.selected = row]
  /\ UNCHANGED <<diskVars, settingVars, changed, panel, emptied, courseVars>>
-----------------------------------------------------------------------------
(* The check boxes of the display options, and the colour schemes.         *)
SetOption(option) ==
  /\ In("options") /\ options' = SymDiff(options, {option}) /\ changed' = TRUE
  /\ where' = where
  /\ UNCHANGED <<diskVars, fields, sortKey, direction, colorScheme, meters, panelVars, courseVars>>

SetColors(mark) ==
  /\ In("options") /\ colorScheme' = mark /\ changed' = TRUE /\ where' = where
  /\ UNCHANGED <<diskVars, fields, sortKey, direction, options, meters, panelVars, courseVars>>
-----------------------------------------------------------------------------
(* A file by somebody else: a meter this version does not know comes first *)
(* and a colour scheme it does not have.                                   *)
Foreign ==
  [fields |-> <<0, 1, 7>>, sort_key |-> 1, sort_direction |-> -1, options |-> Options,
   color_scheme |-> 9,
   names |-> [left |-> <<[type |-> "unknown", param |-> 0], [type |-> "CPU", param |-> 1]>>,
              right |-> << >>],
   modes |-> [left |-> <<2, 1>>, right |-> << >>]]

Init ==
  /\ rcfile \in {None, Foreign} /\ legacyDotfile \in {None, Foreign}
  /\ systemSettings \in {None, Foreign}
  /\ fields = << >> /\ sortKey = 1 /\ direction = 1 /\ options = {} /\ colorScheme = 0
  /\ meters = [s \in Sides |-> << >>] /\ changed = FALSE
  /\ panel = [s \in Sides |-> Panel_new(<< >>)] /\ columns = Panel_new(<< >>) /\ emptied = {}
  /\ page \in {"meters", "columns", "options"} /\ where = "off" /\ session = 0
  /\ stored = {} /\ left = << >> /\ clicked = FALSE

Next ==
  \/ (session < 2 /\ Settings_new) \/ Quit \/ EnterPage
  \/ (\E key \in 1 .. LAST_PROCESSFIELD - 1 : SortKey(key)) \/ InvertByKey \/ InvertByClick
  \/ \E s \in Sides : \/ NextMode(s) \/ MoveMeterUp(s) \/ MoveMeterDown(s) \/ RemoveMeter(s)
                      \/ SelectMeter(s) \/ NoSuchMeter(s)
                      \/ \E type \in MeterTypes, param \in 0 .. 1 : AddMeter(s, type, param)
  \/ MoveColumnUp \/ MoveColumnDown \/ RemoveColumn \/ SelectColumn
  \/ \E field \in 1 .. LAST_PROCESSFIELD - 1 : AddColumn(field)
  \/ (\E option \in Options : SetOption(option)) \/ (\E mark \in {0, 5} : SetColors(mark))

Spec == Init /\ [][Next]_setupVars
-----------------------------------------------------------------------------
TypeOK ==
  /\ \A s \in Sides, i \in 1 .. MaxMeters :
       i \in DOMAIN meters[s] => /\ meters[s][i].type \in MeterTypes
                                 /\ meters[s][i].mode \in 1 .. LAST_METERMODE - 1
  /\ Range(fields) \subseteq 1 .. LAST_PROCESSFIELD - 1 /\ direction \in {1, -1}
  /\ colorScheme \in 0 .. 5 /\ changed \in BOOLEAN /\ session \in 0 .. 2
  /\ where \in {"off", "main", "setup", "undefined"}

(* What a session leaves is what the next one starts with, if all that was *)
(* to be written could be: not the order inverted, and the tree left, by a *)
(* click alone, nor more columns than there are fields.                    *)
SettingsKept ==
  session = 2 =>
    \/ Memory = left
    \/ stored # {} /\ stored # {"written"}
    \/ Len(left[1]) > LAST_PROCESSFIELD
    \/ clicked /\ <<fields, sortKey, colorScheme, meters>> = <<left[1], left[2], left[5], left[6]>>

(* The rows of the setup screen are the meters and the columns, and no row *)
(* is acted on that is not there unless all meters of a side were removed. *)
RowsMatch ==
  /\ In("meters") => \A s \in Sides : panel[s].items = ListOf(meters[s])
  /\ In("columns") => columns.items = fields
  /\ where = "undefined" => \E s \in Sides : meters[s] = << >> \/ s \in emptied

(* The last column stays the last one, however the others are moved.       *)
LastColumnStays ==
  [][where = "setup" /\ where' = "setup" /\ fields # << >> =>
       fields' # << >> /\ fields'[Len(fields')] = fields[Len(fields)]]_setupVars
=============================================================================
