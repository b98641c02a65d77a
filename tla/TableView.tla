----------------------------- MODULE TableView -----------------------------
(***************************************************************************)
(* A database table with the widget that shows it (BasicSql,               *)
(* SqlTableView): the page shows a copy of the rows, one of them may be    *)
(* selected, and a timer trims the table to item->logCount rows.  The      *)
(* program has such pages for its logs, to which the core thread adds, and *)
(* one for the user accounts; all are trimmed by the same number.          *)
(*                                                                         *)
(* A row is its id.  The operations that remove rows by condition, and the *)
(* filters of the log pages, which only change what is shown, are left out.*)
(***************************************************************************)
EXTENDS Integers, FiniteSets, FiniteSetsExt

CONSTANTS
  Unit,      \* rows a step of the log_count setting stands for, 10000
  LogSpins,  \* what the setting can be, 10 and more in the code
  MaxId      \* bound on the ids

ASSUME TableAssumption ==
  Unit \in Nat \ {0} /\ LogSpins \subseteq Nat \ {0} /\ MaxId \in Nat \ {0, 1}

VARIABLES
  rows,      \* ids in the table
  lastId,    \* highest id ever given (sqlite_sequence)
  view,      \* ids the page shows
  current,   \* id of the selected row, 0 without one
  logCount,  \* item->logCount
  setting,   \* log_count in the settings file
  excess     \* autoDelSlot: rows it has found to be too many, 0 outside of it

limits    == <<logCount, setting>>
tableVars == <<rows, lastId, view, current, logCount, setting, excess>>

counts == Cardinality(rows)
minId  == Min(rows)
maxId  == IF rows = {} THEN 0 ELSE Max(rows)

\* Mutant: the selection moves to the first row shown.
refreshSlot_Selects ==
  /\ view' = rows'
  /\ current' = IF current = 0 \/ rows' = {} THEN 0 ELSE Max(rows')

\* The page is filled anew, which clears the selection.
refreshSlot ==
  /\ view' = rows'
  /\ current' = 0

\* The operator clicks on a row.
select(id) ==
  /\ id \in view
  /\ current' = id
  /\ UNCHANGED <<rows, lastId, view, limits, excess>>

\* The timer: too many rows. The page is refreshed first, then the surplus is
\* counted; the core thread may add rows before it is deleted.
autoDelSlot ==
  /\ excess = 0
  /\ counts > logCount
  /\ excess' = counts - logCount
  /\ UNCHANGED <<rows, lastId, limits>>
  /\ refreshSlot

\* Mutant: one row too many.
countsRemove_OneMore ==
  /\ excess > 0
  /\ rows' = {id \in rows : id > minId + excess}
  /\ excess' = 0
  /\ UNCHANGED <<lastId, view, current, limits>>

\* Mutant: one row too few.
countsRemove_OneLess ==
  /\ excess > 0
  /\ rows' = {id \in rows : id >= minId + excess - 1}
  /\ excess' = 0
  /\ UNCHANGED <<lastId, view, current, limits>>

\* countsRemove deletes the ids below minId + surplus, which with gaps in the
\* ids are fewer rows than the surplus.
countsRemove ==
  /\ excess > 0
  /\ rows' = {id \in rows : id >= minId + excess}
  /\ excess' = 0
  /\ UNCHANGED <<lastId, view, current, limits>>

\* DbLogs::insertItem from the core thread: autoincrement.
insertLog ==
  /\ lastId < MaxId
  /\ lastId' = lastId + 1
  /\ rows' = rows \cup {lastId'}
  /\ UNCHANGED <<view, current, limits, excess>>

\* The page is cleared, the events of the next moments are processed, and the
\* page is refreshed.
clearTableSlot ==
  /\ excess = 0
  /\ rows # {}
  /\ rows' = {}
  /\ UNCHANGED <<lastId, limits, excess>>
  /\ refreshSlot

\* The setup page is saved: the setting is taken over as it is.
writeLogCount(value) ==
  /\ value \in LogSpins
  /\ logCount' = value
  /\ setting' = value
  /\ UNCHANGED <<rows, lastId, view, current, excess>>

\* Program start: initLogCount, and the page is filled.
initLogCount ==
  /\ logCount' = setting * Unit
  /\ excess' = 0
  /\ UNCHANGED <<rows, lastId, setting>>
  /\ refreshSlot
-----------------------------------------------------------------------------
TableTypeOK ==
  /\ lastId \in 0..MaxId
  /\ rows \subseteq 1..lastId
  /\ view \subseteq 1..lastId
  /\ current \in view \cup {0}
  /\ setting \in LogSpins
  /\ logCount \in {setting, setting * Unit}
  /\ excess \in 0..MaxId

Trimming == excess > 0 /\ excess' = 0

\* A trim deletes the oldest rows only, and leaves as many as the limit in
\* memory, however many ids are missing and whatever was added meanwhile.
TrimKeepsNewest ==
  [][Trimming => /\ Cardinality(rows') >= logCount
                 /\ \A gone \in rows \ rows', kept \in rows' : gone < kept]_tableVars

\* The setting counts in units of ten thousand ("10 万条", setup_mainwid.ui):
\* no trim leaves fewer rows than that.
TrimKeepsConfigured ==
  [][Trimming /\ rows' # rows => Cardinality(rows') >= setting * Unit]_tableVars
=============================================================================
