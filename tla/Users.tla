------------------------------- MODULE Users -------------------------------
(***************************************************************************)
(* The pages built on TableView: the log page, to which the core thread    *)
(* adds rows, and the page of the user accounts, with the login and the    *)
(* dialogs that add, change and delete an account.                         *)
(*                                                                         *)
(* Every dialog is modal: while it is open the operator can do nothing     *)
(* else, but the timer that trims the table goes on.  A password is right  *)
(* or wrong; wrong ones and other refused input leave everything as it is. *)
(***************************************************************************)
EXTENDS TableView

CONSTANTS
  Tables,      \* pages to look at: a subset of {"users", "logs"}
  Names,       \* of accounts
  Admin,       \* the name of the account made on the first start
  MaxRestarts  \* bound on the restarts

ASSUME UsersAssumption ==
  Tables \subseteq {"users", "logs"} /\ Admin \in Names /\ MaxRestarts \in Nat

Nobody == "nobody"
Users  == [name : Names \cup {Nobody}, jur : BOOLEAN]

Closed  == [kind |-> "none", id |-> 0, locked |-> FALSE]
Dialogs == [kind : {"none", "land", "add", "askModify", "edit", "askDelete"},
            id : 0..MaxId, locked : BOOLEAN]

VARIABLES
  table,    \* the page this behaviour looks at
  account,  \* the users table: id -> name and rights
  land,     \* LandingUser: is somebody logged in?
  user,     \* LandingUser: a copy of the account made at the login
  dlg,      \* the open dialog
  crashed,  \* first() has been called on an empty result
  trimmed,  \* history: the table has been trimmed since the program started
  restarts  \* bound

session == <<land, user>>
vars    == <<tableVars, table, account, session, dlg, crashed, trimmed, restarts>>

open(kind, id, locked) == dlg' = [kind |-> kind, id |-> id, locked |-> locked]
dismiss == dlg' = Closed

Init ==
  /\ table \in Tables
  /\ setting \in LogSpins /\ logCount = setting * Unit
  /\ IF table = "users"
     THEN rows = {1} /\ account = [id \in {1} |-> [name |-> Admin, jur |-> TRUE]]
     ELSE rows \in SUBSET (1..2) /\ account = << >>
  /\ lastId = maxId
  /\ view = rows /\ current = 0 /\ excess = 0
  /\ land = FALSE
  /\ user = [name |-> IF table = "users" THEN Admin ELSE Nobody, jur |-> table = "users"]
  /\ dlg = [Closed EXCEPT !.kind = "land"]
  /\ crashed = FALSE /\ trimmed = FALSE /\ restarts = 0

\* The operator can click.
Free == dlg = Closed /\ excess = 0

\* findById(id).first() on a table that no longer has the row.
Missing(id) == id \notin rows
Fails == crashed' = TRUE /\ UNCHANGED dlg

-----------------------------------------------------------------------------
(* Login *)

on_loginBtn_clicked ==
  /\ Free
  /\ open("land", 0, FALSE)
  /\ UNCHANGED <<tableVars, table, account, session, crashed, trimmed, restarts>>

usrLand ==
  /\ dlg.kind = "land"
  /\ excess = 0
  /\ IF table = "users"
     THEN \E id \in rows : user' = account[id]
     ELSE \E jur \in BOOLEAN : user' = [name |-> Admin, jur |-> jur]
  /\ land' = TRUE
  /\ dismiss
  /\ UNCHANGED <<tableVars, table, account, crashed, trimmed, restarts>>

\* Only the rights are taken back; the name stays.
quitWidget ==
  /\ Free
  /\ land
  /\ land' = FALSE
  /\ user' = [user EXCEPT !.jur = FALSE]
  /\ UNCHANGED <<tableVars, table, account, dlg, crashed, trimmed, restarts>>

-----------------------------------------------------------------------------
(* The page of the accounts *)

OnUsers == table = "users" /\ user.jur /\ Free

click(id) ==
  /\ Free
  /\ select(id)
  /\ UNCHANGED <<table, account, session, dlg, crashed, trimmed, restarts>>

on_addBtn_clicked ==
  /\ OnUsers
  /\ open("add", 0, FALSE)
  /\ UNCHANGED <<tableVars, table, account, session, crashed, trimmed, restarts>>

\* Mutant: the name may be taken.
addUser_Twice(name, jur) ==
  /\ dlg.kind = "add"
  /\ excess = 0
  /\ maxId < MaxId
  /\ rows' = rows \cup {maxId + 1}
  /\ lastId' = Max({lastId, maxId + 1})
  /\ account' = [id \in rows' |-> IF id \in rows THEN account[id]
                                 ELSE [name |-> name, jur |-> jur]]
  /\ dismiss
  /\ refreshSlot
  /\ UNCHANGED <<table, limits, excess, session, crashed, trimmed, restarts>>

\* NewUsrDlg::saveUsrInfo: a name that is not taken, the next id.
addUser(name, jur) ==
  /\ dlg.kind = "add"
  /\ excess = 0
  /\ maxId < MaxId
  /\ name \notin {account[id].name : id \in rows}
  /\ rows' = rows \cup {maxId + 1}
  /\ lastId' = Max({lastId, maxId + 1})
  /\ account' = [id \in rows' |-> IF id \in rows THEN account[id]
                                 ELSE [name |-> name, jur |-> jur]]
  /\ dismiss
  /\ refreshSlot
  /\ UNCHANGED <<table, limits, excess, session, crashed, trimmed, restarts>>

on_modifyBtn_clicked ==
  /\ OnUsers
  /\ current # 0
  /\ open("askModify", current, FALSE)
  /\ UNCHANGED <<tableVars, table, account, session, crashed, trimmed, restarts>>

\* The dialog looks how many accounts there are, then reads this one.
modifyBtn ==
  /\ dlg.kind = "askModify"
  /\ excess = 0
  /\ IF Missing(dlg.id)
     THEN Fails
     ELSE open("edit", dlg.id, counts <= 1) /\ UNCHANGED crashed
  /\ UNCHANGED <<tableVars, table, account, session, trimmed, restarts>>

\* An update of a row that has been trimmed meanwhile changes nothing; whoever
\* is logged in keeps the rights of the login.
updateItem(jur) ==
  /\ dlg.kind = "edit"
  /\ excess = 0
  /\ dlg.locked /\ ~Missing(dlg.id) => jur = account[dlg.id].jur
  /\ account' = IF Missing(dlg.id) THEN account ELSE [account EXCEPT ![dlg.id].jur = jur]
  /\ dismiss
  /\ UNCHANGED <<table, rows, lastId, limits, excess, session, crashed, trimmed, restarts>>
  /\ refreshSlot

\* A dialog is left without saving; the page is refreshed after the first three.
cancel ==
  /\ dlg # Closed
  /\ excess = 0
  /\ dismiss
  /\ UNCHANGED <<table, account, rows, lastId, limits, excess, session, crashed, trimmed, restarts>>
  /\ IF dlg.kind \in {"add", "askModify", "edit"} THEN refreshSlot ELSE UNCHANGED <<view, current>>

\* Neither the only account nor one's own.
delBtn ==
  /\ OnUsers
  /\ current # 0
  /\ counts > 1
  /\ IF Missing(current)
     THEN Fails
     ELSE /\ account[current].name # user.name
          /\ open("askDelete", current, FALSE)
          /\ UNCHANGED crashed
  /\ UNCHANGED <<tableVars, table, account, session, trimmed, restarts>>

\* Mutant: the page goes on showing the row.
removeRow_KeepsView ==
  /\ dlg.kind = "askDelete"
  /\ excess = 0
  /\ rows' = rows \ {current}
  /\ account' = [id \in rows' |-> account[id]]
  /\ dismiss
  /\ UNCHANGED <<view, current, table, lastId, limits, excess, session, crashed, trimmed, restarts>>

\* SqlTableView::delSlot(int) does not use the id it is given: it removes the
\* row selected now, if there is one.
removeRow ==
  /\ dlg.kind = "askDelete"
  /\ excess = 0
  /\ rows' = rows \ {current}
  /\ account' = [id \in rows' |-> account[id]]
  /\ dismiss
  /\ IF current = 0 THEN UNCHANGED <<view, current>> ELSE refreshSlot
  /\ UNCHANGED <<table, lastId, limits, excess, session, crashed, trimmed, restarts>>

-----------------------------------------------------------------------------
(* The log page, the setup page and the timer *)

coreWritesLog ==
  /\ table = "logs"
  /\ insertLog
  /\ UNCHANGED <<table, account, session, dlg, crashed, trimmed, restarts>>

on_clearBtn_clicked ==
  /\ table = "logs" /\ user.jur /\ Free
  /\ clearTableSlot
  /\ UNCHANGED <<table, account, session, dlg, crashed, trimmed, restarts>>

on_pcBtn_clicked ==
  /\ user.jur /\ Free
  /\ \E value \in LogSpins : writeLogCount(value)
  /\ UNCHANGED <<table, account, session, dlg, crashed, trimmed, restarts>>

trimStarts ==
  /\ autoDelSlot
  /\ UNCHANGED <<table, account, session, dlg, crashed, trimmed, restarts>>

trimEnds ==
  /\ countsRemove
  /\ account' = [id \in DOMAIN account \cap rows' |-> account[id]]
  /\ trimmed' = TRUE
  /\ UNCHANGED <<table, session, dlg, crashed, restarts>>

\* The program is closed, or gone, and started again.
restart ==
  /\ restarts < MaxRestarts
  /\ restarts' = restarts + 1
  /\ initLogCount
  /\ land' = FALSE
  /\ user' = [name |-> Nobody, jur |-> FALSE]
  /\ open("land", 0, FALSE)
  /\ crashed' = FALSE /\ trimmed' = FALSE
  /\ UNCHANGED <<table, account>>

-----------------------------------------------------------------------------
Operator ==
  \/ on_loginBtn_clicked \/ usrLand \/ quitWidget
  \/ \E id \in view : click(id)
  \/ on_addBtn_clicked \/ on_modifyBtn_clicked \/ modifyBtn \/ cancel \/ delBtn \/ removeRow
  \/ \E name \in Names, jur \in BOOLEAN : addUser(name, jur)
  \/ \E jur \in BOOLEAN : updateItem(jur)
  \/ on_clearBtn_clicked \/ on_pcBtn_clicked

Running == Operator \/ coreWritesLog \/ trimStarts \/ trimEnds

Next == (~crashed /\ Running) \/ restart

Spec == Init /\ [][Next]_vars

\* The timer fires again and again, also while a dialog is open.
Fairness == WF_vars(~crashed /\ trimStarts) /\ WF_vars(~crashed /\ trimEnds)

FairSpec == Spec /\ Fairness

-----------------------------------------------------------------------------
TypeOK ==
  /\ TableTypeOK
  /\ table \in Tables
  /\ table = "users" => account \in [rows -> Users]
  /\ \A i, j \in DOMAIN account : account[i].name = account[j].name => i = j
  /\ land \in BOOLEAN /\ user \in Users
  /\ dlg \in Dialogs
  /\ crashed \in BOOLEAN /\ trimmed \in BOOLEAN
  /\ restarts \in 0..MaxRestarts

\* Outside of trims and restarts an account disappears only if it is the one
\* the operator was asked about, and never his own, although the row removed is
\* the one selected when he answers, and the timer may have refreshed the page.
DeletesWhatWasAsked ==
  [][table = "users" => \A id \in rows \ rows' :
       Trimming \/ (dlg.kind = "askDelete" /\ dlg.id = id /\ account[id].name # user.name)]_vars

\* The page never acts on a row that is gone, unless the timer took it.
CrashNeedsTrim == crashed => trimmed

\* Too many rows do not stay.
TrimConverges == (counts > logCount /\ ~crashed) ~> (counts <= logCount \/ crashed)
=============================================================================
