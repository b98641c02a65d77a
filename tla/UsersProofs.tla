---------------------------- MODULE UsersProofs ----------------------------
(***************************************************************************)
(* Proofs about Users for every limit, every number of ids and names, and  *)
(* every operator.                                                         *)
(***************************************************************************)
EXTENDS Users, WellFoundedInduction, FiniteSetTheorems, TLAPS

-----------------------------------------------------------------------------
(* Least and greatest ids, numbers of rows *)

\* A set of naturals that is not empty has a least element.
LEMMA Least ==
  ASSUME NEW T \in SUBSET Nat, T # {}
  PROVE  \E x \in T : \A y \in T : x <= y
  <1> DEFINE R == {ss \in Nat \X Nat : ss[1] < ss[2]}
  <1>1. IsWellFoundedOn(R, Nat)
    BY NatLessThanWellFounded DEF OpToRel
  <1>2. \E x \in T : \A y \in T : ~ (<<y, x>> \in R)
    <2> HIDE DEF R
    <2>1. QED
      BY <1>1, WFMin
  <1>3. PICK x \in T : \A y \in T : ~ (<<y, x>> \in R)
    BY <1>2
  <1>4. ASSUME NEW y \in T
        PROVE  x <= y
    <2>1. <<y, x>> \in Nat \X Nat /\ <<y, x>>[1] = y /\ <<y, x>>[2] = x
      OBVIOUS
    <2>2. ~ (y < x)
      BY <2>1, <1>3
    <2>3. QED
      BY <2>2
  <1>5. QED
    BY <1>4

\* Min is what its name says.
LEMMA MinIsLeast ==
  ASSUME NEW T \in SUBSET Nat, T # {}
  PROVE  Min(T) \in T /\ \A y \in T : Min(T) <= y
BY Least DEF Min

\* And Max, for a bounded set.
LEMMA MaxIsGreatest ==
  ASSUME NEW n \in Nat, NEW T \in SUBSET (0..n), T # {}
  PROVE  Max(T) \in T /\ \A y \in T : Max(T) >= y
  <1> DEFINE S == {n - y : y \in T}
  <1>1. S \in SUBSET Nat /\ S # {}
    <2>1. PICK y \in T : TRUE
      OBVIOUS
    <2>2. n - y \in S
      BY <2>1
    <2>3. \A z \in T : n - z \in Nat
      OBVIOUS
    <2>4. QED
      BY <2>2, <2>3
  <1>2. PICK s \in S : \A r \in S : s <= r
    <2> HIDE DEF S
    <2>1. QED
      BY <1>1, Least
  <1>3. PICK x \in T : s = n - x
    BY <1>2
  <1>4. ASSUME NEW y \in T
        PROVE  x >= y
    <2>1. n - x <= n - y
      BY <1>2, <1>3
    <2>2. QED
      BY <2>1
  <1>5. QED
    BY <1>4 DEF Max

\* A table has no more rows than ids.
LEMMA CountsType ==
  ASSUME TableTypeOK
  PROVE  IsFiniteSet(rows) /\ counts \in 0..MaxId
  <1>1. lastId \in Nat /\ lastId <= MaxId /\ MaxId \in Nat /\ rows \in SUBSET (1..lastId)
    BY TableAssumption DEF TableTypeOK
  <1>2. IsFiniteSet(1..lastId) /\ Cardinality(1..lastId) = lastId
    BY <1>1, FS_Interval
  <1>3. IsFiniteSet(rows) /\ Cardinality(rows) <= lastId
    BY <1>1, <1>2, FS_Subset
  <1>4. Cardinality(rows) \in Nat
    BY <1>3, FS_CardinalityType
  <1>5. QED
    BY <1>1, <1>3, <1>4 DEF counts

\* The greatest id is 0 without rows, and at most the last one given.
LEMMA MaxIdType ==
  ASSUME TableTypeOK
  PROVE  maxId \in 0..lastId /\ \A id \in rows : id <= maxId
  <1>1. lastId \in Nat /\ rows \subseteq 1..lastId
    BY TableAssumption DEF TableTypeOK
  <1>2. CASE rows = {}
    <2>1. maxId = 0
      BY <1>2 DEF maxId
    <2>2. QED
      BY <1>1, <1>2, <2>1
  <1>3. CASE rows # {}
    <2>1. rows \in SUBSET (0..lastId)
      BY <1>1
    <2>2. Max(rows) \in rows /\ \A y \in rows : Max(rows) >= y
      BY <1>1, <1>3, <2>1, MaxIsGreatest
    <2>3. maxId = Max(rows)
      BY <1>3 DEF maxId
    <2>4. maxId \in rows /\ \A y \in rows : maxId >= y
      BY <2>2, <2>3
    <2>5. maxId \in 0..lastId
      BY <1>1, <2>4
    <2>6. \A y \in rows : y <= maxId
      BY <1>1, <2>4, <2>5
    <2>7. QED
      BY <2>5, <2>6
  <1>4. QED
    BY <1>2, <1>3

-----------------------------------------------------------------------------
(* The invariants *)

AccountsOK ==
  /\ table = "users" => account \in [rows -> Users]
  /\ \A i, j \in DOMAIN account : account[i].name = account[j].name => i = j

SessionOK ==
  /\ table \in Tables
  /\ land \in BOOLEAN /\ user \in Users
  /\ dlg \in Dialogs

FlagsOK == crashed \in BOOLEAN /\ trimmed \in BOOLEAN /\ restarts \in 0..MaxRestarts

\* The log page has neither accounts nor their dialogs.
Separate == table # "users" => DOMAIN account = {} /\ dlg.kind \in {"none", "land"}

\* What autoDelSlot has found to be too many is still there: until it is
\* deleted rows are only added, and the limit stays.
Surplus == excess > 0 => counts >= logCount + excess

\* Until a trim the page shows rows that exist, and the dialogs are about one.
ShowsRows ==
  table = "users" /\ ~trimmed =>
    /\ view \subseteq rows
    /\ dlg.kind \in {"askModify", "edit", "askDelete"} => dlg.id \in rows

\* Under the question whether to delete an account the selection is the account
\* asked about, not one's own, or gone.
Asked ==
  dlg.kind = "askDelete" /\ current # 0 =>
    current = dlg.id /\ (current \in rows => account[current].name # user.name)

\* The steps enumerated in Next, for the case splits below.
LEMMA NextCases ==
  ASSUME Next
  PROVE  \/ on_loginBtn_clicked \/ usrLand \/ quitWidget
         \/ \E id \in view : click(id)
         \/ on_addBtn_clicked \/ on_modifyBtn_clicked \/ modifyBtn \/ cancel \/ delBtn \/ removeRow
         \/ \E name \in Names, jur \in BOOLEAN : addUser(name, jur)
         \/ \E jur \in BOOLEAN : updateItem(jur)
         \/ on_clearBtn_clicked \/ on_pcBtn_clicked
         \/ coreWritesLog \/ trimStarts \/ trimEnds \/ restart
BY DEF Next, Running, Operator

-----------------------------------------------------------------------------
(* Types *)

\* The ids of the table, the page and the limits keep their types.
LEMMA TableTyped ==
  ASSUME TableTypeOK, Next
  PROVE  TableTypeOK'
  <1> USE TableAssumption DEF limits, refreshSlot
  <1>1. CASE UNCHANGED tableVars
    BY <1>1 DEF tableVars, TableTypeOK
  <1>2. ASSUME NEW id \in view, click(id)
        PROVE  TableTypeOK'
    BY <1>2 DEF click, select, TableTypeOK
  <1>3. CASE modifyBtn \/ delBtn
    BY <1>1, <1>3 DEF modifyBtn, delBtn
  <1>4. CASE cancel
    BY <1>4 DEF cancel, TableTypeOK
  <1>5. CASE removeRow
    BY <1>5 DEF removeRow, TableTypeOK
  <1>6. ASSUME NEW name \in Names, NEW jur \in BOOLEAN, addUser(name, jur)
        PROVE  TableTypeOK'
    <2>1. maxId \in 0..lastId /\ lastId \in 0..MaxId /\ maxId < MaxId
      BY <1>6, MaxIdType DEF addUser, TableTypeOK
    <2>2. {lastId, maxId + 1} \in SUBSET (0..MaxId) /\ {lastId, maxId + 1} # {}
      BY <2>1
    <2>3. /\ Max({lastId, maxId + 1}) \in {lastId, maxId + 1}
          /\ \A y \in {lastId, maxId + 1} : Max({lastId, maxId + 1}) >= y
      BY <2>2, MaxIsGreatest
    <2>4. lastId' \in 0..MaxId /\ lastId' >= lastId /\ lastId' >= maxId + 1
      BY <1>6, <2>1, <2>3 DEF addUser
    <2>5. rows' \subseteq 1..lastId'
      BY <1>6, <2>1, <2>4 DEF addUser, TableTypeOK
    <2>6. view' = rows' /\ current' = 0 /\ UNCHANGED <<limits, excess>>
      BY <1>6 DEF addUser
    <2>7. QED
      BY <2>4, <2>5, <2>6 DEF TableTypeOK
  <1>7. ASSUME NEW jur \in BOOLEAN, updateItem(jur)
        PROVE  TableTypeOK'
    BY <1>7 DEF updateItem, TableTypeOK
  <1>8. CASE on_clearBtn_clicked
    BY <1>8 DEF on_clearBtn_clicked, clearTableSlot, TableTypeOK
  <1>9. CASE on_pcBtn_clicked
    BY <1>9 DEF on_pcBtn_clicked, writeLogCount, TableTypeOK
  <1>10. CASE coreWritesLog
    BY <1>10 DEF coreWritesLog, insertLog, TableTypeOK
  <1>11. CASE trimStarts
    <2>1. counts \in 0..MaxId /\ counts > logCount
      BY <1>11, CountsType DEF trimStarts, autoDelSlot
    <2>2. logCount \in Nat
      BY DEF TableTypeOK
    <2>3. excess' \in 0..MaxId
      BY <1>11, <2>1, <2>2 DEF trimStarts, autoDelSlot
    <2>4. QED
      BY <1>11, <2>3 DEF trimStarts, autoDelSlot, TableTypeOK
  <1>12. CASE trimEnds
    <2>1. rows' \subseteq rows /\ excess' = 0 /\ UNCHANGED <<lastId, view, current, limits>>
      BY <1>12 DEF trimEnds, countsRemove
    <2>2. QED
      BY <2>1 DEF TableTypeOK
  <1>13. CASE restart
    <2>1. /\ logCount' = setting * Unit /\ excess' = 0 /\ view' = rows /\ current' = 0
          /\ rows' = rows /\ lastId' = lastId /\ setting' = setting
      BY <1>13 DEF restart, initLogCount
    <2>2. logCount' \in {setting', setting' * Unit}
      BY <2>1
    <2>3. QED
      BY <2>1, <2>2 DEF TableTypeOK
  <1>14. CASE on_loginBtn_clicked \/ usrLand \/ quitWidget \/ on_addBtn_clicked \/ on_modifyBtn_clicked
    BY <1>1, <1>14 DEF on_loginBtn_clicked, usrLand, quitWidget, on_addBtn_clicked,
       on_modifyBtn_clicked
  <1>15. QED
    BY <1>2, <1>3, <1>4, <1>5, <1>6, <1>7, <1>8, <1>9, <1>10, <1>11, <1>12, <1>13, <1>14, NextCases

\* The accounts stay accounts with names of their own, the log page without.
LEMMA AccountsTyped ==
  ASSUME TableTypeOK, AccountsOK, SessionOK, Separate, Next
  PROVE  AccountsOK' /\ Separate'
  <1> USE TableAssumption DEF open, dismiss, Closed, Free, OnUsers, session, limits, tableVars
  <1>1. ASSUME UNCHANGED <<table, rows, account>>,
               dlg' = dlg \/ dlg'.kind \in {"none", "land"} \/ table = "users"
        PROVE  AccountsOK' /\ Separate'
    BY <1>1, Zenon DEF AccountsOK, Separate
  <1>2. CASE on_loginBtn_clicked \/ usrLand \/ quitWidget
    BY <1>1, <1>2 DEF on_loginBtn_clicked, usrLand, quitWidget
  <1>3. CASE on_addBtn_clicked \/ on_modifyBtn_clicked \/ delBtn
    BY <1>1, <1>3 DEF on_addBtn_clicked, on_modifyBtn_clicked, delBtn, Fails
  <1>4. CASE modifyBtn
    <2>1. table = "users"
      BY <1>4 DEF modifyBtn, Separate
    <2>2. QED
      BY <1>1, <1>4, <2>1 DEF modifyBtn
  <1>5. ASSUME NEW id \in view, click(id)
        PROVE  AccountsOK' /\ Separate'
    BY <1>1, <1>5 DEF click, select
  <1>6. CASE cancel
    BY <1>1, <1>6 DEF cancel
  <1>7. CASE on_pcBtn_clicked \/ trimStarts \/ restart
    BY <1>1, <1>7 DEF on_pcBtn_clicked, writeLogCount, trimStarts, autoDelSlot, restart, initLogCount
  <1>8. CASE coreWritesLog \/ on_clearBtn_clicked
    <2>1. table = "logs" /\ UNCHANGED <<table, account, dlg>>
      BY <1>8 DEF coreWritesLog, on_clearBtn_clicked
    <2>2. QED
      BY <2>1, Zenon DEF AccountsOK, Separate
  <1>9. CASE removeRow
    <2>1. table = "users" /\ table' = "users"
      BY <1>9 DEF removeRow, Separate
    <2>2. rows' \subseteq rows /\ account' = [id \in rows' |-> account[id]]
      BY <1>9 DEF removeRow
    <2>3. account' \in [rows' -> Users]
      BY <2>1, <2>2 DEF AccountsOK
    <2>4. QED
      BY <2>1, <2>2, <2>3 DEF AccountsOK, Separate
  <1>10. CASE trimEnds
    <2>1. /\ rows' \subseteq rows /\ UNCHANGED <<table, dlg>>
          /\ account' = [id \in DOMAIN account \cap rows' |-> account[id]]
      BY <1>10 DEF trimEnds, countsRemove
    <2>2. DOMAIN account' \subseteq DOMAIN account
          /\ \A id \in DOMAIN account' : account'[id] = account[id]
      BY <2>1
    <2>3. table = "users" => account' \in [rows' -> Users]
      BY <2>1 DEF AccountsOK
    <2>4. QED
      BY <2>1, <2>2, <2>3 DEF AccountsOK, Separate
  <1>11. ASSUME NEW name \in Names, NEW jur \in BOOLEAN, addUser(name, jur)
         PROVE  AccountsOK' /\ Separate'
    <2> DEFINE new == maxId + 1
               record == [name |-> name, jur |-> jur]
    <2>1. table = "users" /\ table' = "users"
      BY <1>11 DEF addUser, Separate
    <2>2. /\ rows' = rows \cup {new} /\ account' = [id \in rows' |-> IF id \in rows THEN account[id] ELSE record]
          /\ name \notin {account[id].name : id \in rows}
      BY <1>11 DEF addUser
    <2>3. maxId \in Nat /\ \A id \in rows : id <= maxId /\ id \in Nat
      BY MaxIdType DEF TableTypeOK
    <2>4. new \notin rows
      <3>1. SUFFICES ASSUME new \in rows
                     PROVE  FALSE
        OBVIOUS
      <3>2. new <= maxId
        BY <2>3, <3>1
      <3>3. QED
        BY <2>3, <3>2
    <2>5. record \in Users /\ account \in [rows -> Users]
      BY <2>1 DEF AccountsOK, Users
    <2> HIDE DEF new
    <2>6. account' \in [rows' -> Users]
      BY <2>2, <2>5
    <2>7. \A id \in rows : account'[id] = account[id] /\ account[id].name # name
      BY <2>2
    <2>8. account'[new].name = name
      BY <2>2, <2>4
    <2>9. QED
      BY <2>1, <2>2, <2>5, <2>6, <2>7, <2>8 DEF AccountsOK, Separate
  <1>12. ASSUME NEW jur \in BOOLEAN, updateItem(jur)
         PROVE  AccountsOK' /\ Separate'
    <2>1. table = "users" /\ UNCHANGED <<table, rows>> /\ account \in [rows -> Users]
      BY <1>12 DEF updateItem, Separate, AccountsOK
    <2>2. CASE Missing(dlg.id)
      BY <1>12, <2>1, <2>2, <1>1 DEF updateItem
    <2>3. CASE ~Missing(dlg.id)
      <3>1. dlg.id \in rows /\ account' = [account EXCEPT ![dlg.id].jur = jur]
        BY <1>12, <2>3 DEF updateItem, Missing
      <3>2. account' \in [rows -> Users] /\ \A id \in rows : account'[id].name = account[id].name
        BY <2>1, <3>1 DEF Users
      <3>3. QED
        BY <2>1, <3>2 DEF AccountsOK, Separate
    <2>4. QED
      BY <2>2, <2>3
  <1>13. QED
    BY <1>2, <1>3, <1>4, <1>5, <1>6, <1>7, <1>8, <1>9, <1>10, <1>11, <1>12, NextCases

\* The login and the dialogs keep their types.
LEMMA SessionTyped ==
  ASSUME TableTypeOK, AccountsOK, SessionOK, Separate, Next
  PROVE  SessionOK'
  <1> USE TableAssumption, UsersAssumption DEF session, dismiss, tableVars, limits
  <1>1. Closed \in Dialogs
    BY DEF Closed, Dialogs
  <1>2. ASSUME NEW kind \in {"land", "add", "askModify", "edit", "askDelete"}, NEW id \in 0..MaxId,
               NEW locked \in BOOLEAN
        PROVE  [kind |-> kind, id |-> id, locked |-> locked] \in Dialogs
    BY DEF Dialogs
  <1>3. current \in 0..MaxId
    BY DEF TableTypeOK
  <1>4. ASSUME UNCHANGED <<table, land, user>>, dlg' \in Dialogs
        PROVE  SessionOK'
    BY <1>4 DEF SessionOK
  <1>5. CASE on_loginBtn_clicked \/ on_addBtn_clicked
    <2>1. 0 \in 0..MaxId
      OBVIOUS
    <2>2. dlg' \in Dialogs
      BY <1>2, <1>5, <2>1 DEF on_loginBtn_clicked, on_addBtn_clicked, open
    <2>3. QED
      BY <1>4, <1>5, <2>2 DEF on_loginBtn_clicked, on_addBtn_clicked
  <1>6. CASE on_modifyBtn_clicked \/ delBtn
    <2>1. dlg' \in Dialogs
      BY <1>2, <1>3, <1>6 DEF on_modifyBtn_clicked, delBtn, Fails, open, SessionOK
    <2>2. QED
      BY <1>4, <1>6, <2>1 DEF on_modifyBtn_clicked, delBtn
  <1>7. CASE modifyBtn
    <2>1. dlg.id \in 0..MaxId /\ (counts <= 1) \in BOOLEAN
      BY DEF SessionOK, Dialogs
    <2>2. dlg' \in Dialogs
      BY <1>2, <1>7, <2>1 DEF modifyBtn, Fails, open, SessionOK
    <2>3. QED
      BY <1>4, <1>7, <2>2 DEF modifyBtn
  <1>8. CASE cancel \/ removeRow
    BY <1>1, <1>4, <1>8 DEF cancel, removeRow
  <1>9. ASSUME NEW name \in Names, NEW jur \in BOOLEAN, addUser(name, jur)
        PROVE  SessionOK'
    BY <1>1, <1>4, <1>9 DEF addUser
  <1>10. ASSUME NEW jur \in BOOLEAN, updateItem(jur)
         PROVE  SessionOK'
    BY <1>1, <1>4, <1>10 DEF updateItem
  <1>11. ASSUME NEW id \in view, click(id)
         PROVE  SessionOK'
    BY <1>4, <1>11 DEF click, SessionOK
  <1>12. CASE coreWritesLog \/ on_clearBtn_clicked \/ on_pcBtn_clicked \/ trimStarts \/ trimEnds
    BY <1>4, <1>12 DEF coreWritesLog, on_clearBtn_clicked, on_pcBtn_clicked, trimStarts, trimEnds,
       SessionOK
  <1>13. CASE usrLand
    <2>1. user' \in Users
      <3>1. CASE table = "users"
        <4>1. PICK id \in rows : user' = account[id]
          BY <1>13, <3>1 DEF usrLand
        <4>2. QED
          BY <3>1, <4>1 DEF AccountsOK
      <3>2. CASE table # "users"
        <4>1. PICK jur \in BOOLEAN : user' = [name |-> Admin, jur |-> jur]
          BY <1>13, <3>2 DEF usrLand
        <4>2. QED
          BY <4>1 DEF Users
      <3>3. QED
        BY <3>1, <3>2
    <2>2. land' = TRUE /\ dlg' \in Dialogs /\ table' = table
      BY <1>1, <1>13 DEF usrLand
    <2>3. QED
      BY <2>1, <2>2 DEF SessionOK
  <1>14. CASE quitWidget
    <2>1. user' \in Users
      BY <1>14 DEF quitWidget, SessionOK, Users
    <2>2. QED
      BY <1>14, <2>1 DEF quitWidget, SessionOK
  <1>15. CASE restart
    <2>1. user' \in Users
      BY <1>15 DEF restart, Users
    <2>2. dlg' \in Dialogs
      <3>1. 0 \in 0..MaxId
        OBVIOUS
      <3>2. QED
        BY <1>2, <1>15, <3>1 DEF restart, open
    <2>3. QED
      BY <1>15, <2>1, <2>2 DEF restart, SessionOK
  <1>16. QED
    BY <1>5, <1>6, <1>7, <1>8, <1>9, <1>10, <1>11, <1>12, <1>13, <1>14, <1>15, NextCases

\* And so do the flags and the bound.
LEMMA FlagsTyped ==
  ASSUME FlagsOK, Next
  PROVE  FlagsOK'
  <1>1. CASE restart
    <2>1. restarts' \in 0..MaxRestarts
      BY <1>1, UsersAssumption DEF restart, FlagsOK
    <2>2. crashed' = FALSE /\ trimmed' = FALSE
      BY <1>1 DEF restart
    <2>3. QED
      BY <2>1, <2>2, Zenon DEF FlagsOK
  <1>2. CASE Running
    <2>1. restarts' = restarts /\ trimmed' \in {trimmed, TRUE} /\ crashed' \in {crashed, TRUE}
      BY <1>2 DEF Running, Operator, on_loginBtn_clicked, usrLand, quitWidget, click,
         on_addBtn_clicked, on_modifyBtn_clicked, modifyBtn, cancel, delBtn, removeRow, addUser,
         updateItem, on_clearBtn_clicked, on_pcBtn_clicked, coreWritesLog, trimStarts, trimEnds, Fails
    <2>2. QED
      BY <2>1, Zenon DEF FlagsOK
  <1>3. QED
    BY <1>1, <1>2 DEF Next

Typed == TableTypeOK /\ AccountsOK /\ SessionOK /\ FlagsOK /\ Separate

LEMMA TypedIsTypeOK == Typed => TypeOK
BY DEF Typed, TypeOK, AccountsOK, SessionOK, FlagsOK

LEMMA InitTyped == Init => Typed
  <1> SUFFICES ASSUME Init
               PROVE  Typed
    OBVIOUS
  <1> USE TableAssumption, UsersAssumption
  <1>1. rows \in SUBSET (0..2) /\ rows \subseteq 1..2
    BY DEF Init
  <1>2. maxId \in 0..2 /\ \A id \in rows : id <= maxId
    <2>1. CASE rows = {}
      <3>1. maxId = 0
        BY <2>1 DEF maxId
      <3>2. QED
        BY <2>1, <3>1
    <2>2. CASE rows # {}
      <3>1. Max(rows) \in rows /\ \A y \in rows : Max(rows) >= y
        BY <1>1, <2>2, MaxIsGreatest
      <3>2. maxId = Max(rows)
        BY <2>2 DEF maxId
      <3>3. maxId \in rows /\ \A y \in rows : maxId >= y
        BY <3>1, <3>2
      <3>4. maxId \in 0..2
        BY <1>1, <3>3
      <3>5. QED
        BY <1>1, <3>3, <3>4
    <2>3. QED
      BY <2>1, <2>2
  <1>3. TableTypeOK
    <2>1. rows \subseteq 1..lastId /\ lastId \in 0..MaxId
      BY <1>1, <1>2 DEF Init
    <2>2. view = rows /\ current = 0 /\ excess = 0 /\ setting \in LogSpins /\ logCount = setting * Unit
      BY DEF Init
    <2>3. QED
      BY <2>1, <2>2 DEF TableTypeOK
  <1>4. AccountsOK /\ Separate
    <2>1. CASE table = "users"
      <3>1. rows = {1} /\ account = [id \in {1} |-> [name |-> Admin, jur |-> TRUE]]
        BY <2>1 DEF Init
      <3>2. account \in [rows -> Users] /\ \A i, j \in DOMAIN account : i = j
        BY <3>1 DEF Users
      <3>3. QED
        BY <2>1, <3>2 DEF AccountsOK, Separate
    <2>2. CASE table # "users"
      <3>1. DOMAIN account = {} /\ dlg.kind = "land"
        BY <2>2 DEF Init, Closed
      <3>2. QED
        BY <2>2, <3>1 DEF AccountsOK, Separate
    <2>3. QED
      BY <2>1, <2>2
  <1>5. SessionOK
    <2>1. dlg \in Dialogs
      <3>1. dlg = [kind |-> "land", id |-> 0, locked |-> FALSE]
        BY DEF Init, Closed
      <3>2. 0 \in 0..MaxId
        OBVIOUS
      <3>3. QED
        BY <3>1, <3>2 DEF Dialogs
    <2>2. user \in Users
      BY DEF Init, Users
    <2>3. QED
      BY <2>1, <2>2 DEF Init, SessionOK
  <1>6. FlagsOK
    <2>1. crashed = FALSE /\ trimmed = FALSE /\ restarts = 0
      BY DEF Init
    <2>2. 0 \in 0..MaxRestarts
      OBVIOUS
    <2>3. QED
      BY <2>1, <2>2, Zenon DEF FlagsOK
  <1>7. QED
    BY <1>3, <1>4, <1>5, <1>6 DEF Typed

LEMMA StepTyped == Typed /\ [Next]_vars => Typed'
  <1> SUFFICES ASSUME Typed, [Next]_vars
               PROVE  Typed'
    OBVIOUS
  <1>1. CASE Next
    BY <1>1, TableTyped, AccountsTyped, SessionTyped, FlagsTyped DEF Typed
  <1>2. CASE UNCHANGED vars
    BY <1>2, Zenon DEF vars, tableVars, session, Typed, TableTypeOK, AccountsOK, SessionOK,
       FlagsOK, Separate
  <1>3. QED
    BY <1>1, <1>2

\* Every variable keeps its type, and no two accounts share a name.
THEOREM TypeCorrect == Spec => []TypeOK
  <1>1. Spec => []Typed
    BY InitTyped, StepTyped, PTL DEF Spec
  <1>2. QED
    BY <1>1, TypedIsTypeOK, PTL

-----------------------------------------------------------------------------
(* The trim *)

\* An interval of n ids holds at most n rows, so what is left of the table
\* after countsRemove lacks at most excess of them, the oldest.
LEMMA RemoveKeeps ==
  ASSUME TableTypeOK, countsRemove
  PROVE  /\ Cardinality(rows') >= counts - excess
         /\ \A gone \in rows \ rows', kept \in rows' : gone < kept
  <1>1. /\ excess \in Nat /\ excess > 0 /\ rows \in SUBSET Nat
        /\ rows' = {id \in rows : id >= minId + excess}
    BY TableAssumption DEF TableTypeOK, countsRemove
  <1>2. IsFiniteSet(rows) /\ counts \in Nat
    BY CountsType, TableAssumption
  <1>3. CASE rows = {}
    <2>1. rows' = {}
      BY <1>1, <1>3
    <2>2. Cardinality(rows') = 0 /\ counts = 0
      BY <1>3, <2>1, FS_EmptySet DEF counts
    <2>3. QED
      BY <1>1, <2>1, <2>2
  <1>4. CASE rows # {}
    <2>1. minId \in Nat /\ \A id \in rows : minId <= id
      BY <1>1, <1>4, MinIsLeast DEF minId
    <2> DEFINE low == minId
               first == low..(low + excess - 1)
    <2> HIDE DEF low
    <2>2. low \in Nat /\ (\A id \in rows : low <= id) /\ rows' = {id \in rows : id >= low + excess}
      BY <1>1, <2>1 DEF low
    <2>3. IsFiniteSet(first) /\ Cardinality(first) = excess
      <3>1. low \in Int /\ low + excess - 1 \in Int /\ ~(low > low + excess - 1)
        BY <1>1, <2>2
      <3>2. QED
        BY <1>1, <2>2, <3>1, FS_Interval
    <2>4. rows \ rows' \in SUBSET first
      <3>1. ASSUME NEW id \in rows \ rows'
            PROVE  id \in first
        BY <1>1, <2>2, <3>1
      <3>2. QED
        BY <3>1
    <2> HIDE DEF first
    <2>5. Cardinality(rows \ rows') <= excess
      BY <2>3, <2>4, FS_Subset
    <2>6. /\ rows' \in SUBSET rows
          /\ rows \cap rows' = rows'
      BY <2>2
    <2>7. Cardinality(rows \ rows') = Cardinality(rows) - Cardinality(rows')
      BY <1>2, <2>6, FS_Difference
    <2>8. Cardinality(rows') \in Nat
      BY <1>2, <2>6, FS_Subset, FS_CardinalityType
    <2>9. Cardinality(rows') >= counts - excess
      BY <1>1, <1>2, <2>5, <2>7, <2>8 DEF counts
    <2>10. ASSUME NEW gone \in rows \ rows', NEW kept \in rows'
           PROVE  gone < kept
      BY <1>1, <2>2
    <2>11. QED
      BY <2>9, <2>10
  <1>5. QED
    BY <1>3, <1>4

\* Between the count and the deletion there can only be more rows.
LEMMA SurplusStep ==
  ASSUME Typed, Surplus, [Next]_vars
  PROVE  Surplus'
  <1> USE DEF limits, refreshSlot, tableVars
  <1>1. TableTypeOK /\ TableTypeOK'
    BY StepTyped DEF Typed
  <1>2. counts \in Nat /\ logCount \in Nat /\ excess \in Nat
    BY <1>1, CountsType, TableAssumption DEF TableTypeOK
  <1>3. ASSUME excess' = 0 \/ UNCHANGED <<rows, logCount, excess>>
        PROVE  Surplus'
    BY <1>3, <1>2 DEF Surplus, counts
  <1>4. CASE trimStarts
    <2>1. excess' = counts - logCount /\ counts' = counts /\ logCount' = logCount
      BY <1>4 DEF trimStarts, autoDelSlot, counts
    <2>2. QED
      BY <1>2, <2>1 DEF Surplus
  <1>5. CASE coreWritesLog
    <2>1. rows' = rows \cup {lastId'} /\ logCount' = logCount /\ excess' = excess
      BY <1>5 DEF coreWritesLog, insertLog
    <2>2. IsFiniteSet(rows') /\ Cardinality(rows') \in Nat
      BY <1>1, <2>1, CountsType, FS_AddElement, FS_CardinalityType
    <2>3. counts' \in Nat /\ counts' >= counts
      BY <2>1, <2>2, FS_Subset DEF counts
    <2>4. QED
      BY <1>2, <2>1, <2>3 DEF Surplus
  <1>6. CASE trimEnds \/ restart
    BY <1>3, <1>6 DEF trimEnds, countsRemove, restart, initLogCount
  <1>7. CASE UNCHANGED tableVars
    BY <1>3, <1>7
  <1>8. ASSUME excess = 0, excess' = excess
        PROVE  Surplus'
    BY <1>3, <1>8
  <1>9. CASE removeRow \/ on_clearBtn_clicked \/ on_pcBtn_clicked
    BY <1>8, <1>9 DEF removeRow, on_clearBtn_clicked, clearTableSlot, on_pcBtn_clicked, writeLogCount,
       Free
  <1>10. ASSUME NEW name \in Names, NEW jur \in BOOLEAN, addUser(name, jur)
         PROVE  Surplus'
    BY <1>8, <1>10 DEF addUser
  <1>11. ASSUME NEW jur \in BOOLEAN, updateItem(jur)
         PROVE  Surplus'
    BY <1>8, <1>11 DEF updateItem
  <1>12. ASSUME NEW id \in view, click(id)
         PROVE  Surplus'
    BY <1>3, <1>12 DEF click, select
  <1>13. CASE cancel
    BY <1>3, <1>13 DEF cancel
  <1>14. CASE on_loginBtn_clicked \/ usrLand \/ quitWidget \/ on_addBtn_clicked
              \/ on_modifyBtn_clicked \/ modifyBtn \/ delBtn
    BY <1>7, <1>14 DEF on_loginBtn_clicked, usrLand, quitWidget, on_addBtn_clicked,
       on_modifyBtn_clicked, modifyBtn, delBtn
  <1>15. CASE UNCHANGED vars
    BY <1>7, <1>15 DEF vars
  <1>16. QED
    BY <1>4, <1>5, <1>6, <1>9, <1>10, <1>11, <1>12, <1>13, <1>14, <1>15, NextCases

\* Only countsRemove and a restart end a trim.
LEMMA TrimmingCases ==
  ASSUME Typed, [Next]_vars, Trimming
  PROVE  countsRemove \/ (rows' = rows)
  <1> USE DEF limits, refreshSlot, tableVars, Free
  <1>1. excess # 0 /\ excess' # excess
    BY TableAssumption DEF Trimming, Typed, TableTypeOK
  <1>2. CASE trimEnds \/ restart
    BY <1>2 DEF trimEnds, restart, initLogCount
  <1>3. CASE UNCHANGED vars
    BY <1>1, <1>3 DEF vars
  <1>4. CASE on_loginBtn_clicked \/ usrLand \/ quitWidget \/ on_addBtn_clicked
              \/ on_modifyBtn_clicked \/ modifyBtn \/ delBtn \/ removeRow \/ cancel
              \/ on_clearBtn_clicked \/ on_pcBtn_clicked \/ coreWritesLog \/ trimStarts
    BY <1>1, <1>4 DEF on_loginBtn_clicked, usrLand, quitWidget, on_addBtn_clicked,
       on_modifyBtn_clicked, modifyBtn, delBtn, removeRow, cancel, on_clearBtn_clicked,
       clearTableSlot, on_pcBtn_clicked, writeLogCount, coreWritesLog, insertLog, trimStarts, autoDelSlot
  <1>5. ASSUME NEW name \in Names, NEW jur \in BOOLEAN, addUser(name, jur)
        PROVE  rows' = rows
    BY <1>1, <1>5 DEF addUser
  <1>6. ASSUME NEW jur \in BOOLEAN, updateItem(jur)
        PROVE  rows' = rows
    BY <1>1, <1>6 DEF updateItem
  <1>7. ASSUME NEW id \in view, click(id)
        PROVE  rows' = rows
    BY <1>7 DEF click, select
  <1>8. QED
    BY <1>2, <1>3, <1>4, <1>5, <1>6, <1>7, NextCases

\* A trim takes the oldest rows only and leaves as many as the limit.
THEOREM TrimCorrect == Spec => TrimKeepsNewest
  <1>1. Init => Typed /\ Surplus
    BY InitTyped DEF Init, Surplus
  <1>2. Typed /\ Surplus /\ [Next]_vars => Typed' /\ Surplus'
    BY StepTyped, SurplusStep
  <1>3. Typed /\ Surplus /\ [Next]_vars =>
          [Trimming => /\ Cardinality(rows') >= logCount
                       /\ \A gone \in rows \ rows', kept \in rows' : gone < kept]_tableVars
    <2> SUFFICES ASSUME Typed, Surplus, [Next]_vars, Trimming
                 PROVE  /\ Cardinality(rows') >= logCount
                        /\ \A gone \in rows \ rows', kept \in rows' : gone < kept
      OBVIOUS
    <2>1. TableTypeOK /\ counts \in Nat /\ logCount \in Nat /\ excess \in Nat /\ excess > 0
      BY CountsType, TableAssumption DEF Typed, TableTypeOK, Trimming
    <2>2. counts >= logCount + excess
      BY <2>1 DEF Surplus
    <2>3. CASE countsRemove
      <3>1. /\ Cardinality(rows') >= counts - excess
            /\ \A gone \in rows \ rows', kept \in rows' : gone < kept
        BY <2>1, <2>3, RemoveKeeps
      <3>2. IsFiniteSet(rows) /\ rows' \in SUBSET rows
        BY <2>1, <2>3, CountsType DEF countsRemove
      <3>3. Cardinality(rows') \in Nat
        BY <3>2, FS_Subset, FS_CardinalityType
      <3>4. QED
        BY <2>1, <2>2, <3>1, <3>3
    <2>4. CASE rows' = rows
      <3>1. Cardinality(rows') = counts /\ rows \ rows' = {}
        BY <2>4 DEF counts
      <3>2. QED
        BY <2>1, <2>2, <3>1
    <2>5. QED
      BY <2>3, <2>4, TrimmingCases
  <1>4. QED
    BY <1>1, <1>2, <1>3, PTL DEF Spec, TrimKeepsNewest

-----------------------------------------------------------------------------
(* The page and the question whether to delete *)

\* Until a trim the page and its dialogs are about accounts that exist, and
\* nothing is looked up in vain.
LEMMA ShowsRowsStep ==
  ASSUME Typed, ShowsRows, CrashNeedsTrim, [Next]_vars
  PROVE  ShowsRows' /\ CrashNeedsTrim'
  <1> USE DEF limits, refreshSlot, tableVars, session, Free, OnUsers, Missing, Fails, dismiss, open,
      Closed
  <1>1. /\ 0 \notin rows /\ current \in view \cup {0}
        /\ table # "users" => dlg.kind \in {"none", "land"}
    BY TableAssumption DEF Typed, TableTypeOK, Separate
  <1>2. ASSUME UNCHANGED <<crashed, trimmed>>
        PROVE  CrashNeedsTrim'
    BY <1>2, Zenon DEF CrashNeedsTrim
  <1>3. ASSUME UNCHANGED <<table, rows, view, trimmed>>,
               dlg' = dlg \/ dlg'.kind \in {"none", "land", "add"}
        PROVE  ShowsRows'
    BY <1>3, Zenon DEF ShowsRows
  <1>4. ASSUME UNCHANGED <<table, rows, trimmed>>, view' = rows',
               dlg' = dlg \/ dlg'.kind \in {"none", "land", "add"}
        PROVE  ShowsRows'
    BY <1>4, Zenon DEF ShowsRows
  <1>5. CASE on_loginBtn_clicked \/ usrLand \/ quitWidget \/ on_addBtn_clicked
    BY <1>2, <1>3, <1>5 DEF on_loginBtn_clicked, usrLand, quitWidget, on_addBtn_clicked
  <1>6. ASSUME NEW id \in view, click(id)
        PROVE  ShowsRows' /\ CrashNeedsTrim'
    BY <1>2, <1>3, <1>6 DEF click, select
  <1>7. CASE on_modifyBtn_clicked
    <2>1. table = "users" /\ current # 0 /\ dlg'.id = current
      BY <1>7 DEF on_modifyBtn_clicked
    <2>2. ~trimmed => current \in rows
      BY <1>1, <2>1 DEF ShowsRows
    <2>3. UNCHANGED <<table, rows, view, crashed, trimmed>>
      BY <1>7 DEF on_modifyBtn_clicked
    <2>4. QED
      BY <1>2, <2>1, <2>2, <2>3 DEF ShowsRows
  <1>8. CASE modifyBtn
    <2>1. UNCHANGED <<table, rows, view, trimmed>> /\ table = "users" /\ dlg.kind = "askModify"
      BY <1>1, <1>8 DEF modifyBtn
    <2>2. CASE dlg.id \in rows
      <3>1. dlg'.id \in rows /\ crashed' = crashed
        BY <1>8, <2>2 DEF modifyBtn
      <3>2. QED
        BY <1>2, <2>1, <3>1 DEF ShowsRows
    <2>3. CASE dlg.id \notin rows
      <3>1. trimmed
        BY <2>1, <2>3 DEF ShowsRows, Typed, FlagsOK
      <3>2. QED
        BY <2>1, <3>1 DEF ShowsRows, CrashNeedsTrim
    <2>4. QED
      BY <2>2, <2>3
  <1>9. CASE delBtn
    <2>1. UNCHANGED <<table, rows, view, trimmed>> /\ table = "users" /\ current # 0
      BY <1>9 DEF delBtn
    <2>2. CASE current \in rows
      <3>1. dlg'.id \in rows /\ crashed' = crashed
        BY <1>9, <2>2 DEF delBtn
      <3>2. QED
        BY <1>2, <2>1, <3>1 DEF ShowsRows
    <2>3. CASE current \notin rows
      <3>1. trimmed
        BY <1>1, <2>1, <2>3 DEF ShowsRows, Typed, FlagsOK
      <3>2. QED
        BY <2>1, <3>1 DEF ShowsRows, CrashNeedsTrim
    <2>4. QED
      BY <2>2, <2>3
  <1>10. CASE cancel
    <2>1. UNCHANGED <<table, rows, crashed, trimmed>> /\ dlg'.kind = "none"
      BY <1>10 DEF cancel
    <2>2. view' = rows' \/ view' = view
      BY <1>10 DEF cancel
    <2>3. QED
      BY <1>2, <1>3, <1>4, <2>1, <2>2
  <1>11. CASE removeRow
    <2>1. /\ UNCHANGED <<table, crashed, trimmed>> /\ dlg'.kind = "none"
          /\ rows' = rows \ {current}
      BY <1>11 DEF removeRow
    <2>2. CASE current = 0
      <3>1. rows' = rows /\ view' = view
        BY <1>1, <1>11, <2>1, <2>2 DEF removeRow
      <3>2. QED
        BY <1>2, <1>3, <2>1, <3>1
    <2>3. CASE current # 0
      <3>1. view' = rows'
        BY <1>11, <2>3 DEF removeRow
      <3>2. QED
        BY <1>2, <2>1, <3>1 DEF ShowsRows
    <2>4. QED
      BY <2>2, <2>3
  <1>12. ASSUME NEW name \in Names, NEW jur \in BOOLEAN, addUser(name, jur)
         PROVE  ShowsRows' /\ CrashNeedsTrim'
    <2>1. UNCHANGED <<crashed, trimmed>> /\ dlg'.kind = "none" /\ view' = rows'
      BY <1>12 DEF addUser
    <2>2. QED
      BY <1>2, <2>1 DEF ShowsRows
  <1>13. ASSUME NEW jur \in BOOLEAN, updateItem(jur)
         PROVE  ShowsRows' /\ CrashNeedsTrim'
    BY <1>2, <1>4, <1>13 DEF updateItem
  <1>14. CASE coreWritesLog \/ on_clearBtn_clicked
    <2>1. table' = "logs" /\ UNCHANGED <<crashed, trimmed>>
      BY <1>14 DEF coreWritesLog, on_clearBtn_clicked
    <2>2. QED
      BY <1>2, <2>1 DEF ShowsRows
  <1>15. CASE on_pcBtn_clicked
    BY <1>2, <1>3, <1>15 DEF on_pcBtn_clicked, writeLogCount
  <1>16. CASE trimStarts
    BY <1>2, <1>4, <1>16 DEF trimStarts, autoDelSlot
  <1>17. CASE trimEnds
    BY <1>17 DEF trimEnds, ShowsRows, CrashNeedsTrim
  <1>18. CASE restart
    <2>1. dlg'.kind = "land" /\ view' = rows' /\ crashed' = FALSE
      BY <1>18 DEF restart, initLogCount
    <2>2. QED
      BY <2>1 DEF ShowsRows, CrashNeedsTrim
  <1>19. CASE UNCHANGED vars
    BY <1>2, <1>3, <1>19 DEF vars
  <1>20. QED
    BY <1>5, <1>6, <1>7, <1>8, <1>9, <1>10, <1>11, <1>12, <1>13, <1>14, <1>15, <1>16, <1>17, <1>18,
       <1>19, NextCases

\* The page never acts on an account that is gone, unless the timer took it.
THEOREM CrashCorrect == Spec => []CrashNeedsTrim
  <1>1. Init => Typed /\ ShowsRows /\ CrashNeedsTrim
    BY InitTyped DEF Init, ShowsRows, CrashNeedsTrim, Closed
  <1>2. Typed /\ ShowsRows /\ CrashNeedsTrim /\ [Next]_vars
          => Typed' /\ ShowsRows' /\ CrashNeedsTrim'
    BY StepTyped, ShowsRowsStep
  <1>3. QED
    BY <1>1, <1>2, PTL DEF Spec

\* While the question is open the selection can only be lost, and nobody's
\* name changes.
LEMMA AskedStep ==
  ASSUME Typed, Asked, [Next]_vars
  PROVE  Asked'
  <1> USE DEF limits, refreshSlot, tableVars, session, Free, OnUsers, Missing, Fails, dismiss, open,
      Closed
  <1>1. ASSUME dlg'.kind # "askDelete" \/ current' = 0
        PROVE  Asked'
    BY <1>1 DEF Asked
  <1>2. CASE on_loginBtn_clicked \/ usrLand \/ on_addBtn_clicked \/ on_modifyBtn_clicked \/ cancel
             \/ removeRow \/ trimStarts \/ restart \/ on_clearBtn_clicked
    BY <1>1, <1>2 DEF on_loginBtn_clicked, usrLand, on_addBtn_clicked, on_modifyBtn_clicked, cancel,
       removeRow, trimStarts, autoDelSlot, restart, on_clearBtn_clicked, clearTableSlot
  <1>3. CASE modifyBtn
    BY <1>1, <1>3 DEF modifyBtn
  <1>4. CASE quitWidget \/ on_pcBtn_clicked
    BY <1>1, <1>4 DEF quitWidget, on_pcBtn_clicked
  <1>5. ASSUME NEW id \in view, click(id)
        PROVE  Asked'
    BY <1>1, <1>5 DEF click
  <1>6. CASE delBtn
    <2>1. CASE current \in rows
      BY <1>6, <2>1 DEF delBtn, Asked
    <2>2. CASE current \notin rows
      BY <1>1, <1>6, <2>2 DEF delBtn
    <2>3. QED
      BY <2>1, <2>2
  <1>7. ASSUME NEW name \in Names, NEW jur \in BOOLEAN, addUser(name, jur)
        PROVE  Asked'
    BY <1>1, <1>7 DEF addUser
  <1>8. ASSUME NEW jur \in BOOLEAN, updateItem(jur)
        PROVE  Asked'
    BY <1>1, <1>8 DEF updateItem
  <1>9. CASE coreWritesLog
    BY <1>1, <1>9 DEF coreWritesLog, Typed, Separate
  <1>10. CASE trimEnds
    <2>1. /\ rows' \subseteq rows /\ UNCHANGED <<dlg, current, user, table>>
          /\ account' = [id \in DOMAIN account \cap rows' |-> account[id]]
      BY <1>10 DEF trimEnds, countsRemove
    <2>2. CASE table = "users"
      <3>1. \A id \in rows' : account'[id] = account[id]
        BY <2>1, <2>2 DEF Typed, AccountsOK
      <3>2. QED
        BY <2>1, <3>1 DEF Asked
    <2>3. CASE table # "users"
      BY <1>1, <2>1, <2>3 DEF Typed, Separate
    <2>4. QED
      BY <2>2, <2>3
  <1>11. CASE UNCHANGED vars
    BY <1>11, Zenon DEF vars, Asked
  <1>12. QED
    BY <1>2, <1>3, <1>4, <1>5, <1>6, <1>7, <1>8, <1>9, <1>10, <1>11, NextCases

\* Outside of trims and restarts an account disappears only if it is the one the
\* operator was asked about, and never his own.
THEOREM DeleteCorrect == Spec => DeletesWhatWasAsked
  <1>1. Init => Typed /\ Asked
    BY InitTyped DEF Init, Asked
  <1>2. Typed /\ Asked /\ [Next]_vars => Typed' /\ Asked'
    BY StepTyped, AskedStep
  <1>3. Typed /\ Asked /\ [Next]_vars =>
          [table = "users" => \A id \in rows \ rows' :
             Trimming \/ (dlg.kind = "askDelete" /\ dlg.id = id /\ account[id].name # user.name)]_vars
    <2> SUFFICES ASSUME Typed, Asked, [Next]_vars, table = "users", NEW id \in rows, id \notin rows'
                 PROVE  Trimming \/ (dlg.kind = "askDelete" /\ dlg.id = id
                                     /\ account[id].name # user.name)
      OBVIOUS
    <2> USE DEF limits, tableVars
    <2>1. CASE removeRow
      <3>1. dlg.kind = "askDelete" /\ current = id
        BY <2>1 DEF removeRow
      <3>2. current # 0
        BY <3>1, TableAssumption DEF Typed, TableTypeOK
      <3>3. QED
        BY <3>1, <3>2 DEF Asked
    <2>2. CASE trimEnds
      BY <2>2 DEF trimEnds, countsRemove, Trimming
    <2>3. ASSUME rows \subseteq rows'
          PROVE  FALSE
      BY <2>3
    <2>4. CASE on_clearBtn_clicked
      BY <2>4 DEF on_clearBtn_clicked
    <2>5. CASE on_loginBtn_clicked \/ usrLand \/ quitWidget \/ on_addBtn_clicked
               \/ on_modifyBtn_clicked \/ modifyBtn \/ cancel \/ delBtn \/ on_pcBtn_clicked
               \/ coreWritesLog \/ trimStarts \/ restart
      BY <2>3, <2>5 DEF on_loginBtn_clicked, usrLand, quitWidget, on_addBtn_clicked,
         on_modifyBtn_clicked, modifyBtn, cancel, delBtn, on_pcBtn_clicked, writeLogCount,
         coreWritesLog, insertLog, trimStarts, autoDelSlot, restart, initLogCount
    <2>6. ASSUME NEW name \in Names, NEW jur \in BOOLEAN, addUser(name, jur)
          PROVE  FALSE
      BY <2>3, <2>6 DEF addUser
    <2>7. ASSUME NEW jur \in BOOLEAN, updateItem(jur)
          PROVE  FALSE
      BY <2>3, <2>7 DEF updateItem
    <2>8. ASSUME NEW row \in view, click(row)
          PROVE  FALSE
      BY <2>3, <2>8 DEF click, select
    <2>9. CASE UNCHANGED vars
      BY <2>3, <2>9 DEF vars
    <2>10. QED
      BY <2>1, <2>2, <2>4, <2>5, <2>6, <2>7, <2>8, <2>9, NextCases
  <1>4. QED
    BY <1>1, <1>2, <1>3, PTL DEF Spec, DeletesWhatWasAsked
=============================================================================
