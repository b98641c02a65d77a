------------------------- MODULE ProgressListProofs -------------------------
(***************************************************************************)
(* Proofs about ProgressList: the lists of sProgress for every scenario,   *)
(* whatever its threads and however many items and starts it has. All five *)
(* invariants of the module are proved, each from an inductive invariant   *)
(* of its own on top of the types:                                         *)
(*   Lengths  a list of verdicts is as long as its list of texts, and one  *)
(*            longer for every thread between the two appends;             *)
(*   Order    rows, then texts, then the items under way, are ascending    *)
(*            per thread;                                                  *)
(*   Matched  a list of verdicts is its list of texts, and the item under  *)
(*            way between the two appends;                                 *)
(*   Judged   while the result is no failure, only the item under way may  *)
(*            have failed.                                                 *)
(***************************************************************************)
EXTENDS ProgressList, TLAPS

\* The lists, and the rows of the views.
ListNames == {"pass", "itPass", "item", "status"}
Row == [text : Items, verdict : Items]

\* The variables have their types, and an item under way is the thread's own.
Typed ==
  /\ env \in Scenario /\ env \in Scenarios
  /\ step \in {Test_Fun, Test_Start, Test_Over, Test_End}
  /\ result \in {Test_Info, Test_Fail}
  /\ list \in [ListNames -> Seq(Items)]
  /\ at \in [Producers -> 0..5]
  /\ current \in [Producers -> Items \union {NoItem}]
  /\ \A t \in Producers : IF at[t] = 0 THEN current[t] = NoItem
                                       ELSE current[t] \in Items /\ current[t].by = t
  /\ core \in {"idle", "begin", "work"}
  /\ init \in 0..5
  /\ rows \in [Views -> Seq(Row)]
  /\ shown \in {"none", "pass", "fail"}
  /\ items \in Nat

\* The Booleans among the variables.
Flags == crashed \in BOOLEAN /\ torn \in BOOLEAN

-----------------------------------------------------------------------------
(* CrashNeedsInit *)

\* Is the thread t at one of the places of updatePro?
Under(t, places) == IF at[t] \in places THEN 1 ELSE 0


\* The steps enumerated in Next, for the case splits below.
LEMMA NextCases ==
  ASSUME Next
  PROVE  \/ \E t \in Threads, ok \in BOOLEAN, direct \in BOOLEAN : updatePro(t, ok, direct)
         \/ \E t \in Threads : append(t)
         \/ \E t \in Threads : judgeItem(t)
         \/ workDown \/ workResult
         \/ startBtn_clicked \/ clearList \/ initEnds \/ endEarly
         \/ workTimeoutDone \/ tableTimeoutDone
BY DEF Next, Step, reports

\* The Boolean variables keep their type (an obligation without arithmetic).
LEMMA FlagsTyped ==
  ASSUME Flags, [Next]_vars
  PROVE  Flags'
  <1> USE DEF Flags, gui
  <1>1. ASSUME NEW t \in Threads, NEW ok \in BOOLEAN, NEW direct \in BOOLEAN, updatePro(t, ok, direct)
        PROVE  Flags'
    BY <1>1, Zenon DEF updatePro
  <1>2. ASSUME NEW t \in Threads, append(t)
        PROVE  Flags'
    BY <1>2, Zenon DEF append
  <1>3. ASSUME NEW t \in Threads, judgeItem(t)
        PROVE  Flags'
    BY <1>3, Zenon DEF judgeItem
  <1>4. CASE workDown
    BY <1>4, Zenon DEF workDown
  <1>5. CASE workResult
    BY <1>5, Zenon DEF workResult
  <1>6. CASE startBtn_clicked
    BY <1>6, Zenon DEF startBtn_clicked
  <1>7. CASE clearList
    BY <1>7, Zenon DEF clearList
  <1>8. CASE initEnds
    BY <1>8, Zenon DEF initEnds
  <1>9. CASE endEarly
    BY <1>9, Zenon DEF endEarly
  <1>10. CASE workTimeoutDone
    BY <1>10, Zenon DEF workTimeoutDone, showRow
  <1>11. CASE tableTimeoutDone
    BY <1>11, Zenon DEF tableTimeoutDone, showRow
  <1>12. CASE UNCHANGED vars
    BY <1>12, Zenon DEF vars
  <1>13. QED
    BY <1>1, <1>2, <1>3, <1>4, <1>5, <1>6, <1>7, <1>8, <1>9, <1>10, <1>11, <1>12, NextCases

\* The lists and the rows after a timer took a row of view v.
Taken(v) ==
  /\ list[TextList[v]] # <<>> /\ list[VerdictList[v]] # <<>>
  /\ rows' = [rows EXCEPT ![v] = Append(@, [text |-> Head(list[TextList[v]]),
                                            verdict |-> Head(list[VerdictList[v]])])]
  /\ list' = [list EXCEPT ![TextList[v]] = Tail(@), ![VerdictList[v]] = Tail(@)]

\* What the timers do to the lists and the rows.
LEMMA TimersTake ==
  ASSUME workTimeoutDone \/ tableTimeoutDone
  PROVE  \/ UNCHANGED <<list, rows>>
         \/ Taken("log") /\ UNCHANGED crashed
         \/ Taken("table") /\ UNCHANGED crashed
BY DEF workTimeoutDone, tableTimeoutDone, showRow, Taken

\* A row is made of items, and what remains of the lists as well.
LEMMA TakenTyped ==
  ASSUME Typed, NEW v \in Views, Taken(v)
  PROVE  /\ list' \in [ListNames -> Seq(Items)]
         /\ rows' \in [Views -> Seq(Row)]
  <1>1. TextList[v] \in ListNames /\ VerdictList[v] \in ListNames /\ TextList[v] # VerdictList[v]
    BY DEF Views, TextList, VerdictList, ListNames
  <1>2. list[TextList[v]] \in Seq(Items) /\ list[VerdictList[v]] \in Seq(Items)
    BY <1>1 DEF Typed
  <1>3. Head(list[TextList[v]]) \in Items /\ Head(list[VerdictList[v]]) \in Items
    BY <1>2 DEF Taken
  <1>4. Tail(list[TextList[v]]) \in Seq(Items) /\ Tail(list[VerdictList[v]]) \in Seq(Items)
    BY <1>2 DEF Taken
  <1>5. list' \in [ListNames -> Seq(Items)]
    BY <1>1, <1>4 DEF Taken, Typed
  <1> DEFINE row == [text |-> Head(list[TextList[v]]), verdict |-> Head(list[VerdictList[v]])]
  <1>6. row \in Row
    BY <1>3 DEF Row
  <1> HIDE DEF row
  <1>7. Append(rows[v], row) \in Seq(Row)
    BY <1>6 DEF Typed
  <1>8. rows' = [rows EXCEPT ![v] = Append(rows[v], row)]
    BY DEF Taken, row
  <1>9. rows' \in [Views -> Seq(Row)]
    BY <1>7, <1>8 DEF Typed
  <1>10. QED
    BY <1>5, <1>9

\* Every step keeps the types and the thread of an item under way.
LEMMA StepTyped ==
  ASSUME Typed, [Next]_vars
  PROVE  Typed'
  <1> USE DEF Typed, gui, producers, Test_Fun, Test_Start, Test_Over, Test_End, Test_Info, Test_Pass, Test_Fail, Producers
  <1>0. Threads \subseteq Producers
    BY DEF Threads, Scenario
  <1>1. ASSUME NEW t \in Threads, NEW ok \in BOOLEAN, NEW direct \in BOOLEAN, updatePro(t, ok, direct)
        PROVE  Typed'
    <2>1. t \in Producers
      BY <1>0
    <2> DEFINE item == [id |-> items + 1, by |-> t, ok |-> ok]
    <2>2. item \in Items /\ item.by = t
      BY <2>1 DEF Items
    <2> HIDE DEF item
    <2>3. at' = [at EXCEPT ![t] = 1] /\ current' = [current EXCEPT ![t] = item] /\ items' = items + 1
      BY <1>1 DEF updatePro, item
    <2>4. UNCHANGED <<step, result, list, core, env, init, rows, shown>>
      BY <1>1 DEF updatePro
    <2>5. QED
      BY <2>1, <2>2, <2>3, <2>4
  <1>2. ASSUME NEW t \in Threads, append(t)
        PROVE  Typed'
    <2>1. t \in Producers /\ at[t] \in 1..4 /\ current[t] \in Items
      BY <1>0, <1>2 DEF append
    <2>2. Lists[at[t]] \in ListNames
      BY <2>1 DEF Lists, ListNames
    <2>3. list' = [list EXCEPT ![Lists[at[t]]] = Append(@, current[t])]
      BY <1>2 DEF append
    <2>4. list' \in [ListNames -> Seq(Items)]
      BY <2>1, <2>2, <2>3
    <2>5. at' = [at EXCEPT ![t] = @ + 1] /\ UNCHANGED <<step, result, current, items, core, env, init, rows, shown>>
      BY <1>2 DEF append
    <2>6. QED
      BY <2>1, <2>4, <2>5
  <1>3. ASSUME NEW t \in Threads, judgeItem(t)
        PROVE  Typed'
    BY <1>0, <1>3 DEF judgeItem
  <1>4. CASE workDown
    BY <1>4 DEF workDown
  <1>5. CASE workResult
    BY <1>5 DEF workResult
  <1>6. CASE startBtn_clicked
    BY <1>6 DEF startBtn_clicked, Looping
  <1>7. CASE clearList
    <2>1. Lists[init] \in ListNames
      BY <1>7 DEF clearList, Lists, ListNames
    <2>2. list' \in [ListNames -> Seq(Items)]
      BY <2>1, <1>7 DEF clearList
    <2>3. QED
      BY <2>2, <1>7 DEF clearList
  <1>8. CASE initEnds
    BY <1>8 DEF initEnds
  <1>9. CASE endEarly
    BY <1>9 DEF endEarly
  <1>10. CASE workTimeoutDone \/ tableTimeoutDone
    <2>1. /\ list' \in [ListNames -> Seq(Items)]
          /\ rows' \in [Views -> Seq(Row)]
      BY <1>10, TimersTake, TakenTyped DEF Views
    <2>2. UNCHANGED <<env, result, producers, core, init>>
      BY <1>10 DEF workTimeoutDone, tableTimeoutDone
    <2>3. step' \in {step, Test_End} /\ shown' \in {shown, "pass", "fail"}
      BY <1>10 DEF workTimeoutDone, tableTimeoutDone, updateResult
    <2>4. QED
      BY <2>1, <2>2, <2>3
  <1>11. CASE UNCHANGED vars
    BY <1>11 DEF vars
  <1>12. QED
    BY <1>1, <1>2, <1>3, <1>4, <1>5, <1>6, <1>7, <1>8, <1>9, <1>10, <1>11, NextCases

\* The program starts with its variables typed.
LEMMA InitTyped ==
  ASSUME Init
  PROVE  Typed /\ Flags
  <1>1. env \in Scenario
    BY ListAssumption DEF Init
  <1>2. NoItem \in Items \union {NoItem}
    OBVIOUS
  <1>3. Typed
    BY <1>1, <1>2 DEF Init, Typed, ListNames, Test_Fun, Test_Start, Test_Over, Test_End, Test_Info, Test_Pass, Test_Fail, Producers, Views
  <1>4. QED
    BY <1>3 DEF Init, Flags

\* The lists hold items, the rows pair items, and a thread has an item under
\* way just while it is inside updatePro.
THEOREM TypeCorrect == Spec => []TypeOK
  <1>1. Init => Typed /\ Flags
    BY InitTyped
  <1>2. Typed /\ Flags /\ [Next]_vars => (Typed /\ Flags)'
    BY StepTyped, FlagsTyped
  <1>3. Typed /\ Flags => TypeOK
    <2>1. Typed => \A l \in DOMAIN list : list[l] \in Seq(Items)
      BY DEF Typed
    <2>2. Typed => \A t \in Producers : current[t] \in (IF at[t] = 0 THEN {NoItem} ELSE Items)
      BY DEF Typed
    <2>3. QED
      BY <2>1, <2>2, Zenon DEF Typed, Flags, TypeOK, Row
  <1>4. QED
    BY <1>1, <1>2, <1>3, PTL DEF Spec

\* By how much a list of verdicts is ahead of its list of texts, and how many
\* threads are between the two appends.
Lead(verdicts, texts) == Len(list[verdicts]) - Len(list[texts])
LogLead    == Lead("pass", "status")
TableLead  == Lead("itPass", "item")
LogUnder   == Under("core", 2..4) + Under("udp", 2..4)
TableUnder == Under("core", {3}) + Under("udp", {3})

\* Unless an item was cut by a start, a verdict is there for every text and
\* for every thread that has appended the one and not yet the other; an
\* exception is the view that is being cleared.
Lengths ==
  ~torn => /\ init \notin 2..4 => LogLead >= LogUnder
           /\ init # 3 => TableLead >= TableUnder

\* The leads and the numbers of threads between two appends are numbers.
LEMMA LeadsTyped ==
  ASSUME Typed
  PROVE  /\ LogLead \in Int /\ TableLead \in Int /\ LogUnder \in 0..2 /\ TableUnder \in 0..2
         /\ \A l \in ListNames : list[l] \in Seq(Items) /\ Len(list[l]) \in Nat
  <1>1. \A l \in ListNames : list[l] \in Seq(Items) /\ Len(list[l]) \in Nat
    BY DEF Typed
  <1>2. QED
    BY <1>1 DEF ListNames, LogLead, TableLead, Lead, LogUnder, TableUnder, Under

\* An append closes the gap, or widens it.
LEMMA AppendLeads ==
  ASSUME Typed, NEW t \in Producers, append(t)
  PROVE  /\ LogLead - LogUnder = (LogLead - LogUnder)'
         /\ TableLead - TableUnder = (TableLead - TableUnder)'
  <1>1. /\ at[t] \in 1..4 /\ current[t] \in Items
        /\ at' = [at EXCEPT ![t] = @ + 1]
        /\ list' = [list EXCEPT ![Lists[at[t]]] = Append(@, current[t])]
    BY DEF append, Typed
  <1>2. \A l \in ListNames : list[l] \in Seq(Items) /\ Len(list[l]) \in Nat
    BY LeadsTyped
  <1>3. \A l \in ListNames : Len(Append(list[l], current[t])) = Len(list[l]) + 1
    BY <1>1, <1>2
  <1>4. DOMAIN list = ListNames
    BY DEF Typed
  <1>5. at \in [Producers -> 0..5]
    BY DEF Typed
  <1> DEFINE grow(n) == IF at[t] = n THEN 1 ELSE 0
  <1>6. /\ LogLead' = LogLead + grow(1) - grow(4)
        /\ TableLead' = TableLead + grow(2) - grow(3)
    <2>1. CASE at[t] = 1
      BY <2>1, <1>1, <1>2, <1>3, <1>4 DEF Lists, ListNames, LogLead, TableLead, Lead
    <2>2. CASE at[t] = 2
      BY <2>2, <1>1, <1>2, <1>3, <1>4 DEF Lists, ListNames, LogLead, TableLead, Lead
    <2>3. CASE at[t] = 3
      BY <2>3, <1>1, <1>2, <1>3, <1>4 DEF Lists, ListNames, LogLead, TableLead, Lead
    <2>4. CASE at[t] = 4
      BY <2>4, <1>1, <1>2, <1>3, <1>4 DEF Lists, ListNames, LogLead, TableLead, Lead
    <2>5. QED
      BY <1>1, <2>1, <2>2, <2>3, <2>4
  <1>7. /\ LogUnder' = LogUnder + grow(1) - grow(4)
        /\ TableUnder' = TableUnder + grow(2) - grow(3)
    BY <1>1, <1>5 DEF Under, LogUnder, TableUnder, Producers
  <1>8. LogLead \in Int /\ TableLead \in Int /\ LogUnder \in 0..2 /\ TableUnder \in 0..2
    BY LeadsTyped
  <1>9. grow(1) \in Int /\ grow(2) \in Int /\ grow(3) \in Int /\ grow(4) \in Int
    OBVIOUS
  <1> HIDE DEF grow
  <1>10. QED
    BY <1>6, <1>7, <1>8, <1>9

\* A timer takes a text and its verdict.
LEMMA TakenLeads ==
  ASSUME Typed, NEW v \in Views, Taken(v)
  PROVE  LogLead' = LogLead /\ TableLead' = TableLead
  <1>1. /\ list[TextList[v]] # <<>> /\ list[VerdictList[v]] # <<>>
        /\ list' = [list EXCEPT ![TextList[v]] = Tail(@), ![VerdictList[v]] = Tail(@)]
    BY DEF Taken
  <1>2. \A l \in ListNames : list[l] \in Seq(Items) /\ Len(list[l]) \in Nat
    BY LeadsTyped
  <1>3. \A l \in ListNames : list[l] # <<>> => Len(Tail(list[l])) = Len(list[l]) - 1
    BY <1>2
  <1>4. DOMAIN list = ListNames
    BY DEF Typed
  <1>5. CASE v = "log"
    <2>1. /\ list'["status"] = Tail(list["status"]) /\ list'["pass"] = Tail(list["pass"])
          /\ list'["item"] = list["item"] /\ list'["itPass"] = list["itPass"]
          /\ list["status"] # <<>> /\ list["pass"] # <<>>
      BY <1>1, <1>4, <1>5 DEF TextList, VerdictList, ListNames
    <2>2. "status" \in ListNames /\ "pass" \in ListNames
      BY DEF ListNames
    <2>3. Len(list'["status"]) = Len(list["status"]) - 1 /\ Len(list'["pass"]) = Len(list["pass"]) - 1
      BY <1>3, <2>1, <2>2
    <2>4. Len(list["status"]) \in Nat /\ Len(list["pass"]) \in Nat
      BY <1>2, <2>2
    <2>5. Len(list'["pass"]) - Len(list'["status"]) = Len(list["pass"]) - Len(list["status"])
      BY <2>3, <2>4
    <2>6. QED
      BY <2>1, <2>5 DEF LogLead, TableLead, Lead
  <1>6. CASE v = "table"
    <2>1. /\ list'["item"] = Tail(list["item"]) /\ list'["itPass"] = Tail(list["itPass"])
          /\ list'["status"] = list["status"] /\ list'["pass"] = list["pass"]
          /\ list["item"] # <<>> /\ list["itPass"] # <<>>
      BY <1>1, <1>4, <1>6 DEF TextList, VerdictList, ListNames
    <2>2. "item" \in ListNames /\ "itPass" \in ListNames
      BY DEF ListNames
    <2>3. Len(list'["item"]) = Len(list["item"]) - 1 /\ Len(list'["itPass"]) = Len(list["itPass"]) - 1
      BY <1>3, <2>1, <2>2
    <2>4. Len(list["item"]) \in Nat /\ Len(list["itPass"]) \in Nat
      BY <1>2, <2>2
    <2>5. Len(list'["itPass"]) - Len(list'["item"]) = Len(list["itPass"]) - Len(list["item"])
      BY <2>3, <2>4
    <2>6. QED
      BY <2>1, <2>5 DEF LogLead, TableLead, Lead
  <1>7. QED
    BY <1>5, <1>6 DEF Views

\* With nobody under way, what is cleared restores the lead of its view.
LEMMA ClearLeads ==
  ASSUME Typed, clearList, Idle
  PROVE  /\ LogUnder' = 0 /\ TableUnder' = 0
         /\ init = 3 => TableLead' >= 0
         /\ init = 4 => LogLead' >= 0 /\ TableLead' = TableLead
         /\ init = 1 => TableLead' = TableLead
  <1>1. /\ init \in 1..4 /\ init' = init + 1 /\ at' = at
        /\ list' = [list EXCEPT ![Lists[init]] = <<>>]
    BY DEF clearList, producers
  <1>2. \A l \in ListNames : list[l] \in Seq(Items) /\ Len(list[l]) \in Nat
    BY LeadsTyped
  <1>3. DOMAIN list = ListNames
    BY DEF Typed
  <1>4. LogUnder' = 0 /\ TableUnder' = 0
    BY <1>1 DEF LogUnder, TableUnder, Under, Idle, Producers
  <1>5. init = 1 => TableLead' = TableLead
    BY <1>1, <1>2, <1>3 DEF Lists, ListNames, TableLead, Lead
  <1>6. init = 3 => TableLead' >= 0
    BY <1>1, <1>2, <1>3 DEF Lists, ListNames, TableLead, Lead
  <1>7. init = 4 => LogLead' >= 0 /\ TableLead' = TableLead
    BY <1>1, <1>2, <1>3 DEF Lists, ListNames, TableLead, LogLead, Lead
  <1>8. QED
    BY <1>4, <1>5, <1>6, <1>7

\* Every step keeps the lengths of the lists in step.
LEMMA LengthsKept ==
  ASSUME Typed, Lengths, [Next]_vars
  PROVE  Lengths'
  <1>0. Threads \subseteq Producers
    BY DEF Threads, Scenario, Typed
  <1> DEFINE leads == <<LogLead, TableLead, LogUnder, TableUnder>>
  <1>a. LogLead \in Int /\ TableLead \in Int /\ LogUnder \in 0..2 /\ TableUnder \in 0..2
    BY LeadsTyped
  <1>b. LogLead' \in Int /\ TableLead' \in Int /\ LogUnder' \in 0..2 /\ TableUnder' \in 0..2
    <2>1. Typed'
      BY StepTyped
    <2>2. \A l \in ListNames : list'[l] \in Seq(Items) /\ Len(list'[l]) \in Nat
      BY <2>1 DEF Typed
    <2>3. QED
      BY <2>2 DEF ListNames, LogLead, TableLead, Lead, LogUnder, TableUnder, Under
  <1>c. list' = list => LogLead' = LogLead /\ TableLead' = TableLead
    BY DEF LogLead, TableLead, Lead
  <1>d. at' = at => LogUnder' = LogUnder /\ TableUnder' = TableUnder
    BY DEF LogUnder, TableUnder, Under
  <1>e. ASSUME NEW t \in Producers, NEW n \in {0, 1}, at' = [at EXCEPT ![t] = n], at[t] \in {0, 5}
        PROVE  LogUnder' = LogUnder /\ TableUnder' = TableUnder
    BY <1>e DEF LogUnder, TableUnder, Under, Typed, Producers
  <1>1. ASSUME NEW t \in Threads, NEW ok \in BOOLEAN, NEW direct \in BOOLEAN, updatePro(t, ok, direct)
        PROVE  Lengths'
    <2>1. /\ t \in Producers /\ at[t] = 0 /\ at' = [at EXCEPT ![t] = 1]
          /\ UNCHANGED <<list, torn, init>>
      BY <1>0, <1>1 DEF updatePro, gui
    <2>2. UNCHANGED leads
      BY <2>1, <1>c, <1>e
    <2>3. QED
      BY <2>1, <2>2 DEF Lengths
  <1>2. ASSUME NEW t \in Threads, append(t)
        PROVE  Lengths'
    <2>1. UNCHANGED <<torn, init>>
      BY <1>2 DEF append, gui
    <2>2. /\ LogLead - LogUnder = LogLead' - LogUnder'
          /\ TableLead - TableUnder = TableLead' - TableUnder'
      BY <1>0, <1>2, AppendLeads
    <2>3. \A a, b, c, d \in Int : a - b = c - d /\ a >= b => c >= d
      OBVIOUS
    <2>5. LogUnder \in Int /\ TableUnder \in Int /\ LogUnder' \in Int /\ TableUnder' \in Int
      BY <1>a, <1>b
    <2>6. LogLead >= LogUnder => LogLead' >= LogUnder'
      BY <2>2, <2>3, <2>5, <1>a, <1>b, Zenon
    <2>4. TableLead >= TableUnder => TableLead' >= TableUnder'
      BY <2>2, <2>3, <2>5, <1>a, <1>b, Zenon
    <2>7. QED
      BY <2>1, <2>4, <2>6 DEF Lengths
  <1>3. ASSUME NEW t \in Threads, judgeItem(t)
        PROVE  Lengths'
    <2>1. /\ t \in Producers /\ at[t] = 5 /\ at' = [at EXCEPT ![t] = 0]
          /\ UNCHANGED <<list, torn, init>>
      BY <1>0, <1>3 DEF judgeItem, gui
    <2>2. UNCHANGED leads
      BY <2>1, <1>c, <1>e
    <2>3. QED
      BY <2>1, <2>2 DEF Lengths
  <1>4. CASE workDown \/ workResult \/ endEarly \/ UNCHANGED vars
    <2>1. UNCHANGED <<list, torn, init, at>>
      BY <1>4 DEF workDown, workResult, endEarly, vars, gui, producers
    <2>2. QED
      BY <2>1, <1>c, <1>d DEF Lengths
  <1>5. CASE startBtn_clicked
    <2>1. UNCHANGED <<list, at>> /\ init = 0 /\ init' = 1
      BY <1>5 DEF startBtn_clicked, producers, Looping
    <2>2. ~torn' => ~torn
      BY <1>5, Zenon DEF startBtn_clicked
    <2>3. QED
      BY <2>1, <2>2, <1>c, <1>d DEF Lengths
  <1>6. CASE clearList
    <2>1. init \in 1..4 /\ init' = init + 1
      BY <1>6 DEF clearList
    <2>2. ~torn' => ~torn /\ Idle
      BY <1>6, Zenon DEF clearList
    <2> SUFFICES ASSUME ~torn', ~torn, Idle
                 PROVE  Lengths'
      BY <2>2, Zenon DEF Lengths
    <2>3. /\ LogUnder' = 0 /\ TableUnder' = 0
          /\ init = 3 => TableLead' >= 0
          /\ init = 4 => LogLead' >= 0 /\ TableLead' = TableLead
          /\ init = 1 => TableLead' = TableLead
      BY <1>6, ClearLeads
    <2>4. TableLead >= TableUnder => TableLead >= 0
      BY <1>a
    <2>5. QED
      BY <2>1, <2>3, <2>4 DEF Lengths
  <1>7. CASE initEnds
    <2>1. UNCHANGED <<list, at, torn>> /\ init = 5 /\ init' = 0
      BY <1>7 DEF initEnds, producers
    <2>2. QED
      BY <2>1, <1>c, <1>d DEF Lengths
  <1>8. CASE workTimeoutDone \/ tableTimeoutDone
    <2>1. UNCHANGED <<at, torn, init>>
      BY <1>8 DEF workTimeoutDone, tableTimeoutDone, producers
    <2>2. LogLead' = LogLead /\ TableLead' = TableLead
      BY <1>8, <1>c, TimersTake, TakenLeads DEF Views
    <2>3. QED
      BY <2>1, <2>2, <1>d DEF Lengths
  <1>9. QED
    BY <1>1, <1>2, <1>3, <1>4, <1>5, <1>6, <1>7, <1>8, NextCases

\* The timers find a verdict for every text.
LEMMA VerdictsThere ==
  ASSUME Typed, Lengths, ~torn, init = 0, NEW v \in Views, list[TextList[v]] # <<>>
  PROVE  list[VerdictList[v]] # <<>>
  <1>1. LogLead >= LogUnder /\ TableLead >= TableUnder
    BY DEF Lengths
  <1>2. LogLead >= 0 /\ TableLead >= 0
    BY <1>1, LeadsTyped
  <1>3. \A l \in ListNames : list[l] \in Seq(Items) /\ Len(list[l]) \in Nat
    BY LeadsTyped
  <1>4. \A l \in ListNames : list[l] = <<>> <=> Len(list[l]) = 0
    BY <1>3
  <1>5. CASE v = "log"
    BY <1>2, <1>3, <1>4, <1>5 DEF ListNames, LogLead, Lead, TextList, VerdictList
  <1>6. CASE v = "table"
    BY <1>2, <1>3, <1>4, <1>6 DEF ListNames, TableLead, Lead, TextList, VerdictList
  <1>7. QED
    BY <1>5, <1>6 DEF Views

\* Only a timer reads a list, and it crashes on an empty list of verdicts alone.
LEMMA CrashKept ==
  ASSUME Typed, Flags, Lengths, CrashNeedsInit, [Next]_vars
  PROVE  CrashNeedsInit'
  <1>1. ASSUME NEW t \in Threads, reports(t)
        PROVE  UNCHANGED <<crashed, torn>>
    BY <1>1, Zenon DEF reports, append, judgeItem, gui
  <1>2. ASSUME NEW t \in Threads, NEW ok \in BOOLEAN, NEW direct \in BOOLEAN, updatePro(t, ok, direct)
        PROVE  UNCHANGED <<crashed, torn>>
    BY <1>2, Zenon DEF updatePro, gui
  <1>3. CASE workDown \/ workResult \/ initEnds \/ endEarly \/ UNCHANGED vars
    BY <1>3, Zenon DEF workDown, workResult, initEnds, endEarly, gui, vars, CrashNeedsInit
  <1>4. CASE startBtn_clicked \/ clearList
    BY <1>4, Zenon DEF startBtn_clicked, clearList, CrashNeedsInit
  <1>5. CASE workTimeoutDone
    <2>1. ~torn => (list[TextList["log"]] # <<>> => list[VerdictList["log"]] # <<>>)
      BY <1>5, VerdictsThere DEF workTimeoutDone, Looping, Views
    <2>2. QED
      BY <1>5, <2>1, Zenon DEF workTimeoutDone, showRow, CrashNeedsInit
  <1>6. CASE tableTimeoutDone
    <2>1. ~torn => (list[TextList["table"]] # <<>> => list[VerdictList["table"]] # <<>>)
      BY <1>6, VerdictsThere DEF tableTimeoutDone, Looping, Views
    <2>2. QED
      BY <1>6, <2>1, Zenon DEF tableTimeoutDone, showRow, CrashNeedsInit
  <1>7. QED
    BY <1>1, <1>2, <1>3, <1>4, <1>5, <1>6, Zenon DEF CrashNeedsInit, Next, Step

\* However the two threads and the timers interleave, first() is never called
\* on an empty list unless a start has cleared a list with an item under way:
\* appending the verdict before the text is enough without a lock.
THEOREM CrashTakesInit == Spec => []CrashNeedsInit
  <1> DEFINE Inv == Typed /\ Flags /\ Lengths /\ CrashNeedsInit
  <1>1. Init => Inv
    <2>1. Init => Lengths
      BY DEF Init, Lengths, LogLead, TableLead, Lead, LogUnder, TableUnder, Under, Producers
    <2>2. QED
      BY <2>1, InitTyped DEF Init, CrashNeedsInit
  <1>2. Inv /\ [Next]_vars => Inv'
    BY StepTyped, FlagsTyped, LengthsKept, CrashKept
  <1>3. Inv => CrashNeedsInit
    OBVIOUS
  <1>4. QED
    BY <1>1, <1>2, <1>3, PTL DEF Spec

-----------------------------------------------------------------------------
(* RowsInOrder *)

Before(x, y) == x.by = y.by => x.id < y.id

\* The rows r and then the texts s hold the items of each thread in the order
\* of its calls, none of a later call than n.
InOrder(r, s, n) ==
  /\ \A i, j \in DOMAIN r : i < j => Before(r[i].text, r[j].text)
  /\ \A i \in DOMAIN r, j \in DOMAIN s : Before(r[i].text, s[j])
  /\ \A i, j \in DOMAIN s : i < j => Before(s[i], s[j])
  /\ \A i \in DOMAIN r : r[i].text.id <= n
  /\ \A i \in DOMAIN s : s[i].id <= n

\* The item x is later than what its thread has in r and s.
Follows(x, r, s) ==
  /\ \A i \in DOMAIN r : Before(r[i].text, x)
  /\ \A i \in DOMAIN s : Before(s[i], x)

\* The statement of updatePro that appends the text for a view.
Place == [log |-> 4, table |-> 3]

Order ==
  /\ \A t \in Producers : current[t].id <= items
  /\ \A v \in Views :
       /\ InOrder(rows[v], list[TextList[v]], items)
       /\ \A t \in Producers :
            at[t] \in 1..Place[v] => Follows(current[t], rows[v], list[TextList[v]])

\* What is at an index of a sequence after an append.
LEMMA AppendIndex ==
  ASSUME NEW S, NEW s \in Seq(S), NEW e \in S, NEW i \in DOMAIN Append(s, e)
  PROVE  \/ i \in DOMAIN s /\ Append(s, e)[i] = s[i]
         \/ i = Len(s) + 1 /\ Append(s, e)[i] = e
OBVIOUS

\* What is at an index of a sequence after its first element is removed.
LEMMA TailIndex ==
  ASSUME NEW S, NEW s \in Seq(S), s # <<>>, NEW i \in DOMAIN Tail(s)
  PROVE  i \in Nat /\ i >= 1 /\ i + 1 \in DOMAIN s /\ Tail(s)[i] = s[i + 1]
OBVIOUS

\* The first element is at index 1, the least index.
LEMMA HeadIndex ==
  ASSUME NEW S, NEW s \in Seq(S), s # <<>>
  PROVE  1 \in DOMAIN s /\ Head(s) = s[1] /\ \A i \in DOMAIN s : i \in Nat /\ i >= 1
OBVIOUS

\* The text of an item that is later than all of its thread may be appended.
LEMMA InOrderAppend ==
  ASSUME NEW n \in Nat, NEW r \in Seq(Row), NEW s \in Seq(Items), NEW x \in Items,
         InOrder(r, s, n), Follows(x, r, s), x.id <= n
  PROVE  InOrder(r, Append(s, x), n)
  <1> DEFINE s1 == Append(s, x)
  <1>1. \A i \in DOMAIN s1 : \/ i \in DOMAIN s /\ s1[i] = s[i]
                             \/ i = Len(s) + 1 /\ s1[i] = x
    BY AppendIndex
  <1>2. \A i \in DOMAIN s : i \in Nat /\ i < Len(s) + 1
    OBVIOUS
  <1>a. Len(s) \in Nat
    OBVIOUS
  <1> HIDE DEF s1
  <1>3. \A i \in DOMAIN r, j \in DOMAIN s1 : Before(r[i].text, s1[j])
    BY <1>1, Zenon DEF InOrder, Follows
  <1>4. \A i, j \in DOMAIN s1 : i < j => Before(s1[i], s1[j])
    <2> SUFFICES ASSUME NEW i \in DOMAIN s1, NEW j \in DOMAIN s1, i < j
                 PROVE  Before(s1[i], s1[j])
      OBVIOUS
    <2>1. i \in DOMAIN s /\ s1[i] = s[i]
      BY <1>1, <1>2, <1>a
    <2>2. CASE j \in DOMAIN s /\ s1[j] = s[j]
      BY <2>1, <2>2 DEF InOrder
    <2>3. CASE s1[j] = x
      BY <2>1, <2>3 DEF Follows
    <2>4. QED
      BY <1>1, <2>2, <2>3
  <1>5. \A i \in DOMAIN s1 : s1[i].id <= n
    BY <1>1 DEF InOrder
  <1>6. QED
    BY <1>3, <1>4, <1>5, Zenon DEF InOrder, s1

\* An item stays later when the text of another, earlier one is appended.
LEMMA FollowsAppend ==
  ASSUME NEW r \in Seq(Row), NEW s \in Seq(Items), NEW x \in Items, NEW y,
         Follows(y, r, s), Before(x, y)
  PROVE  Follows(y, r, Append(s, x))
BY AppendIndex, Zenon DEF Follows

\* A timer moves the first text to the end of the rows.
LEMMA InOrderMove ==
  ASSUME NEW n \in Nat, NEW r \in Seq(Row), NEW s \in Seq(Items), s # <<>>,
         NEW row \in Row, row.text = Head(s), InOrder(r, s, n)
  PROVE  InOrder(Append(r, row), Tail(s), n)
  <1> DEFINE r1 == Append(r, row)
             s1 == Tail(s)
  <1>1. \A i \in DOMAIN r1 : \/ i \in DOMAIN r /\ r1[i] = r[i]
                             \/ i = Len(r) + 1 /\ r1[i] = row
    BY AppendIndex
  <1>2. \A i \in DOMAIN r : i \in Nat /\ i < Len(r) + 1
    OBVIOUS
  <1>3. \A i \in DOMAIN s1 : i \in Nat /\ i >= 1 /\ i + 1 \in DOMAIN s /\ s1[i] = s[i + 1]
    BY TailIndex
  <1>4. 1 \in DOMAIN s /\ row.text = s[1]
    BY HeadIndex
  <1>5. Len(r) \in Nat
    OBVIOUS
  <1> HIDE DEF r1, s1
  <1>6. \A i \in DOMAIN s1 : Before(row.text, s1[i])
    BY <1>3, <1>4 DEF InOrder
  <1>7. \A i, j \in DOMAIN r1 : i < j => Before(r1[i].text, r1[j].text)
    <2> SUFFICES ASSUME NEW i \in DOMAIN r1, NEW j \in DOMAIN r1, i < j
                 PROVE  Before(r1[i].text, r1[j].text)
      OBVIOUS
    <2>1. i \in DOMAIN r /\ r1[i] = r[i]
      BY <1>1, <1>2, <1>5
    <2>2. CASE j \in DOMAIN r /\ r1[j] = r[j]
      BY <2>1, <2>2 DEF InOrder
    <2>3. CASE r1[j] = row
      BY <2>1, <2>3, <1>4 DEF InOrder
    <2>4. QED
      BY <1>1, <2>2, <2>3
  <1>8. \A i \in DOMAIN r1, j \in DOMAIN s1 : Before(r1[i].text, s1[j])
    BY <1>1, <1>3, <1>6 DEF InOrder
  <1>9. \A i, j \in DOMAIN s1 : i < j => Before(s1[i], s1[j])
    <2> SUFFICES ASSUME NEW i \in DOMAIN s1, NEW j \in DOMAIN s1, i < j
                 PROVE  Before(s1[i], s1[j])
      OBVIOUS
    <2>1. i + 1 \in DOMAIN s /\ j + 1 \in DOMAIN s /\ i + 1 < j + 1 /\ s1[i] = s[i + 1] /\ s1[j] = s[j + 1]
      BY <1>3
    <2>2. QED
      BY <2>1 DEF InOrder
  <1>10. \A i \in DOMAIN r1 : r1[i].text.id <= n
    BY <1>1, <1>4 DEF InOrder
  <1>11. \A i \in DOMAIN s1 : s1[i].id <= n
    BY <1>3 DEF InOrder
  <1>12. QED
    BY <1>7, <1>8, <1>9, <1>10, <1>11, Zenon DEF InOrder, r1, s1

\* An item stays later when a text becomes a row.
LEMMA FollowsMove ==
  ASSUME NEW r \in Seq(Row), NEW s \in Seq(Items), s # <<>>,
         NEW row \in Row, row.text = Head(s), NEW x, Follows(x, r, s)
  PROVE  Follows(x, Append(r, row), Tail(s))
  <1>1. \A i \in DOMAIN Append(r, row) : \/ i \in DOMAIN r /\ Append(r, row)[i] = r[i]
                                         \/ i = Len(r) + 1 /\ Append(r, row)[i] = row
    BY AppendIndex
  <1>2. \A i \in DOMAIN Tail(s) : i + 1 \in DOMAIN s /\ Tail(s)[i] = s[i + 1]
    BY TailIndex
  <1>3. 1 \in DOMAIN s /\ row.text = s[1]
    BY HeadIndex
  <1>4. QED
    BY <1>1, <1>2, <1>3, Zenon DEF Follows

\* Order is not disturbed by clearing the texts or the rows.
LEMMA InOrderCleared ==
  ASSUME NEW n \in Nat, NEW r \in Seq(Row), NEW s \in Seq(Items), InOrder(r, s, n)
  PROVE  /\ InOrder(r, <<>>, n) /\ InOrder(<<>>, s, n)
         /\ \A x : Follows(x, r, s) => Follows(x, r, <<>>) /\ Follows(x, <<>>, s)
BY DEF InOrder, Follows

\* The item of the next call follows everything.
LEMMA InOrderNext ==
  ASSUME NEW n \in Nat, NEW r \in Seq(Row), NEW s \in Seq(Items), InOrder(r, s, n),
         NEW x \in Items, x.id = n + 1
  PROVE  InOrder(r, s, n + 1) /\ Follows(x, r, s)
  <1>a. \A i \in DOMAIN r : r[i] \in Row
    OBVIOUS
  <1>b. \A i \in DOMAIN s : s[i] \in Items
    OBVIOUS
  <1>1. \A i \in DOMAIN r : r[i].text.id \in Nat
    BY <1>a DEF Row, Items
  <1>2. \A i \in DOMAIN s : s[i].id \in Nat
    BY <1>b DEF Items
  <1>3. Follows(x, r, s)
    BY <1>1, <1>2 DEF InOrder, Follows, Before
  <1>4. InOrder(r, s, n + 1)
    BY <1>1, <1>2 DEF InOrder
  <1>5. QED
    BY <1>3, <1>4

\* Every step keeps rows, texts and items under way ascending per thread.
LEMMA OrderKept ==
  ASSUME Typed, Order, [Next]_vars
  PROVE  Order'
  <1>0. Threads \subseteq Producers
    BY DEF Threads, Scenario, Typed
  <1> DEFINE text(v) == list[TextList[v]]
  <1>a. \A v \in Views : text(v) \in Seq(Items) /\ rows[v] \in Seq(Row) /\ TextList[v] \in ListNames
    BY DEF Typed, Views, TextList, ListNames
  <1>b. items \in Nat /\ at \in [Producers -> 0..5]
    BY DEF Typed
  <1>c. \A v \in Views : Place[v] \in 3..4
    BY DEF Views, Place
  <1>1. ASSUME NEW t \in Threads, NEW ok \in BOOLEAN, NEW direct \in BOOLEAN, updatePro(t, ok, direct)
        PROVE  Order'
    <2> DEFINE item == [id |-> items + 1, by |-> t, ok |-> ok]
    <2>1. t \in Producers
      BY <1>0
    <2>2. item \in Items /\ item.id = items + 1
      BY <1>b, <2>1 DEF Items
    <2> HIDE DEF item
    <2>3. /\ at' = [at EXCEPT ![t] = 1] /\ current' = [current EXCEPT ![t] = item]
          /\ items' = items + 1 /\ UNCHANGED <<list, rows>>
      BY <1>1 DEF updatePro, gui, item
    <2>4. \A u \in Producers : current'[u].id <= items'
      <3>1. \A u \in Producers : current[u].id \in Nat
        BY DEF Typed, Items, NoItem
      <3>2. QED
        BY <1>b, <2>1, <2>2, <2>3, <3>1 DEF Order, Typed
    <2>5. ASSUME NEW v \in Views
          PROVE  InOrder(rows[v], text(v), items + 1) /\ Follows(item, rows[v], text(v))
      BY <1>a, <1>b, <2>2, InOrderNext DEF Order
    <2>6. ASSUME NEW v \in Views, NEW u \in Producers, at'[u] \in 1..Place[v]
          PROVE  Follows(current'[u], rows[v], text(v))
      <3>1. CASE u = t
        BY <3>1, <2>1, <2>3, <2>5 DEF Typed
      <3>2. CASE u # t
        BY <3>2, <2>1, <2>3, <2>6 DEF Order, Typed
      <3>3. QED
        BY <3>1, <3>2
    <2>7. QED
      BY <2>3, <2>4, <2>5, <2>6, Zenon DEF Order
  <1>2. ASSUME NEW t \in Threads, append(t)
        PROVE  Order'
    <2>1. /\ t \in Producers /\ at[t] \in 1..4 /\ current[t] \in Items /\ current[t].by = t
          /\ at' = [at EXCEPT ![t] = @ + 1]
          /\ list' = [list EXCEPT ![Lists[at[t]]] = Append(@, current[t])]
          /\ UNCHANGED <<current, items, rows>>
      BY <1>0, <1>2 DEF append, gui, Typed
    <2>2. ASSUME NEW v \in Views
          PROVE  IF at[t] = Place[v] THEN list'[TextList[v]] = Append(text(v), current[t])
                                     ELSE list'[TextList[v]] = text(v)
      <3>1. Lists[at[t]] = TextList[v] <=> at[t] = Place[v]
        BY <2>1 DEF Lists, Views, TextList, Place
      <3>2. Lists[at[t]] \in ListNames /\ TextList[v] \in ListNames /\ DOMAIN list = ListNames
        BY <2>1, <1>a DEF Lists, ListNames, Typed
      <3>3. QED
        BY <2>1, <3>1, <3>2
    <2>3. ASSUME NEW v \in Views
          PROVE  InOrder(rows[v], list'[TextList[v]], items)
      <3>1. CASE at[t] = Place[v]
        <4>1. Follows(current[t], rows[v], text(v)) /\ current[t].id <= items /\ InOrder(rows[v], text(v), items)
          BY <2>1, <3>1 DEF Order
        <4>2. QED
          BY <4>1, <3>1, <1>a, <1>b, <2>1, <2>2, InOrderAppend
      <3>2. QED
        BY <2>2, <3>1 DEF Order
    <2>4. ASSUME NEW v \in Views, NEW u \in Producers, at'[u] \in 1..Place[v]
          PROVE  Follows(current[u], rows[v], list'[TextList[v]])
      <3>1. at[u] \in 1..Place[v] /\ (u = t => at[t] # Place[v])
        BY <1>b, <1>c, <2>1, <2>4
      <3>2. Follows(current[u], rows[v], text(v))
        BY <3>1 DEF Order
      <3>3. CASE at[t] = Place[v]
        <4>1. current[u].by = u /\ u # t
          BY <3>1, <3>3 DEF Typed
        <4>2. Before(current[t], current[u])
          BY <4>1, <2>1 DEF Before
        <4>3. QED
          BY <3>2, <3>3, <4>2, <1>a, <2>1, <2>2, FollowsAppend
      <3>4. QED
        BY <3>2, <3>3, <2>2
    <2>5. QED
      BY <2>1, <2>3, <2>4, Zenon DEF Order
  <1>3. ASSUME NEW t \in Threads, judgeItem(t)
        PROVE  Order'
    <2>1. /\ t \in Producers /\ at' = [at EXCEPT ![t] = 0] /\ current' = [current EXCEPT ![t] = NoItem]
          /\ UNCHANGED <<items, list, rows>>
      BY <1>0, <1>3 DEF judgeItem, gui
    <2>2. \A u \in Producers : current'[u].id <= items
      BY <2>1, <1>b DEF Order, Typed, NoItem
    <2>3. ASSUME NEW v \in Views, NEW u \in Producers, at'[u] \in 1..Place[v]
          PROVE  Follows(current'[u], rows[v], text(v))
      BY <2>1, <2>3, <1>b DEF Order, Typed
    <2>4. QED
      BY <2>1, <2>2, <2>3, Zenon DEF Order
  <1>4. CASE workDown \/ workResult \/ startBtn_clicked \/ endEarly \/ UNCHANGED vars
    <2>1. UNCHANGED <<list, rows, at, current, items>>
      BY <1>4 DEF workDown, workResult, startBtn_clicked, endEarly, vars, gui, producers
    <2>2. QED
      BY <2>1, Zenon DEF Order
  <1>5. CASE clearList
    <2>1. UNCHANGED <<rows, at, current, items>>
      BY <1>5 DEF clearList, producers
    <2>2. ASSUME NEW v \in Views
          PROVE  list'[TextList[v]] \in {text(v), <<>>}
      <3>1. Lists[init] \in ListNames /\ TextList[v] \in ListNames /\ DOMAIN list = ListNames
        BY <1>5, <1>a DEF clearList, Lists, ListNames, Typed
      <3>2. QED
        BY <1>5, <3>1 DEF clearList
    <2>3. ASSUME NEW v \in Views
          PROVE  /\ InOrder(rows[v], list'[TextList[v]], items)
                 /\ \A x : Follows(x, rows[v], text(v)) => Follows(x, rows[v], list'[TextList[v]])
      BY <2>2, <1>a, <1>b, InOrderCleared DEF Order
    <2>4. QED
      BY <2>1, <2>3, Zenon DEF Order
  <1>6. CASE initEnds
    <2>1. rows' = [v \in Views |-> <<>>] /\ UNCHANGED <<list, at, current, items>>
      BY <1>6 DEF initEnds, producers
    <2>2. ASSUME NEW v \in Views
          PROVE  /\ InOrder(rows'[v], text(v), items)
                 /\ \A x : Follows(x, rows[v], text(v)) => Follows(x, rows'[v], text(v))
      BY <2>1, <1>a, <1>b, InOrderCleared DEF Order
    <2>3. QED
      BY <2>1, <2>2, Zenon DEF Order
  <1>7. ASSUME NEW w \in Views, Taken(w), workTimeoutDone \/ tableTimeoutDone
        PROVE  Order'
    <2>1. UNCHANGED <<at, current, items>>
      BY <1>7 DEF workTimeoutDone, tableTimeoutDone, producers
    <2> DEFINE row == [text |-> Head(text(w)), verdict |-> Head(list[VerdictList[w]])]
    <2>2. text(w) # <<>> /\ list[VerdictList[w]] # <<>> /\ list[VerdictList[w]] \in Seq(Items)
      BY <1>7 DEF Taken, Typed, Views, VerdictList, ListNames
    <2>3. row \in Row /\ row.text = Head(text(w))
      BY <1>a, <2>2 DEF Row
    <2>4. rows' = [rows EXCEPT ![w] = Append(rows[w], row)]
      BY <1>7 DEF Taken
    <2> HIDE DEF row
    <2>5. ASSUME NEW v \in Views
          PROVE  list'[TextList[v]] = IF v = w THEN Tail(text(w)) ELSE text(v)
      BY <1>7, <1>a DEF Taken, TextList, VerdictList, Views, Typed, ListNames
    <2>6. ASSUME NEW v \in Views
          PROVE  /\ InOrder(rows'[v], list'[TextList[v]], items)
                 /\ \A x : Follows(x, rows[v], text(v)) => Follows(x, rows'[v], list'[TextList[v]])
      <3>1. CASE v = w
        <4>1. rows'[v] = Append(rows[v], row) /\ list'[TextList[v]] = Tail(text(v))
          BY <3>1, <2>4, <2>5 DEF Typed
        <4>2. InOrder(rows[v], text(v), items)
          BY DEF Order
        <4>3. QED
          BY <3>1, <4>1, <4>2, <1>a, <1>b, <2>2, <2>3, InOrderMove, FollowsMove
      <3>2. CASE v # w
        <4>1. rows'[v] = rows[v] /\ list'[TextList[v]] = text(v)
          BY <3>2, <2>4, <2>5 DEF Typed
        <4>2. QED
          BY <4>1 DEF Order
      <3>3. QED
        BY <3>1, <3>2
    <2>7. QED
      BY <2>1, <2>6, Zenon DEF Order
  <1>8. ASSUME UNCHANGED <<list, rows>>, workTimeoutDone \/ tableTimeoutDone
        PROVE  Order'
    <2>1. UNCHANGED <<at, current, items>>
      BY <1>8 DEF workTimeoutDone, tableTimeoutDone, producers
    <2>2. QED
      BY <1>8, <2>1, Zenon DEF Order
  <1>9. QED
    BY <1>1, <1>2, <1>3, <1>4, <1>5, <1>6, <1>7, <1>8, NextCases, TimersTake DEF Views

\* No view repeats or reorders what one thread reported, whatever the other
\* thread, the timers and the start button do in between.
THEOREM RowsKeepOrder == Spec => []RowsInOrder
  <1>1. Init => Order
    <2> SUFFICES ASSUME Init PROVE Order
      OBVIOUS
    <2>1. items = 0 /\ \A t \in Producers : current[t].id <= items /\ at[t] = 0
      BY DEF Init, NoItem
    <2>2. \A v \in Views : rows[v] = <<>> /\ list[TextList[v]] = <<>>
      BY DEF Init, Views, TextList
    <2>3. \A v \in Views : InOrder(rows[v], list[TextList[v]], items)
      BY <2>2 DEF InOrder
    <2>4. \A t \in Producers, v \in Views : at[t] \notin 1..Place[v]
      BY <2>1
    <2>5. QED
      BY <2>1, <2>3, <2>4, Zenon DEF Order
  <1>2. Typed /\ Order /\ [Next]_vars => Order'
    BY OrderKept
  <1>3. Order => RowsInOrder
    BY DEF Order, InOrder, RowsInOrder, Before
  <1>4. QED
    BY <1>1, <1>2, <1>3, InitTyped, StepTyped, PTL DEF Spec

-----------------------------------------------------------------------------
(* OwnVerdict *)

\* The same numbers say when init has cleared the verdicts of a view and not
\* yet its texts, and when updatePro has appended the one and not yet the other.
Between == [log |-> 2..4, table |-> {3}]

Paired(v) ==
  IF init \in Between[v] THEN list[VerdictList[v]] = <<>>
  ELSE list[VerdictList[v]] = IF at["core"] \in Between[v]
                              THEN Append(list[TextList[v]], current["core"])
                              ELSE list[TextList[v]]

\* With one producer that no start cuts short.
Matched ==
  Calm => /\ init # 0 => at["core"] = 0
          /\ \A v \in Views : Paired(v)
          /\ OwnVerdict

\* The scenario is fixed.
LEMMA EnvKept ==
  ASSUME [Next]_vars
  PROVE  env' = env
BY NextCases DEF updatePro, append, judgeItem, workDown, workResult, startBtn_clicked, clearList,
     initEnds, endEarly, workTimeoutDone, tableTimeoutDone, gui, vars

\* Taking the first element and appending a last one do not interfere.
LEMMA TakeAndAppend ==
  ASSUME NEW S, NEW s \in Seq(S), s # <<>>, NEW e \in S
  PROVE  Head(Append(s, e)) = Head(s) /\ Tail(Append(s, e)) = Append(Tail(s), e)
OBVIOUS

\* Every step keeps verdicts and texts matched.
LEMMA MatchedKept ==
  ASSUME Typed, Matched, [Next]_vars
  PROVE  Matched'
  <1> SUFFICES ASSUME Calm
               PROVE  Matched'
    BY EnvKept DEF Matched, Calm, Threads, Overlap
  <1> DEFINE text(v) == list[TextList[v]]
             verd(v) == list[VerdictList[v]]
  <1>0. Threads = {"core"} /\ ~Overlap
    BY DEF Calm
  <1>a. /\ init # 0 => at["core"] = 0
        /\ \A v \in Views : Paired(v)
        /\ \A v \in Views : \A i \in DOMAIN rows[v] : rows[v][i].text = rows[v][i].verdict
    BY DEF Matched, OwnVerdict
  <1>b. \A v \in Views : /\ text(v) \in Seq(Items) /\ verd(v) \in Seq(Items) /\ rows[v] \in Seq(Row)
                         /\ TextList[v] \in ListNames /\ VerdictList[v] \in ListNames
    BY DEF Typed, Views, TextList, VerdictList, ListNames
  <1>c. at \in [Producers -> 0..5] /\ init \in 0..5 /\ "core" \in Producers /\ DOMAIN list = ListNames
    BY DEF Typed, Producers
  <1>d. rows' = rows => OwnVerdict'
    BY <1>a DEF OwnVerdict
  <1>e. \A v \in Views : 0 \notin Between[v]
    BY DEF Views, Between
  <1>1. ASSUME NEW t \in Threads, NEW ok \in BOOLEAN, NEW direct \in BOOLEAN, updatePro(t, ok, direct)
        PROVE  Matched'
    <2>1. /\ t = "core" /\ at["core"] = 0 /\ at' = [at EXCEPT !["core"] = 1] /\ init = 0
          /\ UNCHANGED <<init, list, rows>>
      BY <1>0, <1>1 DEF updatePro, gui
    <2>2. at'["core"] = 1
      BY <2>1, <1>c
    <2>3. \A v \in Views : Paired(v)'
      BY <1>a, <2>1, <2>2 DEF Paired, Views, Between
    <2>4. QED
      BY <2>1, <2>3, <1>d DEF Matched
  <1>2. ASSUME NEW t \in Threads, append(t)
        PROVE  Matched'
    <2>1. /\ t = "core" /\ at["core"] \in 1..4
          /\ at' = [at EXCEPT !["core"] = @ + 1]
          /\ list' = [list EXCEPT ![Lists[at["core"]]] = Append(@, current["core"])]
          /\ UNCHANGED <<current, init, rows>>
      BY <1>0, <1>2 DEF append, gui
    <2>2. init = 0
      BY <1>a, <2>1
    <2>3. at'["core"] = at["core"] + 1
      BY <2>1, <1>c
    <2>4. \A v \in Views : IF at["core"] \in Between[v] THEN verd(v) = Append(text(v), current["core"])
                                                        ELSE verd(v) = text(v)
      BY <1>a, <1>e, <2>2, Zenon DEF Paired
    <2>5. ASSUME NEW v \in Views
          PROVE  Paired(v)'
      <3>1. Lists[at["core"]] \in ListNames
        BY <2>1 DEF Lists, ListNames
      <3>2. list'[TextList[v]] = IF Lists[at["core"]] = TextList[v] THEN Append(text(v), current["core"]) ELSE text(v)
        BY <3>1, <2>1, <1>b, <1>c
      <3>3. list'[VerdictList[v]] = IF Lists[at["core"]] = VerdictList[v] THEN Append(verd(v), current["core"]) ELSE verd(v)
        BY <3>1, <2>1, <1>b, <1>c
      <3>4. Lists[at["core"]] = TextList[v] <=> at["core"] \in Between[v] /\ at["core"] + 1 \notin Between[v]
        BY <2>1 DEF Lists, TextList, Views, Between
      <3>5. Lists[at["core"]] = VerdictList[v] <=> at["core"] \notin Between[v] /\ at["core"] + 1 \in Between[v]
        BY <2>1 DEF Lists, VerdictList, Views, Between
      <3>6. init' \notin Between[v]
        BY <2>1, <2>2 DEF Views, Between
      <3>7. QED
        BY <2>1, <2>3, <2>4, <3>2, <3>3, <3>4, <3>5, <3>6 DEF Paired
    <2>6. QED
      BY <2>1, <2>2, <2>5, <1>d DEF Matched
  <1>3. ASSUME NEW t \in Threads, judgeItem(t)
        PROVE  Matched'
    <2>1. /\ t = "core" /\ at["core"] = 5 /\ at' = [at EXCEPT !["core"] = 0]
          /\ UNCHANGED <<init, list, rows>>
      BY <1>0, <1>3 DEF judgeItem, gui
    <2>2. at'["core"] = 0
      BY <2>1, <1>c
    <2>3. \A v \in Views : Paired(v)'
      BY <1>a, <2>1, <2>2 DEF Paired, Views, Between
    <2>4. QED
      BY <2>1, <2>2, <2>3, <1>d DEF Matched
  <1>4. CASE workDown \/ workResult \/ endEarly \/ UNCHANGED vars
    <2>1. UNCHANGED <<list, rows, at, current, init>>
      BY <1>4 DEF workDown, workResult, endEarly, vars, gui, producers
    <2>2. \A v \in Views : Paired(v)'
      BY <2>1, <1>a DEF Paired
    <2>3. QED
      BY <2>1, <2>2, <1>a, <1>d DEF Matched
  <1>5. CASE startBtn_clicked
    <2>1. UNCHANGED <<list, rows, at, current>> /\ init = 0 /\ init' = 1 /\ at["core"] = 0
      BY <1>0, <1>5 DEF startBtn_clicked, producers, Looping, Idle, Producers
    <2>2. \A v \in Views : Paired(v)'
      BY <2>1, <1>a DEF Paired, Views, Between
    <2>3. QED
      BY <2>1, <2>2, <1>d DEF Matched
  <1>6. CASE clearList
    <2>1. /\ init \in 1..4 /\ init' = init + 1
          /\ list' = [list EXCEPT ![Lists[init]] = <<>>]
          /\ UNCHANGED <<rows, at, current>>
      BY <1>6 DEF clearList, producers
    <2>2. at["core"] = 0
      BY <2>1, <1>a
    <2>3. ASSUME NEW v \in Views
          PROVE  Paired(v)'
      <3>1. IF init \in Between[v] THEN verd(v) = <<>> ELSE verd(v) = text(v)
        BY <1>a, <2>2 DEF Paired, Views, Between
      <3>2. Lists[init] \in ListNames
        BY <2>1 DEF Lists, ListNames
      <3>3. list'[TextList[v]] = IF Lists[init] = TextList[v] THEN <<>> ELSE text(v)
        BY <3>2, <2>1, <1>b, <1>c
      <3>4. list'[VerdictList[v]] = IF Lists[init] = VerdictList[v] THEN <<>> ELSE verd(v)
        BY <3>2, <2>1, <1>b, <1>c
      <3>5. Lists[init] = TextList[v] <=> init \in Between[v] /\ init + 1 \notin Between[v]
        BY <2>1 DEF Lists, TextList, Views, Between
      <3>6. Lists[init] = VerdictList[v] <=> init \notin Between[v] /\ init + 1 \in Between[v]
        BY <2>1 DEF Lists, VerdictList, Views, Between
      <3>7. at'["core"] \notin Between[v]
        BY <2>1, <2>2 DEF Views, Between
      <3>8. QED
        BY <2>1, <3>1, <3>3, <3>4, <3>5, <3>6, <3>7 DEF Paired
    <2>4. QED
      BY <2>1, <2>2, <2>3, <1>d DEF Matched
  <1>7. CASE initEnds
    <2>1. /\ init = 5 /\ init' = 0 /\ UNCHANGED <<list, at, current>>
          /\ rows' = [v \in Views |-> <<>>]
      BY <1>7 DEF initEnds, producers
    <2>2. \A v \in Views : Paired(v)'
      BY <2>1, <1>a DEF Paired, Views, Between
    <2>3. \A v \in Views : rows'[v] = <<>>
      BY <2>1
    <2>4. OwnVerdict'
      BY <2>3 DEF OwnVerdict
    <2>5. QED
      BY <2>1, <2>2, <2>4 DEF Matched
  <1>8. ASSUME NEW w \in Views, Taken(w), workTimeoutDone \/ tableTimeoutDone
        PROVE  Matched'
    <2>1. UNCHANGED <<at, current, init>> /\ init = 0
      BY <1>8 DEF workTimeoutDone, tableTimeoutDone, producers, Looping
    <2>2. \A v \in Views : IF at["core"] \in Between[v] THEN verd(v) = Append(text(v), current["core"])
                                                        ELSE verd(v) = text(v)
      BY <1>a, <1>e, <2>1, Zenon DEF Paired
    <2>3. text(w) # <<>> /\ verd(w) # <<>>
      BY <1>8 DEF Taken
    <2>4. at["core"] \in Between[w] => current["core"] \in Items
      BY <1>c, <1>e DEF Typed
    <2>5. /\ Head(verd(w)) = Head(text(w))
          /\ Tail(verd(w)) = IF at["core"] \in Between[w] THEN Append(Tail(text(w)), current["core"])
                                                          ELSE Tail(text(w))
      <3>1. CASE at["core"] \in Between[w]
        <4>1. verd(w) = Append(text(w), current["core"])
          BY <2>2, <3>1, Zenon
        <4>2. text(w) \in Seq(Items) /\ text(w) # <<>> /\ current["core"] \in Items
          BY <1>b, <2>3, <2>4, <3>1, Zenon
        <4>3. /\ Head(Append(text(w), current["core"])) = Head(text(w))
              /\ Tail(Append(text(w), current["core"])) = Append(Tail(text(w)), current["core"])
          BY <4>2, TakeAndAppend, Zenon
        <4>4. QED
          BY <3>1, <4>1, <4>3, Zenon
      <3>2. CASE at["core"] \notin Between[w]
        BY <2>2, <3>2, Zenon
      <3>3. QED
        BY <3>1, <3>2, Zenon
    <2>6. ASSUME NEW v \in Views
          PROVE  /\ list'[TextList[v]] = IF v = w THEN Tail(text(w)) ELSE text(v)
                 /\ list'[VerdictList[v]] = IF v = w THEN Tail(verd(w)) ELSE verd(v)
      BY <1>8, <1>b, <1>c DEF Taken, TextList, VerdictList, Views, ListNames
    <2>7. ASSUME NEW v \in Views
          PROVE  Paired(v)'
      <3>1. init' \notin Between[v]
        BY <2>1 DEF Views, Between
      <3>2. QED
        BY <2>1, <2>2, <2>5, <2>6, <3>1 DEF Paired
    <2> DEFINE row == [text |-> Head(text(w)), verdict |-> Head(verd(w))]
    <2>8. row \in Row /\ row.text = row.verdict
      BY <1>b, <2>3, <2>5 DEF Row
    <2>9. rows' = [rows EXCEPT ![w] = Append(rows[w], row)]
      BY <1>8 DEF Taken
    <2> HIDE DEF row
    <2>10. \A i \in DOMAIN Append(rows[w], row) : Append(rows[w], row)[i].text = Append(rows[w], row)[i].verdict
      BY <1>a, <1>b, <2>8, AppendIndex
    <2>11. \A v \in Views : rows'[v] = IF v = w THEN Append(rows[w], row) ELSE rows[v]
      BY <2>9 DEF Typed
    <2>12. OwnVerdict'
      BY <2>10, <2>11, <1>a DEF OwnVerdict
    <2>13. QED
      BY <2>1, <2>7, <2>12 DEF Matched
  <1>9. ASSUME UNCHANGED <<list, rows>>, workTimeoutDone \/ tableTimeoutDone
        PROVE  Matched'
    <2>1. UNCHANGED <<at, current, init>>
      BY <1>9 DEF workTimeoutDone, tableTimeoutDone, producers
    <2>2. \A v \in Views : Paired(v)'
      BY <1>9, <2>1, <1>a DEF Paired
    <2>3. QED
      BY <2>1, <2>2, <1>9, <1>a, <1>d DEF Matched
  <1>10. QED
    BY <1>1, <1>2, <1>3, <1>4, <1>5, <1>6, <1>7, <1>8, <1>9, NextCases, TimersTake DEF Views

\* With the core thread alone and no start across an item, every row shows the
\* verdict of the item it names, although text and verdict travel in two lists.
THEOREM RowsPair == Spec => []OwnVerdict
  <1>1. Init => Matched
    BY DEF Init, Matched, Paired, OwnVerdict, Views, TextList, VerdictList, Between, Producers
  <1>2. Typed /\ Matched /\ [Next]_vars => Matched'
    BY MatchedKept
  <1>3. Matched => OwnVerdict
    BY DEF Matched, OwnVerdict
  <1>4. QED
    BY <1>1, <1>2, <1>3, InitTyped, StepTyped, PTL DEF Spec

-----------------------------------------------------------------------------
(* PassListsNoFailure *)

\* The verdicts a view has displayed or has yet to display.
Seen(v) ==
  {rows[v][i].verdict : i \in DOMAIN rows[v]} \union
  {list[VerdictList[v]][i] : i \in DOMAIN list[VerdictList[v]]}

\* An item passed, or judgeItem is yet to see it.
Fine(x) == x.ok \/ (at["core"] # 0 /\ x = current["core"])

\* With one producer that no start cuts short: a thread that has no test to
\* work on reports nothing, and while the result is no failure, nor is an item.
Judged ==
  Calm =>
    /\ init # 0 => at["core"] = 0
    /\ core # "work" => at["core"] = 0
    /\ step = Test_Over => core = "idle"
    /\ shown = "pass" => core = "idle"
    /\ init > 1 => list["pass"] = <<>>
    /\ init > 2 => list["itPass"] = <<>>
    /\ init = 0 /\ result # Test_Fail => \A v \in Views : \A x \in Seen(v) : Fine(x)
    /\ shown = "pass" => \A v \in Views : \A x \in Seen(v) : x.ok

\* What a view has seen grows by the item that is appended, and by nothing else.
LEMMA SeenSteps ==
  ASSUME Typed, [Next]_vars, NEW v \in Views, NEW x \in Seen(v)'
  PROVE  x \in Seen(v) \/ \E t \in Threads : append(t) /\ x = current[t]
  <1> DEFINE verd == list[VerdictList[v]]
  <1>0. Threads \subseteq Producers
    BY DEF Threads, Scenario, Typed
  <1>a. /\ verd \in Seq(Items) /\ rows[v] \in Seq(Row) /\ VerdictList[v] \in ListNames
        /\ DOMAIN list = ListNames /\ DOMAIN rows = Views
    BY DEF Typed, Views, VerdictList, ListNames
  <1>b. \/ \E i \in DOMAIN rows'[v] : x = rows'[v][i].verdict
        \/ \E i \in DOMAIN list'[VerdictList[v]] : x = list'[VerdictList[v]][i]
    BY DEF Seen
  <1>c. /\ \A i \in DOMAIN rows[v] : rows[v][i].verdict \in Seen(v)
        /\ \A i \in DOMAIN verd : verd[i] \in Seen(v)
    BY DEF Seen
  <1>1. CASE UNCHANGED <<list, rows>>
    BY <1>1, <1>b, <1>c, Zenon
  <1>2. ASSUME NEW t \in Threads, append(t)
        PROVE  x \in Seen(v) \/ x = current[t]
    <2>1. /\ list' = [list EXCEPT ![Lists[at[t]]] = Append(@, current[t])] /\ UNCHANGED rows
          /\ at[t] \in 1..4 /\ current[t] \in Items
      BY <1>0, <1>2 DEF append, gui, Typed
    <2>2. list'[VerdictList[v]] \in {verd, Append(verd, current[t])}
      BY <1>a, <2>1 DEF Lists, ListNames
    <2>3. \A i \in DOMAIN Append(verd, current[t]) :
            \/ i \in DOMAIN verd /\ Append(verd, current[t])[i] = verd[i]
            \/ i = Len(verd) + 1 /\ Append(verd, current[t])[i] = current[t]
      BY <1>a, <2>1, AppendIndex
    <2>4. QED
      BY <1>b, <1>c, <2>1, <2>2, <2>3, Zenon
  <1>3. CASE clearList
    <2>1. list'[VerdictList[v]] \in {verd, <<>>} /\ UNCHANGED rows
      BY <1>a, <1>3 DEF clearList, Lists, ListNames
    <2>2. DOMAIN <<>> = {}
      OBVIOUS
    <2>3. QED
      BY <1>b, <1>c, <2>1, <2>2
  <1>4. CASE initEnds
    <2>1. rows'[v] = <<>> /\ UNCHANGED list
      BY <1>4 DEF initEnds
    <2>2. DOMAIN <<>> = {}
      OBVIOUS
    <2>3. QED
      BY <1>b, <1>c, <2>1, <2>2
  <1>5. ASSUME NEW w \in Views, Taken(w)
        PROVE  x \in Seen(v)
    <2> DEFINE took == list[VerdictList[w]]
               row == [text |-> Head(list[TextList[w]]), verdict |-> Head(took)]
    <2>1. /\ took \in Seq(Items) /\ took # <<>>
          /\ list[TextList[w]] \in Seq(Items) /\ list[TextList[w]] # <<>>
      BY <1>5 DEF Taken, Typed, Views, VerdictList, TextList, ListNames
    <2>2. row \in Row /\ row.verdict = took[1] /\ 1 \in DOMAIN took
      BY <2>1 DEF Row
    <2>3. rows' = [rows EXCEPT ![w] = Append(rows[w], row)]
      BY <1>5 DEF Taken
    <2>4. list'[VerdictList[v]] = IF v = w THEN Tail(took) ELSE verd
      BY <1>5, <1>a DEF Taken, TextList, VerdictList, Views, ListNames
    <2> HIDE DEF row
    <2>5. CASE v = w
      <3>1. rows'[v] = Append(rows[v], row)
        BY <2>3, <2>5, <1>a
      <3>2. \A i \in DOMAIN Append(rows[v], row) :
              \/ i \in DOMAIN rows[v] /\ Append(rows[v], row)[i] = rows[v][i]
              \/ i = Len(rows[v]) + 1 /\ Append(rows[v], row)[i] = row
        BY <1>a, <2>2, AppendIndex
      <3>3. \A i \in DOMAIN Tail(verd) : i + 1 \in DOMAIN verd /\ Tail(verd)[i] = verd[i + 1]
        BY <2>1, <2>5, TailIndex
      <3>4. row.verdict = verd[1] /\ 1 \in DOMAIN verd /\ list'[VerdictList[v]] = Tail(verd)
        BY <2>2, <2>4, <2>5
      <3> HIDE DEF verd
      <3>5. QED
        BY <1>b, <1>c, <3>1, <3>2, <3>3, <3>4
    <2>6. CASE v # w
      <3>1. rows'[v] = rows[v] /\ list'[VerdictList[v]] = verd
        BY <1>a, <2>3, <2>4, <2>6
      <3>2. QED
        BY <1>b, <1>c, <3>1, Zenon
    <2>7. QED
      BY <2>5, <2>6
  <1>6. CASE \/ \E t \in Threads, ok \in BOOLEAN, direct \in BOOLEAN : updatePro(t, ok, direct)
             \/ \E t \in Threads : judgeItem(t)
             \/ workDown \/ workResult \/ startBtn_clicked \/ endEarly \/ UNCHANGED vars
    BY <1>1, <1>6 DEF updatePro, judgeItem, workDown, workResult, startBtn_clicked, endEarly, gui, vars
  <1>7. QED
    BY <1>1, <1>2, <1>3, <1>4, <1>5, <1>6, NextCases, TimersTake DEF Views

\* Every step keeps the result at least as bad as the items it judged.
LEMMA JudgedKept ==
  ASSUME Typed, Judged, [Next]_vars
  PROVE  Judged'
  <1> SUFFICES ASSUME Calm
               PROVE  Judged'
    BY EnvKept DEF Judged, Calm, Threads, Overlap
  <1> USE DEF Test_Fun, Test_Start, Test_Over, Test_End, Test_Info, Test_Pass, Test_Fail
  <1>0. Threads = {"core"} /\ ~Overlap
    BY DEF Calm
  <1>a. /\ init # 0 => at["core"] = 0
        /\ core # "work" => at["core"] = 0
        /\ step = Test_Over => core = "idle"
        /\ shown = "pass" => core = "idle"
        /\ init > 1 => list["pass"] = <<>>
        /\ init > 2 => list["itPass"] = <<>>
    BY DEF Judged
  <1>b. /\ init = 0 /\ result # Test_Fail => \A v \in Views : \A x \in Seen(v) : Fine(x)
        /\ shown = "pass" => \A v \in Views : \A x \in Seen(v) : x.ok
    BY DEF Judged
  <1>c. at \in [Producers -> 0..5] /\ init \in 0..5 /\ "core" \in Producers /\ DOMAIN list = ListNames
    BY DEF Typed, Producers
  <1>d. ASSUME ~append("core")
        PROVE  \A v \in Views : Seen(v)' \subseteq Seen(v)
    BY <1>d, <1>0, SeenSteps
  <1>1. ASSUME NEW t \in Threads, NEW ok \in BOOLEAN, NEW direct \in BOOLEAN, updatePro(t, ok, direct)
        PROVE  Judged'
    <2>1. /\ t = "core" /\ at["core"] = 0 /\ core = "work" /\ init = 0
          /\ at' = [at EXCEPT !["core"] = 1]
          /\ UNCHANGED <<step, result, list, core, init, rows, shown>>
      BY <1>0, <1>1 DEF updatePro, gui
    <2>2. shown # "pass"
      BY <2>1, <1>a
    <2>3. result # Test_Fail => \A v \in Views : \A x \in Seen(v)' : x.ok
      BY <1>b, <2>1, Zenon DEF Seen, Fine
    <2>4. QED
      BY <1>a, <2>1, <2>2, <2>3 DEF Judged, Fine
  <1>2. ASSUME NEW t \in Threads, append(t)
        PROVE  Judged'
    <2>1. /\ t = "core" /\ at["core"] \in 1..4
          /\ at' = [at EXCEPT !["core"] = @ + 1]
          /\ UNCHANGED <<current, step, result, core, init, rows, shown>>
      BY <1>0, <1>2 DEF append, gui
    <2>2. init = 0 /\ core = "work" /\ shown # "pass"
      BY <1>a, <2>1
    <2>3. at'["core"] # 0
      BY <2>1, <1>c
    <2>4. ASSUME NEW v \in Views, NEW x \in Seen(v)', result # Test_Fail
          PROVE  Fine(x)'
      <3>1. x \in Seen(v) \/ x = current["core"]
        BY <1>0, SeenSteps
      <3>2. CASE x \in Seen(v)
        BY <1>b, <2>1, <2>2, <2>3, <2>4, <3>2, Zenon DEF Fine
      <3>3. CASE x = current["core"]
        BY <2>1, <2>3, <3>3, Zenon DEF Fine
      <3>4. QED
        BY <3>1, <3>2, <3>3
    <2>5. QED
      BY <1>a, <2>1, <2>2, <2>4 DEF Judged
  <1>3. ASSUME NEW t \in Threads, judgeItem(t)
        PROVE  Judged'
    <2>1. /\ t = "core" /\ at["core"] = 5
          /\ at' = [at EXCEPT !["core"] = 0]
          /\ result' = IF current["core"].ok THEN result ELSE Test_Fail
          /\ UNCHANGED <<step, list, core, init, rows, shown>>
      BY <1>0, <1>3 DEF judgeItem, gui
    <2>2. init = 0 /\ core = "work" /\ shown # "pass"
      BY <1>a, <2>1
    <2>3. ASSUME NEW v \in Views, NEW x \in Seen(v)', result' # Test_Fail
          PROVE  x.ok
      <3>1. x \in Seen(v) /\ current["core"].ok /\ result # Test_Fail
        BY <2>1, <2>3 DEF Seen
      <3>2. Fine(x)
        BY <1>b, <2>2, <3>1, Zenon
      <3>3. QED
        BY <3>1, <3>2, Zenon DEF Fine
    <2>4. at'["core"] = 0
      BY <2>1, <1>c
    <2>5. QED
      BY <1>a, <2>1, <2>2, <2>3, <2>4 DEF Judged, Fine
  <1>4. CASE workDown \/ workResult \/ UNCHANGED vars
    <2>1. /\ UNCHANGED <<result, list, rows, at, current, init, shown>>
          /\ \/ core = "begin" /\ core' = "work" /\ step' = Test_Start
             \/ at["core"] = 0 /\ core' = "idle"
             \/ UNCHANGED <<core, step>>
      BY <1>4 DEF workDown, workResult, vars, gui, producers
    <2>2. \A v \in Views : Seen(v)' = Seen(v)
      BY <2>1 DEF Seen
    <2>3. \A x : Fine(x)' <=> Fine(x)
      BY <2>1 DEF Fine
    <2>4. QED
      BY <1>a, <1>b, <2>1, <2>2, <2>3 DEF Judged
  <1>5. CASE startBtn_clicked \/ clearList
    <2>1. /\ UNCHANGED <<rows, at, current, core, shown>>
          /\ init' \in 1..5 /\ at["core"] = 0
          /\ step' \in {step, Test_Fun}
      BY <1>0, <1>5, <1>a DEF startBtn_clicked, clearList, producers, Looping, Idle, Producers
    <2>2. /\ init' > 1 => list'["pass"] = <<>>
          /\ init' > 2 => list'["itPass"] = <<>>
      <3>1. CASE startBtn_clicked
        BY <3>1 DEF startBtn_clicked
      <3>2. CASE clearList
        <4>1. /\ init \in 1..4 /\ init' = init + 1
              /\ list' = [list EXCEPT ![Lists[init]] = <<>>]
          BY <3>2 DEF clearList
        <4>2. QED
          BY <4>1, <1>a, <1>c DEF Lists, ListNames
      <3>3. QED
        BY <1>5, <3>1, <3>2
    <2>3. \A v \in Views : Seen(v)' \subseteq Seen(v)
      <3>1. ~append("core")
        BY <2>1 DEF append
      <3>2. QED
        BY <3>1, <1>d
    <2>4. QED
      BY <1>a, <1>b, <2>1, <2>2, <2>3 DEF Judged
  <1>6. CASE initEnds
    <2>1. /\ init = 5 /\ init' = 0 /\ UNCHANGED <<list, at, current>>
          /\ rows' = [v \in Views |-> <<>>] /\ shown' = "none" /\ step' = Test_Fun /\ at["core"] = 0
      BY <1>6, <1>a DEF initEnds, producers
    <2>2. list["pass"] = <<>> /\ list["itPass"] = <<>>
      BY <1>a, <2>1
    <2>3. \A v \in Views : rows'[v] = <<>> /\ list'[VerdictList[v]] = <<>>
      BY <2>1, <2>2 DEF Views, VerdictList
    <2>4. \A v \in Views : Seen(v)' = {}
      BY <2>3 DEF Seen
    <2>5. QED
      BY <2>1, <2>4 DEF Judged
  <1>7. CASE endEarly
    <2>1. /\ UNCHANGED <<list, rows, at, current, core, init>> /\ init = 0
          /\ result' = Test_Fail /\ shown' = "fail" /\ step' = Test_End
      BY <1>7 DEF endEarly, producers, Looping
    <2>2. QED
      BY <1>a, <2>1 DEF Judged
  <1>8. CASE workTimeoutDone \/ tableTimeoutDone
    <2>1. /\ UNCHANGED <<result, at, current, core, init>> /\ init = 0
          /\ \/ UNCHANGED <<step, shown>>
             \/ step' = Test_End /\ shown' = "fail"
             \/ step = Test_Over /\ result # Test_Fail /\ step' = Test_End /\ shown' = "pass"
      BY <1>8 DEF workTimeoutDone, tableTimeoutDone, updateResult, producers, Looping
    <2>2. \A v \in Views : Seen(v)' \subseteq Seen(v)
      <3>1. ~append("core")
        BY <1>8, <2>1, <1>c DEF append
      <3>2. QED
        BY <3>1, <1>d
    <2>3. \A x : Fine(x)' <=> Fine(x)
      BY <2>1 DEF Fine
    <2>4. result # Test_Fail => \A v \in Views : \A x \in Seen(v)' : Fine(x)'
      BY <1>b, <2>1, <2>2, <2>3
    <2>5. CASE UNCHANGED <<step, shown>>
      BY <2>1, <2>2, <2>4, <2>5, <1>a, <1>b DEF Judged
    <2>6. CASE step' = Test_End /\ shown' = "fail"
      BY <2>1, <2>4, <2>6, <1>a DEF Judged
    <2>7. CASE step = Test_Over /\ result # Test_Fail /\ step' = Test_End /\ shown' = "pass"
      <3>1. core = "idle" /\ at["core"] = 0
        BY <1>a, <2>7
      <3>2. \A v \in Views : \A x \in Seen(v)' : x.ok
        BY <2>1, <2>4, <2>7, <3>1 DEF Fine
      <3>3. QED
        BY <2>1, <2>4, <2>7, <3>1, <3>2, <1>a DEF Judged
    <2>8. QED
      BY <2>1, <2>5, <2>6, <2>7
  <1>9. QED
    BY <1>1, <1>2, <1>3, <1>4, <1>5, <1>6, <1>7, <1>8, NextCases

\* With the core thread alone and no start across an item, a test is shown as
\* passed only if no failed item is in the rows or still in the lists: nothing
\* is reported between the result and the next start.
THEOREM PassShowsNoFailure == Spec => []PassListsNoFailure
  <1>1. Init => Judged
    <2> SUFFICES ASSUME Init PROVE Judged
      OBVIOUS
    <2>1. \A v \in Views : rows[v] = <<>> /\ list[VerdictList[v]] = <<>>
      BY DEF Init, Views, VerdictList
    <2>2. \A v \in Views : Seen(v) = {}
      BY <2>1 DEF Seen
    <2>3. at["core"] = 0
      BY DEF Init, Producers
    <2>4. QED
      BY <2>2, <2>3 DEF Init, Judged, Test_End, Test_Over
  <1>2. Typed /\ Judged /\ [Next]_vars => Judged'
    BY JudgedKept
  <1>3. Judged => PassListsNoFailure
    BY DEF Judged, PassListsNoFailure, Seen
  <1>4. QED
    BY <1>1, <1>2, <1>3, InitTyped, StepTyped, PTL DEF Spec

=============================================================================
