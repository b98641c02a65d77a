---------------------------- MODULE ProgressList ----------------------------
(***************************************************************************)
(* The four lists of sProgress through which every test item reaches the   *)
(* screen: the core thread and the UDP thread append to them one after the *)
(* other, two timers of the GUI thread take rows off them, and the start   *)
(* of a test clears them; none of this is under a lock.                    *)
(*                                                                         *)
(* pass/status feed the log of Home_WorkWid, itPass/item the table of      *)
(* Td_StatusTabWid. Every list holds whole items here, so that a row can   *)
(* be seen to join the text of one item with the verdict of another; a     *)
(* single append, read or removal is atomic.                               *)
(***************************************************************************)
EXTENDS Integers, Sequences

CONSTANTS
  Scenarios  \* what a behaviour may contain, one of them each, see Scenario

Producers == {"core", "udp"}

\* threads: who reports; items, inits: bounds on the items and the started
\* tests; overlap: may an item be under way while the lists are cleared?
Scenario == [threads : SUBSET Producers, items : Nat, inits : Nat, overlap : BOOLEAN]

ASSUME ListAssumption == Scenarios \subseteq Scenario

Test_Fun   == 0
Test_Start == 1
Test_Over  == 4
Test_End   == 5
Test_Info  == 0
Test_Pass  == 1
Test_Fail  == 2

\* Mutant: the texts before their verdicts.
Lists_TextFirst == <<"item", "status", "pass", "itPass">>

\* The order in which updatePro appends and clear empties.
Lists == <<"pass", "itPass", "item", "status">>

Views == {"log", "table"}
VerdictList == [log |-> "pass", table |-> "itPass"]
TextList    == [log |-> "status", table |-> "item"]

Items == [id : Nat, by : Producers, ok : BOOLEAN]
NoItem == [id |-> 0, by |-> "none", ok |-> TRUE]

VARIABLES
  env,           \* the scenario
  step, result,  \* of sProgress
  list,          \* the four lists
  at,            \* per thread: 0 outside updatePro, else its next statement
  current,       \* per thread: the item it is appending
  core,          \* the core thread: "idle", "begin" or "work"
  init,          \* the GUI thread: 0 in its event loop, else its next statement of init
  crashed,       \* first() has been called on an empty list
  rows,          \* per view: the rows displayed, [text, verdict]
  shown,         \* timeLab: "none", "pass" or "fail"
  items, inits,  \* bounds
  torn           \* history: a list was cleared with an item under way

producers == <<at, current, items>>
gui       == <<env, init, crashed, rows, shown, inits, torn>>
vars      == <<step, result, list, producers, core, gui>>

Threads  == env.threads
MaxItems == env.items
MaxInits == env.inits
Overlap  == env.overlap

Init ==
  /\ env \in Scenarios
  /\ step = Test_End /\ result = Test_Info
  /\ list = [l \in {"pass", "itPass", "item", "status"} |-> <<>>]
  /\ at = [t \in Producers |-> 0]
  /\ current = [t \in Producers |-> NoItem]
  /\ core = "idle"
  /\ init = 0 /\ crashed = FALSE
  /\ rows = [v \in Views |-> <<>>] /\ shown = "none"
  /\ items = 0 /\ inits = 0 /\ torn = FALSE

Idle == \A t \in Producers : at[t] = 0

-----------------------------------------------------------------------------
(* sDataPacket::updatePro, statement by statement *)

\* Test_Logs::updatePro looks at the step; saveLogs and Dev_Source do not.
updatePro(t, ok, direct) ==
  /\ at[t] = 0
  /\ items < MaxItems
  /\ IF t = "core" THEN core = "work" ELSE ~direct
  /\ direct \/ step < Test_End
  /\ Overlap \/ init = 0
  /\ at' = [at EXCEPT ![t] = 1]
  /\ current' = [current EXCEPT ![t] = [id |-> items + 1, by |-> t, ok |-> ok]]
  /\ items' = items + 1
  /\ UNCHANGED <<step, result, list, core, gui>>

append(t) ==
  /\ at[t] \in 1..4
  /\ list' = [list EXCEPT ![Lists[at[t]]] = Append(@, current[t])]
  /\ at' = [at EXCEPT ![t] = @ + 1]
  /\ UNCHANGED <<step, result, current, items, core, gui>>

\* Mutant: an item that passes is taken for the result of the test.
judgeItem_SetsPass(t) ==
  /\ at[t] = 5
  /\ result' = IF current[t].ok THEN Test_Pass ELSE Test_Fail
  /\ at' = [at EXCEPT ![t] = 0]
  /\ current' = [current EXCEPT ![t] = NoItem]
  /\ UNCHANGED <<step, list, items, core, gui>>

judgeItem(t) ==
  /\ at[t] = 5
  /\ result' = IF current[t].ok THEN result ELSE Test_Fail
  /\ at' = [at EXCEPT ![t] = 0]
  /\ current' = [current EXCEPT ![t] = NoItem]
  /\ UNCHANGED <<step, list, items, core, gui>>

-----------------------------------------------------------------------------
(* The core thread *)

workDown ==
  /\ core = "begin"
  /\ step' = Test_Start
  /\ core' = "work"
  /\ UNCHANGED <<result, list, producers, gui>>

workResult ==
  /\ core = "work"
  /\ at["core"] = 0
  /\ step' = Test_Over
  /\ core' = "idle"
  /\ UNCHANGED <<result, list, producers, gui>>

-----------------------------------------------------------------------------
(* The GUI thread *)

Looping == init = 0

\* The start button: clear() begins, first of all with step and result.
startBtn_clicked ==
  /\ Looping
  /\ step = Test_End
  /\ inits < MaxInits
  /\ Overlap \/ Idle
  /\ step' = Test_Fun /\ result' = Test_Info
  /\ init' = 1
  /\ inits' = inits + 1
  /\ torn' = (torn \/ ~Idle)
  /\ UNCHANGED <<env, list, producers, core, crashed, rows, shown>>

clearList ==
  /\ init \in 1..4
  /\ list' = [list EXCEPT ![Lists[init]] = <<>>]
  /\ init' = init + 1
  /\ torn' = (torn \/ ~Idle)
  /\ UNCHANGED <<env, step, result, producers, core, crashed, rows, shown, inits>>

\* The end of init, startSig (an empty table), an empty log, QThread::start.
initEnds ==
  /\ init = 5
  /\ step' = Test_Fun /\ result' = Test_Info
  /\ rows' = [v \in Views |-> <<>>]
  /\ shown' = "none"
  /\ init' = 0
  /\ core' = IF core = "idle" /\ "core" \in Threads THEN "begin" ELSE core
  /\ UNCHANGED <<env, list, producers, crashed, inits, torn>>

\* "End the test early?" answered with yes.
endEarly ==
  /\ Looping
  /\ step # Test_End
  /\ result' = Test_Fail
  /\ shown' = "fail"
  /\ step' = Test_End
  /\ UNCHANGED <<env, list, producers, core, init, crashed, rows, inits, torn>>

\* Mutant: the text is taken off its list, the verdict is not.
showRow_KeepsVerdict(v) ==
  IF list[VerdictList[v]] = <<>>
  THEN crashed' = TRUE /\ UNCHANGED <<list, rows>>
  ELSE /\ rows' = [rows EXCEPT ![v] = Append(@, [text |-> Head(list[TextList[v]]),
                                                 verdict |-> Head(list[VerdictList[v]])])]
       /\ list' = [list EXCEPT ![TextList[v]] = Tail(@)]
       /\ UNCHANGED crashed

\* Mutant: the row is shown and stays in the lists.
showRow_KeepsBoth(v) ==
  IF list[VerdictList[v]] = <<>>
  THEN crashed' = TRUE /\ UNCHANGED <<list, rows>>
  ELSE /\ rows' = IF Len(rows[v]) < MaxItems
                  THEN [rows EXCEPT ![v] = Append(@, [text |-> Head(list[TextList[v]]),
                                                      verdict |-> Head(list[VerdictList[v]])])]
                  ELSE rows
       /\ UNCHANGED <<list, crashed>>

\* The first text is paired with the first verdict and both are removed.
showRow(v) ==
  IF list[VerdictList[v]] = <<>>
  THEN crashed' = TRUE /\ UNCHANGED <<list, rows>>
  ELSE /\ rows' = [rows EXCEPT ![v] = Append(@, [text |-> Head(list[TextList[v]]),
                                                 verdict |-> Head(list[VerdictList[v]])])]
       /\ list' = [list EXCEPT ![TextList[v]] = Tail(@), ![VerdictList[v]] = Tail(@)]
       /\ UNCHANGED crashed

updateResult ==
  IF step = Test_Over
  THEN step' = Test_End /\ shown' = (IF result = Test_Fail THEN "fail" ELSE "pass")
  ELSE UNCHANGED <<step, shown>>

\* Home_WorkWid::timeoutDone: one row of the log, then the result.
workTimeoutDone ==
  /\ Looping
  /\ step # Test_Fun
  /\ list[TextList["log"]] # <<>> \/ step = Test_Over
  /\ IF list[TextList["log"]] = <<>>
     THEN UNCHANGED <<list, rows, crashed>>
     ELSE showRow("log")
  /\ IF crashed' THEN UNCHANGED <<step, shown>> ELSE updateResult
  /\ UNCHANGED <<env, result, producers, core, init, inits, torn>>

\* Td_StatusTabWid::timeoutDone: one row of the table.
tableTimeoutDone ==
  /\ Looping
  /\ list[TextList["table"]] # <<>>
  /\ showRow("table")
  /\ UNCHANGED <<env, step, result, producers, core, init, shown, inits, torn>>

-----------------------------------------------------------------------------
reports(t) == append(t) \/ judgeItem(t)

Step ==
  \/ \E t \in Threads, ok \in BOOLEAN, direct \in BOOLEAN : updatePro(t, ok, direct)
  \/ \E t \in Threads : reports(t)
  \/ workDown \/ workResult
  \/ startBtn_clicked \/ clearList \/ initEnds \/ endEarly
  \/ workTimeoutDone \/ tableTimeoutDone

\* Whoever reads an empty list takes the program down.
Next == ~crashed /\ Step

Spec == Init /\ [][Next]_vars

\* Threads are scheduled and the timers fire; nobody has to click, and nothing
\* has to be reported.
Fairness ==
  /\ \A t \in Producers : WF_vars(~crashed /\ reports(t))
  /\ WF_vars(~crashed /\ (workDown \/ workResult))
  /\ WF_vars(~crashed /\ (clearList \/ initEnds))
  /\ WF_vars(~crashed /\ workTimeoutDone)
  /\ WF_vars(~crashed /\ tableTimeoutDone)

FairSpec == Spec /\ Fairness

-----------------------------------------------------------------------------
\* One producer that is never cut short by a start.
Calm == Threads = {"core"} /\ ~Overlap

TypeOK ==
  /\ env \in Scenarios
  /\ step \in {Test_Fun, Test_Start, Test_Over, Test_End}
  /\ result \in {Test_Info, Test_Fail}
  /\ \A l \in DOMAIN list : list[l] \in Seq(Items)
  /\ at \in [Producers -> 0..5]
  /\ \A t \in Producers : current[t] \in (IF at[t] = 0 THEN {NoItem} ELSE Items)
  /\ core \in {"idle", "begin", "work"}
  /\ init \in 0..5
  /\ crashed \in BOOLEAN /\ torn \in BOOLEAN
  /\ rows \in [Views -> Seq([text : Items, verdict : Items])]
  /\ shown \in {"none", "pass", "fail"}

\* A row shows the verdict of the item it names. With one producer; two that
\* interleave their appends swap their verdicts.
OwnVerdict ==
  Calm => \A v \in Views : \A i \in DOMAIN rows[v] : rows[v][i].text = rows[v][i].verdict

\* A test shown as passed lists no failed item, nor will it list one.
PassListsNoFailure ==
  Calm /\ shown = "pass" =>
    /\ \A v \in Views : \A i \in DOMAIN rows[v] : rows[v][i].verdict.ok
    /\ \A v \in Views : \A i \in DOMAIN list[VerdictList[v]] : list[VerdictList[v]][i].ok

\* The rows of a thread appear in the order of its calls and never twice,
\* whatever the other thread and the start button do in between.
RowsInOrder ==
  \A v \in Views : \A i, j \in DOMAIN rows[v] :
    i < j /\ rows[v][i].text.by = rows[v][j].text.by => rows[v][i].text.id < rows[v][j].text.id

\* Verdicts are appended before texts, so two producers alone never make the
\* GUI read a verdict that is not there; it takes an init across an item.
CrashNeedsInit == crashed => torn

\* Whatever is reported is displayed, unless the next test clears it before.
\* Under Calm; elsewhere the GUI may have crashed.
AllShown ==
  \A v \in Views : (Calm /\ list[TextList[v]] # <<>>) ~> list[TextList[v]] = <<>>
=============================================================================
