------------------------------ MODULE TestRun ------------------------------
(***************************************************************************)
(* One test of a busbar box, from the click on the start button to the     *)
(* entry in the tally: the GUI thread of Home_WorkWid (timer, button,      *)
(* modal dialogs), the core thread of Test_CoreThread and the UDP thread   *)
(* of Test_NetWork, which share sProgress and the counters without a lock. *)
(*                                                                         *)
(* Test_Logs::mLogItems stays empty in this flow (the serial number that   *)
(* appendLogItem requires is only set by snEnter, which nothing calls), so *)
(* it is left out; the two display lists of sProgress are ProgressList's.  *)
(***************************************************************************)
EXTENDS Integers, CheckGroups

CONSTANTS
  Order,      \* cnt.num when the order is entered
  MaxStarts   \* bound on the clicks that start a test

ASSUME RunAssumption == Order \in Nat /\ MaxStarts \in Nat

\* The step and result enumerators of datapacket.h that this flow uses.
Test_Fun   == 0
Test_Start == 1
Test_vert  == 3
Test_Over  == 4
Test_End   == 5
Test_Info  == 0
Test_Fail  == 2

Reading == {"delay", "source", "rtu", "snmp"}

CorePc == {"idle", "begin"} \cup Reading \cup Phases
            \cup {"ask", "wait", "count", "judge", "save", "runEnd", "returned"}

\* The test is in the tally, the thread has yet to return.
Recorded == {"save", "runEnd", "returned"}

VARIABLES
  modeId,    \* "START_BUSBAR" or "INSERT_BUSBAR"
  step,      \* sProgress::step
  result,    \* sProgress::result
  pc,        \* where the core thread stands; "idle": QThread not running
  ret,       \* workDown's local verdict
  failed,    \* some check of the current phase has failed
  mRet,      \* the answer handed to the core thread, -1 for none
  asked,     \* noLoadSig events queued for the GUI thread
  loads,     \* "switch off the load?" dialogs on the screen
  prompt,    \* the dialog under them: "none", "first" or "end"
  mFirst,    \* the first piece has been confirmed
  starting,  \* initWid is done and QThread::start is next
  user,      \* mItem->user is not empty
  num, all, ok, err,  \* mItem->cnt
  udp,       \* Test_NetWork holds a failed item it is about to report
  shown,     \* what timeLab displays: "none", "pass" or "fail"
  recorded,  \* history: verdict entered since the last init
  fault,     \* history: something went wrong since the test began
  overtaken, \* history: the last start came before the core thread had finished
  starts     \* bound: clicks that reached mPacket->init()

shared == <<step, result, fault>>
gui    == <<prompt, mFirst, starting, starts, shown, overtaken>>
asking == <<mRet, asked, loads>>
core   == <<pc, ret, failed>>
tally  == <<user, num, all, ok, err, recorded>>
vars   == <<modeId, shared, gui, asking, core, tally, udp>>

Init ==
  /\ modeId \in {"START_BUSBAR", "INSERT_BUSBAR"}
  /\ step = Test_End
  /\ result = Test_Info
  /\ pc = "idle"
  /\ ret = FALSE
  /\ failed = FALSE
  /\ mRet = -1
  /\ asked = 0
  /\ loads = 0
  /\ prompt = "none"
  /\ mFirst = FALSE
  /\ starting = FALSE
  /\ user = TRUE
  /\ num = Order
  /\ all = 0
  /\ ok = 0
  /\ err = 0
  /\ udp = FALSE
  /\ shown = "none"
  /\ recorded = "none"
  /\ fault = FALSE
  /\ overtaken = FALSE
  /\ starts = 0

-----------------------------------------------------------------------------
(* Shared helpers *)

\* sDataPacket::delay and Rtu_Serial::readSerial give up once this holds.
Stopped == step \in {Test_Over, Test_End}

\* Mutant: a failed item is listed and forgotten.
FailedItem_Forgotten == UNCHANGED result

\* Test_Logs::updatePro with a failed item: ignored once the test has ended.
FailedItem == result' = IF step < Test_End THEN Test_Fail ELSE result

-----------------------------------------------------------------------------
(* The GUI thread *)

\* The event loop turns (also inside a dialog's nested loop).
Looping == ~starting

\* Mutant: the result is shown, the step stays.
updateResult_NoEnd ==
  /\ shown' = IF result' = Test_Fail THEN "fail" ELSE "pass"
  /\ step' = step

updateResult ==
  /\ shown' = IF result' = Test_Fail THEN "fail" ELSE "pass"
  /\ step' = Test_End

\* initWid after its dialogs: user and order checked, then mPacket->init().
\* Nobody looks whether the core thread still runs: then it goes on with the
\* new start's step and result.
initWid ==
  IF user /\ num >= 1
  THEN /\ step' = Test_Fun
       /\ result' = Test_Info
       /\ fault' = (fault /\ pc # "idle")
       /\ overtaken' = (pc # "idle")
       /\ shown' = "none"
       /\ recorded' = "none"
       /\ starting' = TRUE
       /\ starts' = starts + 1
       /\ UNCHANGED <<user, num, all, ok, err>>
  ELSE UNCHANGED <<shared, shown, overtaken, tally, starting, starts>>

startBtn_clicked ==
  /\ Looping
  /\ prompt = "none" /\ loads = 0
  /\ step = Test_End
  /\ starts < MaxStarts
  /\ IF mFirst
     THEN initWid /\ UNCHANGED <<prompt, mFirst>>
     ELSE /\ prompt' = "first"
          /\ UNCHANGED <<shared, mFirst, starting, starts, shown, overtaken, tally>>
  /\ UNCHANGED <<modeId, asking, core, udp>>

confirmFirst ==
  /\ prompt = "first" /\ loads = 0
  /\ prompt' = "none"
  /\ mFirst' = TRUE
  /\ initWid
  /\ UNCHANGED <<modeId, asking, core, udp>>

\* QThread::start does nothing while the thread has not finished.
threadStart ==
  /\ starting
  /\ starting' = FALSE
  /\ pc' = IF pc = "idle" THEN "begin" ELSE pc
  /\ UNCHANGED <<modeId, shared, prompt, mFirst, starts, shown, overtaken, asking, ret,
                 failed, tally, udp>>

endBtn_clicked ==
  /\ Looping
  /\ prompt = "none" /\ loads = 0
  /\ step # Test_End
  /\ prompt' = "end"
  /\ UNCHANGED <<modeId, shared, mFirst, starting, starts, shown, overtaken, asking, core,
                 tally, udp>>

\* "End the test early?": the step is not looked at again.
answerEnd(yes) ==
  /\ prompt = "end" /\ loads = 0
  /\ prompt' = "none"
  /\ IF yes
     THEN /\ result' = Test_Fail
          /\ fault' = TRUE
          /\ updateResult
     ELSE UNCHANGED <<shared, shown>>
  /\ UNCHANGED <<modeId, mFirst, starting, starts, overtaken, asking, core, tally, udp>>

\* Mutant: the slot runs without a signal.
noLoadSlot_Spurious ==
  /\ Looping
  /\ asked' = asked - 1
  /\ loads' = loads + 1
  /\ UNCHANGED <<modeId, shared, gui, mRet, core, tally, udp>>

noLoadSlot ==
  /\ Looping
  /\ asked > 0
  /\ asked' = asked - 1
  /\ loads' = loads + 1
  /\ UNCHANGED <<modeId, shared, gui, mRet, core, tally, udp>>

noloadHomeSlot(answer) ==
  /\ loads > 0
  /\ loads' = loads - 1
  /\ mRet' = answer
  /\ UNCHANGED <<modeId, shared, gui, asked, core, tally, udp>>

timeoutDone ==
  /\ Looping
  /\ step = Test_Over
  /\ UNCHANGED <<result, fault>>
  /\ updateResult
  /\ UNCHANGED <<modeId, prompt, mFirst, starting, starts, overtaken, asking, core, tally,
                 udp>>

-----------------------------------------------------------------------------
(* The core thread *)

workDown ==
  /\ pc = "begin"
  /\ step' = Test_Start
  /\ ret' = FALSE
  /\ pc' = "delay"
  /\ UNCHANGED <<modeId, result, fault, failed, gui, asking, tally, udp>>

\* Mutant: readDev gives up and leaves the verdict to its caller.
ReadFails_Unjudged ==
  /\ fault' = TRUE
  /\ ret' = FALSE
  /\ pc' = "ask"
  /\ UNCHANGED result

\* readDev gives up: result is set and the no-load question is asked anyway.
ReadFails ==
  /\ result' = Test_Fail
  /\ fault' = TRUE
  /\ ret' = FALSE
  /\ pc' = "ask"

ReadGoesOn(next) ==
  /\ ret' = TRUE
  /\ pc' = next
  /\ UNCHANGED <<result, fault>>

\* readDev: the delay, the reference source, the RTU link and, for a start
\* box, SNMP.
readDev ==
  /\ \/ pc = "delay" /\ IF Stopped THEN ReadFails ELSE ReadGoesOn("source")
     \/ pc = "source" /\ (ReadFails \/ ReadGoesOn("rtu"))
     \/ pc = "rtu" /\ \/ ReadFails
                      \/ ReadGoesOn(IF modeId = "START_BUSBAR" THEN "snmp" ELSE "err")
     \/ pc = "snmp" /\ (ReadFails \/ ReadGoesOn("err"))
  /\ failed' = FALSE
  /\ UNCHANGED <<modeId, step, gui, asking, tally, udp>>

\* A check of the running phase fails.
checkFails ==
  /\ pc \in Phases
  /\ failed' = TRUE
  /\ fault' = TRUE
  /\ FailedItem
  /\ UNCHANGED <<modeId, step, gui, asking, pc, ret, tally, udp>>

\* The phase returns; compareInsertValue moves the step on, ended or not.
phaseReturns ==
  /\ pc \in Phases \ {"vol"}
  /\ \E r \in (IF failed THEN MaskedRet(pc) ELSE {TRUE}) :
       /\ ret' = r
       /\ pc' = NextPhase(pc, r)
  /\ failed' = FALSE
  /\ step' = IF pc = "base" /\ modeId = "INSERT_BUSBAR" THEN Test_vert ELSE step
  /\ UNCHANGED <<modeId, result, fault, gui, asking, tally, udp>>

\* Mutant: the question is only asked when the checks went well.
askNoLoad_OnSuccess ==
  /\ pc = "ask"
  /\ asked' = IF ret THEN asked + 1 ELSE asked
  /\ pc' = "wait"
  /\ UNCHANGED <<modeId, shared, gui, mRet, loads, ret, failed, tally, udp>>

\* emit noLoadSig(): also after a failed check.
askNoLoad ==
  /\ pc = "ask"
  /\ asked' = asked + 1
  /\ pc' = "wait"
  /\ UNCHANGED <<modeId, shared, gui, mRet, loads, ret, failed, tally, udp>>

\* The wait loop; "no" is answer enough.
answered ==
  /\ pc = "wait"
  /\ mRet \in {1, 2}
  /\ failed' = FALSE
  /\ pc' = "vol"
  /\ UNCHANGED <<modeId, shared, gui, asking, ret, tally, udp>>

\* Mutant: the answer is not taken back.
volReturns_KeepsAnswer ==
  /\ pc = "vol"
  /\ ret' = ~failed
  /\ result' = IF ret' THEN result ELSE Test_Fail
  /\ pc' = "count"
  /\ UNCHANGED <<modeId, step, fault, failed, gui, asking, tally, udp>>

\* checkVolErrRange returns, and its verdict replaces the earlier ones.
volReturns ==
  /\ pc = "vol"
  /\ ret' = ~failed
  /\ mRet' = -1
  /\ result' = IF ret' THEN result ELSE Test_Fail
  /\ pc' = "count"
  /\ UNCHANGED <<modeId, step, fault, failed, gui, asked, loads, tally, udp>>

\* Mutant: the step is closed before the entry is made.
countTest_OverFirst ==
  /\ pc = "count"
  /\ all' = all + 1
  /\ step' = Test_Over
  /\ pc' = "judge"
  /\ UNCHANGED <<modeId, result, fault, gui, asking, ret, failed, user, num, ok, err,
                 recorded, udp>>

\* writeLog: first the total, then the verdict, read from result.
countTest ==
  /\ pc = "count"
  /\ all' = all + 1
  /\ pc' = "judge"
  /\ UNCHANGED <<modeId, shared, gui, asking, ret, failed, user, num, ok, err, recorded, udp>>

\* Mutant: a failed box is taken off the order as well.
judgeTest_AlwaysDelivers ==
  /\ pc = "judge"
  /\ ok' = IF result # Test_Fail THEN ok + 1 ELSE ok
  /\ err' = IF result = Test_Fail THEN err + 1 ELSE err
  /\ recorded' = IF result # Test_Fail THEN "pass" ELSE "fail"
  /\ num' = IF num > 0 THEN num - 1 ELSE num
  /\ user' = (user /\ num # 1)
  /\ pc' = "save"
  /\ UNCHANGED <<modeId, shared, gui, asking, ret, failed, all, udp>>

\* Mutant: failures are not counted.
judgeTest_NoErr ==
  /\ pc = "judge"
  /\ ok' = IF result # Test_Fail THEN ok + 1 ELSE ok
  /\ pc' = "save"
  /\ UNCHANGED <<modeId, shared, gui, asking, ret, failed, user, num, all, err, recorded, udp>>

judgeTest ==
  /\ pc = "judge"
  /\ IF result # Test_Fail
     THEN /\ ok' = ok + 1
          /\ num' = IF num > 0 THEN num - 1 ELSE num
          /\ user' = (user /\ num # 1)
          /\ recorded' = "pass"
          /\ UNCHANGED err
     ELSE /\ err' = err + 1
          /\ recorded' = "fail"
          /\ UNCHANGED <<user, num, ok>>
  /\ pc' = "save"
  /\ UNCHANGED <<modeId, shared, gui, asking, ret, failed, all, udp>>

\* The rest of workResult, and run()'s own assignment of the step after it.
workResult ==
  /\ pc = "save"
  /\ step' = Test_Over
  /\ pc' = "runEnd"
  /\ UNCHANGED <<modeId, result, fault, gui, asking, ret, failed, tally, udp>>

runReturns ==
  /\ pc = "runEnd"
  /\ step' = Test_Over
  /\ pc' = "returned"
  /\ UNCHANGED <<modeId, result, fault, gui, asking, ret, failed, tally, udp>>

\* Qt marks the thread finished some time after run() has returned.
threadFinished ==
  /\ pc = "returned"
  /\ pc' = "idle"
  /\ UNCHANGED <<modeId, shared, gui, asking, ret, failed, tally, udp>>

-----------------------------------------------------------------------------
(* The UDP thread: Test_NetWork::workDown with an item "...;0" *)

udpItem ==
  /\ ~udp
  /\ step < Test_End
  /\ udp' = TRUE
  /\ UNCHANGED <<modeId, shared, gui, asking, core, tally>>

udpReport ==
  /\ udp
  /\ udp' = FALSE
  /\ result' = Test_Fail
  /\ fault' = TRUE
  /\ UNCHANGED <<modeId, step, gui, asking, core, tally>>

-----------------------------------------------------------------------------
Core ==
  \/ workDown \/ readDev \/ phaseReturns \/ askNoLoad \/ answered \/ volReturns
  \/ countTest \/ judgeTest \/ workResult \/ runReturns \/ threadFinished

Operator ==
  \/ startBtn_clicked \/ confirmFirst \/ endBtn_clicked
  \/ \E yes \in BOOLEAN : answerEnd(yes)

Next ==
  \/ Operator
  \/ \E answer \in {1, 2} : noloadHomeSlot(answer)
  \/ threadStart \/ noLoadSlot \/ timeoutDone
  \/ Core \/ checkFails
  \/ udpItem \/ udpReport

Spec == Init /\ [][Next]_vars

\* Threads are scheduled, the event loop turns, and the operator answers the
\* dialogs; nobody has to click a button, and nothing has to fail.
Fairness ==
  /\ WF_vars(Core)
  /\ WF_vars(threadStart)
  /\ WF_vars(noLoadSlot)
  /\ WF_vars(timeoutDone)
  /\ WF_vars(\E answer \in {1, 2} : noloadHomeSlot(answer))
  /\ WF_vars(\E yes \in BOOLEAN : answerEnd(yes))

FairSpec == Spec /\ Fairness

-----------------------------------------------------------------------------
\* A test has been started and is not in the tally yet.
InTest == starting \/ pc \in CorePc \ ({"idle"} \cup Recorded)

FlagsOK ==
  /\ ret \in BOOLEAN /\ failed \in BOOLEAN
  /\ mFirst \in BOOLEAN /\ starting \in BOOLEAN
  /\ user \in BOOLEAN /\ udp \in BOOLEAN /\ fault \in BOOLEAN /\ overtaken \in BOOLEAN

TypeOK ==
  /\ FlagsOK
  /\ modeId \in {"START_BUSBAR", "INSERT_BUSBAR"}
  /\ step \in {Test_Fun, Test_Start, Test_vert, Test_Over, Test_End}
  /\ result \in {Test_Info, Test_Fail}
  /\ pc \in CorePc
  /\ mRet \in {-1, 1, 2}
  /\ asked \in Nat /\ loads \in Nat
  /\ prompt \in {"none", "first", "end"}
  /\ num \in Nat /\ all \in Nat /\ ok \in Nat /\ err \in Nat
  /\ shown \in {"none", "pass", "fail"}
  /\ recorded \in {"none", "pass", "fail"}
  /\ starts \in Nat

\* Every finished test is in the tally once: the total of countTest and the
\* verdict of judgeTest are separate writes, and no click may come between.
TallyAddsUp == all = ok + err + (IF pc = "judge" THEN 1 ELSE 0)

\* The no-load handshake between the core thread and the GUI: from the signal
\* to the reset of mRet exactly one of queued signal, dialog and unread answer
\* exists, and otherwise none. So an answer is never taken for another
\* question, none is lost, and no second dialog appears.
OneAnswerPerQuestion ==
  asked + loads + (IF mRet = -1 THEN 0 ELSE 1) = (IF pc \in {"wait", "vol"} THEN 1 ELSE 0)

\* The tally entry is "fail" only if a check failed, the device could not be
\* read, the network reported an error or the operator confirmed the early end,
\* and then it is "fail". A start that overtakes a running core thread takes
\* its failure back (initWid clears result), and nothing but that does: the
\* next test is judged by its own faults again.
NoFalsePass ==
  pc = "judge" =>
    /\ result = Test_Fail => fault
    /\ ~overtaken /\ fault => result = Test_Fail

\* A test shown as passed has been entered as passed, unless the last start
\* overtook the core thread.
ShownPassIsRecorded == ~overtaken /\ shown = "pass" => recorded = "pass"

\* Passed and outstanding boxes make the order, and the customer is kept until
\* the last of them. Starts that overtake the core thread, however many, deliver
\* one box beyond the order at most.
OrderBalance ==
  /\ user \/ num = 0
  /\ ok + num \in Order..Order + (IF overtaken THEN 1 ELSE 0)

\* What makes OneAnswerPerQuestion inductive: the voltage checks run with the
\* answer still in mRet.
HandshakeInv ==
  /\ OneAnswerPerQuestion
  /\ pc = "vol" => mRet # -1

\* The box beyond the order: the last but one passes between the two halves of
\* a click on start, initWid and QThread::start.
OrderInv ==
  /\ user \/ num = 0
  /\ ok + num = Order \/ (overtaken /\ ok = Order + 1 /\ num = 0 /\ ~InTest)
  /\ InTest /\ ~overtaken => num > 0
  /\ starting /\ num = 0 => pc \in Recorded \cup {"idle"}

\* What holds of a run that no start has overtaken.
RunInv ==
  /\ fault => result = Test_Fail
  /\ step = Test_Over => pc \in {"idle", "runEnd", "returned"}
  /\ step = Test_End /\ InTest => fault
  /\ starting => pc = "idle" /\ step = Test_Fun
  /\ InTest \/ pc = "save" => shown # "pass"
  /\ (pc \in Recorded \/ step = Test_Over) /\ ~fault => recorded = "pass"
  /\ shown = "pass" => recorded = "pass"

\* What makes NoFalsePass, OrderBalance and ShownPassIsRecorded inductive.
VerdictInv ==
  /\ result = Test_Fail => fault
  /\ failed /\ pc \in Phases => fault
  /\ pc # "idle" \/ starting => mFirst
  /\ prompt = "first" => ~mFirst
  /\ starting => prompt = "none"
  /\ OrderInv
  /\ ~overtaken => RunInv

\* The core thread always comes to its end, whatever the operator clicks.
RunEnds == pc = "begin" ~> pc = "idle"

\* A started test ends on the screen, and the start button works again. (The
\* start that overtakes may be lost on a thread about to finish; then only the
\* end button leads on.)
StartEnds == starting /\ ~overtaken ~> step = Test_End

\* The bench keeps the promise of TestVerdict.
Verdict == INSTANCE TestVerdict WITH
  testing <- InTest,
  faulty <- fault

KeepsVerdict == Verdict!Spec
=============================================================================
