----------------------------- MODULE BoxCheck -----------------------------
(***************************************************************************)
(* The inside of a test: how Test_DevRead gets the values of the box on    *)
(* the bench (RTU link, SNMP walk, rereading) and how the groups of checks *)
(* of Test_CoreThread judge them item by item.  Boxes are tested one after *)
(* another; what the program keeps from one to the next is the shared      *)
(* memory with the values and the last packet of the RTU reader.           *)
(*                                                                         *)
(* A box has at most one defect, named after the item that should find it, *)
(* and a value read from it shows the defect or not.  "steady" is FALSE if *)
(* the electrical values were out of range at the moment of the reading.   *)
(* The residual current option of a start box is the exception: it is one  *)
(* of the options compared, the RTU reply brings it, and the SNMP walk     *)
(* does not.                                                               *)
(* The no-load question, the early end and the reference source are        *)
(* TestRun's.  ip.addr, which factorySet compares with SNMP, is never      *)
(* assigned, so its switching of the mode is left out.                     *)
(***************************************************************************)
EXTENDS Integers, SequencesExt, CheckGroups

CONSTANTS
  MaxBoxes,  \* bound on the boxes put on the bench
  MaxLines,  \* loops of a start box, and of the largest insert box
  Tries,     \* readings per item or link: 5 or 6 in the code
  MaxMishaps,  \* bound on the readings and writes that go wrong
  Defects    \* the items a box may be faulty in

NoDefect == <<"none", 0>>
Unread == <<"unread", 0>>  \* the zeros before the first reading

\* What is judged of every line, of the box, and of the energy meters.
LineNames == {"cur", "pow", "vol", "volTh", "curTh", "powTh", "lineVolTh"}
LastNames ==
  {"tem", "version", "base", "residual", "temTh", "hzTh", "totalPowTh", "zeroCurTh",
   "residualTh"}
EnergyNames == {"ele", "ele0"}

DefectItems == (LineNames \X (Nat \ {0})) \cup (LastNames \X {0})

ASSUME BoxAssumption ==
  /\ MaxBoxes \in Nat /\ MaxLines \in Nat \ {0} /\ Tries \in Nat \ {0} /\ MaxMishaps \in Nat
  /\ Defects \subseteq DefectItems

Modes == {"START_BUSBAR", "INSERT_BUSBAR"}
Lines == 1..MaxLines

\* Address bytes: 1 is a start box, 2 the insert box, 0 anything else.
Addrs == 0..2
addr(mode) == IF mode = "START_BUSBAR" THEN 1 ELSE 2

VARIABLES
  modeId, ip_mode, ip_residual, eleCheck,  \* settings
  box,       \* on the bench: [defect, loops, ele]
  boxes,     \* bound: boxes put on the bench so far
  data,      \* mBusData->box[addr - 1] of both kinds
  reState,   \* mBusData->box[0].reState, which data leaves out
  rtuAddr,   \* mRtuPkt->addr
  pc,        \* reading or group of checks under way
  todo,      \* the items up to the end of the line, or of the group
  tries,     \* readings made for the first of them
  ret, res,  \* the group's locals
  failed,    \* a check of the group has failed
  result,    \* sProgress::result is Test_Fail
  cleared,   \* history: the lines whose meters were cleared in this test
  events,    \* history: what went wrong outside the box in this test
  mishaps    \* bound: how often it did in all tests

settings == <<modeId, ip_mode, ip_residual, eleCheck>>
reader   == <<data, reState, rtuAddr>>
history  == <<events, mishaps>>
group    == <<todo, ret, res, failed>>
vars     == <<settings, box, boxes, cleared, reader, pc, group, tries, result, history>>

Seen == Defects \cup {NoDefect, Unread}
Values == [defect : Seen, steady : BOOLEAN, ele : 0..1]
Zeros == [defect |-> Unread, steady |-> TRUE, ele |-> 0]

\* The defaults of the settings; a new sBusData is zero, a new Rtu_recv is not
\* initialised.
Init ==
  /\ modeId = "START_BUSBAR" /\ ip_mode = 1 /\ ip_residual = 0 /\ eleCheck = TRUE
  /\ box = [defect |-> NoDefect, loops |-> 1, ele |-> [i \in Lines |-> 0]]
  /\ boxes = 0
  /\ data = [m \in Modes |->
       [loopNum |-> 0, base |-> Unread, tem |-> Unread, line |-> [i \in Lines |-> Zeros]]]
  /\ reState = 0
  /\ rtuAddr \in Addrs
  /\ cleared = {}
  /\ pc = "idle"
  /\ todo = <<>> /\ tries = 0
  /\ ret = TRUE /\ res = TRUE /\ failed = FALSE
  /\ result = FALSE
  /\ events = {} /\ mishaps = 0

-----------------------------------------------------------------------------
(* Reading *)

\* What goes wrong is noted, and bounded unless the program makes it so.
Happens(e) ==
  /\ events' = events \cup e
  /\ mishaps' = mishaps + Cardinality(e \ {"refused"})
  /\ mishaps' <= MaxMishaps

\* The values of one line as they are read now.
LineNow(i, steady) == [defect |-> box.defect, steady |-> steady, ele |-> box.ele[i]]

\* What the box answers for its residual current option: a faulty one has it
\* where the settings have none, or the other way round.
Residual == IF box.defect = <<"residual", 0>> THEN 1 - ip_residual ELSE ip_residual

\* Mutant: the option is not copied.
StoreOption_LeftOut == UNCHANGED reState

\* initData's part of it.
StoreOption == reState' = IF modeId = "START_BUSBAR" THEN Residual ELSE reState

\* loopData, envData, initData: the whole reply is stored, lines beyond the
\* box's own excepted.  A start box's reply lacks the line voltages, the total
\* power limits and some options; the walk stores them before they are judged.
StoreReply(steady) ==
  /\ data' = [data EXCEPT ![modeId] =
       [loopNum |-> box.loops, base |-> box.defect, tem |-> box.defect,
        line |-> [i \in Lines |-> IF i <= box.loops THEN LineNow(i, steady) ELSE @.line[i]]]]
  /\ StoreOption

\* praseMasterVal: a walk stores value by value, here the base values, then
\* line by line, then the sensors; k of these parts are read.  The residual
\* current option is not among them: item 15 goes to lpsState.
StoreWalk(k, steady) ==
  data' = [data EXCEPT ![modeId] =
    [loopNum |-> IF k >= 1 THEN MaxLines ELSE @.loopNum,
     base |-> IF k >= 1 THEN box.defect ELSE @.base,
     tem |-> IF k = MaxLines + 2 THEN box.defect ELSE @.tem,
     line |-> [i \in Lines |-> IF k > i THEN LineNow(i, steady) ELSE @.line[i]]]]

Trouble(steady) == IF steady THEN {} ELSE {"trouble"}

\* rtu_recv_packetV3 expects the length of the kind of box that answered last.
LengthFits(a) == (rtuAddr = 1) <=> (a = 1)

\* Dev_SiRtu::readPduData.  A damaged reply of the right length has its head
\* copied before the CRC is looked at.
readRtu(ok) ==
  \/ /\ ~ok
     /\ UNCHANGED reader
     /\ Happens({"trouble"})
  \/ /\ ~ok /\ LengthFits(addr(modeId))
     /\ rtuAddr' \in Addrs
     /\ UNCHANGED <<data, reState>>
     /\ Happens({"trouble"})
  \/ /\ ~ok /\ ~LengthFits(addr(modeId))
     /\ UNCHANGED reader
     /\ Happens({"refused"})
  \/ /\ ok /\ LengthFits(addr(modeId))
     /\ rtuAddr' = addr(modeId)
     /\ \E steady \in BOOLEAN : StoreReply(steady) /\ Happens(Trouble(steady))
  \/ \E a \in Addrs \ {addr(modeId)} :
       /\ ok /\ LengthFits(a)
       /\ rtuAddr' = a
       /\ UNCHANGED <<data, reState>>
       /\ Happens({"stale"})

\* Dev_IpSnmp::readPduData: TRUE as soon as one value was read.
readWalk(ok) ==
  \E k \in 0..MaxLines + 2, steady \in BOOLEAN :
    /\ ok = (k > 0)
    /\ StoreWalk(k, steady)
    /\ Happens(Trouble(steady)
               \cup (IF k = 0 THEN {"trouble"} ELSE IF k < MaxLines + 2 THEN {"stale"} ELSE {}))
    /\ UNCHANGED <<reState, rtuAddr>>

readDevData(ok) == IF modeId = "START_BUSBAR" THEN readWalk(ok) ELSE readRtu(ok)

\* With SNMP chosen any bytes on the RTU link will do.
readLink(ok) ==
  IF modeId = "START_BUSBAR" /\ ip_mode = 0
  THEN UNCHANGED reader /\ Happens(IF ok THEN {} ELSE {"trouble"})
  ELSE readRtu(ok)

-----------------------------------------------------------------------------
(* Judging *)

\* The items of a group for one line, and those after the lines.
LineItems(phase, i) ==
  CASE phase = "err" -> <<<<"cur", i>>, <<"ele", i>>, <<"pow", i>>>>
    [] phase = "alarm" ->
         <<<<"volTh", i>>, <<"curTh", i>>, <<"powTh", i>>>>
           \o IF modeId = "START_BUSBAR" THEN <<<<"lineVolTh", i>>>> ELSE <<>>
    [] phase = "factory" -> <<<<"ele0", i>>>>
    [] phase = "vol" -> <<<<"vol", i>>>>

LastItems(phase) ==
  CASE phase = "err" -> <<<<"tem", 0>>>>
    [] phase = "version" -> <<<<"version", 0>>>>
    [] phase = "base" ->
         IF modeId = "START_BUSBAR" THEN <<<<"base", 0>>, <<"residual", 0>>>>
         ELSE <<<<"base", 0>>>>
    [] phase = "alarm" ->
         IF modeId = "START_BUSBAR"
         THEN <<<<"temTh", 0>>, <<"hzTh", 0>>, <<"totalPowTh", 0>>, <<"zeroCurTh", 0>>,
                <<"residualTh", 0>>>>
         ELSE <<<<"temTh", 0>>>>
    [] OTHER -> <<>>

\* Mutant: the last line is left out.
After_OneShort(phase, i, loops) ==
  IF phase \in {"err", "alarm", "factory", "vol"} /\ i + 1 < loops
  THEN LineItems(phase, i + 1)
  ELSE LastItems(phase)

\* What follows line i of a box that is said to have so many loops.
After(phase, i, loops) ==
  IF phase \in {"err", "alarm", "factory", "vol"} /\ i < loops
  THEN LineItems(phase, i + 1)
  ELSE LastItems(phase)

\* The values that are read again when they are out of range.
Electrical == {"cur", "pow", "vol"}

\* The reading an item looks at.
DefectSeen(item) ==
  CASE item[2] > 0 -> data[modeId].line[item[2]].defect
    [] item[1] \in {"tem", "temTh"} -> data[modeId].tem
    [] OTHER -> data[modeId].base

\* eleErrRange wants a first count, if the check is on.
EleGood(v) == eleCheck => v.ele = 1

\* Mutant: eleErrRange0 is a copy of eleErrRange.
Ele0Good_Copied(v) == eleCheck => v.ele = 1

Ele0Good(v) == v.ele = 0

Good(item) ==
  LET v == data[modeId].line[item[2]] IN
  CASE item[1] = "ele" -> EleGood(v)
    [] item[1] = "ele0" -> Ele0Good(v)
    [] item[1] = "residual" -> reState = ip_residual
    [] item[1] \in Electrical -> DefectSeen(item) \notin {item, Unread} /\ v.steady
    [] OTHER -> DefectSeen(item) \notin {item, Unread}

\* The power is judged if the energy was right, the sensors if all lines were,
\* their thresholds if the last threshold was.
Skipped(item) ==
  \/ item[1] \in {"pow", "temTh"} /\ ~ret
  \/ item[1] = "tem" /\ ~res

\* Mutant: the last item's verdict is the group's.
Verdict_LastWins(item, ok) ==
  CASE item[1] = "tem" -> res' \in {ok, TRUE} /\ UNCHANGED ret
    [] item[1] = "temTh" -> res' = ok /\ UNCHANGED ret
    [] item[1] \in {"base", "residual", "residualTh"} -> UNCHANGED <<ret, res>>
    [] OTHER -> ret' = ok /\ res' = ok

\* The locals after an item with verdict "ok".  A faulty sensor that is not the
\* last one passes; the sensors' thresholds replace the verdict on the lines.
Verdict(item, ok) ==
  CASE item[1] = "tem" -> res' \in {ok, TRUE} /\ UNCHANGED ret
    [] item[1] = "temTh" -> res' = ok /\ UNCHANGED ret
    [] item[1] \in {"base", "residual", "residualTh"} -> UNCHANGED <<ret, res>>
    [] OTHER -> ret' = ok /\ res' = (res /\ ok)

Enter(phase) ==
  /\ pc' = phase
  /\ todo' = IF phase \in Phases THEN After(phase, 0, data'[modeId].loopNum) ELSE <<>>
  /\ tries' = 0
  /\ ret' = TRUE /\ res' = TRUE /\ failed' = FALSE

-----------------------------------------------------------------------------
(* The operator *)

\* Items only a start box has.
StartOnly == {"residual", "lineVolTh", "hzTh", "totalPowTh", "zeroCurTh", "residualTh"}

\* A box is put on the bench, the settings are made and start is clicked; those
\* of start boxes, which nobody looks at for an insert box, are the defaults then.
startTest(mode, ip, residual, check, defect, loops, ele) ==
  /\ pc = "idle" /\ boxes < MaxBoxes
  /\ IF mode = "START_BUSBAR" THEN loops = MaxLines ELSE ip = 1 /\ residual = 0
  /\ defect[2] <= loops
  /\ defect[1] \in StartOnly => mode = "START_BUSBAR"
  /\ modeId' = mode /\ ip_mode' = ip /\ ip_residual' = residual /\ eleCheck' = check
  /\ box' = [defect |-> defect, loops |-> loops, ele |-> [i \in Lines |-> ele]]
  /\ boxes' = boxes + 1
  /\ cleared' = {}
  /\ result' = FALSE
  /\ events' = IF check /\ ele = 0 THEN {"noEnergy"} ELSE {}
  /\ Enter("init")
  /\ UNCHANGED <<reader, mishaps>>

\* The load stays on until the no-load question, and on if the answer is "no":
\* the meters may make their first count, or the first after the clearing, at
\* any moment of the test; the one after it is out of view.  A count between
\* the clearing and the reading that is to show it is noted.
energyCounts ==
  /\ pc # "idle"
  /\ \E i \in Lines : box.ele[i] = 0
  /\ box' = [box EXCEPT !.ele = [i \in Lines |-> 1]]
  /\ events' = IF pc = "reread" THEN events \cup {"counted"} ELSE events
  /\ UNCHANGED <<settings, boxes, cleared, reader, pc, group, tries, result, mishaps>>

-----------------------------------------------------------------------------
(* The core thread *)

\* The first reading; its outcome is ignored.
initDev ==
  /\ pc = "init"
  /\ \E ok \in BOOLEAN : readDevData(ok)
  /\ pc' = "link"
  /\ UNCHANGED <<settings, box, boxes, cleared, group, tries, result>>

ReadFails ==
  /\ result' = TRUE
  /\ Enter("vol")

\* readDev: attempts on the RTU link, then the walk of a start box.
readDev_link ==
  /\ pc = "link"
  /\ \/ /\ readLink(TRUE)
        /\ Enter(IF modeId = "START_BUSBAR" THEN "walk" ELSE "err")
        /\ UNCHANGED result
     \/ /\ readLink(FALSE)
        /\ IF tries + 1 < Tries
           THEN tries' = tries + 1 /\ UNCHANGED <<pc, group, result>>
           ELSE ReadFails
  /\ UNCHANGED <<settings, box, boxes, cleared>>

readDev_walk ==
  /\ pc = "walk"
  /\ \/ readWalk(TRUE) /\ Enter("err") /\ UNCHANGED result
     \/ readWalk(FALSE) /\ ReadFails
  /\ UNCHANGED <<settings, box, boxes, cleared>>

Item == Head(todo)

\* The loop over the lines looks at loopNum again, which a reading may change.
NextItem ==
  todo' = IF Len(todo) > 1 THEN Tail(todo)
          ELSE IF Item[2] > 0 THEN After(pc, Item[2], data'[modeId].loopNum)
          ELSE <<>>

\* Mutant: one judgement more.
judgeAgain_OneMore ==
  /\ todo # <<>> /\ Item[1] \in Electrical
  /\ ~Skipped(Item) /\ ~Good(Item) /\ tries < Tries
  /\ \E ok \in BOOLEAN : readDevData(ok)
  /\ tries' = tries + 1
  /\ UNCHANGED <<settings, box, boxes, cleared, pc, group, result>>

\* curErrRange, powErrRange, volErrRange: out of range, read and judge again.
judgeAgain ==
  /\ todo # <<>> /\ Item[1] \in Electrical
  /\ ~Skipped(Item) /\ ~Good(Item) /\ tries + 1 < Tries
  /\ \E ok \in BOOLEAN : readDevData(ok)
  /\ tries' = tries + 1
  /\ UNCHANGED <<settings, box, boxes, cleared, pc, group, result>>

\* An item gets its verdict and is listed; the last bad judgement of an
\* electrical value is followed by one more reading.
judge ==
  /\ todo # <<>> /\ ~Skipped(Item)
  /\ LET ok == Good(Item) IN
     /\ ok \/ Item[1] \notin Electrical \/ tries + 1 = Tries
     /\ Verdict(Item, ok)
     /\ failed' = (failed \/ ~ok)
     /\ result' = (result \/ ~ok)
     /\ IF ~ok /\ Item[1] \in Electrical
        THEN \E read \in BOOLEAN : readDevData(read)
        ELSE UNCHANGED <<reader, history>>
  /\ NextItem /\ tries' = 0
  /\ UNCHANGED <<settings, box, boxes, cleared, pc>>

skip ==
  /\ todo # <<>> /\ Skipped(Item)
  /\ UNCHANGED <<settings, box, boxes, cleared, reader, pc, tries, ret, res, failed, result,
                 history>>
  /\ NextItem

AtEnd == pc \in Phases /\ todo = <<>>

\* checkBaseInfo has no verdict, the others return res.
GroupRet == pc = "base" \/ res

groupReturns ==
  /\ AtEnd /\ pc # "vol"
  /\ UNCHANGED <<settings, box, boxes, cleared, reader, result, history>>
  /\ LET next == NextPhase(pc, GroupRet) IN
     Enter(CASE next = "ask" -> "vol" [] next = "factory" -> "clean" [] OTHER -> next)

\* factorySet begins with eleClean, line by line and whatever the box makes of
\* it: an insert box for as many lines as it is thought to have.
eleClean ==
  /\ pc = "clean"
  /\ LET lines == IF modeId = "START_BUSBAR" THEN Lines ELSE 1..data[modeId].loopNum IN
     \E done \in SUBSET lines :
       /\ box' = [box EXCEPT !.ele = [i \in Lines |-> IF i \in done THEN 0 ELSE @[i]]]
       /\ cleared' = done
       /\ Happens(IF done = lines THEN {} ELSE {"trouble"})
  /\ pc' = "reread"
  /\ UNCHANGED <<settings, boxes, reader, group, tries, result>>

\* Its readDevData, the outcome ignored.
factoryReads ==
  /\ pc = "reread"
  /\ \E ok \in BOOLEAN : readDevData(ok)
  /\ Enter("factory")
  /\ UNCHANGED <<settings, box, boxes, cleared, result>>

volReturns ==
  /\ AtEnd /\ pc = "vol"
  /\ result' = (result \/ ~res)
  /\ Enter("idle")
  /\ UNCHANGED <<settings, box, boxes, cleared, reader, history>>

Core ==
  \/ initDev \/ readDev_link \/ readDev_walk
  \/ judgeAgain \/ judge \/ skip \/ groupReturns
  \/ eleClean \/ factoryReads \/ volReturns

Next ==
  \/ \E mode \in Modes, ip \in 0..1, check \in BOOLEAN, loops \in Lines,
       residual \in 0..1, ele \in 0..1, defect \in Defects \cup {NoDefect} :
       startTest(mode, ip, residual, check, defect, loops, ele)
  \/ energyCounts
  \/ Core

Spec == Init /\ [][Next]_vars
-----------------------------------------------------------------------------
TypeOK ==
  /\ modeId \in Modes /\ ip_mode \in 0..1 /\ ip_residual \in 0..1 /\ eleCheck \in BOOLEAN
  /\ box \in [defect : Defects \cup {NoDefect}, loops : Lines, ele : [Lines -> 0..1]]
  /\ boxes \in 0..MaxBoxes
  /\ data \in [Modes -> [loopNum : 0..MaxLines, base : Seen, tem : Seen,
                        line : [Lines -> Values]]]
  /\ reState \in 0..1
  /\ rtuAddr \in Addrs
  /\ cleared \subseteq Lines
  /\ pc \in {"idle", "init", "link", "walk", "clean", "reread"} \cup Phases
  /\ todo \in Seq((LineNames \cup LastNames \cup EnergyNames) \X (0..MaxLines))
  /\ tries \in 0..Tries - 1
  /\ ret \in BOOLEAN /\ res \in BOOLEAN /\ failed \in BOOLEAN /\ result \in BOOLEAN
  /\ mishaps \in 0..MaxMishaps
  /\ events \subseteq {"trouble", "refused", "stale", "noEnergy", "counted"}

Passed == pc = "idle" /\ boxes > 0 /\ ~result
Failed == pc = "idle" /\ boxes > 0 /\ result

\* No reading that returned TRUE left values of an earlier box in place.
AllRead == "stale" \notin events

\* With SNMP chosen no reading of the test brings the residual current option:
\* the one compared is of an earlier box, or the zero of the new memory.
OptionUnread == modeId = "START_BUSBAR" /\ ip_mode = 0

\* A box with a defect in any item of any line does not pass, whatever is
\* skipped, masked or read again on the way, and whatever the shared memory
\* still holds of the box before it. The one defect that can escape is a wrong
\* residual current option when SNMP is chosen.
NoDefectPassed ==
  Passed /\ AllRead =>
    \/ box.defect = NoDefect
    \/ box.defect = <<"residual", 0>> /\ OptionUnread

\* A sound box fails only for a reason outside of it: something went wrong while
\* it was read, or it is held responsible for the option of an earlier box.
SoundBoxPasses ==
  Failed /\ box.defect = NoDefect =>
    \/ events # {}
    \/ OptionUnread /\ reState # ip_residual

\* If the energy is checked, every meter of a box that passed was cleared in
\* this test: a clearing the box ignored is found by the reading after it. (The
\* load is still on: the meters may have counted again since that reading.)
PassedIsCleared ==
  Passed /\ AllRead /\ eleCheck => 1..box.loops \subseteq cleared

\* TestRun takes a group as a whole: a group without a failed check returns
\* TRUE, one with a failed check what MaskedRet allows.
ReturnsAsAssumed == AtEnd => GroupRet \in (IF failed THEN MaskedRet(pc) ELSE {TRUE})

\* "Judge whether the received data is complete" (dev_sirtu.cpp): a complete,
\* intact reply of the box that was asked is taken.
CompleteIsTaken == "refused" \notin events

\* "actual value" (test_errrange.cpp, compareStartInfo): what is compared as the
\* start box's residual current option is the one of the box on the bench.
ComparedIsActual ==
  todo # <<>> /\ Item = <<"residual", 0>> /\ AllRead => reState = Residual
=============================================================================
