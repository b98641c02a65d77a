--------------------------- MODULE TestRunProofs ---------------------------
(***************************************************************************)
(* Proofs about TestRun for every order, every number of clicks and every  *)
(* operator: also for one who starts a test while the core thread of the   *)
(* one before still runs.                                                  *)
(***************************************************************************)
EXTENDS TestRun, TLAPS

\* The steps enumerated in Next, for the case splits below.
LEMMA NextCases ==
  ASSUME Next
  PROVE  \/ startBtn_clicked \/ confirmFirst \/ endBtn_clicked
         \/ \E yes \in BOOLEAN : answerEnd(yes)
         \/ \E answer \in {1, 2} : noloadHomeSlot(answer)
         \/ threadStart \/ noLoadSlot \/ timeoutDone
         \/ workDown \/ readDev \/ phaseReturns \/ askNoLoad \/ answered \/ volReturns
         \/ countTest \/ judgeTest \/ workResult \/ runReturns \/ threadFinished
         \/ checkFails \/ udpItem \/ udpReport
BY DEF Next, Operator, Core

\* The Boolean variables keep their type (an obligation without arithmetic).
LEMMA FlagsTyped ==
  ASSUME FlagsOK, [Next]_vars
  PROVE  FlagsOK'
  <1> USE DEF FlagsOK, shared, gui, asking, core, tally
  <1>1. CASE startBtn_clicked
    BY <1>1, Zenon DEF startBtn_clicked, initWid
  <1>2. CASE confirmFirst
    BY <1>2, Zenon DEF confirmFirst, initWid
  <1>3. CASE endBtn_clicked
    BY <1>3, Zenon DEF endBtn_clicked
  <1>4. ASSUME NEW yes \in BOOLEAN, answerEnd(yes)
        PROVE  FlagsOK'
    BY <1>4, Zenon DEF answerEnd, updateResult
  <1>5. ASSUME NEW answer \in {1, 2}, noloadHomeSlot(answer)
        PROVE  FlagsOK'
    BY <1>5, Zenon DEF noloadHomeSlot
  <1>6. CASE threadStart
    BY <1>6, Zenon DEF threadStart
  <1>7. CASE noLoadSlot
    BY <1>7, Zenon DEF noLoadSlot
  <1>8. CASE timeoutDone
    BY <1>8, Zenon DEF timeoutDone, updateResult
  <1>9. CASE workDown
    BY <1>9, Zenon DEF workDown
  <1>10. CASE readDev
    BY <1>10, Zenon DEF readDev, ReadFails, ReadGoesOn
  <1>11. CASE phaseReturns
    <2>1. PICK r \in (IF failed THEN MaskedRet(pc) ELSE {TRUE}) : ret' = r
      BY <1>11 DEF phaseReturns
    <2>2. r \in BOOLEAN
      BY <2>1, <1>11 DEF MaskedRet, phaseReturns, Phases
    <2>3. QED
      BY <1>11, <2>1, <2>2, Zenon DEF phaseReturns
  <1>12. CASE askNoLoad
    BY <1>12, Zenon DEF askNoLoad
  <1>13. CASE answered
    BY <1>13, Zenon DEF answered
  <1>14. CASE volReturns
    BY <1>14, Zenon DEF volReturns
  <1>15. CASE countTest
    BY <1>15, Zenon DEF countTest
  <1>16. CASE judgeTest
    BY <1>16, Zenon DEF judgeTest
  <1>17. CASE workResult
    BY <1>17, Zenon DEF workResult
  <1>18. CASE runReturns
    BY <1>18, Zenon DEF runReturns
  <1>19. CASE threadFinished
    BY <1>19, Zenon DEF threadFinished
  <1>20. CASE checkFails
    BY <1>20, Zenon DEF checkFails, FailedItem
  <1>21. CASE udpItem
    BY <1>21, Zenon DEF udpItem
  <1>22. CASE udpReport
    BY <1>22, Zenon DEF udpReport
  <1>23. CASE UNCHANGED vars
    BY <1>23, Zenon DEF vars
  <1>24. QED
    BY <1>1, <1>2, <1>3, <1>4, <1>5, <1>6, <1>7, <1>8, <1>9, <1>10, <1>11, <1>12, <1>13,
       <1>14, <1>15, <1>16, <1>17, <1>18, <1>19, <1>20, <1>21, <1>22, <1>23, NextCases

\* Every variable keeps its type: in particular no counter of the handshake or
\* of the order goes below zero.
THEOREM TypeCorrect == Spec => []TypeOK
<1> USE DEF Test_Fun, Test_Start, Test_vert, Test_Over, Test_End, Test_Info, Test_Fail,
            CorePc, Reading, Phases, Recorded
<1>1. Init => TypeOK
  <2>1. Init => FlagsOK
    BY Zenon DEF Init, FlagsOK
  <2>2. QED
    BY <2>1, RunAssumption DEF Init, TypeOK, RunAssumption
<1>2. TypeOK /\ [Next]_vars => TypeOK'
  <2> SUFFICES ASSUME TypeOK, [Next]_vars
               PROVE  TypeOK'
    OBVIOUS
  <2>0. FlagsOK'
    BY FlagsTyped DEF TypeOK
  <2> USE DEF TypeOK, shared, gui, asking, core, tally
  <2>1. CASE startBtn_clicked
    BY <2>0, <2>1 DEF startBtn_clicked, initWid
  <2>2. CASE confirmFirst
    BY <2>0, <2>2 DEF confirmFirst, initWid
  <2>3. CASE endBtn_clicked
    BY <2>0, <2>3 DEF endBtn_clicked
  <2>4. ASSUME NEW yes \in BOOLEAN, answerEnd(yes)
        PROVE  TypeOK'
    BY <2>0, <2>4 DEF answerEnd, updateResult
  <2>5. ASSUME NEW answer \in {1, 2}, noloadHomeSlot(answer)
        PROVE  TypeOK'
    BY <2>0, <2>5 DEF noloadHomeSlot
  <2>6. CASE threadStart
    BY <2>0, <2>6 DEF threadStart
  <2>7. CASE noLoadSlot
    BY <2>0, <2>7 DEF noLoadSlot
  <2>8. CASE timeoutDone
    BY <2>0, <2>8 DEF timeoutDone, updateResult
  <2>9. CASE workDown
    BY <2>0, <2>9 DEF workDown
  <2>10. CASE readDev
    BY <2>0, <2>10 DEF readDev, ReadFails, ReadGoesOn
  <2>11. CASE phaseReturns
    <3>1. PICK r \in BOOLEAN : pc' = NextPhase(pc, r)
      BY <2>0, <2>11 DEF phaseReturns, MaskedRet, FlagsOK
    <3>2. pc' \in CorePc
      BY <3>1, <2>11 DEF NextPhase, phaseReturns
    <3>3. QED
      BY <2>0, <2>11, <3>2 DEF phaseReturns
  <2>12. CASE askNoLoad
    BY <2>0, <2>12 DEF askNoLoad
  <2>13. CASE answered
    BY <2>0, <2>13 DEF answered
  <2>14. CASE volReturns
    BY <2>0, <2>14 DEF volReturns
  <2>15. CASE countTest
    BY <2>0, <2>15 DEF countTest
  <2>16. CASE judgeTest
    BY <2>0, <2>16 DEF judgeTest
  <2>17. CASE workResult
    BY <2>0, <2>17 DEF workResult
  <2>18. CASE runReturns
    BY <2>0, <2>18 DEF runReturns
  <2>19. CASE threadFinished
    BY <2>0, <2>19 DEF threadFinished
  <2>20. CASE checkFails
    BY <2>0, <2>20 DEF checkFails, FailedItem
  <2>21. CASE udpItem
    BY <2>0, <2>21 DEF udpItem
  <2>22. CASE udpReport
    BY <2>0, <2>22 DEF udpReport
  <2>23. CASE UNCHANGED vars
    BY <2>0, <2>23 DEF vars
  <2>24. QED
    BY <2>0, <2>1, <2>2, <2>3, <2>4, <2>5, <2>6, <2>7, <2>8, <2>9, <2>10, <2>11, <2>12, <2>13,
       <2>14, <2>15, <2>16, <2>17, <2>18, <2>19, <2>20, <2>21, <2>22, <2>23, NextCases
<1>3. QED
  BY <1>1, <1>2, PTL DEF Spec

\* Every run of the core thread puts the test in the tally once, in two writes.
THEOREM TallyCorrect == Spec => []TallyAddsUp
<1>1. Init => TallyAddsUp
  BY DEF Init, TallyAddsUp
<1>2. TypeOK /\ TallyAddsUp /\ [Next]_vars => TallyAddsUp'
  <2> SUFFICES ASSUME TypeOK, TallyAddsUp, [Next]_vars
               PROVE  TallyAddsUp'
    OBVIOUS
  <2> USE DEF TypeOK, TallyAddsUp, shared, gui, asking, core, tally, Phases
  <2>1. CASE startBtn_clicked
    BY <2>1 DEF startBtn_clicked, initWid
  <2>2. CASE confirmFirst
    BY <2>2 DEF confirmFirst, initWid
  <2>3. CASE endBtn_clicked
    BY <2>3 DEF endBtn_clicked
  <2>4. ASSUME NEW yes \in BOOLEAN, answerEnd(yes)
        PROVE  TallyAddsUp'
    BY <2>4 DEF answerEnd, updateResult
  <2>5. ASSUME NEW answer \in {1, 2}, noloadHomeSlot(answer)
        PROVE  TallyAddsUp'
    BY <2>5 DEF noloadHomeSlot
  <2>6. CASE threadStart
    BY <2>6 DEF threadStart
  <2>7. CASE noLoadSlot
    BY <2>7 DEF noLoadSlot
  <2>8. CASE timeoutDone
    BY <2>8 DEF timeoutDone, updateResult
  <2>9. CASE workDown
    BY <2>9 DEF workDown
  <2>10. CASE readDev
    BY <2>10 DEF readDev, ReadFails, ReadGoesOn
  <2>11. CASE phaseReturns
    BY <2>11 DEF phaseReturns, NextPhase
  <2>12. CASE askNoLoad
    BY <2>12 DEF askNoLoad
  <2>13. CASE answered
    BY <2>13 DEF answered
  <2>14. CASE volReturns
    BY <2>14 DEF volReturns
  <2>15. CASE countTest
    BY <2>15 DEF countTest
  <2>16. CASE judgeTest
    BY <2>16 DEF judgeTest
  <2>17. CASE workResult
    BY <2>17 DEF workResult
  <2>18. CASE runReturns
    BY <2>18 DEF runReturns
  <2>19. CASE threadFinished
    BY <2>19 DEF threadFinished
  <2>20. CASE checkFails
    BY <2>20 DEF checkFails, FailedItem
  <2>21. CASE udpItem
    BY <2>21 DEF udpItem
  <2>22. CASE udpReport
    BY <2>22 DEF udpReport
  <2>23. CASE UNCHANGED vars
    BY <2>23 DEF vars
  <2>24. QED
    BY <2>1, <2>2, <2>3, <2>4, <2>5, <2>6, <2>7, <2>8, <2>9, <2>10, <2>11, <2>12, <2>13,
       <2>14, <2>15, <2>16, <2>17, <2>18, <2>19, <2>20, <2>21, <2>22, <2>23, NextCases
<1>3. QED
  BY <1>1, <1>2, TypeCorrect, PTL DEF Spec

\* An answer to the no-load question is used by the run that asked, once.
THEOREM HandshakeCorrect == Spec => []OneAnswerPerQuestion
<1>1. Init => HandshakeInv
  BY DEF Init, HandshakeInv, OneAnswerPerQuestion
<1>2. TypeOK /\ HandshakeInv /\ [Next]_vars => HandshakeInv'
  <2> SUFFICES ASSUME TypeOK, HandshakeInv, [Next]_vars
               PROVE  HandshakeInv'
    OBVIOUS
  <2> USE DEF TypeOK, HandshakeInv, OneAnswerPerQuestion, shared, gui, asking, core, tally,
              Phases
  <2>1. CASE startBtn_clicked
    BY <2>1 DEF startBtn_clicked, initWid
  <2>2. CASE confirmFirst
    BY <2>2 DEF confirmFirst, initWid
  <2>3. CASE endBtn_clicked
    BY <2>3 DEF endBtn_clicked
  <2>4. ASSUME NEW yes \in BOOLEAN, answerEnd(yes)
        PROVE  HandshakeInv'
    BY <2>4 DEF answerEnd, updateResult
  <2>5. ASSUME NEW answer \in {1, 2}, noloadHomeSlot(answer)
        PROVE  HandshakeInv'
    BY <2>5 DEF noloadHomeSlot
  <2>6. CASE threadStart
    BY <2>6 DEF threadStart
  <2>7. CASE noLoadSlot
    BY <2>7 DEF noLoadSlot
  <2>8. CASE timeoutDone
    BY <2>8 DEF timeoutDone, updateResult
  <2>9. CASE workDown
    BY <2>9 DEF workDown
  <2>10. CASE readDev
    BY <2>10 DEF readDev, ReadFails, ReadGoesOn
  <2>11. CASE phaseReturns
    BY <2>11 DEF phaseReturns, NextPhase
  <2>12. CASE askNoLoad
    BY <2>12 DEF askNoLoad
  <2>13. CASE answered
    BY <2>13 DEF answered
  <2>14. CASE volReturns
    BY <2>14 DEF volReturns
  <2>15. CASE countTest
    BY <2>15 DEF countTest
  <2>16. CASE judgeTest
    BY <2>16 DEF judgeTest
  <2>17. CASE workResult
    BY <2>17 DEF workResult
  <2>18. CASE runReturns
    BY <2>18 DEF runReturns
  <2>19. CASE threadFinished
    BY <2>19 DEF threadFinished
  <2>20. CASE checkFails
    BY <2>20 DEF checkFails, FailedItem
  <2>21. CASE udpItem
    BY <2>21 DEF udpItem
  <2>22. CASE udpReport
    BY <2>22 DEF udpReport
  <2>23. CASE UNCHANGED vars
    BY <2>23 DEF vars
  <2>24. QED
    BY <2>1, <2>2, <2>3, <2>4, <2>5, <2>6, <2>7, <2>8, <2>9, <2>10, <2>11, <2>12, <2>13,
       <2>14, <2>15, <2>16, <2>17, <2>18, <2>19, <2>20, <2>21, <2>22, <2>23, NextCases
<1>3. HandshakeInv => OneAnswerPerQuestion
  BY DEF HandshakeInv
<1>4. QED
  BY <1>1, <1>2, <1>3, TypeCorrect, PTL DEF Spec

-----------------------------------------------------------------------------
(* Verdict, display and order.                                             *)

\* The strengthening holds in every state: the verdict, the step, the tally and
\* the display stay consistent while the threads and dialogs interleave.
LEMMA VerdictInductive == Spec => []VerdictInv
<1> USE DEF Test_Fun, Test_Start, Test_vert, Test_Over, Test_End, Test_Info, Test_Fail,
            CorePc, Reading, Phases, Recorded, InTest
<1>1. Init => VerdictInv
  BY RunAssumption DEF Init, VerdictInv, OrderInv, RunInv, RunAssumption
<1>2. TypeOK /\ VerdictInv /\ [Next]_vars => VerdictInv'
  <2> SUFFICES ASSUME TypeOK, VerdictInv, [Next]_vars
               PROVE  VerdictInv'
    OBVIOUS
  <2> USE RunAssumption DEF RunAssumption, TypeOK, FlagsOK, VerdictInv, OrderInv, RunInv,
                            shared, gui, asking, core, tally
  <2>1. CASE startBtn_clicked
    BY <2>1 DEF startBtn_clicked, initWid
  <2>2. CASE confirmFirst
    BY <2>2 DEF confirmFirst, initWid
  <2>3. CASE endBtn_clicked
    BY <2>3 DEF endBtn_clicked, Looping
  <2>4. ASSUME NEW yes \in BOOLEAN, answerEnd(yes)
        PROVE  VerdictInv'
    BY <2>4 DEF answerEnd, updateResult
  <2>5. ASSUME NEW answer \in {1, 2}, noloadHomeSlot(answer)
        PROVE  VerdictInv'
    BY <2>5 DEF noloadHomeSlot
  <2>6. CASE threadStart
    BY <2>6 DEF threadStart
  <2>7. CASE noLoadSlot
    BY <2>7 DEF noLoadSlot
  <2>8. CASE timeoutDone
    BY <2>8 DEF timeoutDone, updateResult
  <2>9. CASE workDown
    BY <2>9 DEF workDown
  <2>10. CASE readDev
    BY <2>10 DEF readDev, ReadFails, ReadGoesOn
  <2>11. CASE phaseReturns
    BY <2>11 DEF phaseReturns, NextPhase
  <2>12. CASE askNoLoad
    BY <2>12 DEF askNoLoad
  <2>13. CASE answered
    BY <2>13 DEF answered
  <2>14. CASE volReturns
    BY <2>14 DEF volReturns
  <2>15. CASE countTest
    BY <2>15 DEF countTest
  <2>16. CASE judgeTest
    BY <2>16 DEF judgeTest
  <2>17. CASE workResult
    BY <2>17 DEF workResult
  <2>18. CASE runReturns
    BY <2>18 DEF runReturns
  <2>19. CASE threadFinished
    BY <2>19 DEF threadFinished
  <2>20. CASE checkFails
    BY <2>20 DEF checkFails, FailedItem
  <2>21. CASE udpItem
    BY <2>21 DEF udpItem
  <2>22. CASE udpReport
    BY <2>22 DEF udpReport
  <2>23. CASE UNCHANGED vars
    BY <2>23 DEF vars
  <2>24. QED
    BY <2>1, <2>2, <2>3, <2>4, <2>5, <2>6, <2>7, <2>8, <2>9, <2>10, <2>11, <2>12, <2>13,
       <2>14, <2>15, <2>16, <2>17, <2>18, <2>19, <2>20, <2>21, <2>22, <2>23, NextCases
<1>3. QED
  BY <1>1, <1>2, TypeCorrect, PTL DEF Spec

\* The tally says fail only when something went wrong during the test, and it
\* does then, but for a test that the last start has overtaken.
THEOREM VerdictCorrect == Spec => []NoFalsePass
<1>1. VerdictInv => NoFalsePass
  BY DEF VerdictInv, RunInv, NoFalsePass
<1>2. QED
  BY <1>1, VerdictInductive, PTL

\* What the screen calls passed is in the tally as passed, if the start was not
\* early.
THEOREM DisplayCorrect == Spec => []ShownPassIsRecorded
<1>1. VerdictInv => ShownPassIsRecorded
  BY DEF VerdictInv, RunInv, ShownPassIsRecorded
<1>2. QED
  BY <1>1, VerdictInductive, PTL

\* No box is forgotten, none is delivered beyond the order as long as starts are
\* not early, and one is at most if they are.
THEOREM OrderCorrect == Spec => []OrderBalance
<1>1. TypeOK /\ VerdictInv => OrderBalance
  BY RunAssumption DEF RunAssumption, TypeOK, VerdictInv, OrderInv, OrderBalance
<1>2. QED
  BY <1>1, TypeCorrect, VerdictInductive, PTL

\* A successful start begins a test of TestVerdict, or overtakes one; one that
\* is refused leaves it alone.
LEMMA InitWidMaps ==
  ASSUME TypeOK, ~starting, initWid, UNCHANGED core
  PROVE  [Verdict!Next]_(Verdict!vars)
<1> USE DEF core, InTest, CorePc, Recorded
<1>1. CASE user /\ num >= 1
  <2>1. /\ starting' = TRUE /\ fault' = (fault /\ pc # "idle") /\ overtaken' = (pc # "idle")
        /\ UNCHANGED <<num, ok, err>>
    BY <1>1, Zenon DEF initWid
  <2>2. num > 0
    BY <1>1 DEF TypeOK
  <2>3. InTest'
    BY <2>1
  <2>4. CASE pc = "idle"
    <3>1. ~InTest /\ InTest \in BOOLEAN /\ InTest' = TRUE /\ fault' = FALSE /\ overtaken' = FALSE
      BY <2>1, <2>3, <2>4, Zenon
    <3>2. Verdict!Begin
      BY <2>1, <2>2, <3>1 DEF Verdict!Begin
    <3>3. QED
      BY <3>2 DEF Verdict!Next
  <2>5. CASE pc # "idle"
    <3>1. InTest' = TRUE /\ fault' = fault /\ overtaken' = TRUE
      BY <2>1, <2>3, <2>5, Zenon DEF TypeOK, FlagsOK
    <3>2. Verdict!Overtake
      BY <2>1, <2>2, <3>1 DEF Verdict!Overtake
    <3>3. QED
      BY <3>2 DEF Verdict!Next
  <2>6. QED
    BY <2>4, <2>5
<1>2. CASE ~(user /\ num >= 1)
  <2>1. UNCHANGED <<starting, pc, fault, overtaken, num, ok, err>>
    BY <1>2, Zenon DEF initWid, shared, tally
  <2>2. QED
    BY <2>1, Zenon DEF Verdict!vars
<1>3. QED
  BY <1>1, <1>2

\* The threads, dialogs and shared fields together implement the promise of
\* TestVerdict.
THEOREM Refinement == Spec => KeepsVerdict
<1> USE DEF Test_Fun, Test_Start, Test_vert, Test_Over, Test_End, Test_Info, Test_Fail,
            CorePc, Reading, Phases, Recorded, InTest
<1>1. Init => Verdict!Init
  BY DEF Init, Verdict!Init
<1>2. TypeOK /\ VerdictInv /\ [Next]_vars => [Verdict!Next]_(Verdict!vars)
  <2> SUFFICES ASSUME TypeOK, VerdictInv, [Next]_vars
               PROVE  [Verdict!Next]_(Verdict!vars)
    OBVIOUS
  <2> USE DEF TypeOK, FlagsOK, VerdictInv, OrderInv, RunInv, shared, gui, asking, core,
              tally, Verdict!Next, Verdict!vars, Verdict!Begin, Verdict!Overtake,
              Verdict!StartLost, Verdict!Fault, Verdict!Entry, Verdict!RecordPass,
              Verdict!RecordFail
  <2>1. CASE startBtn_clicked
    <3>1. CASE mFirst
      BY <2>1, <3>1, InitWidMaps DEF startBtn_clicked, Looping
    <3>2. CASE ~mFirst
      BY <2>1, <3>2, Zenon DEF startBtn_clicked
    <3>3. QED
      BY <3>1, <3>2
  <2>2. CASE confirmFirst
    BY <2>2, InitWidMaps DEF confirmFirst
  <2>3. CASE endBtn_clicked
    BY <2>3 DEF endBtn_clicked
  <2>4. ASSUME NEW yes \in BOOLEAN, answerEnd(yes)
        PROVE  [Verdict!Next]_(Verdict!vars)
    BY <2>4 DEF answerEnd, updateResult
  <2>5. ASSUME NEW answer \in {1, 2}, noloadHomeSlot(answer)
        PROVE  [Verdict!Next]_(Verdict!vars)
    BY <2>5 DEF noloadHomeSlot
  <2>6. CASE threadStart
    BY <2>6 DEF threadStart
  <2>7. CASE noLoadSlot
    BY <2>7 DEF noLoadSlot
  <2>8. CASE timeoutDone
    BY <2>8 DEF timeoutDone, updateResult
  <2>9. CASE workDown
    BY <2>9 DEF workDown
  <2>10. CASE readDev
    BY <2>10 DEF readDev, ReadFails, ReadGoesOn
  <2>11. CASE phaseReturns
    BY <2>11 DEF phaseReturns, NextPhase
  <2>12. CASE askNoLoad
    BY <2>12 DEF askNoLoad
  <2>13. CASE answered
    BY <2>13 DEF answered
  <2>14. CASE volReturns
    BY <2>14 DEF volReturns
  <2>15. CASE countTest
    BY <2>15 DEF countTest
  <2>16. CASE judgeTest
    BY <2>16 DEF judgeTest
  <2>17. CASE workResult
    BY <2>17 DEF workResult
  <2>18. CASE runReturns
    BY <2>18 DEF runReturns
  <2>19. CASE threadFinished
    BY <2>19 DEF threadFinished
  <2>20. CASE checkFails
    BY <2>20 DEF checkFails, FailedItem
  <2>21. CASE udpItem
    BY <2>21 DEF udpItem
  <2>22. CASE udpReport
    BY <2>22 DEF udpReport
  <2>23. CASE UNCHANGED vars
    BY <2>23 DEF vars
  <2>24. QED
    BY <2>1, <2>2, <2>3, <2>4, <2>5, <2>6, <2>7, <2>8, <2>9, <2>10, <2>11, <2>12, <2>13,
       <2>14, <2>15, <2>16, <2>17, <2>18, <2>19, <2>20, <2>21, <2>22, <2>23, NextCases
<1>3. QED
  BY <1>1, <1>2, TypeCorrect, VerdictInductive, PTL DEF Spec, KeepsVerdict, Verdict!Spec
=============================================================================
