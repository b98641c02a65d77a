--------------------------- MODULE BoxCheckProofs ---------------------------
(***************************************************************************)
(* Proofs about BoxCheck: for any number of boxes, lines, attempts and     *)
(* mishaps, and any set of defects that some item is there to find.        *)
(*                                                                         *)
(* All rest on what a reading can come to (Outcome): nothing is stored,    *)
(* all values are the box's, or it returns TRUE and some are stale.  From  *)
(* there, each invariant by one of its own:                                *)
(*   Returns    without a failed check a group's locals are TRUE;          *)
(*   Known      while nothing failed, the groups see fresh values;         *)
(*   Real       a defect is an item of some group;                         *)
(*   Told       the option compared is the one the RTU link brought;       *)
(*   Awaits     and as long as nothing failed, that item is still to be    *)
(*              judged: left of this group, or in a later one;             *)
(*   ClearedAt  what a meter shows, what was read of it, the item that     *)
(*              looks at it and the clearing, from the first reading to    *)
(*              the verdict;                                               *)
(*   Sound      a sound box that is read well has good values throughout.  *)
(***************************************************************************)
EXTENDS BoxCheck, SequenceMembers, FiniteSetTheorems, TLAPS

Places == {"idle", "init", "link", "walk", "clean", "reread"} \union Phases
LinePhases == {"err", "alarm", "factory", "vol"}
ItemNames == LineNames \union LastNames \union EnergyNames
ItemType == ItemNames \X (0..MaxLines)
Store == [loopNum : 0..MaxLines, base : Seen, tem : Seen, line : [Lines -> Values]]
Events == {"trouble", "refused", "stale", "noEnergy", "counted"}

\* The variables have their types; Booleans apart, for the provers' sake.
Typed ==
  /\ modeId \in Modes /\ ip_mode \in 0..1 /\ ip_residual \in 0..1
  /\ box \in [defect : Defects \union {NoDefect}, loops : Lines, ele : [Lines -> 0..1]]
  /\ boxes \in 0..MaxBoxes
  /\ data \in [Modes -> Store]
  /\ reState \in 0..1 /\ rtuAddr \in Addrs
  /\ cleared \subseteq Lines
  /\ pc \in Places
  /\ todo \in Seq(ItemType)
  /\ tries \in 0..Tries - 1
  /\ mishaps \in 0..MaxMishaps
  /\ events \subseteq Events

Flags ==
  /\ eleCheck \in BOOLEAN /\ ret \in BOOLEAN /\ res \in BOOLEAN
  /\ failed \in BOOLEAN /\ result \in BOOLEAN

-----------------------------------------------------------------------------
(* Items *)

\* The kinds of items a group judges line by line, and after the lines.
LineKinds(phase) ==
  CASE phase = "err" -> {"cur", "ele", "pow"}
    [] phase = "alarm" ->
         {"volTh", "curTh", "powTh"}
           \union (IF modeId = "START_BUSBAR" THEN {"lineVolTh"} ELSE {})
    [] phase = "factory" -> {"ele0"}
    [] phase = "vol" -> {"vol"}
    [] OTHER -> {}

LastKinds(phase) ==
  CASE phase = "err" -> {"tem"}
    [] phase = "version" -> {"version"}
    [] phase = "base" ->
         {"base"} \union (IF modeId = "START_BUSBAR" THEN {"residual"} ELSE {})
    [] phase = "alarm" ->
         {"temTh"}
           \union (IF modeId = "START_BUSBAR"
                   THEN {"hzTh", "totalPowTh", "zeroCurTh", "residualTh"} ELSE {})
    [] OTHER -> {}

LineSet(phase, i) == LineKinds(phase) \X {i}
LastSet(phase) == LastKinds(phase) \X {0}

\* What the sequences of items hold: those of a line,
LEMMA LineItemsHeld ==
  ASSUME NEW phase \in LinePhases, NEW i \in Lines
  PROVE  /\ LineItems(phase, i) \in Seq(ItemType)
         /\ LineItems(phase, i) # <<>>
         /\ Held(LineItems(phase, i)) = LineSet(phase, i)
  <1> USE DEF ItemNames, LineNames, LastNames, EnergyNames
  <1>0. i \in 0..MaxLines
    BY BoxAssumption DEF Lines
  <1>1. ASSUME NEW k \in ItemNames
        PROVE  <<k, i>> \in ItemType
    BY <1>0 DEF ItemType
  <1>2. CASE phase = "err"
    <2>1. LineItems(phase, i) = <<<<"cur", i>>, <<"ele", i>>, <<"pow", i>>>>
      BY <1>2 DEF LineItems
    <2>2. LineSet(phase, i) = {<<"cur", i>>, <<"ele", i>>, <<"pow", i>>}
      BY <1>2 DEF LineSet, LineKinds
    <2> DEFINE a == <<"cur", i>>
               b == <<"ele", i>>
               c == <<"pow", i>>
    <2>3. a \in ItemType /\ b \in ItemType /\ c \in ItemType
      BY <1>1
    <2> HIDE DEF a, b, c
    <2>4. <<a, b, c>> \in Seq(ItemType) /\ <<a, b, c>> # <<>> /\ Held(<<a, b, c>>) = {a, b, c}
      BY <2>3, HeldThree
    <2>5. QED
      BY <2>1, <2>2, <2>4 DEF a, b, c
  <1>3. CASE phase = "alarm"
    <2> DEFINE a == <<"volTh", i>>
               b == <<"curTh", i>>
               c == <<"powTh", i>>
               d == <<"lineVolTh", i>>
    <2>1. a \in ItemType /\ b \in ItemType /\ c \in ItemType /\ d \in ItemType
      BY <1>1
    <2>2. LineItems(phase, i) = <<a, b, c>> \o (IF modeId = "START_BUSBAR" THEN <<d>> ELSE <<>>)
      BY <1>3 DEF LineItems
    <2>3. LineSet(phase, i) = {a, b, c} \union (IF modeId = "START_BUSBAR" THEN {d} ELSE {})
      BY <1>3 DEF LineSet, LineKinds
    <2> HIDE DEF a, b, c, d
    <2> DEFINE s == <<a, b, c>>
               u == <<d>>
    <2>4. s \in Seq(ItemType) /\ Held(s) = {a, b, c}
      BY <2>1, HeldThree
    <2>5. u \in Seq(ItemType) /\ Held(u) = {d}
      BY <2>1, HeldOne
    <2>6. <<>> \in Seq(ItemType) /\ Held(<<>>) = {}
      BY HeldEmpty
    <2> HIDE DEF s, u
    <2>9. s \o u \in Seq(ItemType) /\ Held(s \o u) = {a, b, c} \union {d}
      BY <2>4, <2>5, HeldConcat
    <2>10. s \o <<>> \in Seq(ItemType) /\ Held(s \o <<>>) = {a, b, c} \union {}
      BY <2>4, <2>6, HeldConcat
    <2>7. LineItems(phase, i) \in Seq(ItemType) /\ Held(LineItems(phase, i)) = LineSet(phase, i)
      BY <2>2, <2>3, <2>9, <2>10 DEF s, u
    <2>8. QED
      BY <2>3, <2>6, <2>7
  <1>4. CASE phase = "factory"
    <2>1. LineItems(phase, i) = <<<<"ele0", i>>>>
      BY <1>4 DEF LineItems
    <2>2. LineSet(phase, i) = {<<"ele0", i>>}
      BY <1>4 DEF LineSet, LineKinds
    <2>3. <<"ele0", i>> \in ItemType
      BY <1>1
    <2>4. QED
      BY <2>1, <2>2, <2>3, HeldOne
  <1>5. CASE phase = "vol"
    <2>1. LineItems(phase, i) = <<<<"vol", i>>>>
      BY <1>5 DEF LineItems
    <2>2. LineSet(phase, i) = {<<"vol", i>>}
      BY <1>5 DEF LineSet, LineKinds
    <2>3. <<"vol", i>> \in ItemType
      BY <1>1
    <2>4. QED
      BY <2>1, <2>2, <2>3, HeldOne
  <1>6. QED
    BY <1>2, <1>3, <1>4, <1>5 DEF LinePhases

\* those after the lines,
LEMMA LastItemsHeld ==
  ASSUME NEW phase \in Phases
  PROVE  /\ LastItems(phase) \in Seq(ItemType)
         /\ Held(LastItems(phase)) = LastSet(phase)
  <1> USE DEF ItemNames, LineNames, LastNames, EnergyNames
  <1>1. ASSUME NEW k \in ItemNames
        PROVE  <<k, 0>> \in ItemType
    BY BoxAssumption DEF ItemType
  <1>2. CASE phase = "err"
    <2>1. LastItems(phase) = <<<<"tem", 0>>>> /\ LastSet(phase) = {<<"tem", 0>>}
      BY <1>2 DEF LastItems, LastSet, LastKinds
    <2>2. <<"tem", 0>> \in ItemType
      BY <1>1
    <2>3. QED
      BY <2>1, <2>2, HeldOne
  <1>3. CASE phase = "version" \/ (phase = "base" /\ modeId # "START_BUSBAR")
    <2>1. LastItems(phase) = <<<<phase, 0>>>> /\ LastSet(phase) = {<<phase, 0>>}
      BY <1>3 DEF LastItems, LastSet, LastKinds
    <2>2. <<phase, 0>> \in ItemType
      BY <1>1, <1>3
    <2>3. QED
      BY <2>1, <2>2, HeldOne
  <1>8. CASE phase = "base" /\ modeId = "START_BUSBAR"
    <2> DEFINE a == <<"base", 0>>
               b == <<"residual", 0>>
    <2>1. a \in ItemType /\ b \in ItemType
      BY <1>1
    <2>2. LastItems(phase) = <<a, b>>
      BY <1>8 DEF LastItems
    <2>3. LastSet(phase) = {a, b}
      BY <1>8 DEF LastSet, LastKinds
    <2> HIDE DEF a, b
    <2>4. QED
      BY <2>1, <2>2, <2>3, HeldTwo
  <1>4. CASE phase = "alarm" /\ modeId = "START_BUSBAR"
    <2> DEFINE a == <<"temTh", 0>>
               b == <<"hzTh", 0>>
               c == <<"totalPowTh", 0>>
               d == <<"zeroCurTh", 0>>
               e == <<"residualTh", 0>>
    <2>1. a \in ItemType /\ b \in ItemType /\ c \in ItemType /\ d \in ItemType /\ e \in ItemType
      BY <1>1
    <2>2. LastItems(phase) = <<a, b, c, d, e>>
      BY <1>4 DEF LastItems
    <2>3. LastSet(phase) = {a, b, c, d, e}
      BY <1>4 DEF LastSet, LastKinds
    <2> HIDE DEF a, b, c, d, e
    <2>4. <<a, b, c, d, e>> \in Seq(ItemType) /\ Held(<<a, b, c, d, e>>) = {a, b, c, d, e}
      BY <2>1, HeldFive
    <2>5. QED
      BY <2>2, <2>3, <2>4
  <1>5. CASE phase = "alarm" /\ modeId # "START_BUSBAR"
    <2>1. LastItems(phase) = <<<<"temTh", 0>>>> /\ LastSet(phase) = {<<"temTh", 0>>}
      BY <1>5 DEF LastItems, LastSet, LastKinds
    <2>2. <<"temTh", 0>> \in ItemType
      BY <1>1
    <2>3. QED
      BY <2>1, <2>2, HeldOne
  <1>6. CASE phase \in {"factory", "vol"}
    <2>1. LastItems(phase) = <<>> /\ LastSet(phase) = {}
      BY <1>6 DEF LastItems, LastSet, LastKinds
    <2>2. QED
      BY <2>1, HeldEmpty
  <1>7. QED
    BY <1>2, <1>3, <1>4, <1>5, <1>6, <1>8 DEF Phases

\* and what follows a line, the last one or not.
LEMMA AfterHeld ==
  ASSUME NEW phase \in Phases, NEW i \in 0..MaxLines, NEW loops \in 0..MaxLines
  PROVE  /\ After(phase, i, loops) \in Seq(ItemType)
         /\ phase \in LinePhases /\ i < loops
              => /\ i + 1 \in Lines /\ After(phase, i, loops) # <<>>
                 /\ Held(After(phase, i, loops)) = LineSet(phase, i + 1)
         /\ ~(phase \in LinePhases /\ i < loops) => Held(After(phase, i, loops)) = LastSet(phase)
  <1>1. CASE phase \in LinePhases /\ i < loops
    <2>1. i + 1 \in Lines
      BY <1>1, BoxAssumption DEF Lines
    <2>2. After(phase, i, loops) = LineItems(phase, i + 1)
      BY <1>1 DEF After, LinePhases
    <2>3. QED
      BY <1>1, <2>1, <2>2, LineItemsHeld
  <1>2. CASE ~(phase \in LinePhases /\ i < loops)
    <2>1. After(phase, i, loops) = LastItems(phase)
      BY <1>2 DEF After, LinePhases
    <2>2. QED
      BY <1>2, <2>1, LastItemsHeld
  <1>3. QED
    BY <1>1, <1>2

-----------------------------------------------------------------------------
(* Readings *)

\* A mishap is counted within its bound.
LEMMA HappensTyped ==
  ASSUME Typed, NEW e \in SUBSET Events, Happens(e)
  PROVE  mishaps' \in 0..MaxMishaps /\ events' \subseteq Events /\ events' = events \union e
  <1>1. IsFiniteSet(Events)
    <2> DEFINE a == {"noEnergy"} \union {"counted"}
               b == {"stale"} \union a
               c == {"refused"} \union b
    <2>1. Events = {"trouble"} \union c
      BY DEF Events
    <2>2. \A s : IsFiniteSet({s})
      BY FS_Singleton
    <2>3. IsFiniteSet(a)
      BY <2>2, FS_Union
    <2> HIDE DEF a
    <2>4. IsFiniteSet(b)
      BY <2>2, <2>3, FS_Union
    <2> HIDE DEF b
    <2>5. IsFiniteSet(c)
      BY <2>2, <2>4, FS_Union
    <2> HIDE DEF c
    <2>6. QED
      BY <2>1, <2>2, <2>5, FS_Union
  <1>2. IsFiniteSet(e \ {"refused"})
    BY <1>1, FS_Subset
  <1>3. Cardinality(e \ {"refused"}) \in Nat
    BY <1>2, FS_CardinalityType
  <1>4. QED
    BY <1>3, BoxAssumption DEF Happens, Typed

\* The box under test as it is read, and as it was read before.
Full(steady) ==
  /\ data'[modeId].loopNum = box.loops
  /\ data'[modeId].base = box.defect /\ data'[modeId].tem = box.defect
  /\ \A i \in 1..box.loops : data'[modeId].line[i] = LineNow(i, steady)

Same ==
  /\ data'[modeId].loopNum = data[modeId].loopNum
  /\ data'[modeId].base = data[modeId].base /\ data'[modeId].tem = data[modeId].tem
  /\ \A i \in Lines : data'[modeId].line[i] = data[modeId].line[i]

\* The types of the box and of what is stored of its kind, field by field.
LEMMA BoxTyped ==
  ASSUME Typed
  PROVE  /\ box.loops \in Lines /\ box.loops \in 0..MaxLines /\ box.defect \in Seen
         /\ \A i \in Lines : box.ele[i] \in 0..1
         /\ \A steady \in BOOLEAN : \A i \in Lines : LineNow(i, steady) \in Values
         /\ data[modeId] \in Store
         /\ data[modeId].loopNum \in 0..MaxLines
         /\ data[modeId].base \in Seen /\ data[modeId].tem \in Seen
         /\ \A i \in Lines : data[modeId].line[i] \in Values
  <1>1. box.loops \in Lines /\ box.defect \in Seen /\ \A i \in Lines : box.ele[i] \in 0..1
    BY DEF Typed, Seen
  <1>2. box.loops \in 0..MaxLines
    BY <1>1, BoxAssumption DEF Lines
  <1>3. \A steady \in BOOLEAN : \A i \in Lines : LineNow(i, steady) \in Values
    BY <1>1 DEF LineNow, Values
  <1>4. data[modeId] \in Store
    BY DEF Typed
  <1>5. /\ data[modeId].loopNum \in 0..MaxLines
        /\ data[modeId].base \in Seen /\ data[modeId].tem \in Seen
        /\ \A i \in Lines : data[modeId].line[i] \in Values
    BY <1>4 DEF Store
  <1>6. QED
    BY <1>1, <1>2, <1>3, <1>4, <1>5

\* A reply gives all values of the box.
LEMMA StoreReplyFull ==
  ASSUME Typed, NEW steady \in BOOLEAN, StoreReply(steady)
  PROVE  data' \in [Modes -> Store] /\ reState' \in 0..1 /\ Full(steady)
  <1>0. reState' \in 0..1
    BY DEF StoreReply, StoreOption, Residual, Typed
  <1> DEFINE line == [i \in Lines |-> IF i <= box.loops THEN LineNow(i, steady) ELSE data[modeId].line[i]]
             new == [loopNum |-> box.loops, base |-> box.defect, tem |-> box.defect, line |-> line]
  <1>1. data' = [data EXCEPT ![modeId] = new]
    BY Zenon DEF StoreReply
  <1>2. line \in [Lines -> Values]
    BY BoxTyped
  <1>3. \A i \in 1..box.loops : i \in Lines /\ line[i] = LineNow(i, steady)
    <2>1. \A i \in 1..box.loops : i \in Lines /\ i <= box.loops
      BY BoxTyped, BoxAssumption DEF Lines
    <2>2. QED
      BY <2>1
  <1> HIDE DEF line
  <1>4. /\ new \in Store /\ new.loopNum = box.loops
        /\ new.base = box.defect /\ new.tem = box.defect /\ new.line = line
    BY <1>2, BoxTyped DEF Store
  <1> HIDE DEF new
  <1>5. data \in [Modes -> Store] /\ modeId \in Modes
    BY DEF Typed
  <1>6. data' \in [Modes -> Store] /\ data'[modeId] = new
    BY <1>1, <1>4, <1>5
  <1>7. QED
    BY <1>0, <1>3, <1>4, <1>6 DEF Full

\* So does a walk to its end; one that gets nothing leaves all as it was.
LEMMA StoreWalkFull ==
  ASSUME Typed, NEW k \in 0..MaxLines + 2, NEW steady \in BOOLEAN, StoreWalk(k, steady)
  PROVE  /\ data' \in [Modes -> Store]
         /\ k = 0 => Same
         /\ k = MaxLines + 2 /\ box.loops = MaxLines => Full(steady)
  <1> DEFINE old == data[modeId]
             line == [i \in Lines |-> IF k > i THEN LineNow(i, steady) ELSE old.line[i]]
             new == [loopNum |-> IF k >= 1 THEN MaxLines ELSE old.loopNum,
                     base |-> IF k >= 1 THEN box.defect ELSE old.base,
                     tem |-> IF k = MaxLines + 2 THEN box.defect ELSE old.tem,
                     line |-> line]
  <1>1. data' = [data EXCEPT ![modeId] = new]
    BY Zenon DEF StoreWalk
  <1>2. line \in [Lines -> Values]
    BY BoxTyped
  <1>3. MaxLines \in Nat \ {0} /\ k \in Nat
    BY BoxAssumption
  <1>4. k = 0 => \A i \in Lines : line[i] = old.line[i]
    BY <1>3 DEF Lines
  <1>5. k = MaxLines + 2 => \A i \in 1..MaxLines : i \in Lines /\ line[i] = LineNow(i, steady)
    BY <1>3 DEF Lines
  <1> HIDE DEF line
  <1>6. new \in Store /\ new.line = line
    BY <1>2, <1>3, BoxTyped DEF Store
  <1>7. k = 0 => new.loopNum = old.loopNum /\ new.base = old.base /\ new.tem = old.tem
    BY <1>3
  <1>8. k = MaxLines + 2 => new.loopNum = MaxLines /\ new.base = box.defect /\ new.tem = box.defect
    BY <1>3
  <1> HIDE DEF new, old
  <1>9. data \in [Modes -> Store] /\ modeId \in Modes
    BY DEF Typed
  <1>10. data' \in [Modes -> Store] /\ data'[modeId] = new
    BY <1>1, <1>6, <1>9
  <1>11. k = 0 => Same
    BY <1>4, <1>6, <1>7, <1>10 DEF Same, old
  <1>12. k = MaxLines + 2 /\ box.loops = MaxLines => Full(steady)
    BY <1>5, <1>6, <1>8, <1>10 DEF Full
  <1>13. QED
    BY <1>10, <1>11, <1>12

\* A start box has all its loops, and no other is walked.
Started ==
  /\ pc # "idle" /\ modeId = "START_BUSBAR" => box.loops = MaxLines
  /\ pc = "walk" => modeId = "START_BUSBAR"

\* What a reading does to the values of the box: nothing, or all of them are
\* read, or it returns TRUE although some are those of an earlier box.
Outcome(ok) ==
  \/ ok /\ "stale" \in events'
  \/ ~ok /\ Same /\ events' # {}
  \/ ok /\ Full(TRUE)
  \/ ok /\ Full(FALSE) /\ events' # {}

ReaderTyped ==
  /\ data' \in [Modes -> Store] /\ reState' \in 0..1 /\ rtuAddr' \in Addrs
  /\ mishaps' \in 0..MaxMishaps /\ events' \subseteq Events /\ events \subseteq events'

\* The outcome of a reading on the RTU link, refused, damaged or stale included.
LEMMA ReadRtu ==
  ASSUME Typed, NEW ok \in BOOLEAN, readRtu(ok)
  PROVE  ReaderTyped /\ Outcome(ok)
  <1>0. /\ {"trouble"} \in SUBSET Events /\ {"refused"} \in SUBSET Events /\ {"stale"} \in SUBSET Events
        /\ {} \in SUBSET Events
    BY DEF Events
  <1>1. data \in [Modes -> Store] /\ reState \in 0..1 /\ rtuAddr \in Addrs /\ addr(modeId) \in Addrs
    BY DEF Typed, addr, Addrs
  <1>2. data' = data => Same
    BY DEF Same
  <1>3. CASE /\ ~ok /\ data' = data /\ reState' = reState /\ rtuAddr' \in Addrs
             /\ (Happens({"trouble"}) \/ Happens({"refused"}))
    <2>1. ReaderTyped /\ events' # {}
      BY <1>0, <1>1, <1>3, HappensTyped DEF ReaderTyped
    <2>2. QED
      BY <1>2, <1>3, <2>1 DEF Outcome
  <1>4. ASSUME NEW steady \in BOOLEAN, ok, rtuAddr' = addr(modeId), StoreReply(steady),
               Happens(Trouble(steady))
        PROVE  ReaderTyped /\ Outcome(ok)
    <2>1. Trouble(steady) \in SUBSET Events /\ (~steady => Trouble(steady) = {"trouble"})
      BY <1>0 DEF Trouble
    <2>2. ReaderTyped
      BY <1>1, <1>4, <2>1, HappensTyped, StoreReplyFull DEF ReaderTyped
    <2>3. Full(steady) /\ (~steady => events' # {})
      BY <1>4, <2>1, HappensTyped, StoreReplyFull
    <2>4. CASE steady
      <3>1. steady = TRUE
        BY <2>4
      <3>2. QED
        BY <1>4, <2>2, <2>3, <3>1 DEF Outcome
    <2>5. CASE ~steady
      <3>1. steady = FALSE
        BY <2>5
      <3>2. QED
        BY <1>4, <2>2, <2>3, <2>5, <3>1 DEF Outcome
    <2>6. QED
      BY <2>4, <2>5
  <1>5. CASE ok /\ data' = data /\ reState' = reState /\ rtuAddr' \in Addrs /\ Happens({"stale"})
    BY <1>0, <1>1, <1>5, HappensTyped DEF ReaderTyped, Outcome
  <1>6. QED
    BY <1>1, <1>3, <1>4, <1>5, Zenon DEF readRtu, reader

\* A walk of a start box, which has all loops there can be.
LEMMA ReadWalk ==
  ASSUME Typed, NEW ok \in BOOLEAN, readWalk(ok), box.loops = MaxLines
  PROVE  ReaderTyped /\ Outcome(ok)
  <1>1. PICK k \in 0..MaxLines + 2, steady \in BOOLEAN :
          /\ ok = (k > 0)
          /\ StoreWalk(k, steady)
          /\ Happens(Trouble(steady)
                     \union (IF k = 0 THEN {"trouble"} ELSE IF k < MaxLines + 2 THEN {"stale"} ELSE {}))
          /\ UNCHANGED <<reState, rtuAddr>>
    BY Zenon DEF readWalk
  <1> DEFINE e == Trouble(steady)
                     \union (IF k = 0 THEN {"trouble"} ELSE IF k < MaxLines + 2 THEN {"stale"} ELSE {})
  <1>2. e \in SUBSET Events
    BY DEF Trouble, Events
  <1>3. k = 0 => "trouble" \in e
    OBVIOUS
  <1>4. k > 0 /\ k # MaxLines + 2 => "stale" \in e
    BY BoxAssumption
  <1>5. ~steady => "trouble" \in e
    BY DEF Trouble
  <1> HIDE DEF e
  <1>6. /\ mishaps' \in 0..MaxMishaps /\ events' \subseteq Events /\ events' = events \union e
    BY <1>1, <1>2, HappensTyped DEF e
  <1>7. ReaderTyped
    BY <1>1, <1>6, StoreWalkFull DEF ReaderTyped, Typed
  <1>8. CASE k = 0
    <2>1. ~ok /\ Same /\ events' # {}
      <3>1. ~(k > 0)
        BY <1>8
      <3>2. ~ok
        BY <1>1, <3>1, Zenon
      <3>3. Same
        BY <1>1, <1>8, StoreWalkFull
      <3>4. QED
        BY <1>3, <1>6, <1>8, <3>2, <3>3
    <2>2. QED
      BY <1>7, <2>1 DEF Outcome
  <1>9. CASE k # 0 /\ k # MaxLines + 2
    <2>1. k > 0
      BY <1>9
    <2>2. ok /\ "stale" \in events'
      BY <1>1, <1>4, <1>6, <1>9, <2>1
    <2>3. QED
      BY <1>7, <2>2 DEF Outcome
  <1>10. CASE k = MaxLines + 2
    <2>1. k > 0
      BY <1>10, BoxAssumption
    <2>2. ok /\ Full(steady) /\ (~steady => events' # {})
      BY <1>1, <1>5, <1>6, <1>10, <2>1, StoreWalkFull
    <2>3. CASE steady
      <3>1. steady = TRUE
        BY <2>3
      <3>2. QED
        BY <1>7, <2>2, <3>1 DEF Outcome
    <2>4. CASE ~steady
      <3>1. steady = FALSE
        BY <2>4
      <3>2. QED
        BY <1>7, <2>2, <2>4, <3>1 DEF Outcome
    <2>5. QED
      BY <2>3, <2>4
  <1>11. QED
    BY <1>8, <1>9, <1>10

\* A reading of either kind, during a test.
LEMMA ReadDevData ==
  ASSUME Typed, Started, pc # "idle", NEW ok \in BOOLEAN, readDevData(ok)
  PROVE  ReaderTyped /\ Outcome(ok)
  <1>1. CASE modeId = "START_BUSBAR"
    BY <1>1, ReadWalk DEF readDevData, Started
  <1>2. CASE modeId # "START_BUSBAR"
    BY <1>2, ReadRtu DEF readDevData
  <1>3. QED
    BY <1>1, <1>2

\* An attempt on the link: a start box may be asked for any bytes only.
LEMMA ReadLink ==
  ASSUME Typed, Started, pc # "idle", NEW ok \in BOOLEAN, readLink(ok)
  PROVE  /\ ReaderTyped
         /\ ~ok => events' # {}
         /\ Outcome(ok) \/ (modeId = "START_BUSBAR" /\ Same)
  <1>1. CASE modeId = "START_BUSBAR" /\ ip_mode = 0
    <2> DEFINE e == IF ok THEN {} ELSE {"trouble"}
    <2>1. e \in SUBSET Events /\ (~ok => e # {})
      BY DEF Events
    <2>2. UNCHANGED reader /\ Happens(e)
      BY <1>1, Zenon DEF readLink
    <2> HIDE DEF e
    <2>3. ReaderTyped /\ (~ok => events' # {})
      BY <2>1, <2>2, HappensTyped DEF ReaderTyped, Typed, reader
    <2>4. Same
      BY <2>2 DEF Same, reader
    <2>5. QED
      BY <1>1, <2>3, <2>4
  <1>2. CASE ~(modeId = "START_BUSBAR" /\ ip_mode = 0)
    <2>1. readRtu(ok)
      BY <1>2, Zenon DEF readLink
    <2>2. ReaderTyped /\ Outcome(ok)
      BY <2>1, ReadRtu
    <2>3. ~ok => events' # {}
      BY <2>2, Zenon DEF Outcome
    <2>4. QED
      BY <2>2, <2>3
  <1>3. QED
    BY <1>1, <1>2

-----------------------------------------------------------------------------
(* TypeOK *)

\* The items to come are of the group under way, and of one line of it.
Items ==
  /\ pc \notin Phases => todo = <<>>
  /\ pc \in Phases => Held(todo) \subseteq (LineKinds(pc) \X Lines) \union LastSet(pc)
  /\ \A d, e \in Held(todo) : d[2] = e[2]

\* The items of one line, or those after the lines, are of the group and agree.
LEMMA LineSetItems ==
  ASSUME NEW phase, NEW i \in Lines
  PROVE  /\ LineSet(phase, i) \subseteq (LineKinds(phase) \X Lines) \union LastSet(phase)
         /\ \A d, e \in LineSet(phase, i) : d[2] = e[2]
         /\ \A d, e \in LastSet(phase) : d[2] = e[2]
  <1>1. \A d \in LineSet(phase, i) : d \in LineKinds(phase) \X Lines /\ d[2] = i
    BY DEF LineSet
  <1>2. \A d \in LastSet(phase) : d[2] = 0
    BY DEF LastSet
  <1>3. QED
    BY <1>1, <1>2

\* The item under way and the items after it.
LEMMA ItemTyped ==
  ASSUME Typed, todo # <<>>
  PROVE  /\ Item \in ItemType /\ Item[2] \in 0..MaxLines /\ Item \in Held(todo)
         /\ Tail(todo) \in Seq(ItemType)
         /\ Held(Tail(todo)) \subseteq Held(todo) /\ Held(todo) = {Item} \union Held(Tail(todo))
  <1>1. todo \in Seq(ItemType)
    BY DEF Typed
  <1>2. Item \in ItemType /\ Item \in Held(todo) /\ Tail(todo) \in Seq(ItemType)
        /\ Held(Tail(todo)) \subseteq Held(todo) /\ Held(todo) = {Item} \union Held(Tail(todo))
    BY <1>1, HeldTail DEF Item
  <1>3. QED
    BY <1>2 DEF ItemType

\* What a group has to judge when it is entered.
LEMMA EnterHeld ==
  ASSUME Typed, data' \in [Modes -> Store], NEW phase \in Places, Enter(phase)
  PROVE  /\ pc' = phase /\ tries' = 0 /\ todo' \in Seq(ItemType)
         /\ phase \notin Phases => todo' = <<>>
         /\ phase \in LinePhases /\ data'[modeId].loopNum > 0
              => 1 \in Lines /\ todo' # <<>> /\ Held(todo') = LineSet(phase, 1)
         /\ phase \in Phases /\ ~(phase \in LinePhases /\ data'[modeId].loopNum > 0)
              => Held(todo') = LastSet(phase)
  <1> DEFINE n == data'[modeId].loopNum
  <1>1. n \in 0..MaxLines
    BY DEF Typed, Store
  <1> HIDE DEF n
  <1>2. todo' = IF phase \in Phases THEN After(phase, 0, n) ELSE <<>>
    BY Zenon DEF Enter, n
  <1>3. 0 \in 0..MaxLines /\ 0 + 1 = 1 /\ (n > 0 <=> 0 < n)
    BY <1>1, BoxAssumption
  <1>4. CASE phase \in Phases
    <2>1. todo' = After(phase, 0, n)
      BY <1>2, <1>4
    <2>2. todo' \in Seq(ItemType)
      BY <1>1, <1>3, <1>4, <2>1, AfterHeld
    <2>3. phase \in LinePhases /\ 0 < n => 1 \in Lines /\ todo' # <<>> /\ Held(todo') = LineSet(phase, 1)
      BY <1>1, <1>3, <1>4, <2>1, AfterHeld
    <2>4. ~(phase \in LinePhases /\ 0 < n) => Held(todo') = LastSet(phase)
      BY <1>1, <1>3, <1>4, <2>1, AfterHeld
    <2>5. QED
      BY <1>3, <1>4, <2>2, <2>3, <2>4 DEF n, Enter
  <1>5. CASE phase \notin Phases
    <2>1. todo' = <<>> /\ <<>> \in Seq(ItemType) /\ phase \notin LinePhases
      BY <1>2, <1>5, HeldEmpty DEF LinePhases, Phases
    <2>2. QED
      BY <1>5, <2>1 DEF Enter
  <1>6. QED
    BY <1>4, <1>5

\* Those are items of the group.
LEMMA EnterItems ==
  ASSUME Typed, data' \in [Modes -> Store], NEW phase \in Places, Enter(phase),
         modeId' = modeId \/ phase \notin Phases
  PROVE  Items'
  <1>0. Held(<<>>) = {}
    BY HeldEmpty
  <1>1. pc' = phase /\ (phase \notin Phases => todo' = <<>>)
    BY EnterHeld
  <1>2. CASE phase \notin Phases
    BY <1>0, <1>1, <1>2 DEF Items
  <1>3. CASE phase \in Phases
    <2>1. Held(todo') = LastSet(phase) \/ (1 \in Lines /\ Held(todo') = LineSet(phase, 1))
      BY <1>3, EnterHeld
    <2>2. 1 \in Lines
      BY BoxAssumption DEF Lines
    <2>3. /\ Held(todo') \subseteq (LineKinds(phase) \X Lines) \union LastSet(phase)
          /\ \A d, e \in Held(todo') : d[2] = e[2]
      BY <2>1, <2>2, LineSetItems
    <2>4. LineKinds(phase)' = LineKinds(phase) /\ LastSet(phase)' = LastSet(phase)
      BY <1>3 DEF LineKinds, LastSet, LastKinds
    <2>5. QED
      BY <1>1, <1>3, <2>3, <2>4 DEF Items
  <1>4. QED
    BY <1>2, <1>3

\* The item judged or skipped is done, the line too, or the whole group.
Done(i, n) ==
  \/ todo' = Tail(todo) /\ todo' # <<>>
  \/ /\ Held(todo) = {Item} /\ i > 0 /\ pc \in LinePhases /\ i < n
     /\ i + 1 \in Lines /\ todo' # <<>> /\ Held(todo') = LineSet(pc, i + 1)
  \/ Held(todo) = {Item} /\ i > 0 /\ ~(pc \in LinePhases /\ i < n) /\ Held(todo') = LastSet(pc)
  \/ Held(todo) = {Item} /\ i = 0 /\ todo' = <<>>

\* NextItem goes on in one of the ways of Done.
LEMMA NextItemHeld ==
  ASSUME Typed, data' \in [Modes -> Store], todo # <<>>, pc \in Phases, NextItem
  PROVE  todo' \in Seq(ItemType) /\ Done(Item[2], data'[modeId].loopNum)
  <1> DEFINE i == Item[2]
             n == data'[modeId].loopNum
  <1>0. n \in 0..MaxLines
    BY DEF Typed, Store
  <1>1. todo \in Seq(ItemType) /\ i \in 0..MaxLines /\ Tail(todo) \in Seq(ItemType)
    BY ItemTyped DEF Typed
  <1>2. todo' = IF Len(todo) > 1 THEN Tail(todo) ELSE IF i > 0 THEN After(pc, i, n) ELSE <<>>
    BY Zenon DEF NextItem
  <1> HIDE DEF i, n
  <1>3. CASE Len(todo) > 1
    <2>1. Tail(todo) # <<>>
      BY <1>1, <1>3, TailLeft
    <2>2. QED
      BY <1>1, <1>2, <1>3, <2>1 DEF Done
  <1>4. CASE ~(Len(todo) > 1)
    <2>3. Held(todo) = {Item}
      BY <1>1, <1>4, TailLeft DEF Item
    <2>4. CASE i > 0
      <3>1. todo' = After(pc, i, n)
        BY <1>2, <1>4, <2>4
      <3>2. todo' \in Seq(ItemType)
        BY <1>0, <1>1, <3>1, AfterHeld
      <3>3. pc \in LinePhases /\ i < n => i + 1 \in Lines /\ todo' # <<>> /\ Held(todo') = LineSet(pc, i + 1)
        BY <1>0, <1>1, <3>1, AfterHeld
      <3>4. ~(pc \in LinePhases /\ i < n) => Held(todo') = LastSet(pc)
        BY <1>0, <1>1, <3>1, AfterHeld
      <3>5. QED
        BY <2>3, <2>4, <3>2, <3>3, <3>4 DEF Done, i, n
    <2>5. CASE ~(i > 0)
      <3>1. i = 0 /\ todo' = <<>> /\ <<>> \in Seq(ItemType)
        BY <1>1, <1>2, <1>4, <2>5, HeldEmpty
      <3>2. QED
        BY <2>3, <3>1 DEF Done, i
    <2>6. QED
      BY <2>4, <2>5
  <1>5. QED
    BY <1>3, <1>4

\* Which keeps the items to those of the group.
LEMMA NextItems ==
  ASSUME Typed, Items, data' \in [Modes -> Store], todo # <<>>, pc \in Phases, NextItem,
         pc' = pc, modeId' = modeId
  PROVE  todo' \in Seq(ItemType) /\ Items'
  <1>0. Held(<<>>) = {}
    BY HeldEmpty
  <1> DEFINE n == data'[modeId].loopNum
  <1>1. todo' \in Seq(ItemType) /\ Done(Item[2], n)
    BY NextItemHeld
  <1> HIDE DEF n
  <1>2. /\ Held(todo') \subseteq (LineKinds(pc) \X Lines) \union LastSet(pc)
        /\ \A d, e \in Held(todo') : d[2] = e[2]
    <2>1. CASE todo' = Tail(todo)
      BY <2>1, ItemTyped DEF Items
    <2>2. CASE todo' = <<>>
      BY <1>0, <2>2
    <2>3. CASE Item[2] + 1 \in Lines /\ Held(todo') = LineSet(pc, Item[2] + 1)
      BY <2>3, LineSetItems
    <2>4. CASE Held(todo') = LastSet(pc)
      <3>1. 1 \in Lines
        BY BoxAssumption DEF Lines
      <3>2. \A d, e \in LastSet(pc) : d[2] = e[2]
        BY <3>1, LineSetItems
      <3>3. QED
        BY <2>4, <3>2
    <2>5. \/ todo' = Tail(todo) \/ todo' = <<>> \/ Held(todo') = LastSet(pc)
          \/ Item[2] + 1 \in Lines /\ Held(todo') = LineSet(pc, Item[2] + 1)
      BY <1>1 DEF Done
    <2>6. QED
      BY <2>1, <2>2, <2>3, <2>4, <2>5
  <1>3. LineKinds(pc)' = LineKinds(pc) /\ LastSet(pc)' = LastSet(pc)
    BY DEF LineKinds, LastSet, LastKinds
  <1>4. QED
    BY <1>1, <1>2, <1>3 DEF Items

\* Entering a group, the locals are reset.
LEMMA EnterTyped ==
  ASSUME Typed, data' \in [Modes -> Store], NEW phase \in Places, Enter(phase)
  PROVE  /\ pc' \in Places /\ todo' \in Seq(ItemType) /\ tries' \in 0..Tries - 1
         /\ ret' = TRUE /\ res' = TRUE /\ failed' = FALSE
  <1>1. pc' = phase /\ tries' = 0 /\ todo' \in Seq(ItemType)
    BY EnterHeld
  <1>2. 0 \in 0..Tries - 1
    BY BoxAssumption
  <1>3. ret' = TRUE /\ res' = TRUE /\ failed' = FALSE
    BY Zenon DEF Enter
  <1>4. QED
    BY <1>1, <1>2, <1>3

\* Nothing is read.
LEMMA NoReading ==
  ASSUME Typed, UNCHANGED <<reader, history>>
  PROVE  ReaderTyped /\ Same
  BY DEF Typed, reader, history, ReaderTyped, Same

\* The first state has its types.
LEMMA InitTyped == Init => Typed /\ Flags /\ Items /\ Started
  <1> SUFFICES ASSUME Init PROVE Typed /\ Flags /\ Items /\ Started
    OBVIOUS
  <1> DEFINE old == [loopNum |-> 0, base |-> Unread, tem |-> Unread, line |-> [i \in Lines |-> Zeros]]
             b == [defect |-> NoDefect, loops |-> 1, ele |-> [i \in Lines |-> 0]]
  <1>1. old \in Store
    BY BoxAssumption DEF Store, Seen, Values, Zeros
  <1>2. data = [m \in Modes |-> old]
    BY Zenon DEF Init
  <1>3. b \in [defect : Defects \union {NoDefect}, loops : Lines, ele : [Lines -> 0..1]]
    BY BoxAssumption DEF Lines
  <1>4. box = b
    BY Zenon DEF Init
  <1> HIDE DEF old, b
  <1>5. data \in [Modes -> Store]
    BY <1>1, <1>2
  <1>6. todo = <<>> /\ <<>> \in Seq(ItemType) /\ Held(<<>>) = {}
    BY HeldEmpty DEF Init
  <1>7. 0 \in 0..MaxBoxes /\ 0 \in 0..MaxMishaps /\ 0 \in 0..Tries - 1 /\ 1 \in 0..1
    BY BoxAssumption
  <1>8. Typed
    BY <1>3, <1>4, <1>5, <1>6, <1>7 DEF Init, Typed, Modes, Places
  <1>9. Flags
    BY Zenon DEF Init, Flags
  <1>10. Items /\ Started
    BY <1>6 DEF Init, Items, Started, Phases
  <1>11. QED
    BY <1>8, <1>9, <1>10

\* Every step keeps the types, and with them the items and the loops.
LEMMA StepTyped ==
  ASSUME Typed, Flags, Items, Started, [Next]_vars
  PROVE  Typed' /\ Flags' /\ Items' /\ Started'
  <1> USE DEF settings, group
  <1>1. ASSUME NEW mode \in Modes, NEW ip \in 0..1, NEW check \in BOOLEAN, NEW loops \in Lines,
               NEW residual \in 0..1, NEW ele \in 0..1, NEW defect \in Defects \union {NoDefect},
               startTest(mode, ip, residual, check, defect, loops, ele)
        PROVE  Typed' /\ Flags' /\ Items' /\ Started'
    <2> DEFINE b == [defect |-> defect, loops |-> loops, ele |-> [i \in Lines |-> ele]]
    <2>1. box' = b /\ Enter("init") /\ UNCHANGED <<reader, mishaps>>
      BY <1>1, Zenon DEF startTest
    <2>2. b \in [defect : Defects \union {NoDefect}, loops : Lines, ele : [Lines -> 0..1]]
          /\ b.loops = loops
      OBVIOUS
    <2> HIDE DEF b
    <2>3. "init" \in Places /\ "init" \notin Phases /\ data' \in [Modes -> Store]
      BY <2>1 DEF Places, Typed, reader, Phases
    <2>4. pc' \in Places /\ todo' \in Seq(ItemType) /\ tries' \in 0..Tries - 1
          /\ ret' = TRUE /\ res' = TRUE /\ failed' = FALSE
      BY <2>1, <2>3, EnterTyped
    <2>5. Items'
      BY <2>1, <2>3, EnterItems
    <2>6. boxes' \in 0..MaxBoxes /\ events' \subseteq Events
      <3>1. boxes' = boxes + 1 /\ boxes < MaxBoxes
            /\ events' = IF check /\ ele = 0 THEN {"noEnergy"} ELSE {}
        BY <1>1, Zenon DEF startTest
      <3>2. boxes' \in 0..MaxBoxes
        BY <3>1, BoxAssumption DEF Typed
      <3>3. events' \subseteq Events
        BY <3>1 DEF Events
      <3>4. QED
        BY <3>2, <3>3
    <2>7. Typed'
      BY <1>1, <2>1, <2>2, <2>3, <2>4, <2>6 DEF startTest, Typed, reader
    <2>8. Flags'
      BY <1>1, <2>4, Zenon DEF startTest, Flags
    <2>9. Started'
      <3>1. pc' = "init" /\ box'.loops = loops
        BY <2>1, <2>2 DEF Enter
      <3>2. modeId' = mode /\ (mode = "START_BUSBAR" => loops = MaxLines)
        BY <1>1 DEF startTest
      <3>3. QED
        BY <3>1, <3>2 DEF Started
    <2>10. QED
      BY <2>5, <2>7, <2>8, <2>9
  <1>3. ASSUME ReaderTyped, NEW phase \in Places, Enter(phase), UNCHANGED <<settings, box, boxes, cleared>>,
               result' \in BOOLEAN, pc # "idle", phase = "walk" => modeId = "START_BUSBAR"
        PROVE  Typed' /\ Flags' /\ Items' /\ Started'
    <2>1. pc' \in Places /\ todo' \in Seq(ItemType) /\ tries' \in 0..Tries - 1
          /\ ret' = TRUE /\ res' = TRUE /\ failed' = FALSE
      BY <1>3, EnterTyped DEF ReaderTyped
    <2>2. Items'
      BY <1>3, EnterItems DEF ReaderTyped
    <2>3. Typed'
      BY <1>3, <2>1 DEF Typed, ReaderTyped
    <2>4. Flags'
      BY <1>3, <2>1, Zenon DEF Flags
    <2>5. Started'
      <3>1. pc' = phase
        BY <1>3, Zenon DEF Enter
      <3>2. box' = box /\ modeId' = modeId
        BY <1>3, Zenon
      <3>3. box'.loops = box.loops
        BY <3>2
      <3>4. QED
        BY <1>3, <3>1, <3>2, <3>3 DEF Started
    <2>6. QED
      BY <2>2, <2>3, <2>4, <2>5
  <1>4. ASSUME ReaderTyped, UNCHANGED <<settings, boxes, group, result>>, cleared' \subseteq Lines, pc # "idle",
               pc' = pc \/ (pc \notin Phases /\ pc' \in Places \ Phases /\ pc' # "walk"),
               tries' \in 0..Tries - 1,
               box' \in [defect : Defects \union {NoDefect}, loops : Lines, ele : [Lines -> 0..1]],
               box'.loops = box.loops
        PROVE  Typed' /\ Flags' /\ Items' /\ Started'
    <2>1. Typed'
      BY <1>4 DEF Typed, ReaderTyped
    <2>2. Flags'
      BY <1>4, Zenon DEF Flags
    <2>3. Started'
      BY <1>4 DEF Started, Places
    <2>4. Items'
      <3>1. todo' = todo /\ modeId' = modeId
        BY <1>4, Zenon
      <3>2. CASE pc' = pc
        BY <3>1, <3>2 DEF Items, LineKinds, LastSet, LastKinds, Held
      <3>3. CASE pc \notin Phases /\ pc' \in Places \ Phases
        <4>1. todo' = <<>> /\ Held(<<>>) = {}
          BY <3>1, <3>3, HeldEmpty DEF Items
        <4>2. QED
          BY <3>3, <4>1 DEF Items
      <3>4. QED
        BY <1>4, <3>2, <3>3, Zenon
    <2>5. QED
      BY <2>1, <2>2, <2>3, <2>4
  <1>5. ASSUME ReaderTyped, NextItem, todo # <<>>, UNCHANGED <<settings, box, boxes, cleared, pc>>,
               tries' \in 0..Tries - 1, Flags'
        PROVE  Typed' /\ Flags' /\ Items' /\ Started'
    <2>1. pc \in Phases
      BY <1>5 DEF Items
    <2>2. todo' \in Seq(ItemType) /\ Items'
      BY <1>5, <2>1, NextItems DEF ReaderTyped
    <2>3. Typed'
      BY <1>5, <2>2 DEF Typed, ReaderTyped
    <2>4. Started'
      BY <1>5 DEF Started
    <2>5. QED
      BY <1>5, <2>2, <2>3, <2>4
  <1>23. UNCHANGED cleared => cleared' \subseteq Lines
    BY DEF Typed
  <1>6. box' = box => box' \in [defect : Defects \union {NoDefect}, loops : Lines, ele : [Lines -> 0..1]]
                       /\ box'.loops = box.loops
    BY DEF Typed
  <1>7. tries \in 0..Tries - 1 /\ 0 \in 0..Tries - 1
    BY BoxAssumption DEF Typed
  <1>8. pc \in Phases => pc # "idle"
    BY DEF Phases
  <1>9. todo # <<>> => pc \in Phases
    BY DEF Items
  <1>10. CASE energyCounts
    <2> DEFINE e == [i \in Lines |-> 1]
    <2>1. box' = [box EXCEPT !.ele = e] /\ pc # "idle"
          /\ UNCHANGED <<settings, boxes, cleared, reader, pc, group, tries, result, mishaps>>
          /\ events' = IF pc = "reread" THEN events \union {"counted"} ELSE events
      BY <1>10, Zenon DEF energyCounts
    <2>2. e \in [Lines -> 0..1]
      OBVIOUS
    <2> HIDE DEF e
    <2>3. box' \in [defect : Defects \union {NoDefect}, loops : Lines, ele : [Lines -> 0..1]]
          /\ box'.loops = box.loops
      BY <2>1, <2>2 DEF Typed
    <2>4. events' \subseteq Events /\ events \subseteq events'
      BY <2>1 DEF Typed, Events
    <2>5. ReaderTyped
      BY <2>1, <2>4 DEF ReaderTyped, Typed, reader
    <2>6. QED
      BY <1>4, <1>7, <1>23, <2>1, <2>3, <2>5, Zenon
  <1>11. CASE initDev
    <2>1. PICK ok \in BOOLEAN : readDevData(ok)
      BY <1>11, Zenon DEF initDev
    <2>2. pc = "init" /\ pc' = "link" /\ UNCHANGED <<settings, box, boxes, cleared, group, tries, result>>
      BY <1>11, Zenon DEF initDev
    <2>3. ReaderTyped
      BY <2>1, <2>2, ReadDevData
    <2>4. pc # "idle" /\ pc \notin Phases /\ pc' \in Places \ Phases /\ pc' # "walk"
      BY <2>2 DEF Places, Phases
    <2>5. QED
      BY <1>4, <1>6, <1>7, <1>23, <2>2, <2>3, <2>4, Zenon
  <1>12. CASE readDev_link
    <2>1. pc = "link" /\ pc # "idle" /\ UNCHANGED <<settings, box, boxes, cleared>>
      BY <1>12 DEF readDev_link
    <2>2. CASE readLink(TRUE) /\ Enter(IF modeId = "START_BUSBAR" THEN "walk" ELSE "err") /\ UNCHANGED result
      <3>1. ReaderTyped
        BY <2>1, <2>2, ReadLink
      <3>2. /\ (IF modeId = "START_BUSBAR" THEN "walk" ELSE "err") \in Places
            /\ (IF modeId = "START_BUSBAR" THEN "walk" ELSE "err") = "walk" => modeId = "START_BUSBAR"
        BY DEF Places, Phases
      <3>3. result' \in BOOLEAN
        BY <2>2, Zenon DEF Flags
      <3>4. QED
        BY <1>3, <2>1, <2>2, <3>1, <3>2, <3>3
    <2>3. CASE readLink(FALSE) /\ tries' = tries + 1 /\ tries + 1 < Tries /\ UNCHANGED <<pc, group, result>>
      <3>1. ReaderTyped
        BY <2>1, <2>3, ReadLink
      <3>2. tries' \in 0..Tries - 1
        BY <1>7, <2>3, BoxAssumption
      <3>3. QED
        BY <1>4, <1>6, <1>23, <2>1, <2>3, <3>1, <3>2, Zenon
    <2>4. CASE readLink(FALSE) /\ ReadFails
      <3>1. ReaderTyped
        BY <2>1, <2>4, ReadLink
      <3>2. "vol" \in Places /\ result' \in BOOLEAN /\ Enter("vol")
        BY <2>4 DEF Places, Phases, ReadFails
      <3>3. QED
        BY <1>3, <2>1, <3>1, <3>2
    <2>5. QED
      BY <1>12, <2>2, <2>3, <2>4, Zenon DEF readDev_link
  <1>13. CASE readDev_walk
    <2>1. pc = "walk" /\ pc # "idle" /\ UNCHANGED <<settings, box, boxes, cleared>>
      BY <1>13 DEF readDev_walk
    <2>2. ASSUME NEW ok \in BOOLEAN, readWalk(ok)
          PROVE  ReaderTyped
      BY <2>1, <2>2, ReadWalk DEF Started
    <2>3. CASE readWalk(TRUE) /\ Enter("err") /\ UNCHANGED result
      <3>1. ReaderTyped /\ "err" \in Places /\ result' \in BOOLEAN
        BY <2>2, <2>3 DEF Places, Phases, Flags
      <3>2. QED
        BY <1>3, <2>1, <2>3, <3>1
    <2>4. CASE readWalk(FALSE) /\ ReadFails
      <3>1. ReaderTyped /\ "vol" \in Places /\ result' \in BOOLEAN /\ Enter("vol")
        BY <2>2, <2>4 DEF Places, Phases, ReadFails
      <3>2. QED
        BY <1>3, <2>1, <3>1
    <2>5. QED
      BY <1>13, <2>3, <2>4, Zenon DEF readDev_walk
  <1>14. CASE judgeAgain
    <2>1. PICK ok \in BOOLEAN : readDevData(ok)
      BY <1>14, Zenon DEF judgeAgain
    <2>2. pc # "idle"
      BY <1>8, <1>9, <1>14 DEF judgeAgain
    <2>3. ReaderTyped
      BY <2>1, <2>2, ReadDevData
    <2>4. tries' \in 0..Tries - 1
      BY <1>7, <1>14, BoxAssumption DEF judgeAgain
    <2>5. UNCHANGED <<settings, box, boxes, cleared, pc, group, result>>
      BY <1>14, Zenon DEF judgeAgain
    <2>6. QED
      BY <1>4, <1>6, <1>23, <2>2, <2>3, <2>4, <2>5, Zenon
  <1>15. CASE judge
    <2> DEFINE ok == Good(Item)
    <2>1. /\ todo # <<>> /\ Verdict(Item, ok)
          /\ failed' = (failed \/ ~ok) /\ result' = (result \/ ~ok)
          /\ (\E read \in BOOLEAN : readDevData(read)) \/ UNCHANGED <<reader, history>>
          /\ NextItem /\ tries' = 0
          /\ UNCHANGED <<settings, box, boxes, cleared, pc>>
      BY <1>15, Zenon DEF judge
    <2>2. ok \in BOOLEAN
      BY DEF Good, EleGood, Ele0Good
    <2> HIDE DEF ok
    <2>3. ReaderTyped
      <3>1. pc # "idle"
        BY <1>8, <1>9, <2>1
      <3>2. QED
        BY <2>1, <3>1, ReadDevData, NoReading
    <2>4. Flags'
      <3>1. eleCheck' \in BOOLEAN /\ failed' \in BOOLEAN /\ result' \in BOOLEAN
        BY <2>1, <2>2, Zenon DEF Flags
      <3>2. ret' \in BOOLEAN /\ res' \in BOOLEAN
        BY <2>1, <2>2, Zenon DEF Flags, Verdict
      <3>3. QED
        BY <3>1, <3>2 DEF Flags
    <2>5. QED
      BY <1>5, <1>7, <2>1, <2>3, <2>4
  <1>16. CASE skip
    <2>1. /\ todo # <<>> /\ NextItem
          /\ UNCHANGED <<settings, box, boxes, cleared, reader, pc, tries, ret, res, failed, result, history>>
      BY <1>16, Zenon DEF skip
    <2>2. ReaderTyped
      BY <2>1, NoReading
    <2>3. Flags'
      BY <2>1, Zenon DEF Flags
    <2>4. QED
      BY <1>5, <1>7, <2>1, <2>2, <2>3
  <1>17. CASE groupReturns
    <2>1. PICK phase : Enter(phase) /\ phase \in Places /\ phase # "walk"
      <3> DEFINE next == NextPhase(pc, GroupRet)
                 phase == CASE next = "ask" -> "vol" [] next = "factory" -> "clean" [] OTHER -> next
      <3>1. Enter(phase) /\ pc \in Phases /\ pc # "vol"
        BY <1>17, Zenon DEF groupReturns, AtEnd
      <3>2. next \in {"ask", "version", "base", "alarm", "factory"}
        BY <3>1 DEF NextPhase, Phases
      <3> HIDE DEF next
      <3>3. phase \in Places /\ phase # "walk"
        BY <3>2 DEF Places, Phases
      <3>4. QED
        BY <3>1, <3>3
    <2>2. pc # "idle" /\ UNCHANGED <<settings, box, boxes, cleared, reader, result, history>>
      BY <1>8, <1>17, Zenon DEF groupReturns, AtEnd
    <2>3. ReaderTyped /\ result' \in BOOLEAN
      BY <2>2, NoReading DEF Flags
    <2>4. QED
      BY <1>3, <2>1, <2>2, <2>3
  <1>18. CASE eleClean
    <2> DEFINE lines == IF modeId = "START_BUSBAR" THEN Lines ELSE 1..data[modeId].loopNum
    <2>1. PICK done \in SUBSET lines :
            /\ box' = [box EXCEPT !.ele = [i \in Lines |-> IF i \in done THEN 0 ELSE @[i]]]
            /\ cleared' = done
            /\ Happens(IF done = lines THEN {} ELSE {"trouble"})
      BY <1>18, Zenon DEF eleClean
    <2>10. lines \subseteq Lines
      BY BoxTyped, BoxAssumption DEF Lines
    <2> HIDE DEF lines
    <2> DEFINE e == [i \in Lines |-> IF i \in done THEN 0 ELSE box.ele[i]]
    <2>2. e \in [Lines -> 0..1]
      BY BoxTyped
    <2>3. box' = [box EXCEPT !.ele = e]
      BY <2>1, Zenon
    <2> HIDE DEF e
    <2>4. box' \in [defect : Defects \union {NoDefect}, loops : Lines, ele : [Lines -> 0..1]]
          /\ box'.loops = box.loops
      BY <2>2, <2>3 DEF Typed
    <2>5. pc = "clean" /\ pc' = "reread" /\ UNCHANGED <<settings, boxes, reader, group, tries, result>>
      BY <1>18, Zenon DEF eleClean
    <2>6. (IF done = lines THEN {} ELSE {"trouble"}) \in SUBSET Events
      BY DEF Events
    <2>7. ReaderTyped
      BY <2>1, <2>5, <2>6, HappensTyped DEF ReaderTyped, Typed, reader
    <2>8. pc # "idle" /\ pc \notin Phases /\ pc' \in Places \ Phases /\ pc' # "walk"
      BY <2>5 DEF Places, Phases
    <2>11. cleared' \subseteq Lines
      BY <2>1, <2>10
    <2>9. QED
      BY <1>4, <1>7, <2>4, <2>5, <2>7, <2>8, <2>11, Zenon
  <1>19. CASE factoryReads
    <2>1. PICK ok \in BOOLEAN : readDevData(ok)
      BY <1>19, Zenon DEF factoryReads
    <2>2. pc = "reread" /\ Enter("factory") /\ UNCHANGED <<settings, box, boxes, cleared, result>>
      BY <1>19, Zenon DEF factoryReads
    <2>3. ReaderTyped
      BY <2>1, <2>2, ReadDevData
    <2>4. "factory" \in Places /\ result' \in BOOLEAN
      BY <2>2 DEF Places, Phases, Flags
    <2>5. QED
      BY <1>3, <2>2, <2>3, <2>4
  <1>20. CASE volReturns
    <2>1. pc = "vol" /\ Enter("idle") /\ UNCHANGED <<settings, box, boxes, cleared, reader, history>>
          /\ result' = (result \/ ~res)
      BY <1>20, Zenon DEF volReturns, AtEnd
    <2>2. ReaderTyped /\ "idle" \in Places
      BY <2>1, NoReading DEF Places
    <2>3. result' \in BOOLEAN
      BY <2>1, Zenon DEF Flags
    <2>4. QED
      BY <1>3, <2>1, <2>2, <2>3
  <1>21. CASE UNCHANGED vars
    <2>1. Typed'
      BY <1>21 DEF vars, Typed, reader, history
    <2>2. Flags'
      BY <1>21, Zenon DEF vars, Flags
    <2>3. Items' /\ Started'
      BY <1>21 DEF vars, Items, Started, LineKinds, LastSet, LastKinds, Held
    <2>4. QED
      BY <2>1, <2>2, <2>3
  <1>22. QED
    BY <1>1, <1>10, <1>11, <1>12, <1>13, <1>14, <1>15, <1>16, <1>17, <1>18, <1>19, <1>20, <1>21,
       Zenon DEF Next, Core

\* Every variable keeps its type.
THEOREM TypeCorrect == Spec => []TypeOK
  <1>1. Typed /\ Flags => TypeOK
    BY Zenon DEF Typed, Flags, TypeOK, Places, Store, Events, ItemType, ItemNames
  <1>2. QED
    BY <1>1, InitTyped, StepTyped, PTL DEF Spec

-----------------------------------------------------------------------------
(* ReturnsAsAssumed *)

\* Without a failed check the locals are TRUE; the groups that mask nothing
\* lose res with the first failed check.
Returns ==
  /\ ~failed => ret /\ res
  /\ pc \in {"version", "factory", "vol"} /\ failed => ~res

\* The masking items are not in those groups.
LEMMA ItemKind ==
  ASSUME Typed, Items, todo # <<>>
  PROVE  /\ pc \in Phases /\ Item \in Held(todo)
         /\ Item \in (LineKinds(pc) \X Lines) \union LastSet(pc)
         /\ pc \in {"version", "factory", "vol"} => Item[1] \notin {"tem", "temTh", "base", "residual", "residualTh"}
  <1>1. pc \in Phases /\ Item \in Held(todo)
    BY ItemTyped DEF Items
  <1>2. Item \in (LineKinds(pc) \X Lines) \union LastSet(pc)
    BY <1>1 DEF Items
  <1>3. CASE pc = "version"
    BY <1>1, <1>2, <1>3 DEF LineKinds, LastSet, LastKinds
  <1>4. CASE pc = "factory"
    BY <1>1, <1>2, <1>4 DEF LineKinds, LastSet, LastKinds
  <1>5. CASE pc = "vol"
    BY <1>1, <1>2, <1>5 DEF LineKinds, LastSet, LastKinds
  <1>6. QED
    BY <1>1, <1>2, <1>3, <1>4, <1>5

\* A verdict is TRUE or FALSE.
LEMMA GoodBoolean ==
  ASSUME NEW item
  PROVE  Good(item) \in BOOLEAN
  BY DEF Good, EleGood, Ele0Good

\* Every step keeps what is known of a group's locals.
LEMMA StepReturns ==
  ASSUME Typed, Flags, Items, Returns, [Next]_vars
  PROVE  Returns'
  <1>1. ASSUME NEW phase, Enter(phase)
        PROVE  Returns'
    BY <1>1, Zenon DEF Enter, Returns
  <1>2. ASSUME UNCHANGED group, pc' = pc \/ pc' \in {"link", "reread"}
        PROVE  Returns'
    <2>1. ret' = ret /\ res' = res /\ failed' = failed
      BY <1>2, Zenon DEF group
    <2>2. pc' \in {"version", "factory", "vol"} => pc \in {"version", "factory", "vol"}
      BY <1>2
    <2>3. QED
      BY <2>1, <2>2, Zenon DEF Returns
  <1>3. CASE \E mode \in Modes, ip \in 0..1, check \in BOOLEAN, loops \in Lines,
               residual \in 0..1, ele \in 0..1, defect \in Defects \union {NoDefect} :
               startTest(mode, ip, residual, check, defect, loops, ele)
    <2>1. Enter("init")
      BY <1>3 DEF startTest
    <2>2. QED
      BY <1>1, <2>1
  <1>4. CASE energyCounts \/ initDev \/ judgeAgain \/ eleClean \/ UNCHANGED vars
    <2>1. UNCHANGED group
      BY <1>4, Zenon DEF energyCounts, initDev, judgeAgain, eleClean, vars
    <2>2. pc' = pc \/ pc' \in {"link", "reread"}
      BY <1>4 DEF energyCounts, initDev, judgeAgain, eleClean, vars
    <2>3. QED
      BY <1>2, <2>1, <2>2
  <1>5. CASE readDev_link \/ readDev_walk \/ groupReturns \/ factoryReads \/ volReturns
    <2>1. (\E phase : Enter(phase)) \/ UNCHANGED <<pc, group>>
      BY <1>5, Zenon DEF readDev_link, readDev_walk, ReadFails, groupReturns, factoryReads, volReturns
    <2>2. QED
      BY <1>1, <1>2, <2>1, Zenon
  <1>6. CASE judge
    <2> DEFINE ok == Good(Item)
    <2>1. todo # <<>> /\ Verdict(Item, ok) /\ failed' = (failed \/ ~ok) /\ pc' = pc
      BY <1>6, Zenon DEF judge
    <2>2. ok \in BOOLEAN
      BY GoodBoolean
    <2> HIDE DEF ok
    <2>3. ASSUME ~failed'
          PROVE  ret' /\ res'
      <3>1. ret /\ res /\ ok /\ ok = TRUE
        BY <2>1, <2>2, <2>3, Zenon DEF Returns
      <3>2. QED
        BY <2>1, <3>1, Zenon DEF Verdict
    <2>4. ASSUME pc \in {"version", "factory", "vol"}, failed'
          PROVE  ~res'
      <3>1. Item[1] \notin {"tem", "temTh", "base", "residual", "residualTh"}
        BY <2>1, <2>4, ItemKind
      <3>2. res' = (res /\ ok)
        <4>1. Item[1] # "tem" /\ Item[1] # "temTh" /\ ~(Item[1] \in {"base", "residual", "residualTh"})
          BY <3>1
        <4>2. QED
          BY <2>1, <4>1, Zenon DEF Verdict
      <3>3. ~res \/ ~ok
        BY <2>1, <2>4, Zenon DEF Returns
      <3>4. QED
        BY <3>2, <3>3, Zenon
    <2>5. QED
      BY <2>1, <2>3, <2>4, Zenon DEF Returns
  <1>7. CASE skip
    BY <1>2, <1>7, Zenon DEF skip, Returns
  <1>8. QED
    BY <1>3, <1>4, <1>5, <1>6, <1>7, Zenon DEF Next, Core

\* A group without a failed check returns TRUE, and one with a failed check
\* only what TestRun lets it return.
THEOREM GroupsReturn == Spec => []ReturnsAsAssumed
  <1>1. Init => Returns
    BY Zenon DEF Init, Returns
  <1>2. Typed /\ Flags /\ Returns => ReturnsAsAssumed
    <2> SUFFICES ASSUME Typed, Flags, Returns, AtEnd
                 PROVE  GroupRet \in (IF failed THEN MaskedRet(pc) ELSE {TRUE})
      BY Zenon DEF ReturnsAsAssumed
    <2>1. pc \in Phases
      BY DEF AtEnd
    <2>2. GroupRet = TRUE \/ GroupRet = FALSE
      BY Zenon DEF GroupRet
    <2>3. ~failed => GroupRet = TRUE
      BY Zenon DEF Returns, GroupRet
    <2>4. pc = "base" => GroupRet = TRUE
      BY Zenon DEF GroupRet
    <2>5. pc \in {"version", "factory", "vol"} /\ failed => GroupRet = FALSE
      <3>1. pc \in {"version", "factory", "vol"} => pc # "base"
        OBVIOUS
      <3>2. QED
        BY <3>1, Zenon DEF Returns, GroupRet
    <2> HIDE DEF GroupRet
    <2>6. CASE ~failed
      BY <2>3, <2>6, Zenon
    <2>7. CASE failed
      <3>1. GroupRet \in MaskedRet(pc)
        BY <2>1, <2>2, <2>4, <2>5, <2>7 DEF MaskedRet, Phases
      <3>2. QED
        BY <2>7, <3>1, Zenon
    <2>8. QED
      BY <2>6, <2>7
  <1>3. QED
    BY <1>1, <1>2, InitTyped, StepTyped, StepReturns, PTL DEF Spec

-----------------------------------------------------------------------------
(* The items still to be judged *)

\* All items of a group for the box on the bench.
Checked(phase) == (LineKinds(phase) \X (1..box.loops)) \union LastSet(phase)

\* What follows the line under way, and what is left of the group.
Coming ==
  IF todo = <<>> \/ Item[2] = 0 THEN {}
  ELSE (LineKinds(pc) \X ((Item[2] + 1)..box.loops)) \union LastSet(pc)

Left == Held(todo) \union Coming

\* What a group judges changes with the mode only.
LEMMA KindsKept ==
  ASSUME modeId' = modeId, NEW phase
  PROVE  LineKinds(phase)' = LineKinds(phase) /\ LastSet(phase)' = LastSet(phase)
  BY DEF LineKinds, LastSet, LastKinds

\* A group starts with all its items, if the values tell the number of loops.
LEMMA EnterLeft ==
  ASSUME Typed, data' \in [Modes -> Store], NEW phase \in Phases, Enter(phase), modeId' = modeId,
         data'[modeId].loopNum = box.loops, box'.loops = box.loops
  PROVE  Checked(phase) \subseteq Left'
  <1>1. box.loops \in Lines /\ box.loops > 0 /\ box.loops \in Nat
    BY BoxTyped, BoxAssumption DEF Lines
  <1>2. phase \in Places
    BY DEF Places
  <1>3. pc' = phase
    BY <1>2, EnterHeld
  <1>4. LineKinds(phase)' = LineKinds(phase) /\ LastSet(phase)' = LastSet(phase)
    BY KindsKept
  <1>5. CASE phase \in LinePhases
    <2>1. todo' # <<>> /\ Held(todo') = LineSet(phase, 1) /\ todo' \in Seq(ItemType)
      BY <1>1, <1>2, <1>5, EnterHeld
    <2>2. Item' \in Held(todo')
      BY <2>1, HeldTail DEF Item
    <2>3. Item'[2] = 1
      BY <2>1, <2>2 DEF LineSet
    <2>4. Coming' = (LineKinds(phase) \X (2..box.loops)) \union LastSet(phase)
      BY <1>3, <1>4, <2>1, <2>3 DEF Coming
    <2>5. Left' = LineSet(phase, 1) \union (LineKinds(phase) \X (2..box.loops)) \union LastSet(phase)
      BY <2>1, <2>4 DEF Left
    <2>6. \A i \in 1..box.loops : i = 1 \/ i \in 2..box.loops
      BY <1>1
    <2>7. QED
      BY <2>5, <2>6 DEF Checked, LineSet
  <1>6. CASE phase \notin LinePhases
    <2>1. Held(todo') = LastSet(phase)
      BY <1>2, <1>6, EnterHeld
    <2>2. LineKinds(phase) = {}
      BY <1>6 DEF LineKinds, LinePhases
    <2>3. Checked(phase) = LastSet(phase)
      BY <2>2 DEF Checked
    <2>4. QED
      BY <2>1, <2>3 DEF Left
  <1>7. QED
    BY <1>5, <1>6

\* With the verdict on an item, nothing else is left out.
LEMMA NextLeft ==
  ASSUME Typed, Items, data' \in [Modes -> Store], todo # <<>>, pc \in Phases, NextItem,
         pc' = pc, modeId' = modeId, data'[modeId].loopNum = box.loops, box'.loops = box.loops
  PROVE  Left \subseteq {Item} \union Left'
  <1> DEFINE i == Item[2]
  <1>1. i \in 0..MaxLines /\ Item \in Held(todo)
    BY ItemTyped
  <1>2. todo' \in Seq(ItemType) /\ Done(i, box.loops)
    BY NextItemHeld
  <1>3. LineKinds(pc)' = LineKinds(pc) /\ LastSet(pc)' = LastSet(pc)
    BY KindsKept
  <1>4. box.loops \in 0..MaxLines
    BY BoxTyped
  <1>5. i = 0 => Coming = {}
    BY DEF Coming
  <1>6. i # 0 => Coming = (LineKinds(pc) \X ((i + 1)..box.loops)) \union LastSet(pc)
    BY DEF Coming
  <1>7. todo' # <<>> => Item' \in Held(todo')
    BY <1>2, HeldTail DEF Item
  <1> HIDE DEF i
  <1>8. CASE todo' = Tail(todo) /\ todo' # <<>>
    <2>1. Held(todo) = {Item} \union Held(todo')
      BY <1>8, ItemTyped
    <2>2. Item'[2] = i
      BY <1>1, <1>7, <1>8, <2>1 DEF Items, i
    <2>3. Coming' = Coming
      <3>1. i = 0 => Coming' = {}
        BY <2>2 DEF Coming
      <3>2. i # 0 => Coming' = (LineKinds(pc) \X ((i + 1)..box.loops)) \union LastSet(pc)
        BY <1>3, <1>8, <2>2 DEF Coming
      <3>3. QED
        BY <1>5, <1>6, <3>1, <3>2
    <2>4. QED
      BY <2>1, <2>3 DEF Left
  <1>9. CASE /\ Held(todo) = {Item} /\ i > 0 /\ pc \in LinePhases /\ i < box.loops
             /\ i + 1 \in Lines /\ todo' # <<>> /\ Held(todo') = LineSet(pc, i + 1)
    <2>1. Item'[2] = i + 1
      BY <1>7, <1>9 DEF LineSet
    <2>2. i + 1 # 0 /\ i # 0
      BY <1>1, <1>9
    <2>3. Coming' = (LineKinds(pc) \X ((i + 1 + 1)..box.loops)) \union LastSet(pc)
      BY <1>3, <1>9, <2>1, <2>2 DEF Coming
    <2>4. \A j \in (i + 1)..box.loops : j = i + 1 \/ j \in (i + 1 + 1)..box.loops
      BY <1>1, <1>4
    <2>5. Left = {Item} \union (LineKinds(pc) \X ((i + 1)..box.loops)) \union LastSet(pc)
      BY <1>6, <1>9, <2>2 DEF Left
    <2>6. Left' = LineSet(pc, i + 1) \union (LineKinds(pc) \X ((i + 1 + 1)..box.loops)) \union LastSet(pc)
      BY <1>9, <2>3 DEF Left
    <2>7. LineSet(pc, i + 1) = LineKinds(pc) \X {i + 1}
      BY DEF LineSet
    <2>8. QED
      BY <2>4, <2>5, <2>6, <2>7
  <1>10. CASE /\ Held(todo) = {Item} /\ i > 0 /\ ~(pc \in LinePhases /\ i < box.loops)
              /\ Held(todo') = LastSet(pc)
    <2>1. i # 0
      BY <1>1, <1>10
    <2>2. LineKinds(pc) = {} \/ (i + 1)..box.loops = {}
      <3>1. CASE pc \notin LinePhases
        BY <3>1 DEF LineKinds, LinePhases
      <3>2. CASE ~(i < box.loops)
        BY <1>1, <1>4, <3>2
      <3>3. QED
        BY <1>10, <3>1, <3>2
    <2>3. Left = {Item} \union (LineKinds(pc) \X ((i + 1)..box.loops)) \union LastSet(pc)
      BY <1>6, <1>10, <2>1 DEF Left
    <2>4. LastSet(pc) \subseteq Left'
      BY <1>10 DEF Left
    <2>5. LineKinds(pc) \X ((i + 1)..box.loops) = {}
      BY <2>2
    <2>6. QED
      BY <2>3, <2>4, <2>5
  <1>11. CASE Held(todo) = {Item} /\ i = 0 /\ todo' = <<>>
    BY <1>5, <1>11 DEF Left
  <1>12. QED
    BY <1>2, <1>8, <1>9, <1>10, <1>11, Zenon DEF Done

-----------------------------------------------------------------------------
(* NoDefectPassed *)

\* No reading left old values in place and no check has failed.
Open == AllRead /\ ~result

\* The values are those of the box on the bench.
Fresh ==
  /\ data[modeId].loopNum = box.loops
  /\ data[modeId].base = box.defect /\ data[modeId].tem = box.defect
  /\ \A i \in 1..box.loops : data[modeId].line[i].defect = box.defect

\* Once the readings have begun to count.
Judging == Phases \union {"clean", "reread"}

Known == Open => ~failed /\ (pc \in Judging => Fresh)

\* Values that were fresh and stay, or were all read, are fresh.
LEMMA FreshKept ==
  ASSUME Typed, modeId' = modeId, box'.loops = box.loops, box'.defect = box.defect,
         (Same /\ Fresh) \/ Full(TRUE) \/ Full(FALSE)
  PROVE  Fresh'
  <1>1. \A i \in 1..box.loops : i \in Lines
    BY BoxTyped, BoxAssumption DEF Lines
  <1>2. ASSUME Same, Fresh
        PROVE  Fresh'
    BY <1>1, <1>2 DEF Same, Fresh
  <1>3. ASSUME NEW steady \in BOOLEAN, Full(steady)
        PROVE  Fresh'
    <2>1. \A i : LineNow(i, steady).defect = box.defect
      BY DEF LineNow
    <2>2. \A i \in 1..box.loops : data'[modeId].line[i].defect = box.defect
      BY <1>3, <2>1 DEF Full
    <2>3. QED
      BY <1>3, <2>2 DEF Full, Fresh
  <1>4. QED
    BY <1>2, <1>3

\* As long as nothing failed and no reading was stale, the groups see fresh values.
LEMMA StepKnown ==
  ASSUME Typed, Flags, Items, Started, Known, [Next]_vars
  PROVE  Known'
  <1> SUFFICES ASSUME Open' PROVE ~failed' /\ (pc' \in Judging => Fresh')
    BY Zenon DEF Known
  <1> USE DEF settings, group
  <1>1. ASSUME events \subseteq events',
               result' = result \/ result' = (result \/ ~Good(Item)) \/ result' = (result \/ ~res)
        PROVE  Open /\ ~failed /\ (pc \in Judging => Fresh)
    <2>1. AllRead
      BY <1>1 DEF Open, AllRead
    <2>2. ~result
      BY <1>1, Zenon DEF Open
    <2>3. QED
      BY <2>1, <2>2, Zenon DEF Open, Known
  <1>2. ASSUME NEW phase, Enter(phase), phase \in Judging => Fresh'
        PROVE  ~failed' /\ (pc' \in Judging => Fresh')
    BY <1>2, Zenon DEF Enter
  <1>3. ASSUME NEW ok \in BOOLEAN, Outcome(ok), UNCHANGED <<settings, box>>, ok \/ Fresh
        PROVE  Fresh'
    <2>1. "stale" \notin events'
      BY DEF Open, AllRead
    <2>2. (Same /\ Fresh) \/ Full(TRUE) \/ Full(FALSE)
      BY <1>3, <2>1, Zenon DEF Outcome
    <2>3. modeId' = modeId /\ box'.loops = box.loops /\ box'.defect = box.defect
      BY <1>3
    <2>4. QED
      BY <2>2, <2>3, FreshKept
  <1>4. CASE \E mode \in Modes, ip \in 0..1, check \in BOOLEAN, loops \in Lines,
               residual \in 0..1, ele \in 0..1, defect \in Defects \union {NoDefect} :
               startTest(mode, ip, residual, check, defect, loops, ele)
    <2>1. Enter("init") /\ "init" \notin Judging
      BY <1>4 DEF startTest, Judging, Phases
    <2>2. QED
      BY <1>2, <2>1
  <1>5. CASE energyCounts \/ eleClean
    <2>1. PICK e : box' = [box EXCEPT !.ele = e]
      <3>1. CASE energyCounts
        BY <3>1, Zenon DEF energyCounts
      <3>2. CASE eleClean
        BY <3>2, Zenon DEF eleClean
      <3>3. QED
        BY <1>5, <3>1, <3>2
    <2>2. box'.loops = box.loops /\ box'.defect = box.defect
      BY <2>1 DEF Typed
    <2>3. UNCHANGED <<settings, reader, group, result>> /\ (pc' = pc \/ pc = "clean")
      BY <1>5, Zenon DEF energyCounts, eleClean
    <2>4. events \subseteq events'
      BY <1>5 DEF energyCounts, eleClean, history, Happens
    <2>5. Open /\ ~failed /\ (pc \in Judging => Fresh)
      BY <1>1, <2>3, <2>4
    <2>6. ASSUME Fresh
          PROVE  Fresh'
      BY <2>2, <2>3, <2>6, FreshKept DEF reader, Same
    <2>7. pc' \in Judging => pc \in Judging
      BY <2>3 DEF Judging
    <2>8. failed' = failed
      BY <2>3, Zenon
    <2>9. QED
      BY <2>5, <2>6, <2>7, <2>8, Zenon
  <1>6. CASE initDev
    <2>1. PICK ok \in BOOLEAN : readDevData(ok)
      BY <1>6, Zenon DEF initDev
    <2>2. pc = "init" /\ pc' = "link" /\ pc # "idle" /\ UNCHANGED <<group, result>>
      BY <1>6 DEF initDev
    <2>3. events \subseteq events'
      BY <2>1, <2>2, ReadDevData DEF ReaderTyped
    <2>4. ~failed /\ failed' = failed
      BY <1>1, <2>2, <2>3, Zenon
    <2>5. pc' \notin Judging
      BY <2>2 DEF Judging, Phases
    <2>6. QED
      BY <2>4, <2>5, Zenon
  <1>7. CASE readDev_link
    <2>1. pc = "link" /\ pc # "idle" /\ UNCHANGED <<settings, box, boxes, cleared>>
      BY <1>7 DEF readDev_link
    <2>2. CASE readLink(TRUE) /\ Enter(IF modeId = "START_BUSBAR" THEN "walk" ELSE "err")
      <3>1. CASE modeId = "START_BUSBAR"
        BY <1>2, <2>2, <3>1 DEF Judging, Phases
      <3>2. CASE modeId # "START_BUSBAR"
        <4>1. Outcome(TRUE)
          BY <2>1, <2>2, <3>2, ReadLink
        <4>2. Fresh'
          BY <1>3, <2>1, <4>1
        <4>3. Enter("err")
          BY <2>2, <3>2
        <4>4. QED
          BY <1>2, <4>2, <4>3
      <3>3. QED
        BY <3>1, <3>2
    <2>3. CASE readLink(FALSE) /\ UNCHANGED <<pc, group, result>>
      <3>1. events \subseteq events'
        BY <2>1, <2>3, ReadLink DEF ReaderTyped
      <3>2. ~failed /\ failed' = failed
        BY <1>1, <2>3, <3>1, Zenon
      <3>3. pc' \notin Judging
        BY <2>1, <2>3 DEF Judging, Phases
      <3>4. QED
        BY <3>2, <3>3, Zenon
    <2>4. CASE ReadFails
      BY <2>4, Zenon DEF ReadFails, Open
    <2>5. QED
      BY <1>7, <2>2, <2>3, <2>4, Zenon DEF readDev_link
  <1>8. CASE readDev_walk
    <2>1. pc = "walk" /\ pc # "idle" /\ UNCHANGED <<settings, box, boxes, cleared>>
      BY <1>8 DEF readDev_walk
    <2>2. CASE readWalk(TRUE) /\ Enter("err")
      <3>1. Outcome(TRUE)
        BY <2>1, <2>2, ReadWalk DEF Started
      <3>2. Fresh'
        BY <1>3, <2>1, <3>1
      <3>3. QED
        BY <1>2, <2>2, <3>2
    <2>3. CASE ReadFails
      BY <2>3, Zenon DEF ReadFails, Open
    <2>4. QED
      BY <1>8, <2>2, <2>3, Zenon DEF readDev_walk
  <1>9. CASE judgeAgain
    <2>1. PICK ok \in BOOLEAN : readDevData(ok)
      BY <1>9, Zenon DEF judgeAgain
    <2>2. todo # <<>> /\ UNCHANGED <<settings, box, boxes, cleared, pc, group, result>>
      BY <1>9, Zenon DEF judgeAgain
    <2>3. pc \in Judging /\ pc # "idle"
      BY <2>2 DEF Items, Judging, Phases
    <2>4. ReaderTyped /\ Outcome(ok)
      BY <2>1, <2>3, ReadDevData
    <2>5. ~failed /\ failed' = failed /\ Fresh
      BY <1>1, <2>2, <2>3, <2>4, Zenon DEF ReaderTyped
    <2>6. Fresh'
      BY <1>3, <2>2, <2>4, <2>5, Zenon
    <2>7. QED
      BY <2>5, <2>6, Zenon
  <1>10. CASE judge
    <2> DEFINE ok == Good(Item)
    <2>1. /\ failed' = (failed \/ ~ok) /\ result' = (result \/ ~ok)
          /\ IF ~ok /\ Item[1] \in Electrical
             THEN \E read \in BOOLEAN : readDevData(read)
             ELSE UNCHANGED <<reader, history>>
          /\ UNCHANGED <<settings, box, boxes, cleared, pc>>
      BY <1>10, Zenon DEF judge
    <2>2. ok
      BY <2>1, Zenon DEF Open
    <2>3. UNCHANGED <<reader, history>>
      BY <2>1, <2>2, Zenon
    <2>4. events \subseteq events' /\ Same
      BY <2>3, NoReading DEF ReaderTyped
    <2>5. ~failed /\ (pc \in Judging => Fresh)
      BY <1>1, <2>1, <2>4, Zenon
    <2> HIDE DEF ok
    <2>6. ASSUME Fresh
          PROVE  Fresh'
      BY <2>1, <2>4, <2>6, FreshKept
    <2>7. QED
      BY <2>1, <2>2, <2>5, <2>6, Zenon
  <1>11. CASE skip \/ UNCHANGED vars
    <2>1. UNCHANGED <<settings, box, reader, pc, failed, result, history>>
      BY <1>11, Zenon DEF skip, vars
    <2>2. events \subseteq events' /\ Same
      BY <2>1, NoReading DEF ReaderTyped
    <2>3. ~failed /\ (pc \in Judging => Fresh)
      BY <1>1, <2>1, <2>2, Zenon
    <2>4. ASSUME Fresh
          PROVE  Fresh'
      BY <2>1, <2>2, <2>4, FreshKept
    <2>5. QED
      BY <2>1, <2>3, <2>4, Zenon
  <1>12. CASE groupReturns \/ volReturns
    <2>1. /\ UNCHANGED <<settings, box, boxes, cleared, reader, history>> /\ pc \in Phases
          /\ result' = result \/ result' = (result \/ ~res)
      BY <1>12, Zenon DEF groupReturns, volReturns, AtEnd
    <2>2. PICK phase : Enter(phase)
      BY <1>12, Zenon DEF groupReturns, volReturns
    <2>3. events \subseteq events' /\ Same
      BY <2>1, NoReading DEF ReaderTyped
    <2>4. Fresh
      BY <1>1, <2>1, <2>3 DEF Judging
    <2>5. Fresh'
      <3>1. modeId' = modeId /\ box'.loops = box.loops /\ box'.defect = box.defect
        BY <2>1
      <3>2. QED
        BY <2>3, <2>4, <3>1, FreshKept
    <2>6. QED
      BY <1>2, <2>2, <2>5
  <1>13. CASE factoryReads
    <2>1. PICK ok \in BOOLEAN : readDevData(ok)
      BY <1>13, Zenon DEF factoryReads
    <2>2. pc = "reread" /\ pc # "idle" /\ pc \in Judging /\ Enter("factory")
          /\ UNCHANGED <<settings, box, boxes, cleared, result>>
      BY <1>13 DEF factoryReads, Judging
    <2>3. ReaderTyped /\ Outcome(ok)
      BY <2>1, <2>2, ReadDevData
    <2>4. Fresh
      BY <1>1, <2>2, <2>3, Zenon DEF ReaderTyped
    <2>5. Fresh'
      BY <1>3, <2>2, <2>3, <2>4, Zenon
    <2>6. QED
      BY <1>2, <2>2, <2>5, Zenon
  <1>14. QED
    BY <1>4, <1>5, <1>6, <1>7, <1>8, <1>9, <1>10, <1>11, <1>12, <1>13, Zenon DEF Next, Core


\* A defect is one that some item of some group finds.
Real ==
  pc # "idle" /\ box.defect # NoDefect =>
    /\ box.defect[1] \notin EnergyNames
    /\ \E phase \in Phases : box.defect \in Checked(phase)

\* A defect the operator may put on the bench is an item of some group.
LEMMA DefectFound ==
  ASSUME NEW defect \in Defects, NEW loops \in Lines, modeId' \in Modes, box'.loops = loops,
         defect[2] <= loops, defect[1] \in StartOnly => modeId' = "START_BUSBAR"
  PROVE  defect[1] \notin EnergyNames /\ \E phase \in Phases : defect \in Checked(phase)'
  <1>1. defect \in DefectItems
    BY BoxAssumption
  <1>2. loops \in Nat
    BY BoxAssumption DEF Lines
  <1>3. CASE defect \in LineNames \X (Nat \ {0})
    <2>1. defect[1] \in LineNames /\ defect[2] \in 1..loops /\ defect = <<defect[1], defect[2]>>
      BY <1>2, <1>3
    <2>2. defect[1] \notin EnergyNames
      BY <2>1 DEF LineNames, EnergyNames
    <2>3. \A phase : defect[1] \in LineKinds(phase)' => defect \in Checked(phase)'
      BY <2>1 DEF Checked
    <2>4. CASE defect[1] \in {"cur", "pow"}
      <3>1. defect[1] \in LineKinds("err")' /\ "err" \in Phases
        BY <2>4 DEF LineKinds, Phases
      <3>2. QED
        BY <2>2, <2>3, <3>1
    <2>5. CASE defect[1] = "vol"
      <3>1. defect[1] \in LineKinds("vol")' /\ "vol" \in Phases
        BY <2>5 DEF LineKinds, Phases
      <3>2. QED
        BY <2>2, <2>3, <3>1
    <2>6. CASE defect[1] \in {"volTh", "curTh", "powTh", "lineVolTh"}
      <3>1. defect[1] = "lineVolTh" => modeId' = "START_BUSBAR"
        BY DEF StartOnly
      <3>2. defect[1] \in LineKinds("alarm")' /\ "alarm" \in Phases
        BY <2>6, <3>1 DEF LineKinds, Phases
      <3>3. QED
        BY <2>2, <2>3, <3>2
    <2>7. QED
      BY <2>1, <2>4, <2>5, <2>6 DEF LineNames
  <1>4. CASE defect \in LastNames \X {0}
    <2>1. defect[1] \in LastNames /\ defect = <<defect[1], 0>>
      BY <1>4
    <2>2. defect[1] \notin EnergyNames
      BY <2>1 DEF LastNames, EnergyNames
    <2>3. \A phase : defect[1] \in LastKinds(phase)' => defect \in Checked(phase)'
      BY <2>1 DEF Checked, LastSet
    <2>4. CASE defect[1] = "tem"
      <3>1. defect[1] \in LastKinds("err")' /\ "err" \in Phases
        BY <2>4 DEF LastKinds, Phases
      <3>2. QED
        BY <2>2, <2>3, <3>1
    <2>5. CASE defect[1] = "version"
      <3>1. defect[1] \in LastKinds("version")' /\ "version" \in Phases
        BY <2>5 DEF LastKinds, Phases
      <3>2. QED
        BY <2>2, <2>3, <3>1
    <2>6. CASE defect[1] = "base"
      <3>1. defect[1] \in LastKinds("base")' /\ "base" \in Phases
        BY <2>6 DEF LastKinds, Phases
      <3>2. QED
        BY <2>2, <2>3, <3>1
    <2>7. CASE defect[1] \in {"temTh", "hzTh", "totalPowTh", "zeroCurTh", "residualTh"}
      <3>1. defect[1] # "temTh" => modeId' = "START_BUSBAR"
        BY <2>7 DEF StartOnly
      <3>2. defect[1] \in LastKinds("alarm")' /\ "alarm" \in Phases
        BY <2>7, <3>1 DEF LastKinds, Phases
      <3>3. QED
        BY <2>2, <2>3, <3>2
    <2>8. CASE defect[1] = "residual"
      <3>1. defect[1] \in LastKinds("base")' /\ "base" \in Phases
        BY <2>8 DEF LastKinds, Phases, StartOnly
      <3>2. QED
        BY <2>2, <2>3, <3>1
    <2>9. QED
      BY <2>1, <2>4, <2>5, <2>6, <2>7, <2>8 DEF LastNames
  <1>5. QED
    BY <1>1, <1>3, <1>4 DEF DefectItems

\* A test that goes on is of the same box in the same mode.
Continues ==
  /\ modeId' = modeId /\ ip_mode' = ip_mode /\ ip_residual' = ip_residual /\ eleCheck' = eleCheck
  /\ boxes' = boxes
  /\ box'.loops = box.loops /\ box'.defect = box.defect
  /\ pc # "idle" \/ pc' = "idle"
  /\ events \subseteq events'

Begins ==
  /\ Enter("init") /\ data' = data
  /\ \E mode \in Modes, check \in BOOLEAN, defect \in Defects \union {NoDefect}, loops \in Lines,
        ele \in 0..1 :
       /\ modeId' = mode /\ eleCheck' = check
       /\ box' = [defect |-> defect, loops |-> loops, ele |-> [i \in Lines |-> ele]]
       /\ defect[2] <= loops /\ (defect[1] \in StartOnly => mode = "START_BUSBAR")
       /\ events' = IF check /\ ele = 0 THEN {"noEnergy"} ELSE {}
       /\ result' = FALSE

\* A step begins a test,
LEMMA StepBegins ==
  ASSUME NEW mode \in Modes, NEW ip \in 0..1, NEW check \in BOOLEAN, NEW loops \in Lines,
         NEW residual \in 0..1, NEW ele \in 0..1, NEW defect \in Defects \union {NoDefect},
         startTest(mode, ip, residual, check, defect, loops, ele)
  PROVE  Begins
  BY Zenon DEF startTest, Begins, reader

\* or goes on with it, on the same box and in the same mode.
LEMMA StepContinues ==
  ASSUME Typed, Flags, Items, Started, energyCounts \/ Core \/ UNCHANGED vars
  PROVE  Continues
  <1> USE DEF settings
  <1>0. ASSUME UNCHANGED box
        PROVE  box'.loops = box.loops /\ box'.defect = box.defect
    BY <1>0
  <1>1. CASE energyCounts \/ eleClean
    <2>1. PICK e : box' = [box EXCEPT !.ele = e]
      <3>1. CASE energyCounts
        BY <3>1, Zenon DEF energyCounts
      <3>2. CASE eleClean
        BY <3>2, Zenon DEF eleClean
      <3>3. QED
        BY <1>1, <3>1, <3>2
    <2>2. box'.loops = box.loops /\ box'.defect = box.defect
      BY <2>1 DEF Typed
    <2>3. UNCHANGED <<settings, boxes>>
      BY <1>1, Zenon DEF energyCounts, eleClean
    <2>4. events \subseteq events' /\ pc # "idle"
      BY <1>1 DEF energyCounts, eleClean, history, Happens
    <2>5. QED
      BY <2>2, <2>3, <2>4, Zenon DEF Continues
  <1>2. ASSUME UNCHANGED <<settings, box, boxes, cleared>>, pc # "idle", ReaderTyped
        PROVE  Continues
    BY <1>0, <1>2, Zenon DEF Continues, ReaderTyped
  <1>3. CASE initDev \/ judgeAgain \/ factoryReads
    <2>1. UNCHANGED <<settings, box, boxes, cleared>> /\ \E ok \in BOOLEAN : readDevData(ok)
      BY <1>3, Zenon DEF initDev, judgeAgain, factoryReads
    <2>2. pc # "idle"
      BY <1>3 DEF initDev, judgeAgain, factoryReads, Items, Phases
    <2>3. QED
      BY <1>2, <2>1, <2>2, ReadDevData
  <1>4. CASE readDev_link
    <2>1. UNCHANGED <<settings, box, boxes, cleared>> /\ \E ok \in BOOLEAN : readLink(ok)
      BY <1>4, Zenon DEF readDev_link
    <2>2. pc # "idle"
      BY <1>4 DEF readDev_link
    <2>3. QED
      BY <1>2, <2>1, <2>2, ReadLink
  <1>5. CASE readDev_walk
    <2>1. UNCHANGED <<settings, box, boxes, cleared>> /\ \E ok \in BOOLEAN : readWalk(ok)
      BY <1>5, Zenon DEF readDev_walk
    <2>2. pc # "idle" /\ box.loops = MaxLines
      BY <1>5 DEF readDev_walk, Started
    <2>3. QED
      BY <1>2, <2>1, <2>2, ReadWalk
  <1>6. CASE judge
    <2>1. UNCHANGED <<settings, box, boxes, cleared>>
          /\ ((\E read \in BOOLEAN : readDevData(read)) \/ UNCHANGED <<reader, history>>)
      BY <1>6, Zenon DEF judge
    <2>2. pc # "idle"
      BY <1>6 DEF judge, Items, Phases
    <2>3. QED
      BY <1>2, <2>1, <2>2, ReadDevData, NoReading
  <1>7. CASE skip \/ groupReturns \/ volReturns
    <2>1. UNCHANGED <<settings, box, boxes, cleared, reader, history>>
      BY <1>7, Zenon DEF skip, groupReturns, volReturns
    <2>2. pc # "idle"
      BY <1>7 DEF skip, groupReturns, volReturns, AtEnd, Items, Phases
    <2>3. QED
      BY <1>2, <2>1, <2>2, NoReading
  <1>8. CASE UNCHANGED vars
    <2>1. UNCHANGED <<settings, box, boxes, cleared, pc, history>>
      BY <1>8, Zenon DEF vars
    <2>2. events \subseteq events'
      BY <2>1 DEF history
    <2>3. QED
      BY <1>0, <2>1, <2>2, Zenon DEF Continues
  <1>9. QED
    BY <1>1, <1>3, <1>4, <1>5, <1>6, <1>7, <1>8, Zenon DEF Core

\* There is no other step.
LEMMA StepEither ==
  ASSUME Typed, Flags, Items, Started, [Next]_vars
  PROVE  Begins \/ (Continues /\ (energyCounts \/ Core \/ UNCHANGED vars))
  BY StepBegins, StepContinues, Zenon DEF Next

\* The groups that find the defect are the same for the whole test.
LEMMA StepReal ==
  ASSUME Typed, Flags, Items, Started, Real, [Next]_vars
  PROVE  Real'
  <1>1. CASE Begins
    <2>1. PICK mode \in Modes, check \in BOOLEAN, defect \in Defects \union {NoDefect},
                  loops \in Lines, ele \in 0..1 :
            /\ modeId' = mode
            /\ box' = [defect |-> defect, loops |-> loops, ele |-> [i \in Lines |-> ele]]
            /\ defect[2] <= loops /\ (defect[1] \in StartOnly => mode = "START_BUSBAR")
      BY <1>1, Zenon DEF Begins
    <2>2. box'.defect = defect /\ box'.loops = loops
      BY <2>1
    <2>3. CASE defect = NoDefect
      BY <2>2, <2>3, Zenon DEF Real
    <2>4. CASE defect \in Defects
      <3>1. defect[1] \notin EnergyNames /\ \E phase \in Phases : defect \in Checked(phase)'
        BY <2>1, <2>2, <2>4, DefectFound
      <3>2. QED
        BY <2>2, <3>1, Zenon DEF Real
    <2>5. QED
      BY <2>3, <2>4
  <1>2. CASE Continues
    <2>1. \A phase : Checked(phase)' = Checked(phase)
      BY <1>2, KindsKept DEF Continues, Checked
    <2>2. QED
      BY <1>2, <2>1, Zenon DEF Continues, Real
  <1>3. QED
    BY <1>1, <1>2, StepEither


\* A failed check stays failed, and a stale reading is not forgotten.
LEMMA OpenBefore ==
  ASSUME Continues, energyCounts \/ Core \/ UNCHANGED vars, Open'
  PROVE  Open
  <1>1. AllRead
    BY DEF Continues, Open, AllRead
  <1>2. ~result'
    BY DEF Open
  <1>3. energyCounts \/ initDev \/ readDev_link \/ readDev_walk \/ judgeAgain \/ judge \/ skip
        \/ groupReturns \/ eleClean \/ factoryReads \/ volReturns \/ UNCHANGED vars
    BY Zenon DEF Core
  <1>4. ~result
    BY <1>2, <1>3, Zenon DEF energyCounts, initDev, readDev_link, readDev_walk, ReadFails, judgeAgain, judge,
       skip, groupReturns, eleClean, factoryReads, volReturns, vars
  <1>5. QED
    BY <1>1, <1>4 DEF Open

\* The option compared is the one a start box answers, from the RTU link on.
Told ==
  Open /\ modeId = "START_BUSBAR" /\ ip_mode = 1 /\ pc \in Judging \union {"walk"}
    => reState = Residual

\* The option of a start box comes on the RTU link only,
LEMMA OptionKept ==
  ASSUME energyCounts \/ Core \/ UNCHANGED vars, modeId = "START_BUSBAR"
  PROVE  reState' = reState \/ (readDev_link /\ ip_mode # 0)
  <1>1. UNCHANGED reader => reState' = reState
    BY DEF reader
  <1>2. ASSUME NEW ok \in BOOLEAN, readDevData(ok)
        PROVE  reState' = reState
    BY <1>2, Zenon DEF readDevData, readWalk
  <1>3. CASE energyCounts \/ skip \/ groupReturns \/ eleClean \/ volReturns \/ UNCHANGED vars
    BY <1>1, <1>3, Zenon DEF energyCounts, skip, groupReturns, eleClean, volReturns, vars
  <1>4. CASE initDev \/ judgeAgain \/ judge \/ factoryReads
    BY <1>1, <1>2, <1>4, Zenon DEF initDev, judgeAgain, judge, factoryReads
  <1>5. CASE readDev_walk
    BY <1>5, Zenon DEF readDev_walk, readWalk
  <1>6. CASE readDev_link /\ ip_mode = 0
    BY <1>1, <1>6, Zenon DEF readDev_link, readLink
  <1>7. QED
    BY <1>3, <1>4, <1>5, <1>6, Zenon DEF Core

\* and with every reply that is taken for the box's.
LEMMA OptionRead ==
  ASSUME Typed, readLink(TRUE), modeId = "START_BUSBAR", ip_mode # 0, "stale" \notin events'
  PROVE  reState' = Residual
  <1>1. readRtu(TRUE)
    BY Zenon DEF readLink
  <1>2. ~Happens({"stale"})
    BY DEF Happens
  <1>3. PICK steady \in BOOLEAN : StoreReply(steady)
    BY <1>1, <1>2, Zenon DEF readRtu
  <1>4. QED
    BY <1>3 DEF StoreReply, StoreOption

\* Every step keeps that.
LEMMA StepTold ==
  ASSUME Typed, Flags, Items, Started, Told, [Next]_vars
  PROVE  Told'
  <1> SUFFICES ASSUME Open', modeId' = "START_BUSBAR", ip_mode' = 1, pc' \in Judging \union {"walk"}
               PROVE  reState' = Residual'
    BY Zenon DEF Told
  <1> USE DEF group
  <1>1. CASE Begins
    <2>1. pc' = "init"
      BY <1>1, Zenon DEF Begins, Enter
    <2>2. QED
      BY <2>1 DEF Judging, Phases
  <1> SUFFICES ASSUME Continues, energyCounts \/ Core \/ UNCHANGED vars
               PROVE  reState' = Residual'
    BY <1>1, StepEither
  <1>2. Open /\ modeId = "START_BUSBAR" /\ ip_mode = 1 /\ ip_mode # 0
    BY OpenBefore DEF Continues
  <1>3. Residual' = Residual
    BY DEF Continues, Residual
  <1>4. CASE pc \in Judging \union {"walk"}
    <2>1. pc # "link"
      BY <1>4 DEF Judging, Phases
    <2>2. ~readDev_link
      BY <2>1, Zenon DEF readDev_link
    <2>3. reState' = reState
      BY <1>2, <2>2, OptionKept
    <2>4. QED
      BY <1>2, <1>3, <1>4, <2>3, Zenon DEF Told
  <1>5. CASE pc \notin Judging \union {"walk"}
    <2>1. pc' # pc /\ pc \notin {"walk", "clean", "reread"} /\ pc \notin Phases
      BY <1>5 DEF Judging
    <2>2. pc' # "link"
      BY DEF Judging, Phases
    <2>3. todo = <<>>
      BY <2>1 DEF Items
    <2>4. ~readDev_walk /\ ~groupReturns /\ ~eleClean /\ ~factoryReads /\ ~volReturns
      BY <2>1 DEF readDev_walk, groupReturns, eleClean, factoryReads, volReturns, AtEnd
    <2>5. ~judgeAgain /\ ~judge /\ ~skip
      BY <2>3, Zenon DEF judgeAgain, judge, skip
    <2>6. ~energyCounts /\ ~(UNCHANGED vars) /\ ~initDev
      BY <2>1, <2>2, Zenon DEF energyCounts, initDev, vars
    <2>7. readDev_link
      BY <2>4, <2>5, <2>6, Zenon DEF Core
    <2>8. ~result'
      BY DEF Open
    <2>9. readLink(TRUE)
      BY <2>1, <2>7, <2>8, Zenon DEF readDev_link, ReadFails
    <2>10. "stale" \notin events'
      BY DEF Open, AllRead
    <2>11. QED
      BY <1>2, <1>3, <2>9, <2>10, OptionRead
  <1>6. QED
    BY <1>4, <1>5

\* The groups after one, or after the clearing.
Later(place) ==
  CASE place = "err" -> {"version", "base", "alarm", "factory", "vol"}
    [] place = "version" -> {"base", "alarm", "factory", "vol"}
    [] place = "base" -> {"alarm", "factory", "vol"}
    [] place \in {"alarm", "clean", "reread"} -> {"factory", "vol"}
    [] place = "factory" -> {"vol"}
    [] OTHER -> {}

\* A defect that the readings of the test can show.
Findable == box.defect # NoDefect /\ ~(box.defect = <<"residual", 0>> /\ OptionUnread)

\* While nothing has failed, it is among the items still to be judged.
Ahead == box.defect \in Left \/ \E phase \in Later(pc) : box.defect \in Checked(phase)

Awaits ==
  Open /\ Findable =>
    /\ pc \in Judging => Ahead
    /\ pc = "idle" => boxes = 0

\* What is left of the group depends on these variables only.
LEMMA LeftKept ==
  ASSUME todo' = todo, pc' = pc, modeId' = modeId, box'.loops = box.loops
  PROVE  Left' = Left
  <1>1. LineKinds(pc)' = LineKinds(pc) /\ LastSet(pc)' = LastSet(pc)
    BY KindsKept DEF LineKinds, LastSet, LastKinds
  <1>2. Held(todo)' = Held(todo)
    BY DEF Held
  <1>3. Coming' = Coming
    BY <1>1 DEF Coming, Item
  <1>4. QED
    BY <1>2, <1>3 DEF Left

\* So does what a group judges.
LEMMA CheckedKept ==
  ASSUME Continues, NEW phase
  PROVE  Checked(phase)' = Checked(phase)
  BY KindsKept DEF Continues, Checked

\* What is entered when a group returns.
LEMMA GroupNext ==
  ASSUME groupReturns, res
  PROVE  /\ pc = "err" => Enter("version")
         /\ pc = "version" => Enter("base")
         /\ pc = "base" => Enter("alarm")
         /\ pc = "alarm" => Enter("clean")
         /\ pc = "factory" => Enter("vol")
         /\ pc \in {"err", "version", "base", "alarm", "factory"}
         /\ pc \in Phases /\ todo = <<>>
  <1> DEFINE next == NextPhase(pc, GroupRet)
             phase == CASE next = "ask" -> "vol" [] next = "factory" -> "clean" [] OTHER -> next
  <1>1. pc \in Phases /\ todo = <<>> /\ pc # "vol" /\ Enter(phase)
    BY Zenon DEF groupReturns, AtEnd
  <1>2. GroupRet
    BY Zenon DEF GroupRet
  <1>3. /\ pc = "err" => next = "version"
        /\ pc = "version" => next = "base"
        /\ pc = "base" => next = "alarm"
        /\ pc = "alarm" => next = "factory"
        /\ pc = "factory" => next = "ask"
    BY <1>2 DEF NextPhase
  <1> HIDE DEF next
  <1>4. /\ pc = "err" => phase = "version"
        /\ pc = "version" => phase = "base"
        /\ pc = "base" => phase = "alarm"
        /\ pc = "alarm" => phase = "clean"
        /\ pc = "factory" => phase = "vol"
    BY <1>3
  <1> HIDE DEF phase
  <1>5. pc \in {"err", "version", "base", "alarm", "factory"}
    BY <1>1 DEF Phases
  <1>6. QED
    BY <1>1, <1>4, <1>5

\* What an item's verdict is, by its kind.
LEMMA GoodCases ==
  ASSUME NEW item
  PROVE  /\ item[1] = "ele" => Good(item) = EleGood(data[modeId].line[item[2]])
         /\ item[1] = "ele0" => Good(item) = Ele0Good(data[modeId].line[item[2]])
         /\ item[1] = "residual" => Good(item) = (reState = ip_residual)
         /\ item[1] \in Electrical
              => Good(item) = (DefectSeen(item) \notin {item, Unread} /\ data[modeId].line[item[2]].steady)
         /\ item[1] \notin Electrical \union {"ele", "ele0", "residual"}
              => Good(item) = (DefectSeen(item) \notin {item, Unread})
  <1> DEFINE k == item[1]
             a == EleGood(data[modeId].line[item[2]])
             b == Ele0Good(data[modeId].line[item[2]])
             r == reState = ip_residual
             c == DefectSeen(item) \notin {item, Unread} /\ data[modeId].line[item[2]].steady
             d == DefectSeen(item) \notin {item, Unread}
  <1>1. Good(item) = CASE k = "ele" -> a [] k = "ele0" -> b [] k = "residual" -> r
                       [] k \in Electrical -> c [] OTHER -> d
    BY DEF Good
  <1> HIDE DEF a, b, c, d, k, r
  <1>2. k = "ele" => Good(item) = a
    BY <1>1 DEF Electrical
  <1>3. k = "ele0" => Good(item) = b
    BY <1>1 DEF Electrical
  <1>4. k = "residual" => Good(item) = r
    BY <1>1 DEF Electrical
  <1>5. k \in Electrical => Good(item) = c
    BY <1>1 DEF Electrical
  <1>6. k \notin Electrical \union {"ele", "ele0", "residual"} => Good(item) = d
    BY <1>1 DEF Electrical
  <1>7. QED
    BY <1>2, <1>3, <1>4, <1>5, <1>6, Zenon DEF a, b, c, d, k, r

\* Values that are fresh show a defect to its item.
LEMMA DefectShows ==
  ASSUME Typed, Open, Fresh, Told, Real, pc \in Judging, Findable, NEW item, item = box.defect
  PROVE  ~Good(item)
  <1>0. pc # "idle" /\ box.defect # NoDefect
    BY DEF Judging, Phases, Findable
  <1>1. PICK phase \in Phases : item \in Checked(phase)
    BY <1>0 DEF Real
  <1>2. item[1] \notin EnergyNames
    BY <1>0, Zenon DEF Real
  <1>3. item[2] = 0 \/ item[2] \in 1..box.loops
    BY <1>1 DEF Checked, LastSet
  <1>4. DefectSeen(item) = box.defect
    BY <1>3 DEF DefectSeen, Fresh
  <1>5. CASE item[1] = "residual"
    <2>1. item \in LastSet(phase) /\ modeId = "START_BUSBAR"
      BY <1>1, <1>5 DEF Checked, LineKinds, LastSet, LastKinds, Phases
    <2>2. item = <<"residual", 0>>
      BY <1>5, <2>1 DEF LastSet
    <2>3. ip_mode # 0 /\ ip_mode = 1
      BY <2>1, <2>2 DEF Findable, OptionUnread, Typed
    <2>4. reState = 1 - ip_residual
      BY <2>1, <2>2, <2>3, Zenon DEF Told, Residual
    <2>5. reState # ip_residual
      BY <2>4 DEF Typed
    <2>6. Good(item) = (reState = ip_residual)
      BY <1>5, GoodCases
    <2>7. QED
      BY <2>5, <2>6
  <1>6. CASE item[1] # "residual"
    <2>1. item[1] # "ele" /\ item[1] # "ele0"
      BY <1>2 DEF EnergyNames
    <2>2. DefectSeen(item) \in {item, Unread}
      BY <1>4
    <2>3. QED
      BY <1>6, <2>1, <2>2, GoodCases, Zenon
  <1>7. QED
    BY <1>5, <1>6

\* No step loses sight of a defect: the item that finds it is not judged good,
\* not skipped, and not left out between two groups.
LEMMA StepAwaits ==
  ASSUME Typed, Flags, Items, Started, Returns, Known, Known', Told, Real, Awaits, [Next]_vars
  PROVE  Awaits'
  <1> SUFFICES ASSUME Open', Findable'
               PROVE  (pc' \in Judging => Ahead') /\ (pc' = "idle" => boxes' = 0)
    BY Zenon DEF Awaits
  <1> USE DEF settings, group
  <1>1. CASE Begins
    <2>1. pc' = "init"
      BY <1>1, Zenon DEF Begins, Enter
    <2>2. QED
      BY <2>1 DEF Judging, Phases
  <1> SUFFICES ASSUME Continues, energyCounts \/ Core \/ UNCHANGED vars
               PROVE  (pc' \in Judging => Ahead') /\ (pc' = "idle" => boxes' = 0)
    BY <1>1, StepEither
  <1>2. /\ Open /\ ~failed /\ Findable
        /\ pc \in Judging => Fresh /\ Ahead
        /\ pc = "idle" => boxes = 0
    <2>1. Open
      BY OpenBefore
    <2>2. Findable
      BY DEF Continues, Findable, OptionUnread
    <2>3. QED
      BY <2>1, <2>2, Zenon DEF Known, Awaits
  <1>3. ret /\ res
    BY <1>2, Zenon DEF Returns
  <1>4. pc' \in Judging => Fresh'
    BY Zenon DEF Known
  <1>5. ASSUME pc' = pc, todo' = todo
        PROVE  (pc' \in Judging => Ahead') /\ (pc' = "idle" => boxes' = 0)
    <2>1. Left' = Left
      BY <1>5, LeftKept DEF Continues
    <2>2. Ahead' <=> Ahead
      BY <1>5, <2>1, CheckedKept DEF Ahead, Continues
    <2>3. QED
      BY <1>2, <1>5, <2>2, Zenon DEF Continues
  <1>6. ASSUME NEW phase \in Phases, Enter(phase), data' \in [Modes -> Store],
               \E p \in {phase} \union Later(phase) : box.defect \in Checked(p)
        PROVE  (pc' \in Judging => Ahead') /\ (pc' = "idle" => boxes' = 0)
    <2>1. pc' = phase /\ phase \in Judging /\ phase # "idle"
      BY <1>6, Zenon DEF Enter, Judging, Phases
    <2>2. data'[modeId].loopNum = box.loops
      BY <1>4, <2>1 DEF Fresh, Continues
    <2>3. Checked(phase) \subseteq Left'
      BY <1>6, <2>2, EnterLeft DEF Continues
    <2>4. box'.defect = box.defect
      BY DEF Continues
    <2>5. Ahead'
      BY <1>6, <2>1, <2>3, <2>4, CheckedKept, Zenon DEF Ahead
    <2>6. QED
      BY <2>1, <2>5
  <1>7. CASE energyCounts \/ judgeAgain \/ UNCHANGED vars
    <2>1. pc' = pc /\ todo' = todo
      BY <1>7, Zenon DEF energyCounts, judgeAgain, vars
    <2>2. QED
      BY <1>5, <2>1
  <1>8. CASE initDev
    <2>1. pc' = "link"
      BY <1>8, Zenon DEF initDev
    <2>2. QED
      BY <2>1 DEF Judging, Phases
  <1>9. ASSUME pc # "idle", Enter("err"), data' \in [Modes -> Store]
        PROVE  (pc' \in Judging => Ahead') /\ (pc' = "idle" => boxes' = 0)
    <2>1. PICK p \in Phases : box.defect \in Checked(p)
      BY <1>2, <1>9, Zenon DEF Real, Findable
    <2>2. p \in {"err"} \union Later("err") /\ "err" \in Phases
      BY <2>1 DEF Phases, Later
    <2>3. QED
      BY <1>6, <1>9, <2>1, <2>2
  <1>10. CASE readDev_link
    <2>1. pc = "link" /\ pc # "idle" /\ (readLink(TRUE) \/ readLink(FALSE))
      BY <1>10 DEF readDev_link
    <2>2. data' \in [Modes -> Store]
      BY <2>1, ReadLink DEF ReaderTyped
    <2>3. CASE Enter(IF modeId = "START_BUSBAR" THEN "walk" ELSE "err")
      <3>1. CASE modeId = "START_BUSBAR"
        BY <2>3, <3>1 DEF Enter, Judging, Phases
      <3>2. CASE modeId # "START_BUSBAR"
        BY <1>9, <2>1, <2>2, <2>3, <3>2
      <3>3. QED
        BY <3>1, <3>2
    <2>4. CASE UNCHANGED <<pc, group, result>>
      BY <1>5, <2>4, Zenon
    <2>5. CASE ReadFails
      BY <2>5, Zenon DEF ReadFails, Open
    <2>6. QED
      BY <1>10, <2>3, <2>4, <2>5, Zenon DEF readDev_link
  <1>11. CASE readDev_walk
    <2>1. pc = "walk" /\ pc # "idle" /\ (readWalk(TRUE) \/ readWalk(FALSE))
      BY <1>11 DEF readDev_walk
    <2>2. data' \in [Modes -> Store]
      BY <2>1, ReadWalk DEF ReaderTyped, Started
    <2>3. CASE Enter("err")
      BY <1>9, <2>1, <2>2, <2>3
    <2>4. CASE ReadFails
      BY <2>4, Zenon DEF ReadFails, Open
    <2>5. QED
      BY <1>11, <2>3, <2>4, Zenon DEF readDev_walk
  <1>12. CASE judge
    <2>1. todo # <<>> /\ NextItem /\ pc' = pc /\ result' = (result \/ ~Good(Item))
          /\ (~Good(Item) \/ UNCHANGED <<reader, history>>)
      BY <1>12, Zenon DEF judge
    <2>2. Good(Item)
      BY <2>1, Zenon DEF Open
    <2>3. pc \in Phases /\ pc # "idle" /\ pc \in Judging
      BY <2>1 DEF Items, Phases, Judging
    <2>4. data' = data /\ data' \in [Modes -> Store]
      BY <2>1, <2>2 DEF reader, Typed
    <2>5. data'[modeId].loopNum = box.loops
      BY <1>2, <2>3, <2>4 DEF Fresh
    <2>6. Left \subseteq {Item} \union Left'
      BY <2>1, <2>3, <2>4, <2>5, NextLeft DEF Continues
    <2>7. Item # box.defect
      BY <1>2, <2>2, <2>3, DefectShows
    <2>8. box'.defect = box.defect
      BY DEF Continues
    <2>9. CASE box.defect \in Left
      BY <2>3, <2>1, <2>6, <2>7, <2>8, <2>9 DEF Ahead
    <2>10. CASE \E phase \in Later(pc) : box.defect \in Checked(phase)
      BY <2>3, <2>1, <2>8, <2>10, CheckedKept, Zenon DEF Ahead
    <2>11. QED
      BY <1>2, <2>3, <2>9, <2>10, Zenon DEF Ahead
  <1>13. CASE skip
    BY <1>3, <1>13, Zenon DEF skip, Skipped
  <1>14. CASE groupReturns
    <2>1. UNCHANGED reader
      BY <1>14, Zenon DEF groupReturns
    <2>2. data' \in [Modes -> Store]
      BY <2>1 DEF reader, Typed
    <2>3. pc \in Phases /\ todo = <<>> /\ pc \in Judging
      BY <1>14, Zenon DEF groupReturns, AtEnd, Judging
    <2>4. Left = {}
      BY <2>3, HeldEmpty DEF Left, Coming
    <2>5. PICK p \in Later(pc) : box.defect \in Checked(p)
      BY <1>2, <2>3, <2>4, Zenon DEF Ahead
    <2>6. CASE pc = "err"
      <3>1. Enter("version") /\ "version" \in Phases /\ p \in {"version"} \union Later("version")
        BY <1>3, <1>14, <2>5, <2>6, GroupNext DEF Phases, Later
      <3>2. QED
        BY <1>6, <2>2, <2>5, <3>1
    <2>7. CASE pc = "version"
      <3>1. Enter("base") /\ "base" \in Phases /\ p \in {"base"} \union Later("base")
        BY <1>3, <1>14, <2>5, <2>7, GroupNext DEF Phases, Later
      <3>2. QED
        BY <1>6, <2>2, <2>5, <3>1
    <2>8. CASE pc = "base"
      <3>1. Enter("alarm") /\ "alarm" \in Phases /\ p \in {"alarm"} \union Later("alarm")
        BY <1>3, <1>14, <2>5, <2>8, GroupNext DEF Phases, Later
      <3>2. QED
        BY <1>6, <2>2, <2>5, <3>1
    <2>9. CASE pc = "alarm"
      <3>1. Enter("clean") /\ Later("clean") = Later(pc)
        BY <1>3, <1>14, <2>9, GroupNext DEF Later
      <3>2. pc' = "clean" /\ pc' # "idle"
        BY <3>1 DEF Enter
      <3>3. box'.defect = box.defect
        BY DEF Continues
      <3>4. QED
        BY <2>5, <3>1, <3>2, <3>3, CheckedKept, Zenon DEF Ahead
    <2>10. CASE pc = "factory"
      <3>1. Enter("vol") /\ "vol" \in Phases /\ p \in {"vol"} \union Later("vol")
        BY <1>3, <1>14, <2>5, <2>10, GroupNext DEF Phases, Later
      <3>2. QED
        BY <1>6, <2>2, <2>5, <3>1
    <2>11. QED
      BY <1>3, <1>14, <2>6, <2>7, <2>8, <2>9, <2>10, GroupNext
  <1>15. CASE eleClean
    <2>1. pc = "clean" /\ pc' = "reread" /\ todo' = todo
      BY <1>15, Zenon DEF eleClean
    <2>2. todo = <<>> /\ pc \in Judging
      BY <2>1 DEF Items, Phases, Judging
    <2>3. Left = {}
      BY <2>2, HeldEmpty DEF Left, Coming
    <2>4. PICK p \in Later(pc) : box.defect \in Checked(p)
      BY <1>2, <2>2, <2>3, Zenon DEF Ahead
    <2>5. Later(pc') = Later(pc) /\ pc' # "idle"
      BY <2>1 DEF Later
    <2>6. box'.defect = box.defect
      BY DEF Continues
    <2>7. QED
      BY <2>4, <2>5, <2>6, CheckedKept, Zenon DEF Ahead
  <1>16. CASE factoryReads
    <2>1. pc = "reread" /\ Enter("factory") /\ \E ok \in BOOLEAN : readDevData(ok)
      BY <1>16, Zenon DEF factoryReads
    <2>2. todo = <<>> /\ pc \in Judging /\ pc # "idle"
      BY <2>1 DEF Items, Phases, Judging
    <2>3. Left = {}
      BY <2>2, HeldEmpty DEF Left, Coming
    <2>4. PICK p \in Later(pc) : box.defect \in Checked(p)
      BY <1>2, <2>2, <2>3, Zenon DEF Ahead
    <2>5. "factory" \in Phases /\ p \in {"factory"} \union Later("factory")
      BY <2>1, <2>4 DEF Phases, Later
    <2>6. data' \in [Modes -> Store]
      BY <2>1, <2>2, ReadDevData DEF ReaderTyped
    <2>7. QED
      BY <1>6, <2>1, <2>4, <2>5, <2>6
  <1>17. CASE volReturns
    <2>1. pc = "vol" /\ todo = <<>>
      BY <1>17, Zenon DEF volReturns, AtEnd
    <2>2. pc \in Judging /\ Later(pc) = {}
      BY <2>1 DEF Judging, Phases, Later
    <2>3. Left = {}
      BY <2>1, HeldEmpty DEF Left, Coming
    <2>4. QED
      BY <1>2, <2>2, <2>3 DEF Ahead
  <1>18. QED
    BY <1>7, <1>8, <1>10, <1>11, <1>12, <1>13, <1>14, <1>15, <1>16, <1>17, Zenon DEF Core


\* A box with a defect in any item of any line does not pass, for any number
\* of lines, boxes, readings and mishaps; the residual current option, where no
\* reading brings it, excepted.
THEOREM DefectsFound == Spec => []NoDefectPassed
  <1>1. Init => Returns /\ Known /\ Told /\ Real /\ Awaits
    <2> SUFFICES ASSUME Init PROVE Returns /\ Known /\ Told /\ Real /\ Awaits
      OBVIOUS
    <2>1. ret /\ res /\ ~failed /\ pc = "idle" /\ boxes = 0
      BY Zenon DEF Init
    <2>2. "idle" \notin Judging \union {"walk"}
      BY DEF Judging, Phases
    <2>3. Told
      BY <2>1, <2>2, Zenon DEF Told
    <2>4. Returns /\ Known /\ Real /\ Awaits
      BY <2>1, <2>2, Zenon DEF Returns, Known, Real, Awaits
    <2>5. QED
      BY <2>3, <2>4
  <1>2. Typed /\ Awaits => NoDefectPassed
    <2> SUFFICES ASSUME Typed, Awaits, Passed, AllRead PROVE ~Findable
      BY Zenon DEF NoDefectPassed, Findable
    <2>1. Open /\ pc = "idle" /\ boxes > 0
      BY Zenon DEF Passed, Open
    <2>2. boxes # 0
      BY <2>1, BoxAssumption DEF Typed
    <2>3. QED
      BY <2>1, <2>2, Zenon DEF Awaits
  <1>3. QED
    BY <1>1, <1>2, InitTyped, StepTyped, StepReturns, StepKnown, StepTold, StepReal, StepAwaits, PTL DEF Spec

-----------------------------------------------------------------------------
(* PassedIsCleared *)

Ele(i) == data[modeId].line[i].ele

\* If the energy is checked, a count that was read is on the meter until it is
\* cleared. What is read after it, of a meter that was not, is a count again, and
\* that is judged before the group returns.
ClearedAt(i) ==
  /\ pc \in {"err", "version", "base", "alarm", "clean"} => (Ele(i) = 1 => box.ele[i] = 1)
  /\ pc = "err" => <<"ele", i>> \in Left \/ Ele(i) = 1
  /\ pc \in {"version", "base", "alarm", "clean", "reread"} => Ele(i) = 1
  /\ pc = "reread" => i \in cleared \/ box.ele[i] = 1
  /\ pc = "factory" => (i \in cleared \/ Ele(i) = 1) /\ (<<"ele0", i>> \in Left \/ Ele(i) = 0)
  /\ pc = "vol" \/ (pc = "idle" /\ boxes > 0) => i \in cleared

Cleared == Open /\ eleCheck => \A i \in 1..box.loops : ClearedAt(i)

\* Values are read again in two groups only.
LEMMA ElectricalKind ==
  ASSUME Typed, Items, todo # <<>>, Item[1] \in Electrical
  PROVE  pc \in {"err", "vol"}
  <1>1. pc \in Phases /\ Item \in (LineKinds(pc) \X Lines) \union LastSet(pc)
    BY ItemKind
  <1>2. Item[1] \in LineKinds(pc) \union LastKinds(pc)
    BY <1>1 DEF LastSet
  <1>3. CASE pc \in {"version", "base"}
    BY <1>2, <1>3 DEF LineKinds, LastKinds, Electrical
  <1>4. CASE pc = "alarm"
    BY <1>2, <1>4 DEF LineKinds, LastKinds, Electrical
  <1>5. CASE pc = "factory"
    BY <1>2, <1>5 DEF LineKinds, LastKinds, Electrical
  <1>6. QED
    BY <1>1, <1>3, <1>4, <1>5 DEF Phases

\* Every step keeps the meters' account.
LEMMA StepCleared ==
  ASSUME Typed, Flags, Items, Started, Returns, Known, Known', Cleared, [Next]_vars
  PROVE  Cleared'
  <1> SUFFICES ASSUME Open', eleCheck', NEW i \in 1..box'.loops
               PROVE  ClearedAt(i)'
    BY Zenon DEF Cleared
  <1> USE DEF settings, group
  <1>0. ASSUME pc' \in {"init", "link", "walk"}
        PROVE  ClearedAt(i)'
    BY <1>0 DEF ClearedAt
  <1>1. CASE Begins
    <2>1. pc' = "init"
      BY <1>1, Zenon DEF Begins, Enter
    <2>2. QED
      BY <1>0, <2>1
  <1> SUFFICES ASSUME Continues, energyCounts \/ Core \/ UNCHANGED vars
               PROVE  ClearedAt(i)'
    BY <1>1, StepEither
  <1>2. Open /\ eleCheck /\ i \in 1..box.loops /\ i \in Lines
    <2>1. Open
      BY OpenBefore
    <2>2. eleCheck
      BY Zenon DEF Continues
    <2>3. i \in 1..box.loops
      BY DEF Continues
    <2>4. QED
      BY <2>1, <2>2, <2>3, BoxTyped, BoxAssumption DEF Lines
  <1>3. ClearedAt(i)
    BY <1>2, Zenon DEF Cleared
  <1>4. ret /\ res /\ (pc \in Judging => Fresh) /\ (pc' \in Judging => Fresh')
    BY <1>2, Zenon DEF Returns, Known
  <1>5. UNCHANGED reader => Ele(i)' = Ele(i)
    BY DEF Continues, Ele, reader
  <1>6. ASSUME NEW ok \in BOOLEAN, Outcome(ok)
        PROVE  /\ Ele(i)' = Ele(i) \/ Ele(i)' = box.ele[i]
               /\ ok => Ele(i)' = box.ele[i]
    <2>1. "stale" \notin events'
      BY DEF Open, AllRead
    <2>2. Same => Ele(i)' = Ele(i)
      BY <1>2 DEF Same, Ele, Continues
    <2>3. ASSUME NEW steady \in BOOLEAN, Full(steady)
          PROVE  Ele(i)' = box.ele[i]
      <3>1. data'[modeId].line[i] = LineNow(i, steady)
        BY <1>2, <2>3 DEF Full
      <3>2. QED
        BY <3>1 DEF LineNow, Ele, Continues
    <2>4. (~ok /\ Same) \/ Full(TRUE) \/ Full(FALSE)
      BY <1>6, <2>1, Zenon DEF Outcome
    <2>5. QED
      BY <2>2, <2>3, <2>4
  <1>7. ASSUME NEW phase \in Phases, Enter(phase), data' \in [Modes -> Store], NEW d \in Checked(phase)
        PROVE  d \in Left'
    <2>1. pc' = phase /\ phase \in Judging
      BY <1>7, Zenon DEF Enter, Judging
    <2>2. data'[modeId].loopNum = box.loops
      BY <1>4, <2>1 DEF Fresh, Continues
    <2>3. QED
      BY <1>7, <2>2, EnterLeft DEF Continues
  <1>8. ASSUME UNCHANGED box
        PROVE  box'.ele[i] = box.ele[i]
    BY <1>8
  <1>23. UNCHANGED cleared => (i \in cleared)' = (i \in cleared)
    OBVIOUS
  <1>9. ASSUME Enter("err"), data' \in [Modes -> Store], Outcome(TRUE), UNCHANGED box
        PROVE  ClearedAt(i)'
    <2>1. Ele(i)' = box.ele[i] /\ box'.ele[i] = box.ele[i]
      BY <1>6, <1>8, <1>9
    <2>2. <<"ele", i>> \in Checked("err") /\ "err" \in Phases
      BY <1>2 DEF Checked, LineKinds, Phases
    <2>3. <<"ele", i>> \in Left'
      BY <1>7, <1>9, <2>2
    <2>4. pc' = "err"
      BY <1>9 DEF Enter
    <2>5. QED
      BY <2>1, <2>3, <2>4 DEF ClearedAt
  <1>10. CASE energyCounts
    <2>1. pc # "idle" /\ pc' = pc /\ todo' = todo /\ UNCHANGED <<cleared, reader>>
      BY <1>10, Zenon DEF energyCounts
    <2>2. Left' = Left
      BY <2>1, LeftKept DEF Continues
    <2>3. box'.ele[i] = 1
      BY <1>2, <1>10 DEF energyCounts, Typed
    <2>4. QED
      BY <1>3, <1>5, <2>1, <2>2, <2>3 DEF ClearedAt
  <1>11. CASE initDev
    BY <1>0, <1>11 DEF initDev
  <1>12. CASE readDev_link
    <2>1. pc = "link" /\ pc # "idle" /\ UNCHANGED box
      BY <1>12 DEF readDev_link
    <2>2. CASE readLink(TRUE) /\ Enter(IF modeId = "START_BUSBAR" THEN "walk" ELSE "err")
      <3>1. CASE modeId = "START_BUSBAR"
        BY <1>0, <2>2, <3>1 DEF Enter
      <3>2. CASE modeId # "START_BUSBAR"
        BY <1>9, <2>1, <2>2, <3>2, ReadLink DEF ReaderTyped
      <3>3. QED
        BY <3>1, <3>2
    <2>3. CASE UNCHANGED <<pc, group, result>>
      BY <1>0, <2>1, <2>3
    <2>4. CASE ReadFails
      BY <2>4, Zenon DEF ReadFails, Open
    <2>5. QED
      BY <1>12, <2>2, <2>3, <2>4, Zenon DEF readDev_link
  <1>13. CASE readDev_walk
    <2>1. pc = "walk" /\ pc # "idle" /\ UNCHANGED box /\ box.loops = MaxLines
      BY <1>13 DEF readDev_walk, Started
    <2>2. CASE readWalk(TRUE) /\ Enter("err")
      BY <1>9, <2>1, <2>2, ReadWalk DEF ReaderTyped
    <2>3. CASE ReadFails
      BY <2>3, Zenon DEF ReadFails, Open
    <2>4. QED
      BY <1>13, <2>2, <2>3, Zenon DEF readDev_walk
  <1>14. CASE judgeAgain
    <2>1. PICK ok \in BOOLEAN : readDevData(ok)
      BY <1>14, Zenon DEF judgeAgain
    <2>2. pc' = pc /\ todo' = todo /\ UNCHANGED <<box, cleared>> /\ todo # <<>> /\ Item[1] \in Electrical
      BY <1>14, Zenon DEF judgeAgain
    <2>3. pc \in {"err", "vol"}
      BY <2>2, ElectricalKind
    <2>4. Outcome(ok)
      BY <2>1, <2>3, ReadDevData
    <2>5. Left' = Left
      BY <2>2, LeftKept DEF Continues
    <2>6. Ele(i)' = Ele(i) \/ Ele(i)' = box.ele[i]
      BY <1>6, <2>4
    <2>7. box'.ele[i] = box.ele[i]
      BY <1>8, <2>2
    <2>8. QED
      BY <1>3, <2>2, <2>3, <2>5, <2>6, <2>7 DEF ClearedAt
  <1>15. CASE judge
    <2>1. /\ todo # <<>> /\ NextItem /\ pc' = pc /\ UNCHANGED <<box, cleared>> /\ result' = (result \/ ~Good(Item))
          /\ (~Good(Item) \/ UNCHANGED <<reader, history>>)
      BY <1>15, Zenon DEF judge
    <2>2. Good(Item)
      BY <2>1, Zenon DEF Open
    <2>3. pc \in Phases /\ pc # "idle" /\ pc \in Judging
      BY <2>1 DEF Items, Phases, Judging
    <2>4. UNCHANGED reader /\ data' = data /\ data' \in [Modes -> Store]
      BY <2>1, <2>2 DEF reader, Typed
    <2>5. data'[modeId].loopNum = box.loops
      BY <1>4, <2>3, <2>4 DEF Fresh
    <2>6. Left \subseteq {Item} \union Left'
      BY <2>1, <2>3, <2>4, <2>5, NextLeft DEF Continues
    <2>7. Item = <<"ele", i>> => Ele(i) = 1
      <3>1. Item = <<"ele", i>> => Item[1] = "ele" /\ Item[2] = i
        OBVIOUS
      <3>2. Item[1] = "ele" /\ Item[2] = i => EleGood(data[modeId].line[i])
        BY <2>2, GoodCases, Zenon
      <3>3. QED
        BY <1>2, <3>1, <3>2, Zenon DEF EleGood, Ele
    <2>8. Item = <<"ele0", i>> => Ele(i) = 0
      <3>1. Item = <<"ele0", i>> => Item[1] = "ele0" /\ Item[2] = i
        OBVIOUS
      <3>2. Item[1] = "ele0" /\ Item[2] = i => Ele0Good(data[modeId].line[i])
        BY <2>2, GoodCases, Zenon
      <3>3. QED
        BY <3>1, <3>2, Zenon DEF Ele0Good, Ele
    <2>9. Ele(i)' = Ele(i) /\ box'.ele[i] = box.ele[i]
      BY <1>5, <1>8, <2>1, <2>4
    <2>10. /\ <<"ele", i>> \in Left => <<"ele", i>> \in Left' \/ Ele(i) = 1
           /\ <<"ele0", i>> \in Left => <<"ele0", i>> \in Left' \/ Ele(i) = 0
      BY <2>6, <2>7, <2>8
    <2>11. pc' = pc /\ cleared' = cleared /\ pc # "idle"
      BY <2>1, <2>3
    <2>12. QED
      BY <1>3, <2>9, <2>10, <2>11 DEF ClearedAt
  <1>16. CASE skip
    BY <1>4, <1>16, Zenon DEF skip, Skipped
  <1>17. CASE groupReturns
    <2>1. UNCHANGED <<box, cleared, reader>> /\ pc \in Phases /\ todo = <<>>
      BY <1>17, Zenon DEF groupReturns, AtEnd
    <2>2. Ele(i)' = Ele(i) /\ box'.ele[i] = box.ele[i]
      BY <1>5, <1>8, <2>1
    <2>3. Left = {}
      BY <2>1, HeldEmpty DEF Left, Coming
    <2>4. /\ pc = "err" => pc' = "version"
          /\ pc = "version" => pc' = "base"
          /\ pc = "base" => pc' = "alarm"
          /\ pc = "alarm" => pc' = "clean"
          /\ pc = "factory" => pc' = "vol"
          /\ pc \in {"err", "version", "base", "alarm", "factory"}
      BY <1>4, <1>17, GroupNext DEF Enter
    <2>5. CASE pc = "factory"
      <3>1. i \in cleared'
        BY <1>3, <2>1, <2>3, <2>5 DEF ClearedAt
      <3>2. pc' = "vol"
        BY <2>4, <2>5
      <3>3. QED
        BY <3>1, <3>2 DEF ClearedAt
    <2>6. CASE pc # "factory"
      <3>1. pc' \in {"version", "base", "alarm", "clean"} /\ (Ele(i) = 1 => box.ele[i] = 1) /\ Ele(i) = 1
        BY <1>3, <2>3, <2>4, <2>6 DEF ClearedAt
      <3>2. QED
        BY <2>2, <3>1 DEF ClearedAt
    <2>7. QED
      BY <2>5, <2>6
  <1>18. CASE eleClean
    <2>1. pc = "clean" /\ pc' = "reread" /\ UNCHANGED reader
      BY <1>18, Zenon DEF eleClean
    <2>2. PICK done : /\ box' = [box EXCEPT !.ele = [k \in Lines |-> IF k \in done THEN 0 ELSE @[k]]]
                      /\ cleared' = done
      BY <1>18, Zenon DEF eleClean
    <2>3. i \in cleared' \/ box'.ele[i] = box.ele[i]
      BY <1>2, <2>2 DEF Typed
    <2>4. Ele(i) = 1 /\ box.ele[i] = 1
      BY <1>3, <2>1 DEF ClearedAt
    <2>5. QED
      BY <1>5, <2>1, <2>3, <2>4 DEF ClearedAt
  <1>19. CASE factoryReads
    <2>1. PICK ok \in BOOLEAN : readDevData(ok)
      BY <1>19, Zenon DEF factoryReads
    <2>2. pc = "reread" /\ Enter("factory") /\ UNCHANGED <<box, cleared>>
      BY <1>19, Zenon DEF factoryReads
    <2>3. Outcome(ok) /\ data' \in [Modes -> Store]
      BY <2>1, <2>2, ReadDevData DEF ReaderTyped
    <2>4. <<"ele0", i>> \in Checked("factory") /\ "factory" \in Phases
      BY <1>2 DEF Checked, LineKinds, Phases
    <2>5. <<"ele0", i>> \in Left'
      BY <1>7, <2>2, <2>3, <2>4
    <2>6. Ele(i)' = Ele(i) \/ Ele(i)' = box.ele[i]
      BY <1>6, <2>3
    <2>7. box'.ele[i] = box.ele[i] /\ pc' = "factory"
      BY <1>8, <2>2 DEF Enter
    <2>8. QED
      BY <1>3, <2>2, <2>5, <2>6, <2>7 DEF ClearedAt
  <1>20. CASE volReturns
    <2>1. pc = "vol" /\ Enter("idle") /\ UNCHANGED <<box, cleared>>
      BY <1>20, Zenon DEF volReturns
    <2>2. box'.ele[i] = box.ele[i] /\ pc' = "idle"
      BY <1>8, <2>1 DEF Enter
    <2>3. QED
      BY <1>3, <2>1, <2>2 DEF ClearedAt
  <1>21. CASE UNCHANGED vars
    <2>1. UNCHANGED <<box, boxes, cleared, reader, pc, todo>>
      BY <1>21, Zenon DEF vars
    <2>2. Left' = Left /\ Ele(i)' = Ele(i) /\ box'.ele[i] = box.ele[i]
      BY <1>5, <1>8, <2>1, LeftKept DEF Continues
    <2>3. QED
      BY <1>3, <2>1, <2>2 DEF ClearedAt
  <1>22. QED
    BY <1>10, <1>11, <1>12, <1>13, <1>14, <1>15, <1>16, <1>17, <1>18, <1>19, <1>20, <1>21, Zenon DEF Core

\* With the energy check on, the meters of a box that passed were cleared.
THEOREM MetersCleared == Spec => []PassedIsCleared
  <1>1. Init => Returns /\ Known /\ Cleared
    <2> SUFFICES ASSUME Init PROVE Returns /\ Known /\ Cleared
      OBVIOUS
    <2>1. ret /\ res /\ ~failed /\ pc = "idle" /\ boxes = 0
      BY Zenon DEF Init
    <2>2. "idle" \notin Judging
      BY DEF Judging, Phases
    <2>3. Returns /\ Known
      BY <2>1, <2>2, Zenon DEF Returns, Known
    <2>4. Cleared
      BY <2>1 DEF Cleared, ClearedAt
    <2>5. QED
      BY <2>3, <2>4
  <1>2. Cleared => PassedIsCleared
    <2> SUFFICES ASSUME Cleared, Passed, AllRead, eleCheck, NEW i \in 1..box.loops
                 PROVE  i \in cleared
      BY DEF PassedIsCleared
    <2>1. Open /\ pc = "idle" /\ boxes > 0
      BY Zenon DEF Passed, Open
    <2>2. ClearedAt(i)
      BY <2>1, Zenon DEF Cleared
    <2>3. QED
      BY <2>1, <2>2 DEF ClearedAt
  <1>3. QED
    BY <1>1, <1>2, InitTyped, StepTyped, StepReturns, StepKnown, StepCleared, PTL DEF Spec

-----------------------------------------------------------------------------
(* SoundBoxPasses *)

\* A sound box that is read well, and not held responsible for another's option.
Untroubled ==
  events = {} /\ box.defect = NoDefect /\ ~(OptionUnread /\ reState # ip_residual)

\* The values are the box's, and were read at a good moment.
Shown ==
  pc \notin {"idle", "init"} =>
    Fresh /\ \A i \in 1..box.loops : data[modeId].line[i].steady = TRUE

\* Only lines that the box has are judged.
Ranged == \A d \in Held(todo) : d[2] <= box.loops

\* The meters count until the clearing, and the readings show it.
Counted(i) ==
  /\ eleCheck /\ pc \in {"init", "link", "walk", "err", "version", "base", "alarm", "clean"} => box.ele[i] = 1
  /\ i <= box.loops =>
       /\ eleCheck /\ pc \in {"link", "walk", "err", "version", "base", "alarm", "clean"} => Ele(i) = 1
       /\ pc = "reread" => box.ele[i] = 0
       /\ pc = "factory" => Ele(i) = 0

Sound ==
  Untroubled => ~result /\ ~failed /\ Shown /\ Ranged /\ \A i \in Lines : Counted(i)

\* A group that is entered, and one that goes on, judges lines of the box.
LEMMA EnterRanged ==
  ASSUME Typed, data' \in [Modes -> Store], NEW phase \in Places, Enter(phase), modeId' = modeId,
         box'.loops = box.loops
  PROVE  Ranged'
  <1>1. box.loops \in Nat /\ 1 <= box.loops /\ 0 <= box.loops
    BY BoxTyped, BoxAssumption DEF Lines
  <1>2. todo' = <<>> \/ Held(todo') = LineSet(phase, 1) \/ Held(todo') = LastSet(phase)
    BY EnterHeld
  <1>3. \A d \in LineSet(phase, 1) : d[2] = 1
    BY DEF LineSet
  <1>4. \A d \in LastSet(phase) : d[2] = 0
    BY DEF LastSet
  <1>5. \A d \in Held(todo') : d[2] = 0 \/ d[2] = 1
    BY <1>2, <1>3, <1>4, HeldEmpty
  <1>6. QED
    BY <1>1, <1>5 DEF Ranged

\* The same when an item has its verdict.
LEMMA NextRanged ==
  ASSUME Typed, data' \in [Modes -> Store], todo # <<>>, pc \in Phases, NextItem, modeId' = modeId,
         data'[modeId].loopNum = box.loops, box'.loops = box.loops, Ranged
  PROVE  Ranged'
  <1>1. box.loops \in Nat /\ 1 <= box.loops /\ 0 <= box.loops
    BY BoxTyped, BoxAssumption DEF Lines
  <1>2. Done(Item[2], box.loops)
    BY NextItemHeld
  <1>3. Item[2] \in 0..MaxLines
    BY ItemTyped
  <1>4. CASE todo' = Tail(todo)
    BY <1>4, ItemTyped DEF Ranged
  <1>5. CASE todo' = <<>>
    BY <1>5, HeldEmpty DEF Ranged
  <1>6. CASE Item[2] < box.loops /\ Held(todo') = LineSet(pc, Item[2] + 1)
    <2>1. \A d \in LineSet(pc, Item[2] + 1) : d[2] = Item[2] + 1
      BY DEF LineSet
    <2>2. Item[2] + 1 <= box.loops
      BY <1>1, <1>3, <1>6, BoxAssumption
    <2>3. QED
      BY <1>6, <2>1, <2>2 DEF Ranged
  <1>7. CASE Held(todo') = LastSet(pc)
    <2>1. \A d \in LastSet(pc) : d[2] = 0
      BY DEF LastSet
    <2>2. QED
      BY <1>1, <1>7, <2>1 DEF Ranged
  <1>8. QED
    BY <1>2, <1>4, <1>5, <1>6, <1>7, Zenon DEF Done

\* A sound box that is read well has good values.
LEMMA SoundGood ==
  ASSUME Typed, Items, Sound, Told, Untroubled, todo # <<>>
  PROVE  Good(Item)
  <1>1. /\ pc \in Phases /\ Item \in Held(todo)
        /\ Item \in (LineKinds(pc) \X Lines) \union LastSet(pc)
    BY ItemKind
  <1>2. Shown /\ Ranged /\ \A i \in Lines : Counted(i)
    BY Zenon DEF Sound
  <1>3. Fresh /\ \A i \in 1..box.loops : data[modeId].line[i].steady = TRUE
    BY <1>1, <1>2 DEF Shown, Phases
  <1>4. Item[2] <= box.loops
    BY <1>1, <1>2 DEF Ranged
  <1>5. Item[2] = 0 \/ Item[2] \in 1..box.loops
    BY <1>4, ItemTyped, BoxTyped, BoxAssumption
  <1>6. Item[1] \in LineKinds(pc) \union LastKinds(pc)
    BY <1>1 DEF LastSet
  <1>7. Item[1] \in LineKinds(pc) => Item[2] \in 1..box.loops
    <2>1. LineKinds(pc) \cap LastKinds(pc) = {}
      BY <1>1 DEF LineKinds, LastKinds, Phases
    <2>2. Item[1] \in LineKinds(pc) => Item[2] \in Lines
      BY <1>1, <2>1 DEF LastSet
    <2>3. QED
      BY <1>5, <2>2, BoxAssumption DEF Lines
  <1>8. DefectSeen(Item) = NoDefect
    BY <1>3, <1>5 DEF DefectSeen, Fresh, Untroubled
  <1>9. DefectSeen(Item) \notin {Item, Unread}
    <2>1. Item \in ItemType
      BY ItemTyped
    <2>2. Item[1] # "none"
      BY <2>1 DEF ItemType, ItemNames, LineNames, LastNames, EnergyNames
    <2>3. Item # NoDefect /\ NoDefect # Unread
      BY <2>2 DEF NoDefect, Unread
    <2>4. QED
      BY <1>8, <2>3
  <1>10. Item[1] = "ele" => EleGood(data[modeId].line[Item[2]])
    <2>1. ASSUME Item[1] = "ele"
          PROVE  pc = "err" /\ Item[2] \in 1..box.loops
      BY <1>1, <1>6, <1>7, <2>1 DEF LineKinds, LastKinds, Phases
    <2>2. ASSUME Item[1] = "ele"
          PROVE  Item[2] \in Lines /\ Item[2] <= box.loops
      BY <1>4, <2>1, <2>2, BoxTyped, BoxAssumption DEF Lines
    <2>3. ASSUME Item[1] = "ele", eleCheck
          PROVE  Ele(Item[2]) = 1
      BY <1>2, <2>1, <2>2, <2>3 DEF Counted
    <2>4. QED
      BY <2>3, Zenon DEF EleGood, Ele
  <1>11. Item[1] = "ele0" => Ele0Good(data[modeId].line[Item[2]])
    <2>1. ASSUME Item[1] = "ele0"
          PROVE  pc = "factory" /\ Item[2] \in 1..box.loops
      BY <1>1, <1>6, <1>7, <2>1 DEF LineKinds, LastKinds, Phases
    <2>2. ASSUME Item[1] = "ele0"
          PROVE  Item[2] \in Lines /\ Item[2] <= box.loops
      BY <1>4, <2>1, <2>2, BoxTyped, BoxAssumption DEF Lines
    <2>3. ASSUME Item[1] = "ele0"
          PROVE  Ele(Item[2]) = 0
      BY <1>2, <2>1, <2>2, <2>3 DEF Counted
    <2>4. QED
      BY <2>3, Zenon DEF Ele0Good, Ele
  <1>12. Item[1] \in Electrical => data[modeId].line[Item[2]].steady = TRUE
    <2>1. ASSUME Item[1] \in Electrical
          PROVE  Item[1] \in LineKinds(pc)
      BY <1>6, <2>1, ElectricalKind DEF LineKinds, LastKinds, Electrical
    <2>2. QED
      BY <1>3, <1>7, <2>1
  <1>13. Item[1] = "residual" => reState = ip_residual
    <2> SUFFICES ASSUME Item[1] = "residual" PROVE reState = ip_residual
      OBVIOUS
    <2>1. modeId = "START_BUSBAR" /\ pc \in Judging
      BY <1>1, <1>6 DEF LineKinds, LastKinds, Phases, Judging
    <2>2. CASE ip_mode = 0
      BY <2>1, <2>2, Zenon DEF Untroubled, OptionUnread
    <2>3. CASE ip_mode # 0
      <3>1. ip_mode = 1
        BY <2>3 DEF Typed
      <3>2. AllRead /\ ~result
        BY DEF AllRead, Sound, Untroubled
      <3>3. Open
        BY <3>2 DEF Open
      <3>4. reState = Residual
        BY <2>1, <3>1, <3>3, Zenon DEF Told
      <3>5. box.defect # <<"residual", 0>>
        BY DEF Untroubled, NoDefect
      <3>6. QED
        BY <3>4, <3>5, Zenon DEF Residual
    <2>4. QED
      BY <2>2, <2>3
  <1>14. QED
    BY <1>9, <1>10, <1>11, <1>12, <1>13, GoodCases, Zenon


\* No step fails a sound box that is read well.
LEMMA StepSound ==
  ASSUME Typed, Typed', Flags, Items, Started, Returns, Told, Sound, [Next]_vars
  PROVE  Sound'
  <1> DEFINE Goal == ~result' /\ ~failed' /\ Shown' /\ Ranged' /\ \A i \in Lines : Counted(i)'
  <1> SUFFICES ASSUME Untroubled' PROVE Goal
    BY Zenon DEF Sound
  <1> HIDE DEF Goal
  <1> USE DEF settings, group
  <1>0. events' = {} /\ Held(<<>>) = {}
    BY HeldEmpty DEF Untroubled
  <1>1. CASE Begins
    <2>1. PICK check \in BOOLEAN, defect \in Defects \union {NoDefect}, loops \in Lines, ele \in 0..1 :
            /\ eleCheck' = check
            /\ box' = [defect |-> defect, loops |-> loops, ele |-> [i \in Lines |-> ele]]
            /\ events' = IF check /\ ele = 0 THEN {"noEnergy"} ELSE {}
            /\ result' = FALSE
      BY <1>1, Zenon DEF Begins
    <2>2. pc' = "init" /\ failed' = FALSE /\ todo' = <<>>
      BY <1>1 DEF Begins, Enter, Phases
    <2>3. Shown' /\ Ranged'
      BY <1>0, <2>2 DEF Shown, Ranged
    <2>4. ASSUME NEW i \in Lines
          PROVE  Counted(i)'
      <3>1. box'.ele[i] = ele
        BY <2>1
      <3>2. eleCheck' => ele = 1
        BY <1>0, <2>1
      <3>3. QED
        BY <2>2, <3>1, <3>2 DEF Counted
    <2>5. QED
      BY <2>1, <2>2, <2>3, <2>4, Zenon DEF Goal
  <1> SUFFICES ASSUME Continues, energyCounts \/ Core \/ UNCHANGED vars
               PROVE  Goal
    BY <1>1, StepEither
  <1>2. Untroubled /\ events = {}
    <2>1. events = {} /\ box.defect = NoDefect /\ (OptionUnread)' = OptionUnread
      BY <1>0 DEF Continues, Untroubled, OptionUnread
    <2>2. OptionUnread => reState' = reState /\ ip_residual' = ip_residual
      BY OptionKept DEF Continues, OptionUnread
    <2>3. QED
      BY <2>1, <2>2, Zenon DEF Untroubled
  <1>3. ~result /\ ~failed /\ Shown /\ Ranged /\ \A i \in Lines : Counted(i)
    BY <1>2, Zenon DEF Sound
  <1>4. ret /\ res
    BY <1>3, Zenon DEF Returns
  <1>5. /\ modeId' = modeId /\ box'.loops = box.loops /\ box'.defect = box.defect
        /\ box.loops \in Lines /\ \A i \in 1..box.loops : i \in Lines
        /\ eleCheck' = eleCheck
    BY BoxTyped, BoxAssumption DEF Continues, Lines
  <1>6. ASSUME NEW ok \in BOOLEAN, Outcome(ok)
        PROVE  ok /\ Full(TRUE)
    BY <1>0, <1>6, Zenon DEF Outcome
  <1>7. Same /\ Shown /\ pc \notin {"idle", "init"} => Shown'
    <2> SUFFICES ASSUME Same, Shown, pc \notin {"idle", "init"} PROVE Shown'
      OBVIOUS
    <2>1. Fresh'
      BY <1>5, FreshKept DEF Shown
    <2>2. \A i \in 1..box.loops : data'[modeId].line[i].steady = TRUE
      BY <1>5 DEF Shown, Same
    <2>3. QED
      BY <1>5, <2>1, <2>2 DEF Shown
  <1>8. ASSUME Full(TRUE)
        PROVE  Shown' /\ \A i \in 1..box.loops : Ele(i)' = box.ele[i]
    <2>1. Fresh'
      BY <1>5, <1>8, FreshKept
    <2>2. \A i : LineNow(i, TRUE).steady = TRUE /\ LineNow(i, TRUE).ele = box.ele[i]
      BY DEF LineNow
    <2>3. \A i \in 1..box.loops :
            data'[modeId].line[i].steady = TRUE /\ data'[modeId].line[i].ele = box.ele[i]
      BY <1>8, <2>2 DEF Full
    <2>4. QED
      BY <1>5, <2>1, <2>3 DEF Shown, Ele
  <1>9. ASSUME NEW phase \in Places, Enter(phase), data' \in [Modes -> Store]
        PROVE  pc' = phase /\ ~failed' /\ Ranged'
    <2>1. Ranged'
      BY <1>5, <1>9, EnterRanged
    <2>2. pc' = phase /\ failed' = FALSE
      BY <1>9, Zenon DEF Enter
    <2>3. QED
      BY <2>1, <2>2
  <1>10. data' \in [Modes -> Store] /\ \A i \in Lines : i \in Nat /\ box.loops \in Nat
    BY BoxAssumption, BoxTyped DEF Typed, Lines
  <1>11. ASSUME NEW i \in Lines, i <= box.loops
         PROVE  i \in 1..box.loops
    BY <1>10, <1>11, BoxAssumption DEF Lines
  <1>12. UNCHANGED reader => Same /\ \A i \in Lines : Ele(i)' = Ele(i)
    BY <1>5 DEF Same, Ele, reader
  <1>13. UNCHANGED box => \A i \in Lines : box'.ele[i] = box.ele[i]
    OBVIOUS
  <1>14. UNCHANGED todo /\ Ranged => Ranged'
    BY <1>5 DEF Ranged, Held
  \* The reading of a group's values, before the first group.
  <1>15. ASSUME Full(TRUE), pc \in {"init", "link", "walk"}, pc' \in {"link", "walk", "err"}, UNCHANGED box
         PROVE  Shown' /\ \A i \in Lines : Counted(i)'
    <2>1. Shown'
      BY <1>8, <1>15
    <2>2. ASSUME NEW i \in Lines
          PROVE  Counted(i)'
      <3>1. box'.ele[i] = box.ele[i]
        BY <1>13, <1>15
      <3>2. eleCheck => box.ele[i] = 1
        BY <1>3, <1>15 DEF Counted
      <3>3. i <= box.loops => Ele(i)' = box.ele[i]
        BY <1>8, <1>11, <1>15
      <3>4. QED
        BY <1>5, <1>15, <3>1, <3>2, <3>3 DEF Counted
    <2>3. QED
      BY <2>1, <2>2
  <1>16. CASE energyCounts
    <2>1. pc # "idle" /\ UNCHANGED <<reader, pc, todo>>
      BY <1>16, Zenon DEF energyCounts
    <2>6. pc # "reread"
      BY <1>0, <1>16 DEF energyCounts
    <2>2. failed' = failed /\ result' = result
      BY <1>16, Zenon DEF energyCounts
    <2>3. Shown' /\ Ranged'
      <3>1. Ranged'
        BY <1>3, <1>14, <2>1
      <3>2. CASE pc = "init"
        BY <2>1, <3>1, <3>2 DEF Shown
      <3>3. CASE pc # "init"
        BY <1>3, <1>7, <1>12, <2>1, <3>1, <3>3
      <3>4. QED
        BY <3>2, <3>3
    <2>4. ASSUME NEW i \in Lines
          PROVE  Counted(i)'
      <3>1. box'.ele[i] = 1
        BY <1>16 DEF energyCounts, Typed
      <3>2. Counted(i) /\ Ele(i)' = Ele(i)
        BY <1>3, <1>12, <2>1
      <3>3. QED
        BY <1>5, <2>1, <2>6, <3>1, <3>2 DEF Counted
    <2>5. QED
      BY <1>3, <2>2, <2>3, <2>4, Zenon DEF Goal
  <1>17. CASE initDev
    <2>1. PICK ok \in BOOLEAN : readDevData(ok)
      BY <1>17, Zenon DEF initDev
    <2>2. pc = "init" /\ pc' = "link" /\ UNCHANGED <<box, todo>>
      BY <1>17, Zenon DEF initDev
    <2>3. failed' = failed /\ result' = result
      BY <1>17, Zenon DEF initDev
    <2>4. Full(TRUE)
      BY <1>6, <2>1, <2>2, ReadDevData
    <2>5. Shown' /\ \A i \in Lines : Counted(i)'
      BY <1>15, <2>2, <2>4
    <2>6. Ranged'
      BY <1>3, <1>14, <2>2
    <2>7. QED
      BY <1>3, <2>3, <2>5, <2>6, Zenon DEF Goal
  <1>18. CASE readDev_link
    <2>1. pc = "link" /\ pc # "idle" /\ UNCHANGED box
      BY <1>18, Zenon DEF readDev_link
    <2>2. ~readLink(FALSE)
      BY <1>0, <2>1, ReadLink
    <2>3. readLink(TRUE) /\ Enter(IF modeId = "START_BUSBAR" THEN "walk" ELSE "err") /\ result' = result
      BY <1>18, <2>2, Zenon DEF readDev_link
    <2>4. PICK phase \in {"walk", "err"} : Enter(phase)
      BY <2>3
    <2>5. phase \in Places
      BY DEF Places, Phases
    <2>6. pc' = phase /\ ~failed' /\ Ranged'
      BY <1>9, <1>10, <2>4, <2>5
    <2>7. CASE Outcome(TRUE)
      <3>1. Full(TRUE)
        BY <1>6, <2>7
      <3>2. Shown' /\ \A i \in Lines : Counted(i)'
        BY <1>15, <2>1, <2>6, <3>1
      <3>3. QED
        BY <1>3, <2>3, <2>6, <3>2, Zenon DEF Goal
    <2>8. CASE modeId = "START_BUSBAR" /\ Same
      <3>1. Shown'
        BY <1>3, <1>7, <2>1, <2>8
      <3>2. ASSUME NEW i \in Lines
            PROVE  Counted(i)'
        <4>1. Ele(i)' = Ele(i) /\ box'.ele[i] = box.ele[i]
          BY <1>5, <1>13, <2>1, <2>8 DEF Same, Ele
        <4>2. Counted(i)
          BY <1>3
        <4>3. QED
          BY <1>5, <2>1, <2>6, <4>1, <4>2 DEF Counted
      <3>3. QED
        BY <1>3, <2>3, <2>6, <3>1, <3>2, Zenon DEF Goal
    <2>9. QED
      BY <2>1, <2>3, <2>7, <2>8, ReadLink
  <1>19. CASE readDev_walk
    <2>1. pc = "walk" /\ pc # "idle" /\ UNCHANGED box
      BY <1>19, Zenon DEF readDev_walk
    <2>2. box.loops = MaxLines
      BY <2>1 DEF Started
    <2>3. ASSUME NEW ok \in BOOLEAN, readWalk(ok)
          PROVE  ok /\ Full(TRUE)
      BY <1>6, <2>2, <2>3, ReadWalk
    <2>4. readWalk(TRUE) /\ Enter("err") /\ result' = result
      BY <1>19, <2>3, Zenon DEF readDev_walk
    <2>5. Full(TRUE) /\ "err" \in Places
      BY <2>3, <2>4 DEF Places, Phases
    <2>6. pc' = "err" /\ ~failed' /\ Ranged'
      BY <1>9, <1>10, <2>4, <2>5
    <2>7. Shown' /\ \A i \in Lines : Counted(i)'
      BY <1>15, <2>1, <2>5, <2>6
    <2>8. QED
      BY <1>3, <2>4, <2>6, <2>7, Zenon DEF Goal
  <1>20. CASE judgeAgain
    <2>1. todo # <<>> /\ ~Good(Item)
      BY <1>20, Zenon DEF judgeAgain
    <2>2. QED
      BY <1>2, <2>1, SoundGood
  <1>21. CASE judge
    <2>1. /\ todo # <<>> /\ NextItem /\ UNCHANGED <<box, pc>>
          /\ (~Good(Item) \/ UNCHANGED <<reader, history>>)
      BY <1>21, Zenon DEF judge
    <2>2. Good(Item)
      BY <1>2, <2>1, SoundGood
    <2>3. ~failed' /\ ~result'
      BY <1>3, <1>21, <2>2, Zenon DEF judge
    <2>4. pc \in Phases /\ pc \notin {"idle", "init"}
      BY <2>1 DEF Items, Phases
    <2>5. UNCHANGED reader /\ data' = data
      BY <2>1, <2>2, Zenon DEF reader
    <2>6. data'[modeId].loopNum = box.loops
      BY <1>3, <2>4, <2>5 DEF Shown, Fresh
    <2>7. Ranged'
      BY <1>3, <1>5, <1>10, <2>1, <2>4, <2>6, NextRanged
    <2>8. Shown'
      BY <1>3, <1>7, <1>12, <2>4, <2>5
    <2>9. ASSUME NEW i \in Lines
          PROVE  Counted(i)'
      <3>1. Ele(i)' = Ele(i) /\ box'.ele[i] = box.ele[i] /\ Counted(i)
        BY <1>3, <1>12, <1>13, <2>1, <2>5
      <3>2. QED
        BY <1>5, <2>1, <3>1 DEF Counted
    <2>10. QED
      BY <2>3, <2>7, <2>8, <2>9, Zenon DEF Goal
  <1>22. CASE skip
    BY <1>4, <1>22, Zenon DEF skip, Skipped
  <1>23. CASE groupReturns
    <2>1. UNCHANGED <<box, reader>>
      BY <1>23, Zenon DEF groupReturns
    <2>2. pc \in Phases /\ todo = <<>> /\ result' = result
      BY <1>23, Zenon DEF groupReturns, AtEnd
    <2>3. PICK phase \in Places :
            /\ Enter(phase)
            /\ phase \in {"version", "base", "alarm", "clean"} => pc \in {"err", "version", "base", "alarm"}
            /\ phase \notin {"init", "link", "walk", "err", "reread", "factory", "idle"}
      <3>1. /\ pc = "err" => Enter("version")
            /\ pc = "version" => Enter("base")
            /\ pc = "base" => Enter("alarm")
            /\ pc = "alarm" => Enter("clean")
            /\ pc = "factory" => Enter("vol")
            /\ pc \in {"err", "version", "base", "alarm", "factory"}
        BY <1>4, <1>23, GroupNext
      <3>2. QED
        BY <3>1 DEF Places, Phases
    <2>4. pc' = phase /\ ~failed' /\ Ranged'
      BY <1>9, <1>10, <2>3
    <2>5. Shown'
      BY <1>3, <1>7, <1>12, <2>1, <2>2 DEF Phases
    <2>6. ASSUME NEW i \in Lines
          PROVE  Counted(i)'
      <3>1. Ele(i)' = Ele(i) /\ box'.ele[i] = box.ele[i] /\ Counted(i)
        BY <1>3, <1>12, <1>13, <2>1
      <3>2. QED
        BY <1>5, <2>3, <2>4, <3>1 DEF Counted
    <2>7. QED
      BY <1>3, <2>2, <2>4, <2>5, <2>6, Zenon DEF Goal
  <1>24. CASE eleClean
    <2> DEFINE lines == IF modeId = "START_BUSBAR" THEN Lines ELSE 1..data[modeId].loopNum
    <2>1. PICK done \in SUBSET lines :
            /\ box' = [box EXCEPT !.ele = [i \in Lines |-> IF i \in done THEN 0 ELSE @[i]]]
            /\ cleared' = done
            /\ Happens(IF done = lines THEN {} ELSE {"trouble"})
      BY <1>24, Zenon DEF eleClean
    <2>2. pc = "clean" /\ pc' = "reread" /\ UNCHANGED <<reader, todo>>
      BY <1>24, Zenon DEF eleClean
    <2>3. failed' = failed /\ result' = result
      BY <1>24, Zenon DEF eleClean
    <2>4. data[modeId].loopNum = box.loops
      BY <1>3, <2>2 DEF Shown, Fresh
    <2>5. 1..box.loops \subseteq lines
      BY <1>5, <2>4
    <2> HIDE DEF lines
    <2>6. done = lines
      BY <1>0, <2>1 DEF Happens
    <2>7. Shown' /\ Ranged'
      BY <1>3, <1>7, <1>12, <1>14, <2>2
    <2>8. ASSUME NEW i \in Lines
          PROVE  Counted(i)'
      <3>1. i <= box.loops => i \in done
        BY <1>11, <2>5, <2>6
      <3>2. i \in done => box'.ele[i] = 0
        BY <2>1 DEF Typed
      <3>3. QED
        BY <1>5, <2>2, <3>1, <3>2 DEF Counted
    <2>9. QED
      BY <1>3, <2>3, <2>7, <2>8, Zenon DEF Goal
  <1>25. CASE factoryReads
    <2>1. PICK ok \in BOOLEAN : readDevData(ok)
      BY <1>25, Zenon DEF factoryReads
    <2>2. pc = "reread" /\ Enter("factory") /\ UNCHANGED box
      BY <1>25, Zenon DEF factoryReads
    <2>3. result' = result
      BY <1>25, Zenon DEF factoryReads
    <2>4. Full(TRUE) /\ "factory" \in Places
      BY <1>6, <2>1, <2>2, ReadDevData DEF Places, Phases
    <2>5. pc' = "factory" /\ ~failed' /\ Ranged'
      BY <1>9, <1>10, <2>2, <2>4
    <2>6. Shown'
      BY <1>8, <2>4
    <2>7. ASSUME NEW i \in Lines
          PROVE  Counted(i)'
      <3>1. i <= box.loops => Ele(i)' = box.ele[i]
        BY <1>8, <1>11, <2>4
      <3>2. Counted(i)
        BY <1>3
      <3>3. QED
        BY <1>5, <2>2, <2>5, <3>1, <3>2 DEF Counted
    <2>8. QED
      BY <1>3, <2>3, <2>5, <2>6, <2>7, Zenon DEF Goal
  <1>26. CASE volReturns
    <2>1. Enter("idle") /\ result' = (result \/ ~res)
      BY <1>26, Zenon DEF volReturns
    <2>2. "idle" \in Places
      BY DEF Places
    <2>3. pc' = "idle" /\ ~failed' /\ Ranged'
      BY <1>9, <1>10, <2>1, <2>2
    <2>4. ~result'
      BY <1>3, <1>4, <2>1, Zenon
    <2>5. Shown' /\ \A i \in Lines : Counted(i)'
      BY <2>3 DEF Shown, Counted
    <2>6. QED
      BY <2>3, <2>4, <2>5, Zenon DEF Goal
  <1>27. CASE UNCHANGED vars
    <2>1. UNCHANGED <<box, reader, pc, todo>> /\ failed' = failed /\ result' = result
      BY <1>27, Zenon DEF vars
    <2>2. Ranged'
      BY <1>3, <1>14, <2>1
    <2>3. Shown'
      BY <1>3, <1>7, <1>12, <2>1 DEF Shown
    <2>4. ASSUME NEW i \in Lines
          PROVE  Counted(i)'
      <3>1. Ele(i)' = Ele(i) /\ box'.ele[i] = box.ele[i] /\ Counted(i)
        BY <1>3, <1>12, <1>13, <2>1
      <3>2. QED
        BY <1>5, <2>1, <3>1 DEF Counted
    <2>5. QED
      BY <1>3, <2>1, <2>2, <2>3, <2>4, Zenon DEF Goal
  <1>28. QED
    BY <1>16, <1>17, <1>18, <1>19, <1>20, <1>21, <1>22, <1>23, <1>24, <1>25, <1>26, <1>27, Zenon DEF Core

\* A sound box fails only for a reason outside of it, the option of an earlier
\* box or of the new memory among them where no reading brings its own.
THEOREM SoundPasses == Spec => []SoundBoxPasses
  <1>1. Init => Returns /\ Told /\ Sound
    <2> SUFFICES ASSUME Init PROVE Returns /\ Told /\ Sound
      OBVIOUS
    <2>1. ret /\ res /\ ~failed /\ ~result
      BY Zenon DEF Init
    <2>2. pc = "idle" /\ todo = <<>>
      BY DEF Init
    <2>3. Shown /\ Ranged /\ \A i \in Lines : Counted(i)
      BY <2>2, HeldEmpty DEF Shown, Ranged, Counted
    <2>4. Returns /\ Sound
      BY <2>1, <2>3, Zenon DEF Returns, Sound
    <2>5. "idle" \notin Judging \union {"walk"}
      BY DEF Judging, Phases
    <2>6. Told
      BY <2>2, <2>5, Zenon DEF Told
    <2>7. QED
      BY <2>4, <2>6
  <1>2. Sound => SoundBoxPasses
    BY Zenon DEF Sound, SoundBoxPasses, Untroubled, Failed
  <1>3. QED
    BY <1>1, <1>2, InitTyped, StepTyped, StepReturns, StepTold, StepSound, PTL DEF Spec

=============================================================================
