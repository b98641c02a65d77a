-------------------------- MODULE SerialPortProofs --------------------------
(***************************************************************************)
(* Proofs about SerialPort, for every scenario: any number of commands,    *)
(* attempts and clicks, whatever fails.                                    *)
(*                                                                         *)
(* SentOnce holds in every scenario: a request that is waiting is Earlier, *)
(* of an attempt already made or of a click already counted (Ordered).     *)
(* What a caller may rely on holds in a calm test: the port is open and    *)
(* the test lasts (Steady), whatever is under way belongs to the present   *)
(* attempt and is gone before the next one begins (Mine), and no later     *)
(* command has been carried out (Past).  From these follows step by step   *)
(* that the port implements RtuPromise.                                    *)
(***************************************************************************)
EXTENDS SerialPort, SequenceMembers, TLAPS

Callers == {"core", "gui"}
Places == {"idle", "serial", "write", "read", "settle", "take", "judge"}
Verdicts == {"none", "ok", "fail"}

\* The variables have their types; Booleans apart, for the provers' sake.
Typed ==
  /\ env \in Scenarios /\ env \in Scenario
  /\ mWriteArrays \in Seq(Requests) /\ sent \in Seq(Requests)
  /\ mSerialData \in Seq(Fragments) /\ wire \in Seq(Fragments)
  /\ line \in Seq(Fragments) /\ array \in Seq(Fragments)
  /\ carriedOut \subseteq (Callers \X Nat)
  /\ pc \in Places
  /\ cmd \in Nat /\ try \in 1..env.Attempts /\ clears \in Nat
  /\ result \in Verdicts

Flags == isOpen \in BOOLEAN /\ stopped \in BOOLEAN

\* The two fragments of a reply.
Reply(request, refused) ==
  [i \in 1..2 |-> [of |-> request, part |-> <<"head", "tail">>[i], refused |-> refused]]

\* The attempts of a click on "clear energy".
Attempts(c) == [i \in 1..env.Attempts |-> [by |-> "gui", cmd |-> c, try |-> i]]

-----------------------------------------------------------------------------
(* TypeOK *)

\* The request of the attempt under way is a request.
LEMMA CurrentTyped ==
  ASSUME Typed
  PROVE  Current \in Requests /\ env.Attempts \in Nat \ {0}
  <1>1. env.Attempts \in Nat \ {0}
    BY DEF Typed, Scenario
  <1>2. try \in Nat /\ cmd \in Nat
    BY <1>1 DEF Typed
  <1>3. QED
    BY <1>1, <1>2 DEF Current, Requests

\* A reply is two fragments of the request it answers.
LEMMA ReplyTyped ==
  ASSUME NEW r \in Requests, NEW refused \in BOOLEAN
  PROVE  /\ Reply(r, refused) \in Seq(Fragments)
         /\ \A f \in Held(Reply(r, refused)) : f.of = r /\ f.refused = refused
  <1> DEFINE part == <<"head", "tail">>
             reply == Reply(r, refused)
  <1>1. \A i \in 1..2 : part[i] \in {"head", "tail"}
    OBVIOUS
  <1> HIDE DEF part
  <1>2. \A i \in 1..2 : reply[i] = [of |-> r, part |-> part[i], refused |-> refused]
    BY DEF Reply, part
  <1>3. \A i \in 1..2 : reply[i] \in Fragments
    BY <1>1, <1>2 DEF Fragments
  <1>4. reply \in [1..2 -> Fragments]
    BY <1>3 DEF Reply
  <1>5. reply \in Seq(Fragments) /\ Len(reply) = 2
    <2> HIDE DEF reply
    <2>1. QED
      BY <1>4, FunctionSeq
  <1> HIDE DEF reply
  <1>6. \A f \in Held(reply) : f.of = r /\ f.refused = refused
    BY <1>2, <1>5 DEF Held
  <1>7. QED
    BY <1>5, <1>6 DEF reply

\* A click queues as many different requests as there are attempts.
LEMMA AttemptsTyped ==
  ASSUME Typed, NEW c \in Nat
  PROVE  /\ Attempts(c) \in Seq(Requests)
         /\ Once(Attempts(c))
         /\ \A r \in Held(Attempts(c)) : r.by = "gui" /\ r.cmd = c
  <1> DEFINE n == env.Attempts
             a == Attempts(c)
  <1>1. n \in Nat
    BY CurrentTyped
  <1>2. \A i \in 1..n : a[i] = [by |-> "gui", cmd |-> c, try |-> i]
    BY DEF Attempts
  <1>3. a \in [1..n -> Requests]
    <2>1. ASSUME NEW i \in 1..n
          PROVE  a[i] \in Requests
      <3>1. a[i] = [by |-> "gui", cmd |-> c, try |-> i] /\ i \in Nat
        BY <1>1, <1>2
      <3>2. QED
        BY <3>1 DEF Requests
    <2>2. QED
      BY <2>1 DEF Attempts
  <1> HIDE DEF n
  <1>4. a \in Seq(Requests) /\ Len(a) = n
    BY <1>1, <1>3
  <1> HIDE DEF a
  <1>5. Once(a) /\ \A r \in Held(a) : r.by = "gui" /\ r.cmd = c
    BY <1>2, <1>4 DEF Once, Held
  <1>6. QED
    BY <1>4, <1>5 DEF a

\* The end of an attempt leaves one to come, or ends the command.
LEMMA AttemptFailsTyped ==
  ASSUME Typed, AttemptFails
  PROVE  /\ pc' \in {"serial", "idle"} /\ try' \in 1..env.Attempts
         /\ pc' = "serial" => try' = try + 1 /\ result' = result
         /\ pc' = "idle" => try' = try /\ result' = "fail"
  <1>1. env.Attempts \in Nat /\ try \in 1..env.Attempts
    BY CurrentTyped DEF Typed
  <1>2. CASE try < env.Attempts
    BY <1>1, <1>2 DEF AttemptFails
  <1>3. CASE ~(try < env.Attempts)
    BY <1>1, <1>3 DEF AttemptFails
  <1>4. QED
    BY <1>2, <1>3

\* Every step keeps the types.
LEMMA StepTyped ==
  ASSUME Typed, Flags, [Next]_vars
  PROVE  Typed' /\ Flags'
  <1> USE DEF port, device, caller
  <1>1. CASE writeSlot /\ UNCHANGED env
    <2>1. /\ mWriteArrays' \in Seq(Requests) /\ sent' \in Seq(Requests)
          /\ mSerialData' \in Seq(Fragments)
      <3>1. /\ mWriteArrays # <<>> /\ mWriteArrays \in Seq(Requests) /\ sent \in Seq(Requests)
            /\ mSerialData \in Seq(Fragments)
        BY <1>1 DEF writeSlot, Typed
      <3>2. Tail(mWriteArrays) \in Seq(Requests) /\ Head(mWriteArrays) \in Requests
        BY <3>1, HeldTail
      <3>3. Append(sent, Head(mWriteArrays)) \in Seq(Requests)
        BY <3>1, <3>2, HeldAppend
      <3>4. <<>> \in Seq(Requests) /\ <<>> \in Seq(Fragments)
        BY HeldEmpty
      <3>5. QED
        BY <1>1, <3>1, <3>2, <3>3, <3>4, Zenon DEF writeSlot
    <2>2. Typed'
      BY <1>1, <2>1 DEF writeSlot, Typed
    <2>3. QED
      BY <1>1, <2>2, Zenon DEF writeSlot, Flags
  <1>2. CASE recvSlot /\ UNCHANGED env
    <2>1. mSerialData' \in Seq(Fragments) /\ wire' \in Seq(Fragments)
      BY <1>2, HeldConcat DEF recvSlot, Typed
    <2>2. Typed'
      BY <1>2, <2>1 DEF recvSlot, Typed
    <2>3. QED
      BY <1>2, <2>2, Zenon DEF recvSlot, Flags
  <1>3. CASE (close \/ open \/ startTest \/ endTest) /\ UNCHANGED env
    <2>1. wire' \in Seq(Fragments)
      BY <1>3, HeldEmpty, Zenon DEF close, open, startTest, endTest, Typed
    <2>2. Typed'
      BY <1>3, <2>1 DEF close, open, startTest, endTest, Typed
    <2>3. QED
      BY <1>3, <2>2, Zenon DEF close, open, startTest, endTest, Flags
  <1>4. CASE clearStartEleSlot /\ UNCHANGED env
    <2>1. clears' = clears + 1 /\ clears + 1 \in Nat
      BY <1>4 DEF clearStartEleSlot, Typed
    <2>2. mWriteArrays' = mWriteArrays \/ mWriteArrays' = mWriteArrays \o Attempts(clears + 1)
      BY <1>4, Zenon DEF clearStartEleSlot, Attempts
    <2>3. mWriteArrays' \in Seq(Requests)
      <3>1. Attempts(clears + 1) \in Seq(Requests) /\ mWriteArrays \in Seq(Requests)
        BY <2>1, AttemptsTyped DEF Typed
      <3>2. mWriteArrays \o Attempts(clears + 1) \in Seq(Requests)
        BY <3>1, HeldConcat
      <3>3. QED
        BY <2>2, <3>1, <3>2
    <2>4. Typed'
      BY <1>4, <2>1, <2>3 DEF clearStartEleSlot, Typed
    <2>5. QED
      BY <1>4, <2>4, Zenon DEF clearStartEleSlot, Flags
  <1>5. ASSUME NEW refused \in BOOLEAN, deviceAnswers(refused), UNCHANGED env
        PROVE  Typed' /\ Flags'
    <2>1. sent' \in Seq(Requests) /\ Head(sent) \in Requests
      BY <1>5, HeldTail DEF deviceAnswers, Typed
    <2>2. line' = line \o Reply(Head(sent), refused)
      BY <1>5, Zenon DEF deviceAnswers, Reply
    <2>3. line' \in Seq(Fragments)
      BY <2>1, <2>2, ReplyTyped, HeldConcat DEF Typed
    <2>4. <<Head(sent).by, Head(sent).cmd>> \in Callers \X Nat
      BY <2>1 DEF Requests, Callers
    <2>5. carriedOut' \subseteq Callers \X Nat
      BY <1>5, <2>4 DEF deviceAnswers, Typed
    <2>6. Typed'
      BY <1>5, <2>1, <2>3, <2>5 DEF deviceAnswers, Typed
    <2>7. QED
      BY <1>5, <2>6, Zenon DEF deviceAnswers, Flags
  <1>6. CASE requestLost /\ UNCHANGED env
    <2>1. sent' \in Seq(Requests)
      BY <1>6, HeldTail DEF requestLost, Typed
    <2>2. Typed'
      BY <1>6, <2>1 DEF requestLost, Typed
    <2>3. QED
      BY <1>6, <2>2, Zenon DEF requestLost, Flags
  <1>7. CASE fragmentArrives /\ UNCHANGED env
    <2>1. line' \in Seq(Fragments) /\ wire' \in Seq(Fragments)
      <3>1. line # <<>> /\ line \in Seq(Fragments) /\ wire \in Seq(Fragments)
        BY <1>7 DEF fragmentArrives, Typed
      <3>2. Tail(line) \in Seq(Fragments) /\ Head(line) \in Fragments
        BY <3>1, HeldTail
      <3>3. Append(wire, Head(line)) \in Seq(Fragments)
        BY <3>1, <3>2, HeldAppend
      <3>4. QED
        BY <1>7, <3>1, <3>2, <3>3, Zenon DEF fragmentArrives
    <2>2. Typed'
      BY <1>7, <2>1 DEF fragmentArrives, Typed
    <2>3. QED
      BY <1>7, <2>2, Zenon DEF fragmentArrives, Flags
  <1>8. CASE sentRtuCmd /\ UNCHANGED env
    <2>1. cmd' \in Nat /\ try' \in 1..env.Attempts
      BY <1>8, CurrentTyped DEF sentRtuCmd, Typed
    <2>2. Typed'
      BY <1>8, <2>1 DEF sentRtuCmd, Typed, Places, Verdicts
    <2>3. QED
      BY <1>8, <2>2, Zenon DEF sentRtuCmd, Flags
  <1>9. CASE write /\ UNCHANGED env
    <2>1. mWriteArrays' \in Seq(Requests)
      BY <1>9, CurrentTyped, HeldAppend DEF write, Typed
    <2>2. Typed'
      BY <1>9, <2>1 DEF write, Typed, Places
    <2>3. QED
      BY <1>9, <2>2, Zenon DEF write, Flags
  <1>10. CASE (writeSerial \/ readGivesUp \/ judge) /\ UNCHANGED env
    <2>1. pc' \in Places /\ try' \in 1..env.Attempts /\ result' \in Verdicts
      <3>1. ASSUME AttemptFails
            PROVE  pc' \in Places /\ try' \in 1..env.Attempts /\ result' \in Verdicts
        BY <3>1, AttemptFailsTyped DEF Typed, Places, Verdicts
      <3>2. ~AttemptFails => UNCHANGED try /\ pc' \in {"idle", "write"} /\ result' \in {result, "ok"}
        BY <1>10, Zenon DEF writeSerial, readGivesUp, judge
      <3>3. QED
        BY <3>1, <3>2 DEF Typed, Places, Verdicts
    <2>2. array' \in Seq(Fragments)
      BY <1>10, HeldEmpty, Zenon DEF writeSerial, readGivesUp, judge, Typed
    <2>3. UNCHANGED <<env, port, device, cmd, clears>>
      BY <1>10, Zenon DEF writeSerial, readGivesUp, judge
    <2>4. Typed'
      BY <2>1, <2>2, <2>3 DEF Typed
    <2>5. QED
      BY <1>10, <2>4, Zenon DEF writeSerial, readGivesUp, judge, Flags
  <1>11. CASE (readWaits \/ copyData \/ takeData) /\ UNCHANGED env
    <2>1. array' \in Seq(Fragments) /\ mSerialData' \in Seq(Fragments) /\ pc' \in Places
      <3>1. pc' \in Places
        BY <1>11 DEF readWaits, copyData, takeData, Places
      <3>2. QED
        BY <1>11, <3>1, HeldEmpty, Zenon DEF readWaits, copyData, takeData, Typed
    <2>2. Typed'
      BY <1>11, <2>1 DEF readWaits, copyData, takeData, Typed
    <2>3. QED
      BY <1>11, <2>2, Zenon DEF readWaits, copyData, takeData, Flags
  <1>12. CASE UNCHANGED vars
    BY <1>12, Zenon DEF vars, Typed, Flags
  <1>13. QED
    BY <1>1, <1>2, <1>3, <1>4, <1>5, <1>6, <1>7, <1>8, <1>9, <1>10, <1>11, <1>12, Zenon
       DEF Next, Step, timeoutDone, Device, Caller

\* The port begins with the types.
LEMMA InitTyped ==
  ASSUME Init
  PROVE  Typed /\ Flags
  <1>1. env \in Scenarios /\ env \in Scenario
    BY PortAssumption DEF Init
  <1>2. 1 \in 1..env.Attempts
    BY <1>1 DEF Scenario
  <1>3. Typed
    BY <1>1, <1>2 DEF Init, Typed, Places, Verdicts
  <1>4. QED
    BY <1>3, Zenon DEF Init, Flags

\* The type invariant: no attempt beyond the last (sentRtuCmd), and nothing but
\* requests and fragments in the queue and the buffers.
THEOREM TypeCorrect == Spec => []TypeOK
  <1>1. Typed /\ Flags /\ [Next]_vars => Typed' /\ Flags'
    BY StepTyped
  <1>2. Typed /\ Flags => TypeOK
    BY DEF Typed, Flags, TypeOK, Places, Verdicts, Callers
  <1>3. QED
    BY <1>1, <1>2, InitTyped, PTL DEF Spec

-----------------------------------------------------------------------------
(* SentOnce *)

\* A request that was queued is of an attempt already made, or of a click.
Earlier(r) ==
  IF r.by = "core"
  THEN \/ r.cmd < cmd
       \/ r.cmd = cmd /\ r.try < try
       \/ r.cmd = cmd /\ r.try = try /\ pc \notin {"serial", "write"}
  ELSE r.cmd <= clears

Waiting == Held(sent) \union Held(mWriteArrays)

Ordered ==
  /\ Once(sent) /\ Once(mWriteArrays) /\ Held(sent) \cap Held(mWriteArrays) = {}
  /\ \A r \in Waiting : Earlier(r)

\* No later command has been carried out.
Past == \A c \in Nat : <<"core", c>> \in carriedOut => c <= cmd

\* Whatever waits is a request.
LEMMA WaitingTyped ==
  ASSUME Typed
  PROVE  Waiting \subseteq Requests /\ \A r \in Waiting : r.cmd \in Nat /\ r.try \in Nat /\ r.by \in Callers
  <1>1. \A s \in Seq(Requests) : Held(s) \subseteq Requests
    BY DEF Held
  <1>2. Waiting \subseteq Requests
    BY <1>1 DEF Typed, Waiting
  <1>3. QED
    BY <1>2 DEF Requests, Callers

\* No step makes an attempt younger.
LEMMA EarlierKept ==
  ASSUME Typed, [Next]_vars, NEW r \in Requests, Earlier(r)
  PROVE  Earlier(r)'
  <1>1. r.cmd \in Nat /\ r.try \in Nat /\ cmd \in Nat /\ try \in Nat /\ clears \in Nat
    BY CurrentTyped DEF Requests, Typed
  <1>2. CASE UNCHANGED <<cmd, try>> /\ clears' \in {clears, clears + 1} /\ (pc' \in {"serial", "write"} => pc \in {"serial", "write"})
    BY <1>1, <1>2 DEF Earlier
  <1>3. CASE cmd' = cmd + 1 /\ clears' = clears
    BY <1>1, <1>3 DEF Earlier
  <1>4. CASE AttemptFails /\ UNCHANGED <<cmd, clears>>
    <2>1. pc' \in {"serial", "idle"}
          /\ (pc' = "serial" => try' = try + 1) /\ (pc' = "idle" => try' = try)
      BY <1>4, AttemptFailsTyped
    <2>2. QED
      BY <1>1, <1>4, <2>1 DEF Earlier
  <1>5. CASE (timeoutDone \/ close \/ open \/ clearStartEleSlot \/ startTest \/ endTest \/ Device \/ fragmentArrives) \/ UNCHANGED vars
    <2>1. UNCHANGED <<cmd, try, pc>> /\ clears' \in {clears, clears + 1}
      BY <1>5 DEF timeoutDone, writeSlot, recvSlot, close, open, clearStartEleSlot, startTest, endTest, Device,
                  deviceAnswers, requestLost, fragmentArrives, vars, caller
    <2>2. QED
      BY <1>2, <2>1
  <1>6. CASE sentRtuCmd
    BY <1>3, <1>6 DEF sentRtuCmd
  <1>7. CASE Caller
    <2>1. UNCHANGED <<cmd, clears>>
      BY <1>7, Zenon DEF Caller, writeSerial, write, readGivesUp, readWaits, copyData, takeData, judge
    <2>2. AttemptFails \/ (UNCHANGED try /\ (pc' \in {"serial", "write"} => pc \in {"serial", "write"}))
      BY <1>7 DEF Caller, writeSerial, write, readGivesUp, readWaits, copyData, takeData, judge
    <2>3. QED
      BY <1>2, <1>4, <2>1, <2>2
  <1>8. QED
    BY <1>5, <1>6, <1>7, Zenon DEF Next, Step

\* Every step keeps the order: write and clearStartEleSlot queue what is newer
\* than all that waits, the others move or drop requests.
LEMMA OrderedKept ==
  ASSUME Typed, Ordered, [Next]_vars
  PROVE  Ordered'
  <1>0. /\ mWriteArrays \in Seq(Requests) /\ sent \in Seq(Requests)
        /\ Once(<<>>) /\ Held(<<>>) = {}
    BY HeldEmpty DEF Typed
  \* Whatever is left of the requests is in order.
  <1>a. ASSUME Waiting' \subseteq Waiting
        PROVE  \A r \in Waiting' : Earlier(r)'
    BY <1>a, WaitingTyped, EarlierKept DEF Ordered
  <1>1. CASE UNCHANGED <<sent, mWriteArrays>>
    <2>1. Waiting' = Waiting
      BY <1>1 DEF Waiting
    <2>2. QED
      BY <1>1, <1>a, <2>1, Zenon DEF Ordered
  <1>2. CASE sent' = sent /\ mWriteArrays' = <<>>
    <2>1. Waiting' \subseteq Waiting
      BY <1>0, <1>2 DEF Waiting
    <2>2. QED
      BY <1>0, <1>2, <1>a, <2>1 DEF Ordered
  <1>3. CASE sent # <<>> /\ sent' = Tail(sent) /\ mWriteArrays' = mWriteArrays
    <2>1. Held(Tail(sent)) \subseteq Held(sent) /\ Once(Tail(sent))
      BY <1>0, <1>3, HeldTail DEF Ordered
    <2>2. Waiting' \subseteq Waiting
      BY <1>3, <2>1 DEF Waiting
    <2>3. QED
      BY <1>3, <1>a, <2>1, <2>2 DEF Ordered
  <1>4. CASE /\ mWriteArrays # <<>>
             /\ sent' = Append(sent, Head(mWriteArrays))
             /\ mWriteArrays' = Tail(mWriteArrays)
    <2> DEFINE r == Head(mWriteArrays)
               rest == Tail(mWriteArrays)
    <2>1. /\ r \in Requests /\ r \in Held(mWriteArrays) /\ r \notin Held(rest)
          /\ Held(rest) \subseteq Held(mWriteArrays) /\ Once(rest)
      BY <1>0, <1>4, HeldTail DEF Ordered
    <2> HIDE DEF r, rest
    <2>2. r \notin Held(sent) /\ Once(sent)
      BY <2>1 DEF Ordered
    <2>3. Held(Append(sent, r)) = Held(sent) \union {r} /\ Once(Append(sent, r))
      BY <1>0, <2>1, <2>2, HeldAppend
    <2>4. sent' = Append(sent, r) /\ mWriteArrays' = rest
      BY <1>4 DEF r, rest
    <2>5. Waiting' \subseteq Waiting
      BY <2>1, <2>3, <2>4 DEF Waiting
    <2>6. QED
      BY <1>a, <2>1, <2>3, <2>4, <2>5 DEF Ordered
  <1>5. CASE clearStartEleSlot /\ isOpen
    <2> DEFINE block == Attempts(clears + 1)
    <2>1. clears \in Nat /\ clears + 1 \in Nat /\ clears' = clears + 1
      BY <1>5 DEF clearStartEleSlot, Typed
    <2>2. block \in Seq(Requests) /\ Once(block) /\ \A r \in Held(block) : r.by = "gui" /\ r.cmd = clears + 1
      BY <2>1, AttemptsTyped
    <2>3. sent' = sent /\ mWriteArrays' = mWriteArrays \o block
      BY <1>5, Zenon DEF clearStartEleSlot, Attempts, device
    <2> HIDE DEF block
    <2>4. \A r \in Waiting : r \notin Held(block)
      BY <2>1, <2>2, WaitingTyped DEF Ordered, Earlier
    <2>5. Held(mWriteArrays) \cap Held(block) = {} /\ Held(sent) \cap Held(block) = {}
      BY <2>4 DEF Waiting
    <2>6. Held(mWriteArrays') = Held(mWriteArrays) \union Held(block) /\ Once(mWriteArrays')
      BY <1>0, <2>2, <2>3, <2>5, HeldConcat DEF Ordered
    <2>7. \A r \in Held(block) : Earlier(r)'
      BY <2>1, <2>2 DEF Earlier
    <2>8. \A r \in Waiting' : r \in Waiting \/ r \in Held(block)
      BY <2>3, <2>6 DEF Waiting
    <2>9. \A r \in Waiting' : Earlier(r)'
      BY <2>7, <2>8, WaitingTyped, EarlierKept DEF Ordered
    <2>10. QED
      BY <2>3, <2>5, <2>6, <2>9 DEF Ordered
  <1>6. CASE write /\ isOpen
    <2>1. pc = "write" /\ pc' = "read" /\ UNCHANGED <<sent, cmd, try>> /\ mWriteArrays' = Append(mWriteArrays, Current)
      BY <1>6 DEF write, device
    <2>2. Current \in Requests /\ Current.by = "core" /\ Current.cmd = cmd /\ Current.try = try
      BY CurrentTyped DEF Current
    <2>3. cmd \in Nat /\ try \in Nat
      BY CurrentTyped DEF Typed
    <2>4. ~Earlier(Current)
      BY <2>1, <2>2, <2>3 DEF Earlier
    <2>5. Current \notin Held(mWriteArrays) /\ Current \notin Held(sent)
      BY <2>4 DEF Ordered, Waiting
    <2>6. Held(mWriteArrays') = Held(mWriteArrays) \union {Current} /\ Once(mWriteArrays')
      BY <1>0, <2>1, <2>2, <2>5, HeldAppend DEF Ordered
    <2>7. \A r : r = Current => Earlier(r)'
      BY <2>1, <2>2 DEF Earlier
    <2>8. \A r \in Waiting' : r \in Waiting \/ r = Current
      BY <2>1, <2>6 DEF Waiting
    <2>9. \A r \in Waiting' : Earlier(r)'
      BY <2>7, <2>8, WaitingTyped, EarlierKept DEF Ordered
    <2>10. QED
      BY <2>1, <2>5, <2>6, <2>9 DEF Ordered
  <1>7. CASE timeoutDone
    BY <1>1, <1>2, <1>4, <1>7, Zenon DEF timeoutDone, writeSlot, recvSlot, device
  <1>8. CASE close \/ open \/ startTest \/ endTest \/ fragmentArrives \/ sentRtuCmd \/ UNCHANGED vars
    BY <1>1, <1>8, Zenon DEF close, open, startTest, endTest, fragmentArrives, sentRtuCmd, vars, port, device
  <1>9. CASE clearStartEleSlot /\ ~isOpen
    BY <1>1, <1>9, Zenon DEF clearStartEleSlot, device
  <1>10. CASE Device
    BY <1>3, <1>10, Zenon DEF Device, deviceAnswers, requestLost, port
  <1>11. CASE write /\ ~isOpen
    BY <1>2, <1>11, Zenon DEF write, device
  <1>12. CASE writeSerial \/ readGivesUp \/ readWaits \/ copyData \/ takeData \/ judge
    BY <1>1, <1>12, Zenon DEF writeSerial, readGivesUp, readWaits, copyData, takeData, judge, port, device
  <1>13. QED
    BY <1>5, <1>6, <1>7, <1>8, <1>9, <1>10, <1>11, <1>12, Zenon DEF Next, Step, Caller

\* Whatever the GUI thread and the core thread do with the unlocked queue, no
\* request is in it, or on its way to the device, twice (mWriteArrays, write,
\* clearStartEleSlot, writeSlot).
THEOREM RequestsSentOnce == Spec => []SentOnce
  <1>1. Init => Ordered
    <2> SUFFICES ASSUME Init PROVE Ordered
      OBVIOUS
    <2>1. Held(<<>>) = {} /\ Once(<<>>)
      BY HeldEmpty
    <2>2. QED
      BY <2>1 DEF Init, Ordered, Waiting
  <1>2. Typed /\ Flags /\ Ordered /\ [Next]_vars => Typed' /\ Flags' /\ Ordered'
    BY StepTyped, OrderedKept
  <1>3. Typed /\ Ordered => SentOnce
    <2> SUFFICES ASSUME Typed, Ordered
                 PROVE  SentOnce
      OBVIOUS
    <2> DEFINE q == sent \o mWriteArrays
    <2>1. mWriteArrays \in Seq(Requests) /\ sent \in Seq(Requests)
      BY DEF Typed
    <2>2. q \in Seq(Requests) /\ Once(q)
      BY <2>1, HeldConcat DEF Ordered
    <2> HIDE DEF q
    <2>3. \A i, j \in DOMAIN q : q[i] = q[j] => i = j
      BY <2>2 DEF Once
    <2>4. QED
      BY <2>3, Zenon DEF SentOnce, q
  <1>4. QED
    BY <1>1, <1>2, <1>3, InitTyped, PTL DEF Spec

-----------------------------------------------------------------------------
(* OwnReply and KeepsPromise *)

\* In a calm test the port is open, and the test lasts as long as the command.
Steady == isOpen /\ (pc # "idle" => ~stopped)

\* The fragments that answer the present attempt of a command carried out.
Exact == {f \in Fragments : f.of = Current /\ <<"core", cmd>> \in carriedOut}

\* Whatever is under way belongs to the present attempt; between attempts
\* nothing is, and the port keeps nothing.
Mine ==
  /\ Waiting \subseteq {Current}
  /\ Held(line) \union Held(wire) \union Held(mSerialData) \subseteq Exact
  /\ pc \in {"take", "judge"} => Held(array) \subseteq Exact
  /\ pc \notin {"read", "settle"} => Quiet
  /\ pc \in {"idle", "serial", "write", "judge"} => mSerialData = <<>>
  /\ pc = "take" => mSerialData = array

\* In a calm test nobody closes the port or ends the test under a command.
LEMMA SteadyKept ==
  ASSUME Typed, Calm, Steady, [Next]_vars
  PROVE  Steady'
  <1>1. ~close
    BY Zenon DEF close, Calm
  <1>3. endTest => pc = "idle" /\ pc' = "idle"
    BY Zenon DEF endTest, Calm, caller
  <1>4. sentRtuCmd => ~stopped
    BY Zenon DEF sentRtuCmd, Calm
  <1>5. isOpen'
    BY <1>1, Zenon DEF Steady, Next, Step, timeoutDone, writeSlot, recvSlot, open, clearStartEleSlot, startTest,
         endTest, Device, deviceAnswers, requestLost, fragmentArrives, sentRtuCmd, Caller, writeSerial,
         write, readGivesUp, readWaits, copyData, takeData, judge, vars, port
  <1>6. stopped' => stopped \/ pc' = "idle"
    BY <1>3, Zenon DEF Next, Step, timeoutDone, writeSlot, recvSlot, close, open, clearStartEleSlot, startTest,
         Device, deviceAnswers, requestLost, fragmentArrives, sentRtuCmd, Caller, writeSerial,
         write, readGivesUp, readWaits, copyData, takeData, judge, vars
  <1>7. pc = "idle" => pc' = "idle" \/ ~stopped \/ ~stopped'
    <2>1. CASE timeoutDone \/ close \/ open \/ clearStartEleSlot \/ startTest \/ endTest \/ Device \/ fragmentArrives \/ UNCHANGED vars
      BY <2>1, Zenon DEF timeoutDone, writeSlot, recvSlot, close, open, clearStartEleSlot, startTest,
           endTest, Device, deviceAnswers, requestLost, fragmentArrives, vars, caller
    <2>2. CASE Caller
      BY <2>2 DEF Caller, writeSerial, write, readGivesUp, readWaits, copyData, takeData, judge
    <2>3. QED
      BY <1>4, <2>1, <2>2, Zenon DEF Next, Step
  <1>8. QED
    BY <1>5, <1>6, <1>7, Zenon DEF Steady

\* A step that neither begins an attempt nor takes anything back leaves what is
\* exact exact.
LEMMA ExactKept ==
  ASSUME UNCHANGED <<cmd, try>>, carriedOut \subseteq carriedOut'
  PROVE  Current' = Current /\ Exact \subseteq Exact'
  <1>1. Current' = Current
    BY DEF Current
  <1>2. QED
    BY <1>1 DEF Exact

\* Every step of a calm test keeps what is under way to the present attempt:
\* an attempt ends only when nothing of it is left (readGivesUp, copyData).
LEMMA MineKept ==
  ASSUME Typed, Calm, Steady, Mine, [Next]_vars
  PROVE  Mine'
  <1>0. /\ mWriteArrays \in Seq(Requests) /\ sent \in Seq(Requests)
        /\ line \in Seq(Fragments) /\ wire \in Seq(Fragments) /\ mSerialData \in Seq(Fragments)
        /\ array \in Seq(Fragments) /\ Held(<<>>) = {}
    BY HeldEmpty DEF Typed
  \* The attempt is over or begins: nothing is under way.
  <1>a. ASSUME Quiet', mSerialData' = <<>>, pc' \notin {"take", "judge"}
        PROVE  Mine'
    BY <1>0, <1>a DEF Mine, Quiet, Waiting
  <1>1. CASE writeSlot
    <2>1. pc \in {"read", "settle"} /\ UNCHANGED <<pc, cmd, try, carriedOut, line, wire>>
      BY <1>1 DEF writeSlot, Mine, Quiet, caller, Typed
    <2>2. mWriteArrays # <<>> /\ Head(mWriteArrays) \in Held(mWriteArrays) /\ Held(Tail(mWriteArrays)) \subseteq Held(mWriteArrays)
          /\ Head(mWriteArrays) \in Requests
      BY <1>0, <1>1, HeldTail DEF writeSlot
    <2>3. Held(Append(sent, Head(mWriteArrays))) = Held(sent) \union {Head(mWriteArrays)}
      BY <1>0, <2>2, HeldAppend
    <2>4. Waiting' \subseteq Waiting
      BY <1>0, <1>1, <2>2, <2>3 DEF writeSlot, Waiting
    <2>5. mSerialData' \in {mSerialData, <<>>}
      BY <1>1 DEF writeSlot
    <2>6. Current' = Current /\ Exact \subseteq Exact'
      BY <2>1, ExactKept
    <2>7. QED
      BY <1>0, <2>1, <2>4, <2>5, <2>6 DEF Mine
  <1>2. CASE recvSlot
    <2>1. pc \in {"read", "settle"} /\ UNCHANGED <<pc, cmd, try, carriedOut, line, sent, mWriteArrays>>
      BY <1>2 DEF recvSlot, Mine, Quiet, caller, device, Typed
    <2>2. Held(mSerialData') = Held(mSerialData) \union Held(wire) /\ wire' = <<>>
      BY <1>0, <1>2, HeldConcat DEF recvSlot
    <2>3. Current' = Current /\ Exact \subseteq Exact'
      BY <2>1, ExactKept
    <2>4. Waiting' = Waiting
      BY <2>1 DEF Waiting
    <2>5. QED
      BY <1>0, <2>1, <2>2, <2>3, <2>4 DEF Mine
  <1>3. CASE startTest \/ endTest \/ open \/ UNCHANGED vars
    <2>1. UNCHANGED <<mWriteArrays, mSerialData, wire, device, caller>>
      BY <1>3, Zenon DEF startTest, endTest, open, vars, port
    <2>2. QED
      BY <2>1, Zenon DEF Mine, Waiting, Quiet, Exact, Current, device, caller
  <1>4. ~close /\ ~clearStartEleSlot
    BY DEF close, clearStartEleSlot, Calm, Typed
  <1>5. ASSUME NEW refused \in BOOLEAN, deviceAnswers(refused)
        PROVE  Mine'
    <2>1. /\ pc \in {"read", "settle"} /\ UNCHANGED <<pc, cmd, try, wire, mWriteArrays, mSerialData>>
          /\ sent # <<>> /\ sent' = Tail(sent)
      BY <1>5 DEF deviceAnswers, Mine, Quiet, caller, port, Typed
    <2>2. Head(sent) = Current /\ Head(sent) \in Requests /\ Held(Tail(sent)) \subseteq Held(sent)
      BY <1>0, <2>1, HeldTail DEF Mine, Waiting
    <2>3. ~refused
      BY <1>5, Zenon DEF deviceAnswers, Calm
    <2>4. carriedOut' = carriedOut \union {<<"core", cmd>>}
      BY <1>5, <2>2, <2>3 DEF deviceAnswers, Current
    <2>5. Current' = Current /\ Exact \subseteq Exact'
      BY <2>1, <2>4, ExactKept
    <2>6. line' = line \o Reply(Current, refused)
      BY <1>5, <2>2, Zenon DEF deviceAnswers, Reply
    <2>7. Reply(Current, refused) \in Seq(Fragments) /\ \A f \in Held(Reply(Current, refused)) : f.of = Current
      BY <2>2, ReplyTyped
    <2>8. Held(line') = Held(line) \union Held(Reply(Current, refused))
      BY <1>0, <2>6, <2>7, HeldConcat
    <2>9. Held(Reply(Current, refused)) \subseteq Fragments
      BY <2>7 DEF Held
    <2>10. Held(Reply(Current, refused)) \subseteq Exact'
      BY <2>1, <2>4, <2>5, <2>7, <2>9 DEF Exact
    <2>11. Waiting' \subseteq Waiting
      BY <2>1, <2>2 DEF Waiting
    <2>12. QED
      BY <2>1, <2>5, <2>8, <2>10, <2>11 DEF Mine
  <1>6. CASE requestLost
    <2>1. /\ pc \in {"read", "settle"} /\ UNCHANGED <<pc, cmd, try, wire, mWriteArrays, mSerialData, line, carriedOut>>
          /\ sent # <<>> /\ sent' = Tail(sent)
      BY <1>6 DEF requestLost, Mine, Quiet, caller, port, Typed
    <2>2. Held(Tail(sent)) \subseteq Held(sent)
      BY <1>0, <2>1, HeldTail
    <2>3. Current' = Current /\ Exact \subseteq Exact'
      BY <2>1, ExactKept
    <2>4. Waiting' \subseteq Waiting
      BY <2>1, <2>2 DEF Waiting
    <2>5. QED
      BY <2>1, <2>3, <2>4 DEF Mine
  <1>7. CASE fragmentArrives
    <2>1. /\ pc \in {"read", "settle"} /\ UNCHANGED <<pc, cmd, try, mWriteArrays, mSerialData, sent, carriedOut>>
          /\ line # <<>> /\ line' = Tail(line)
      BY <1>7 DEF fragmentArrives, Mine, Quiet, caller, Typed
    <2>2. Head(line) \in Held(line) /\ Head(line) \in Fragments /\ Held(Tail(line)) \subseteq Held(line)
      BY <1>0, <2>1, HeldTail
    <2>3. Held(Append(wire, Head(line))) = Held(wire) \union {Head(line)}
      BY <1>0, <2>2, HeldAppend
    <2>4. wire' = wire \/ wire' = Append(wire, Head(line))
      BY <1>7, Zenon DEF fragmentArrives
    <2>5. Current' = Current /\ Exact \subseteq Exact'
      BY <2>1, ExactKept
    <2>6. Waiting' = Waiting
      BY <2>1 DEF Waiting
    <2>7. QED
      BY <2>1, <2>2, <2>3, <2>4, <2>5, <2>6 DEF Mine
  <1>8. CASE sentRtuCmd
    BY <1>8, <1>a DEF sentRtuCmd, Mine, Quiet, port, device
  <1>9. CASE writeSerial
    <2>1. pc = "serial" /\ pc' = "write" /\ UNCHANGED <<port, device>>
      BY <1>9, Zenon DEF writeSerial, Steady
    <2>2. QED
      BY <1>a, <2>1 DEF Mine, Quiet, port, device
  <1>10. CASE write
    <2>1. pc = "write" /\ pc' = "read" /\ UNCHANGED <<mSerialData, wire, device, cmd, try>> /\ mWriteArrays' = Append(mWriteArrays, Current)
      BY <1>10, Zenon DEF write, Steady
    <2>2. mWriteArrays = <<>> /\ sent = <<>> /\ line = <<>> /\ wire = <<>> /\ mSerialData = <<>>
      BY <2>1 DEF Mine, Quiet
    <2>3. Held(mWriteArrays') = Held(mWriteArrays) \union {Current}
      BY <1>0, <2>1, CurrentTyped, HeldAppend
    <2>4. Current' = Current
      BY <2>1 DEF Current
    <2>5. Waiting' = {Current}
      BY <1>0, <2>1, <2>2, <2>3 DEF Waiting, device
    <2>6. line' = <<>> /\ wire' = <<>> /\ mSerialData' = <<>>
      BY <2>1, <2>2 DEF device
    <2>7. QED
      BY <1>0, <2>1, <2>4, <2>5, <2>6 DEF Mine
  <1>11. CASE readGivesUp
    <2>1. pc = "read" /\ ~stopped /\ isOpen
      BY <1>11 DEF readGivesUp, Steady
    <2>2. mSerialData = <<>> /\ Quiet /\ UNCHANGED <<port, device>>
      BY <1>11, <2>1, Zenon DEF readGivesUp, Calm
    <2>3. pc' \in {"serial", "idle"}
      BY <1>11, AttemptFailsTyped DEF readGivesUp
    <2>4. QED
      BY <1>a, <2>2, <2>3 DEF Quiet, port, device
  <1>12. CASE readWaits
    <2>1. pc' = "settle" /\ UNCHANGED <<port, device, cmd, try>>
      BY <1>12, Zenon DEF readWaits
    <2>2. QED
      BY <2>1 DEF Mine, Waiting, Exact, Current, port, device
  <1>13. CASE copyData
    <2>1. Quiet /\ array' = mSerialData /\ pc' = "take" /\ UNCHANGED <<port, device, cmd, try>>
      BY <1>13, Zenon DEF copyData, Calm
    <2>2. QED
      BY <2>1 DEF Mine, Waiting, Exact, Current, Quiet, port, device
  <1>14. CASE takeData
    <2>1. /\ pc = "take" /\ mSerialData = array /\ Quiet /\ Held(array) \subseteq Exact
          /\ pc' \in {"read", "judge"} /\ UNCHANGED <<mWriteArrays, wire, device, cmd, try, array>>
      BY <1>14 DEF takeData, Mine
    <2>2. mSerialData' = <<>>
      BY <1>14, <2>1 DEF takeData
    <2>3. QED
      BY <1>0, <2>1, <2>2 DEF Mine, Waiting, Exact, Current, Quiet, device
  <1>15. CASE judge
    <2>1. pc = "judge" /\ UNCHANGED <<port, device>>
      BY <1>15, Zenon DEF judge
    <2>2. pc' \in {"serial", "idle"}
      BY <1>15, AttemptFailsTyped DEF judge
    <2>3. QED
      BY <1>a, <2>1, <2>2 DEF Mine, Quiet, port, device
  <1>16. QED
    BY <1>1, <1>2, <1>3, <1>4, <1>5, <1>6, <1>7, <1>8, <1>9, <1>10, <1>11, <1>12, <1>13, <1>14, <1>15, Zenon
       DEF Next, Step, timeoutDone, Device, Caller

\* In a calm test, both.
CalmTest == Calm => Steady /\ Mine

\* The same for every scenario: the scenario never changes.
LEMMA CalmKept ==
  ASSUME Typed, CalmTest, [Next]_vars
  PROVE  CalmTest'
  <1>1. env' = env
    BY Zenon DEF Next, vars
  <1>2. Calm' = Calm
    BY <1>1, Zenon DEF Calm
  <1>3. QED
    BY <1>2, SteadyKept, MineKept, Zenon DEF CalmTest

\* Nothing is under way in the beginning.
LEMMA InitCalm ==
  ASSUME Init
  PROVE  CalmTest
  <1>1. Held(<<>>) = {}
    BY HeldEmpty
  <1>2. Mine
    BY <1>1 DEF Init, Mine, Waiting, Quiet
  <1>3. Steady
    BY Zenon DEF Init, Steady
  <1>4. QED
    BY <1>2, <1>3 DEF CalmTest

\* The device carries out what was sent, and that is never of a later command.
LEMMA PastKept ==
  ASSUME Typed, Ordered, Past, [Next]_vars
  PROVE  Past'
  <1>0. cmd \in Nat
    BY DEF Typed
  <1>1. CASE UNCHANGED carriedOut /\ cmd' \in {cmd, cmd + 1}
    BY <1>0, <1>1 DEF Past
  <1>2. ASSUME NEW refused \in BOOLEAN, deviceAnswers(refused)
        PROVE  Past'
    <2>1. sent # <<>> /\ cmd' = cmd /\ carriedOut' \subseteq carriedOut \union {<<Head(sent).by, Head(sent).cmd>>}
      BY <1>2 DEF deviceAnswers, caller
    <2>2. Head(sent) \in Waiting
      BY <2>1, HeldTail DEF Typed, Waiting
    <2>3. Head(sent).by = "core" => Head(sent).cmd <= cmd
      BY <1>0, <2>2, WaitingTyped DEF Ordered, Earlier
    <2>4. QED
      BY <2>1, <2>3 DEF Past
  <1>3. CASE timeoutDone \/ close \/ open \/ clearStartEleSlot \/ startTest \/ endTest \/ requestLost \/ fragmentArrives \/ UNCHANGED vars
    BY <1>1, <1>3 DEF timeoutDone, writeSlot, recvSlot, close, open, clearStartEleSlot, startTest, endTest,
                requestLost, fragmentArrives, vars, caller, device
  <1>4. CASE sentRtuCmd \/ Caller
    BY <1>1, <1>4 DEF sentRtuCmd, Caller, writeSerial, write, readGivesUp, readWaits, copyData, takeData, judge, device
  <1>5. QED
    BY <1>2, <1>3, <1>4, Zenon DEF Next, Step, Device

\* The inductive invariant as a whole.
LEMMA AllKept == Spec => [](Typed /\ Flags /\ Ordered /\ Past /\ CalmTest)
  <1>1. Init => Typed /\ Flags /\ Ordered /\ Past /\ CalmTest
    <2> SUFFICES ASSUME Init PROVE Ordered /\ Past
      BY InitTyped, InitCalm
    <2>1. Held(<<>>) = {} /\ Once(<<>>)
      BY HeldEmpty
    <2>2. QED
      BY <2>1 DEF Init, Ordered, Waiting, Past
  <1>2. Typed /\ Flags /\ Ordered /\ Past /\ CalmTest /\ [Next]_vars
          => (Typed /\ Flags /\ Ordered /\ Past /\ CalmTest)'
    BY StepTyped, OrderedKept, PastKept, CalmKept
  <1>3. QED
    BY <1>1, <1>2, PTL DEF Spec

\* In a calm test on a lossy line, what read hands to the caller is a reply, or
\* a part of it, to the request just written and to no older one.
THEOREM RepliesOwn == Spec => []OwnReply
  <1>1. Typed /\ CalmTest => OwnReply
    <2> SUFFICES ASSUME Typed, CalmTest, Calm, pc = "judge", NEW i \in DOMAIN array
                 PROVE  array[i].of = Current
      BY Zenon DEF OwnReply
    <2>1. array[i] \in Held(array)
      BY DEF Typed, Held
    <2>2. array[i] \in Exact
      BY <2>1 DEF CalmTest, Mine
    <2>3. QED
      BY <2>2 DEF Exact
  <1>2. QED
    BY <1>1, AllKept, PTL

\* What RtuPromise sees.
calling == pc # "idle"
done == <<"core", cmd>> \in carriedOut

\* Every step of a calm test is a step of RtuPromise, or changes nothing of it.
LEMMA PromiseStep ==
  ASSUME Typed, Past, CalmTest, [Next]_vars
  PROVE  [Calm => Promise!Next]_<<pc # "idle", <<"core", cmd>> \in carriedOut, result>>
  <1> SUFFICES ASSUME Calm
               PROVE  Promise!Next \/ (calling' = calling /\ done' = done /\ result' = result)
    BY Zenon DEF calling, done
  <1>0. Steady /\ Mine
    BY DEF CalmTest
  <1>1. CASE UNCHANGED <<pc, cmd, carriedOut, result>>
    BY <1>1, Zenon DEF calling, done
  <1>2. CASE sentRtuCmd
    <2>1. pc = "idle" /\ pc' # "idle" /\ cmd' = cmd + 1 /\ carriedOut' = carriedOut /\ result' = "none"
      BY <1>2 DEF sentRtuCmd, device
    <2>2. <<"core", cmd + 1>> \notin carriedOut
      BY DEF Past, Typed
    <2>3. ~calling /\ calling' /\ ~done' /\ result' = "none"
      BY <2>1, <2>2 DEF calling, done
    <2>4. Promise!Call
      BY <2>3 DEF Promise!Call, calling, done
    <2>5. QED
      BY <2>4 DEF Promise!Next
  <1>3. ASSUME NEW refused \in BOOLEAN, deviceAnswers(refused)
        PROVE  Promise!CarryOut
    <2>1. sent # <<>> /\ UNCHANGED <<pc, cmd, result>>
      BY <1>3, Zenon DEF deviceAnswers, caller
    <2>2. pc # "idle" /\ Head(sent) = Current
      BY <1>0, <2>1, HeldTail DEF Mine, Quiet, Waiting, Typed
    <2>3. carriedOut' = carriedOut \union {<<"core", cmd>>}
      <3>1. ~refused
        BY <1>3, Zenon DEF deviceAnswers, Calm
      <3>2. QED
        BY <1>3, <2>2, <3>1 DEF deviceAnswers, Current
    <2>4. calling /\ calling' /\ done' /\ result' = result
      BY <2>1, <2>2, <2>3 DEF calling, done
    <2>5. QED
      BY <2>4, Zenon DEF Promise!CarryOut, calling, done
  <1>4. CASE AttemptFails /\ pc # "idle" /\ UNCHANGED <<cmd, carriedOut>>
    <2>1. CASE pc' = "serial"
      <3>1. result' = result
        BY <1>4, <2>1, AttemptFailsTyped
      <3>2. calling /\ calling' /\ done' = done
        BY <1>4, <2>1, Zenon DEF calling, done
      <3>3. QED
        BY <3>1, <3>2, Zenon
    <2>2. CASE pc' = "idle"
      <3>1. result' = "fail"
        BY <1>4, <2>2, AttemptFailsTyped
      <3>2. calling /\ ~calling' /\ done' = done
        BY <1>4, <2>2, Zenon DEF calling, done
      <3>3. Promise!Fail
        BY <3>1, <3>2, Zenon DEF Promise!Fail, calling, done
      <3>4. QED
        BY <3>3 DEF Promise!Next
    <2>3. QED
      BY <1>4, <2>1, <2>2, AttemptFailsTyped
  <1>5. CASE judge /\ rtuRecvCrc
    <2>1. pc = "judge" /\ pc' = "idle" /\ result' = "ok" /\ UNCHANGED <<cmd, carriedOut>>
      BY <1>5, Zenon DEF judge, device
    <2>2. array[1] \in Held(array)
      BY <1>5 DEF rtuRecvCrc, Held
    <2>3. done
      BY <1>0, <2>1, <2>2 DEF Mine, Exact, done
    <2>4. calling /\ ~calling' /\ done' = done
      BY <2>1, Zenon DEF calling, done
    <2>5. Promise!Succeed
      BY <2>1, <2>3, <2>4, Zenon DEF Promise!Succeed, calling, done
    <2>6. QED
      BY <2>5 DEF Promise!Next
  <1>6. CASE writeSerial \/ write \/ readWaits \/ copyData \/ takeData
    <2>1. CASE AttemptFails /\ writeSerial
      BY <1>4, <2>1 DEF writeSerial, device
    <2>2. CASE ~(AttemptFails /\ writeSerial)
      <3>1. UNCHANGED <<cmd, carriedOut, result>>
        BY <1>6, <2>2, Zenon DEF writeSerial, write, readWaits, copyData, takeData, device
      <3>2. pc # "idle" /\ pc' # "idle"
        BY <1>6, <2>2 DEF writeSerial, write, readWaits, copyData, takeData
      <3>3. QED
        BY <3>1, <3>2, Zenon DEF calling, done
    <2>3. QED
      BY <2>1, <2>2
  <1>7. CASE readGivesUp \/ (judge /\ ~rtuRecvCrc)
    BY <1>4, <1>7 DEF readGivesUp, judge, device
  <1>8. CASE timeoutDone \/ close \/ open \/ clearStartEleSlot \/ startTest \/ endTest \/ requestLost \/ fragmentArrives \/ UNCHANGED vars
    BY <1>1, <1>8, Zenon DEF timeoutDone, writeSlot, recvSlot, close, open, clearStartEleSlot, startTest, endTest,
                requestLost, fragmentArrives, vars, caller, device
  <1>9. (\E refused \in BOOLEAN : deviceAnswers(refused)) => Promise!Next
    BY <1>3, Zenon DEF Promise!Next
  <1>10. QED
    BY <1>2, <1>5, <1>6, <1>7, <1>8, <1>9, Zenon DEF Next, Step, Device, Caller

\* The port implements RtuPromise in a calm test: a command succeeds only if the
\* device has carried it out, and is not carried out after it has returned.
THEOREM PromiseKept == Spec => KeepsPromise
  <1>1. Init => Promise!Init
    BY DEF Init, Promise!Init
  <1>2. Typed /\ Past /\ CalmTest /\ [Next]_vars
          => [Calm => Promise!Next]_<<pc # "idle", <<"core", cmd>> \in carriedOut, result>>
    BY PromiseStep
  <1>3. QED
    BY <1>1, <1>2, AllKept, PTL DEF Spec, KeepsPromise
=============================================================================
