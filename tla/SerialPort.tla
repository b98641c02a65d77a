----------------------------- MODULE SerialPort -----------------------------
(***************************************************************************)
(* The RTU port of the bench: the SerialPort object, whose timer runs in   *)
(* the GUI thread and does all the I/O, and the Modbus caller in the core  *)
(* thread (sentRtuCmd, Rtu_Write::write, Rtu_Serial::transmit), which only *)
(* meets it in the unlocked queue mWriteArrays and buffer mSerialData.     *)
(*                                                                         *)
(* A reply is two fragments, so that reading may cut it; the CRC is ideal  *)
(* and accepts exactly one whole reply.  Operations on the queue are       *)
(* atomic; the race on mSerialData is modelled in takeData.                *)
(***************************************************************************)
EXTENDS Integers, Sequences, FiniteSets

CONSTANT Scenarios  \* what a behaviour may contain, one of them each

Scenario ==
  [ Attempts  : Nat \ {0},  \* of sentRtuCmd, 3 in the code
    MaxCmds   : Nat,        \* bound on the commands of the core thread
    MaxClears : Nat,        \* bound on the clicks on "clear energy"
    Faults    : BOOLEAN,    \* may requests, fragments or QSerialPort::write fail?
    Slow      : BOOLEAN,    \* may a caller lose patience, or cut a reply, too early?
    EarlyEnd  : BOOLEAN,    \* may the test be ended while a command is under way?
    Unplug    : BOOLEAN,    \* may the operator close and open the port?
    Refusals  : BOOLEAN ]   \* may the device answer with a Modbus exception?

ASSUME PortAssumption == Scenarios \subseteq Scenario

Requests == [by : {"core", "gui"}, cmd : Nat, try : Nat]
Fragments == [of : Requests, part : {"head", "tail"}, refused : BOOLEAN]

VARIABLES
  env,           \* the scenario
  isOpen,
  mWriteArrays,  \* requests to send
  mSerialData,   \* what the timer has read and nobody has taken
  wire,          \* input buffer of QSerialPort
  sent,          \* requests on their way to the device
  line,          \* replies on their way back
  carriedOut,    \* history: <<by, cmd>> the device has carried out
  stopped,       \* step is Test_Over or Test_End
  pc,            \* where the caller stands
  cmd, try,      \* its command and attempt
  array,         \* what SerialPort::read has taken
  result,        \* verdict of the last command
  clears         \* bound: clicks so far

port   == <<isOpen, mWriteArrays, mSerialData, wire>>
device == <<sent, line, carriedOut>>
caller == <<pc, cmd, try, array, result>>
vars   == <<env, port, device, stopped, caller, clears>>

Init ==
  /\ env \in Scenarios
  /\ isOpen = TRUE
  /\ mWriteArrays = <<>> /\ mSerialData = <<>> /\ wire = <<>>
  /\ sent = <<>> /\ line = <<>> /\ carriedOut = {}
  /\ stopped = TRUE
  /\ pc = "idle" /\ cmd = 0 /\ try = 1 /\ array = <<>> /\ result = "none"
  /\ clears = 0

Current == [by |-> "core", cmd |-> cmd, try |-> try]

\* Nothing of any request is under way on either side.
Quiet == mWriteArrays = <<>> /\ sent = <<>> /\ line = <<>> /\ wire = <<>>

-----------------------------------------------------------------------------
(* SerialPort in the GUI thread *)

\* Mutant: the request stays in the queue.
writeSlot_Keeps ==
  /\ mWriteArrays # <<>>
  /\ sent' = Append(sent, Head(mWriteArrays))
  /\ mSerialData' = <<>>
  /\ UNCHANGED <<isOpen, wire, line, carriedOut, stopped, caller, clears, mWriteArrays>>

\* Mutant: a failing write leaves the queue as it is.
writeSlot_KeepsOnFailure ==
  /\ mWriteArrays # <<>>
  /\ isOpen
  /\ sent' = Append(sent, Head(mWriteArrays))
  /\ mWriteArrays' = Tail(mWriteArrays)
  /\ mSerialData' = <<>>
  /\ UNCHANGED <<isOpen, wire, line, carriedOut, stopped, caller, clears>>

\* A failing write takes the whole queue with it.
writeSlot ==
  /\ mWriteArrays # <<>>
  /\ \/ /\ isOpen
        /\ sent' = Append(sent, Head(mWriteArrays))
        /\ mWriteArrays' = Tail(mWriteArrays)
        /\ mSerialData' = <<>>
     \/ /\ ~isOpen \/ env.Faults
        /\ mWriteArrays' = <<>>
        /\ UNCHANGED <<sent, mSerialData>>
  /\ UNCHANGED <<isOpen, wire, line, carriedOut, stopped, caller, clears>>

\* Only when nothing waits to be sent.
recvSlot ==
  /\ mWriteArrays = <<>>
  /\ isOpen
  /\ wire # <<>>
  /\ mSerialData' = mSerialData \o wire
  /\ wire' = <<>>
  /\ UNCHANGED <<isOpen, mWriteArrays, device, stopped, caller, clears>>

timeoutDone == writeSlot \/ recvSlot

\* close waits for the lock that read holds while it takes the data; neither
\* close nor open touches the queue or the data already read.
close ==
  /\ env.Unplug
  /\ isOpen
  /\ pc # "take"
  /\ isOpen' = FALSE
  /\ wire' = <<>>
  /\ UNCHANGED <<mWriteArrays, mSerialData, device, stopped, caller, clears>>

open ==
  /\ ~isOpen
  /\ isOpen' = TRUE
  /\ UNCHANGED <<mWriteArrays, mSerialData, wire, device, stopped, caller, clears>>

\* "Clear energy": sentRtuCmd in the GUI thread, where readSerial and delay
\* return at once because no test is running.
clearStartEleSlot ==
  /\ stopped
  /\ clears < env.MaxClears
  /\ clears' = clears + 1
  /\ mWriteArrays' = IF isOpen
                     THEN mWriteArrays \o [i \in 1..env.Attempts |->
                                             [by |-> "gui", cmd |-> clears + 1, try |-> i]]
                     ELSE mWriteArrays
  /\ UNCHANGED <<isOpen, mSerialData, wire, device, stopped, caller>>

\* The test begins and ends.
startTest ==
  /\ stopped
  /\ pc = "idle"
  /\ stopped' = FALSE
  /\ UNCHANGED <<port, device, caller, clears>>

endTest ==
  /\ ~stopped
  /\ env.EarlyEnd \/ pc = "idle"
  /\ stopped' = TRUE
  /\ UNCHANGED <<port, device, caller, clears>>

-----------------------------------------------------------------------------
(* The device and the cable *)

deviceAnswers(refused) ==
  /\ sent # <<>>
  /\ refused => env.Refusals
  /\ sent' = Tail(sent)
  /\ carriedOut' = IF refused THEN carriedOut
                   ELSE carriedOut \cup {<<Head(sent).by, Head(sent).cmd>>}
  /\ line' = line \o [i \in 1..2 |-> [of |-> Head(sent), part |-> <<"head", "tail">>[i],
                                      refused |-> refused]]
  /\ UNCHANGED <<port, stopped, caller, clears>>

requestLost ==
  /\ env.Faults
  /\ sent # <<>>
  /\ sent' = Tail(sent)
  /\ UNCHANGED <<port, line, carriedOut, stopped, caller, clears>>

\* A fragment arrives; with the port closed, or by noise, it is gone.
fragmentArrives ==
  /\ line # <<>>
  /\ line' = Tail(line)
  /\ \/ isOpen /\ wire' = Append(wire, Head(line))
     \/ (~isOpen \/ env.Faults) /\ UNCHANGED wire
  /\ UNCHANGED <<isOpen, mWriteArrays, mSerialData, sent, carriedOut, stopped, caller, clears>>

-----------------------------------------------------------------------------
(* The caller: Ctrl_SiRtu::sentRtuCmd in the core thread *)

sentRtuCmd ==
  /\ pc = "idle"
  /\ ~stopped \/ (env.EarlyEnd /\ cmd > 0)
  /\ cmd < env.MaxCmds
  /\ cmd' = cmd + 1
  /\ try' = 1
  /\ result' = "none"
  /\ pc' = "serial"
  /\ UNCHANGED <<port, device, stopped, array, clears>>

\* Mutant: one attempt too many.
AttemptFails_OneMore ==
  IF try <= env.Attempts
  THEN /\ try' = try + 1
       /\ pc' = "serial"
       /\ UNCHANGED result
  ELSE /\ pc' = "idle"
       /\ result' = "fail"
       /\ UNCHANGED try

\* One attempt has failed; the delay between attempts is not modelled.
AttemptFails ==
  IF try < env.Attempts
  THEN /\ try' = try + 1
       /\ pc' = "serial"
       /\ UNCHANGED result
  ELSE /\ pc' = "idle"
       /\ result' = "fail"
       /\ UNCHANGED try

\* Rtu_Serial::writeSerial looks at the port, SerialPort::write looks again.
writeSerial ==
  /\ pc = "serial"
  /\ IF isOpen THEN pc' = "write" /\ UNCHANGED <<try, result>> ELSE AttemptFails
  /\ UNCHANGED <<port, device, stopped, cmd, array, clears>>

write ==
  /\ pc = "write"
  /\ mWriteArrays' = IF isOpen THEN Append(mWriteArrays, Current) ELSE <<>>
  /\ pc' = "read"
  /\ UNCHANGED <<isOpen, mSerialData, wire, device, stopped, cmd, try, array, result, clears>>

\* Mutant: the wait is shorter than the device takes.
readGivesUp_Impatient ==
  /\ pc = "read"
  /\ stopped \/ ~isOpen \/ mSerialData = <<>>
  /\ AttemptFails
  /\ UNCHANGED <<port, device, stopped, cmd, array, clears>>

\* Mutant: the wait has no end.
readGivesUp_Never ==
  /\ pc = "read"
  /\ stopped \/ ~isOpen
  /\ AttemptFails
  /\ UNCHANGED <<port, device, stopped, cmd, array, clears>>

\* readSerial comes back empty-handed: the test has ended, the port is closed,
\* or the time is up.
readGivesUp ==
  /\ pc = "read"
  /\ stopped \/ ~isOpen \/ (mSerialData = <<>> /\ (env.Slow \/ Quiet))
  /\ AttemptFails
  /\ UNCHANGED <<port, device, stopped, cmd, array, clears>>

\* read sees data and sleeps for the rest of the reply.
readWaits ==
  /\ pc = "read"
  /\ isOpen
  /\ mSerialData # <<>>
  /\ pc' = "settle"
  /\ UNCHANGED <<port, device, stopped, cmd, try, array, result, clears>>

copyData ==
  /\ pc = "settle"
  /\ env.Slow \/ Quiet
  /\ array' = mSerialData
  /\ pc' = "take"
  /\ UNCHANGED <<port, device, stopped, cmd, try, result, clears>>

\* Mutant: what has been taken stays in the buffer.
takeData_Keeps ==
  /\ pc = "take"
  /\ pc' = IF array = <<>> THEN "read" ELSE "judge"
  /\ UNCHANGED <<port, device, stopped, cmd, try, array, result, clears>>

\* mSerialData.clear(): the timer takes no lock, so what it appended since the
\* copy is lost, or its append brings everything back.
takeData ==
  /\ pc = "take"
  /\ \/ mSerialData' = <<>>
     \/ mSerialData # array /\ UNCHANGED mSerialData
  /\ pc' = IF array = <<>> THEN "read" ELSE "judge"
  /\ UNCHANGED <<isOpen, mWriteArrays, wire, device, stopped, cmd, try, array, result, clears>>

rtuRecvCrc ==
  /\ Len(array) = 2
  /\ array[1].part = "head"
  /\ array[2].part = "tail"
  /\ array[1].of = array[2].of

\* Rtu_Write::write: the function code is looked at, but ret is already true.
judge ==
  /\ pc = "judge"
  /\ IF rtuRecvCrc THEN pc' = "idle" /\ result' = "ok" /\ UNCHANGED try ELSE AttemptFails
  /\ array' = <<>>
  /\ UNCHANGED <<port, device, stopped, cmd, clears>>

-----------------------------------------------------------------------------
Caller == writeSerial \/ write \/ readGivesUp \/ readWaits \/ copyData \/ takeData \/ judge

Device == (\E refused \in BOOLEAN : deviceAnswers(refused)) \/ requestLost

Step ==
  \/ timeoutDone \/ close \/ open \/ clearStartEleSlot \/ startTest \/ endTest
  \/ Device \/ fragmentArrives
  \/ sentRtuCmd \/ Caller

Next == Step /\ UNCHANGED env

Spec == Init /\ [][Next]_vars

\* The timer fires, the core thread is scheduled, the device works its input
\* off; nobody has to click, and nothing has to fail.
Fairness ==
  /\ WF_vars(timeoutDone /\ UNCHANGED env)
  /\ WF_vars(Caller /\ UNCHANGED env)
  /\ WF_vars(Device /\ UNCHANGED env)
  /\ WF_vars(fragmentArrives /\ UNCHANGED env)

FairSpec == Spec /\ Fairness

-----------------------------------------------------------------------------
\* A device that answers in time and refuses nothing, on a port nobody else
\* uses or closes; requests, fragments and writes may still get lost.
Calm == ~(env.Slow \/ env.EarlyEnd \/ env.Unplug \/ env.Refusals) /\ env.MaxClears = 0

TypeOK ==
  /\ env \in Scenarios
  /\ isOpen \in BOOLEAN /\ stopped \in BOOLEAN
  /\ mWriteArrays \in Seq(Requests) /\ sent \in Seq(Requests)
  /\ \A s \in {mSerialData, wire, line, array} : s \in Seq(Fragments)
  /\ carriedOut \subseteq ({"core", "gui"} \X Nat)
  /\ pc \in {"idle", "serial", "write", "read", "settle", "take", "judge"}
  /\ cmd \in Nat /\ try \in 1..env.Attempts /\ clears \in Nat
  /\ result \in {"none", "ok", "fail"}

\* The half-duplex rule: what read hands to the caller is the reply to the
\* request it has just written, or a part of it, and nothing older.
OwnReply == Calm /\ pc = "judge" => \A i \in DOMAIN array : array[i].of = Current

\* "if(fn < 0x80) { // set normally" (rtu_write.cpp): a command reported as
\* carried out has been carried out.
SuccessMeansDone == result = "ok" => <<"core", cmd>> \in carriedOut

\* Each attempt is written to the port once: no request waits twice, and none
\* waits that is on its way already.
SentOnce ==
  LET q == sent \o mWriteArrays IN \A i, j \in DOMAIN q : q[i] = q[j] => i = j

\* Every command returns: a dead device, a closed port or an ended test do not
\* hold the core thread.
CommandReturns == pc # "idle" ~> pc = "idle"

\* Every queued request is sent or thrown away.
QueueDrains == mWriteArrays # <<>> ~> mWriteArrays = <<>>

Promise == INSTANCE RtuPromise WITH
  calling <- pc # "idle",
  done <- <<"core", cmd>> \in carriedOut,
  verdict <- result

\* Under Calm a command is what RtuPromise says: it succeeds only if it was
\* carried out, and nothing of it happens after it has returned.
KeepsPromise == Promise!Init /\ [][Calm => Promise!Next]_<<pc # "idle", <<"core", cmd>> \in carriedOut, result>>
=============================================================================
