# BusbarTest: TLA+ models, checks and proofs

BusbarTest is a Qt program for a production line. An operator connects a busbar
monitoring box (a "start box" with SNMP and UDP, or an "insert box" with an RS485 link
only), clicks start, and the program reads the box, compares currents, voltages and
settings with those of a reference source, has the load switched off, checks again, and
enters a verdict in a tally and in the databases. What must not go wrong is short to say:
a box with a fault is never passed, every test is counted once, the order is delivered
exactly, no dialog or timeout leaves the bench hanging.

It is hard because three threads and two timers meet in unlocked shared fields:

    GUI thread ---- Home_WorkWid timer/button/dialogs, Td_StatusTabWid timer,
       |            SerialPort's timer (all serial I/O), SNMP session (event driven)
       |  sProgress {step, result, pass, itPass, item, status}, mItem->cnt, mRet
    core thread --- Test_CoreThread::run -> workDown: reading, checks, verdict, tally
       |            calls the Modbus layer: mWriteArrays / mSerialData of SerialPort
    UDP thread ---- Test_NetWork::workDown: items reported by the box itself

Contents: [modules](#modules), [core](#the-test-run-testrun), [checks](#readings-and-checks-boxcheck),
[lists](#the-progress-lists-progresslist), [serial port](#the-serial-port-serialport),
[SNMP](#the-snmp-session-and-its-client-snmpsession-snmpclient),
[tables and accounts](#tables-and-accounts-tableview-users), [ledger](#the-tally-across-restarts-ledger),
[runs](#runs), [findings](#findings), [proofs](#proofs), [inventory](#inventory-of-the-program),
[not modelled](#not-modelled), [plan](#plan).
`PROJECT.json` ties every definition to its lines, every property to a mutation of the
model that breaks it, and lists the hazards with the properties that cover them.

## Modules

| module | what it is |
| --- | --- |
| `TestRun` | one test from click to tally: GUI thread, core thread, UDP thread |
| `TestVerdict` | abstract: begin, fault, one truthful entry, orders; `TestRun` implements it |
| `TestRunProofs` | type correctness, inductive invariants and the refinement, for every order and number of starts |
| `CheckGroups` | the order of the check groups and the verdicts they can return; shared by the next and `TestRun` |
| `BoxCheck` | the inside of the groups: reading the box and judging it item by item |
| `BoxCheckProofs` | no defect passes, sound boxes pass, passed boxes were cleared, for every number of lines, boxes, readings and set of defects |
| `ProgressList` | the four lists through which items reach the screen |
| `ProgressListProofs` | all its invariants, for every set of scenarios |
| `SerialPort` | the RTU port, its timer, the Modbus caller with its retries, cable and device |
| `RtuPromise` | abstract: what one Modbus command promises its caller; `SerialPort` implements it |
| `SerialPortProofs` | types, each request once, own reply and the promise, for every set of scenarios |
| `SnmpSession` | queue of jobs, awaited id, timer, agent and lossy network |
| `SnmpClient` | the wrapper above the session, composed with it: shared lists, a caller that gives up |
| `SnmpProofs` | all safety properties of the two, for every agent, network and number of jobs |
| `TableView` | a database table, the page that shows a copy of it, the timer that trims it |
| `Users` | `TableView` as log page and as account page, with the login and the dialogs |
| `UsersProofs` | types, deletions and trims of `Users`, for every limit, number of ids and accounts |
| `Ledger` | tally and customer in memory, in the settings object and in its file; restarts |
| `LedgerProofs` | the group stack, the rows and the tally across restarts, for every set of orders and scenarios |
| `SequenceMembers` | lemmas about what a sequence holds and whether once; used by three of the proof modules |
| `MC*` | give the modules to TLC; the constants are in the `.cfg` files |

Where one module has to be looked at under different conditions, its constant `Scenarios` is
a set of records of bounds and of what the environment may do; a behaviour picks one at its
start and keeps it (`env`). A property that holds under some conditions only says so itself
(`Calm => ...`), so that one run asks all the questions about a module.

`TestRun` takes a check group as a whole, a device reading as a step that may fail and the
lists as written; `BoxCheck` is the inside of the groups and of the reading, `SerialPort` of
one request on the RTU link, `ProgressList` of the lists. They are separate modules, not one
composed specification. What ties `BoxCheck` to `TestRun` is checked: the invariant
`ReturnsAsAssumed` says that the groups return nothing but what `TestRun` lets them
(`MaskedRet`), in the order both take from `CheckGroups`. The others share only `step`, and
each lets `step` end a test at any moment the other could.

## The test run (`TestRun`)

State: `step`, `result` are `sProgress`'s; `user`, `num`, `all`, `ok`, `err` are
`mItem->user` and `mItem->cnt`; `mRet` is `Test_CoreThread::mRet`; `mFirst` and `shown`
belong to `Home_WorkWid`. `pc` is where the core thread stands, `ret` workDown's local,
`failed` whether a check of the running group has failed. `asked` counts `noLoadSig`
events in the GUI thread's queue, `loads` the "switch off the load?" dialogs on the
screen, `prompt` the dialog under them, `starting` the point between `mPacket->init()`
and `QThread::start`. `recorded`, `fault` and `overtaken` are history variables.

| actions | code |
| --- | --- |
| `startBtn_clicked`, `confirmFirst`, `initWid`, `threadStart` | home_workwid.cpp, the start button: the guard on `step`, the question about the first piece, the check of user and order, `init()`, `start()` |
| `endBtn_clicked`, `answerEnd` | the same button in a running test: the question, then `result` and `updateResult` without a second look at `step` |
| `noLoadSlot`, `noloadHomeSlot` | the queued signal and the modal dialog that writes `mRet` |
| `timeoutDone` | the timer that turns `Test_Over` into a displayed result and `Test_End` |
| `workDown`, `readDev`, `checkFails`, `phaseReturns`, `askNoLoad`, `answered`, `volReturns` | test_corethread.cpp: the reading, the groups of checks in their order, the no-load loop, the voltage checks |
| `countTest`, `judgeTest`, `workResult`, `runReturns`, `threadFinished` | Test_Logs::writeLog, its counters one by one, and the two assignments of `Test_Over` |
| `udpItem`, `udpReport` | Test_NetWork::workDown: the look at `step` and the later report |

Things the code does that the model keeps and a reader may not expect:

- After a failed reading, or a failed group, the no-load question is asked all the same
  and the voltages are checked; `workDown` returns *their* verdict. No false pass follows,
  because a failing item has already set `result` (`Test_Logs::updatePro`) and
  `readDev`'s failure sets it too. That is why the invariant relates `fault` to `result`
  and not to `ret`.
- Several groups return a verdict that ignores a failed check (`MaskedRet`): `envErrRange`
  returns the last sensor's, `checkAlarmErr` is overwritten by the last line, `checkBaseInfo`
  has none. The test then goes on, with `result` set. (`factorySet`'s comparison of the mode
  of a start box would be another, but the `ip.addr` it asks for is never assigned.)
- Answering "no" to the no-load question lets the test go on like "yes".
- `compareInsertValue` moves `step` to `Test_vert` even when the test has been ended early.
- `mLogItems` is always empty: `appendLogItem` asks for a serial number, which only
  `snEnter` sets and nothing calls; so `writeLogs` writes nothing and is left out.

Bounds: an order of 2 and 3 starts, so that a failed test can come before, between and
after the passing ones and the order can run out with a start to spare. `modeId` does not
change within a behaviour; that the combo box is enabled during a test is a listed hazard
without a property (set_workwid.cpp:85).

After an early end the start button works although the core thread still runs, and the model's
operator may use it at any such moment: `init()` then resets `step` and `result` under the running
thread, `QThread::start` does nothing (unless the thread finishes just before it), and the old
thread goes on with its checks and enters its verdict, a pass if nothing fails after the reset.
`overtaken` marks such a start until the next one in time. That the overtaken test can be
entered, or shown, as a pass in spite of a failure is what the code does; the properties are stated
for every operator and say what it leaves intact:

- `NoFalsePass`: an entry "fail" always has a reason; a reason always gives "fail" unless the
  last start overtook. So an early restart spoils its own entry and not the next one.
- `ShownPassIsRecorded`, with the same exception.
- `OrderBalance`: passed and outstanding boxes make the order, or one box more while `overtaken`,
  however many such starts there were. The one more is real: a start whose check of `num` comes before
  the last box's entry and whose thread begins after it.
- `TallyAddsUp`, `OneAnswerPerQuestion` and `RunEnds`: without exception.
- `StartEnds`: every start that did not overtake ends on the screen.

`TestVerdict` has the exception as actions of its own, `Overtake` and `StartLost`, and lets an entry
be a pass after a fault, or a test stay open after its entry, only while `overtaken`.

Fairness (`FairSpec`): the threads are scheduled, the event loop turns, and whoever sees
a modal dialog answers it. No click on a button and no failure is assumed.

## Readings and checks (`BoxCheck`)

State: `modeId`, `ip_mode`, `ip_residual`, `eleCheck` are the settings, `data` is the shared memory
(`mBusData->box[addr - 1]` of both kinds of box: number of lines, base values, sensors, values
per line), `reState` the start box's residual current option in it, `rtuAddr` is `mRtuPkt->addr`. `pc` is the reading or group under way, `todo` the items
up to the end of the line or group, `tries` the loop counter of the item, `ret` and `res` the
group's locals, `result` whether `sProgress::result` is `Test_Fail`. `box` is the box itself:
its lines, its meters, and at most one defect, named after the item that has to find it. A value
is not a number but the defect it shows, whether it was read at a moment when the reference
agreed (`steady`), and the count of the meter. `cleared` are the lines whose meters were cleared in
this test (history). Boxes are tested one after another, and what the
program keeps (`data`, `rtuAddr`) meets the next box.

| actions | code |
| --- | --- |
| `startTest` | a box is put on the bench, the settings are made, `initWid` |
| `energyCounts` | environment: the meters count once, at any moment of the test, as the load stays on until the no-load question and beyond it if the answer is "no"; a count between the clearing and the reading after it is noted (`counted`) |
| `initDev`, `readDev_link`, `readDev_walk` | test_corethread.cpp:49, Test_DevRead::readDev: the ignored first reading, six attempts on the RTU link, the SNMP walk of a start box |
| `judgeAgain`, `judge`, `skip` | the item checks, with the loop that reads again, and the conditions under which an item is left out |
| `groupReturns`, `volReturns` | workDown: the next group, or the voltages |
| `eleClean`, `factoryReads` | factorySet: the clearing line by line, the reading after it |

`readRtu` and `readWalk` are the readings every one of these uses: a lost reply, a damaged one
(whose head is taken over before the CRC is looked at), a reply of the wrong expected length, an
intact one of another box (returns TRUE and stores nothing), a walk that breaks off after some
of its parts (base values, then the lines, then the sensors) and counts as read all the same.

The residual current option is kept apart because it comes another way than the rest:
`compareStartInfo` compares `reState`, which an RTU reply brings (`StoreOption`) and the SNMP walk does
not, since its last item of this kind goes to `lpsState`. With SNMP chosen (`OptionUnread`) the option
judged is that of an earlier box, or the zero of new memory; this is a finding (`box_check_option`).

What is checked: no box with a defect passes, but for a wrong residual current option under SNMP; a
sound box fails only for a reason outside of it (`events`), or under SNMP because `reState` is not the
option set; every meter of a passed box was cleared in its test; the groups return what `TestRun`
assumes. Each has several things against it: groups that end early, items skipped after a failed one,
verdicts overwritten by later items, readings that replace values *and the number of lines* under the
loop, meters that count at any moment, a clearing whose outcome is ignored, and a memory that still
holds the box before. The properties about what passes are for tests in
which no reading returned TRUE without bringing all values (`AllRead`); when one does, the values
of an earlier box may be judged (a listed hazard, with both lines). `PassedIsCleared` does not say that
the meters are at zero: with the load on they may count again between the reading and the end of the
test, and the program cannot see it. It is for tests with the energy check on: with it off, a box
whose meters were zero at the reading may count afterwards, and its counts are then taken for
cleared ones.

Bounds: 2 boxes (the second meets what the first left), 2 lines (the last line and one before
it), 2 readings per item (one repetition), 2 mishaps in all, three defects: one of a value that is read
again and skipped by a shorter loop, one of a threshold whose verdict is overwritten, and the
residual current option. A reply refused for its length is no mishap and is not
bounded: the program brings it about. `BoxAssumption` asks that a defect is one some item is there
to find: what no item looks at is found by nobody. Abstracted: the fields of a reply and their units; an RTU
reply is taken to hold every value the items look at (the line voltage and total power limits
come by SNMP only, and a start box is always walked before they are judged). The early
end, the no-load question and the reference source are `TestRun`'s.

## The progress lists (`ProgressList`)

`sDataPacket::updatePro` appends a verdict to `pass` and `itPass` and then a text to `item`
and `status`. Each of the four appends is an action (`append`), so is each of the four clears of
`init` (`clearList`) and each of the two assignments around them. `workTimeoutDone` and
`tableTimeoutDone` are the timers that take one row off; `showRow` on an empty verdict list
sets `crashed` (`first()` of an empty QList is an assertion in a debug build and undefined in
a release build). Items are whole records, so that a row joining the text of one with the
verdict of another is visible. A single append, read or removal is taken as atomic: that
QList and QStringList are not thread-safe at all is outside the model.

- `Calm`, the core thread alone and no start across an item: a row shows its own verdict, a test shown as passed lists no
  failure, and every item reaches the screen or is cleared by the next start.
- With both threads the first two no longer hold (TLC shows two interleaved
  appends swapping their verdicts, and a UDP failure after the result was shown). What
  holds: the rows of a thread keep their order, and without a start that clears the lists
  across an item (`Overlap`, history `torn`) the empty read cannot happen, because verdicts
  go in before texts. With `Overlap` the crash is reachable; so is a failing UDP item
  between the clear and the second `result = Test_Info` of `init`, which is listed in
  red and lost for the result.

Bounds: the core thread alone with 4 items and 2 starts; the core thread with 2 items and 2
starts that may cut an item; both threads with 2 items and 1 such start. A swap, a lost item or
a torn list needs two items; a third would repeat them.

## The serial port (`SerialPort`)

State: `isOpen`, `mWriteArrays`, `mSerialData` are `SerialPort`'s members, `wire` the input
buffer inside QSerialPort, `sent` and `line` the requests and replies under way.
`writeSlot`/`recvSlot` are the 100 ms timer in the GUI thread: a request goes out and clears
the data, or, with an empty queue, what has arrived is appended; a failing write drops the
queue. The caller is `sentRtuCmd`: up to `Attempts` (3) times `writeSerial`, `write`, then
`readSerial`, which returns empty-handed (`readGivesUp`) when the test has ended, the port is
closed or the time is up, and otherwise waits for the rest (`readWaits`, `copyData`,
`takeData`) and looks at the CRC (`judge`). `clearStartEleSlot` is the "clear energy" click:
the same `sentRtuCmd` in the GUI thread, where the reading returns at once, so the three
attempts are queued back to back and reported as failed.

`takeData` models the data race on `mSerialData`: `read` clears it under a lock that the
timer does not take, so bytes appended since the copy are lost or everything comes back.
Operations on the queue are atomic, a reply is two fragments, and the CRC is ideal: it
accepts exactly one whole reply. Baud rates, the 0xFF filter, `reflush` and the RK9800's own
port are left out.

The scenario says what the environment may do. Under `Calm` (a device that answers within the
caller's patience, no early end, nobody else on the port), on a line that loses requests,
fragments and writes: a reply belongs to its request, success means done, and the port
implements `RtuPromise`. Otherwise `OwnReply` fails: the clear on the next write empties
`mSerialData` but not QSerialPort's own buffer, and an ended test queues requests without
waiting. What holds in every scenario is that no request is sent twice by the queue, every
command returns, and the queue drains.

Bounds: 3 commands of 3 attempts where the traffic is orderly; 1 command of 2 attempts
plus one click where everything may happen at once. Two attempts are enough for a late reply
to meet a newer request, and the click adds a second writer to the queue.

Fairness: the timer fires, the core thread runs, the device works its input off and
fragments travel. Clicks, opening the port and failures are not assumed.

## The SNMP session and its client (`SnmpSession`, `SnmpClient`)

One action per entry point of `Session`: `addWork` (the three requests; a full queue drops
the job although the caller is given an id), `onResponseTimeExpired`, `onReadyRead`,
`setAgentAddress`; `startNextWork` includes the recursion by which a job that cannot be
written is cancelled and the next started from inside the failing call. The agent answers
with a value below the walk's OID or another, an error or a broken packet; the network
loses, reorders and repeats (`again`). Request ids are random in the code
and distinct here. The community and the length of the timeout are data.

After an error answer or a broken packet nothing is awaited and no timer runs, so
the current job hangs and everything behind it with it; that case is a finding, and
`AwaitsLastRequest` and `JobsEnd` are stated for a session that has had no such answer
(history `erred`).

`SnmpClient` extends the session and adds its caller: a thread puts its OIDs into
`mOids` (`requestValue`), clears `mValues` and `isErr` and polls them for a second
(`waitForRespond`, `respondReturns`); the 55 ms timer of the client's thread makes one job at a
time of a set command or an OID (`timeoutDone`), and two slots append what *any* job returns
(`slots`, part of every step in which the session ends a job; when one step ends several, those
behind the first failed to be sent and have no values). The session waits two seconds, so a
question that was given up leaves a job whose values land in the next question's answer.
`OneStaleJob` says what keeps this within bounds: since the timer makes a job only when the
session is not busy, there is one stale job at most, and its values come first. No time is
modelled: the two waits may end in either order.

Scenarios: callers that nothing holds back (2 jobs with walks of 2 values, 3 jobs with walks of
1, so that the queue limit of 1 overflows; 10 in the code) and the client (2 jobs, a set command
and repeated datagrams; 3 jobs without). A question has up to 2 OIDs, enough for one to be
asked for after the other was given up. Fairness is that of an active QTimer.

The present test flow reads SNMP through the vendored snmp_pp library
(dev_ipsnmp.cpp); `lineNumV3` and `devDataV1`, which ask the client, are called by nothing. The
two classes are modelled because they are the program's own protocol code.

## Tables and accounts (`TableView`, `Users`)

State: `rows` are the ids of a table, `lastId` SQLite's autoincrement counter, `view` the copy the page
shows and `current` the selection; `logCount` is `item->logCount`, `setting` what the file
says. `autoDelSlot` and `countsRemove` are the two halves of the trim, between which the core
thread may insert (`insertLog`). `Users` adds `account` (name and rights), the login (`land`, and
`user`, the copy made of the account) and one open modal dialog `dlg`: while it is open, only the
timer and the core thread move. `crashed` is `findById(...).first()` on an empty result.

What the model keeps: `delSlot(int)` ignores the id it is given and removes the row selected now;
the trim refreshes the page *before* it deletes, so the page shows rows that are gone;
`countsRemove` counts from the smallest id, so that gaps make it delete too few; the
rights of the login outlive a change of the account. Against all that: the account removed is the
one the operator was asked about and never his own (`DeletesWhatWasAsked`), names stay unique
(in `TypeOK`), a trim takes the oldest rows and never too many (`TrimKeepsNewest`) and repeated
trims reach the limit (`TrimConverges`), and the page meets a missing row only after a trim
(`CrashNeedsTrim`).

Bounds: ids up to 5, the unit of the limit 2 rows instead of 10000 (the properties compare numbers
of rows with the limit and never with 10000), settings 1 and 2, 3 names, 1 restart. Fairness:
the timer goes on, also under a modal dialog, as QDialog::exec runs the event loop. Passwords are
right or wrong; the contact data, filters and export change nothing here. The button that refreshes the
page (sqlbtnbar.cpp:61) is left out: on the account page `cancel` ends in the same refresh, and on the
log page nothing that is checked looks at what the page shows.

## The tally across restarts (`Ledger`)

The same counters as in `TestRun`, but from where they are kept. `item` is `Cfg::item`, `ini` the
QSettings object, `disk` its file. `CfgCom::write` and `read` are three calls (`beginGroup`,
`setValue`, `endGroup`), each a step of the thread that makes it, and `groups` is the one group stack
both threads push and pop: a key written while the other thread's group is open goes to a place
nobody reads. `program[t]` is what a thread still has to access, `flush` the event loop that
writes the file, `restart` an end of the program at any moment. `countTest`, `judgeTest` and
`insertItem` are `Test_Logs::writeLog`; `on_setBtn_clicked`, `saveFunSlot` (50 ms later) and
`setAddr` the settings page.

Checked: the stack is balanced at rest (in `TypeOK`); an end of the program, wherever it
hits, costs the tally one entry at most (`CrashCostsOne`); every row names the customer of the order
saved last, although the end of an order clears the user in memory and in a group nobody reads, so
that a restart brings him back (`RowsNameCustomer`: the number 0 is what keeps him from being used).
Both are for orders in which page and entry did not overlap and which had reached the file before a
crash; the history variable `mixed` marks the others. What an overlap does is visible without it: a
test begun for one customer is counted and named for the next, and keys get lost.

Scenarios: 3 tests, 1 save, 2 crashes, an order from before, no overlap; 1 test and 2 saves
with overlap. Three tests are an order of two with a failed one in it. QSettings itself is taken as
intact: that two threads may corrupt it altogether is outside the model.

## Runs

| run | bounds | shows |
| --- | --- | --- |
| `test_run` | order 2, 3 starts, any operator; 45k states, 10 s | tally, no-load question and end of every run without exception; verdict, display, order and `TestVerdict` but for tests that an early restart overtakes |
| `progress_list` | 3 scenarios, see above; 27 s | own verdict, a pass lists no failure, everything is shown; with two producers the order of rows, and a crash needs a start that cuts an item |
| `serial_port` | 3 commands, 3 attempts, lossy line; 1 command, 2 attempts, 1 click, everything else allowed; 40 s | own reply; implements `RtuPromise`; nothing sent twice, commands return, queue drains |
| `serial_port_refusal` | 1 command, exception replies | violation of `SuccessMeansDone`, see findings |
| `snmp_client` | 4 scenarios, 508k states, 50 s | values belong to their job and step, jobs end once in order, one stale job at most; without an error answer the last request is the awaited one and every job ends |
| `snmp_session_resend` | 1 job | violation of `ResendIsAwaited`, see findings |
| `box_check` | 2 boxes, 2 lines, 2 tries, 2 mishaps, 3 defects; 2.2M states, 140 s | no defect passes, sound boxes pass (both but for the residual option under SNMP), passed boxes were cleared, groups return what `TestRun` assumes |
| `box_check_length` | 1 box, 1 line, no mishap | violation of `CompleteIsTaken`, see findings |
| `box_check_option` | 1 box, 1 line, no mishap | violation of `ComparedIsActual`, see findings |
| `users` | ids up to 5, 3 names, 1 restart; 765k states, 60 s | deletions are those asked for, names unique, trims take the oldest and converge, a missing row needs a trim |
| `log_limit` | logs only, 4 ids | violation of `TrimKeepsConfigured`, see findings |
| `ledger` | 2 scenarios, 6.9M states, 65 s | a crash costs one entry, rows name their customer, the group stack stays balanced |

`CHECK_DEADLOCK FALSE` everywhere: with its bounds on clicks, items and jobs used up the
system rightly stops, waiting for an operator. That it does not stop in the middle of
something is what the liveness properties say. No state constraint and no symmetry is used:
every bound is a guard on a named constant.

Run by run: `tlc -workers 2 -config MCTestRun.cfg MCTestRun`.

## Findings

1. A Modbus exception reply is reported as success: `ret` is true from the CRC check and the
   branch on the function code ("set normally", rtu_write.cpp:47) never clears it.
2. "The last request will be resend with new ID" (Session.cpp:374): it is written with its
   old id, with no id awaited and no timer, and the job never ends.
3. "Judge whether the received data is complete" (dev_sirtu.cpp:572) expects the length of the
   kind of box that answered *before*, at first that of an uninitialised packet: an intact reply
   of a start box is refused unless the packet before came from address 1, one of an insert box
   if it did.
4. The limit of the tables counts in ten thousands (the suffix of the spin box, 万条,
   setup_mainwid.ui:355, and `value * 10000`, setup_mainwid.cpp:58), but the save button assigns the
   bare number (line 66). Until the next start the timer trims every table to that many rows.
5. What the list calls the actual residual current option of the start box (`始端箱剩余电流实际值`,
   test_errrange.cpp:375) is `reState`, which only an RTU reply writes (dev_sirtu.cpp:202). The SNMP walk
   has no case for it (dev_ipsnmp.cpp:236-263), and with SNMP chosen no RTU reply is stored: a
   sound box fails if the option is set, and one without the module passes after one that had it.

## Proofs

`TestRunProofs` proves, for every `Order`, `MaxStarts` and every operator, from
`RunAssumption` alone:

- `TypeCorrect`: `TypeOK`. For the counters the argument is only that they never go below
  zero; Boolean variables are in the lemma `FlagsTyped`, since arithmetic and Boolean-valued
  variables need different provers.
- `TallyCorrect`: `TallyAddsUp` is inductive on its own, given the types.
- `HandshakeCorrect`: `OneAnswerPerQuestion` through `HandshakeInv`, which adds that the
  voltage checks run with the answer still in `mRet`; without it the reset at their end
  would not be known to remove one.
- `VerdictCorrect`, `DisplayCorrect`, `OrderCorrect`: through `VerdictInv`, of which one part holds of
  every run and the other (`RunInv`) of a run that no start has overtaken. The three lean on each other. `result` must tell the truth at the moment of
  the entry, hence from `init()` on (`fault <=> result = Test_Fail`); `init()` may only
  happen when no test runs, which rests on what `step` says about `pc`
  (`Test_Over` only at the end of a run; `Test_End` during a test only after a fault, the
  early end); and the order can only be taken down by one because a test only begins with
  `num > 0` and nobody else takes from it. What makes the exception end is that a start which finds the
  thread idle restores all of `RunInv`, whatever came before. `OrderInv` bounds what an
  overtaking start can do to the order: the box beyond it is passed in a run that begins with
  `num = 0`, after which neither a start nor a run is left that could pass another.
- `Refinement`: every step of `TestRun` is a step of
  `TestVerdict` or a stutter, under `testing <- InTest, faulty <- fault`.

`UsersProofs` proves, from `UsersAssumption` and `TableAssumption` (which asks for two ids, those of
the rows at the start):

- `TypeCorrect`: `TypeOK`, with `Separate` (the log page has no accounts and none of their
  dialogs), without which an action of a dialog would not be known to be about accounts. The
  least and greatest ids are CHOOSEn; that they exist is proved from the well-foundedness of `<`.
- `TrimCorrect`: `TrimKeepsNewest`. A trim removes ids of an interval of `excess` numbers, hence at
  most `excess` rows; `Surplus` says that since the count there have only come more rows and the
  limit is the same, because everything else that changes either of them waits for the trim.
- `CrashCorrect`: `CrashNeedsTrim` through `ShowsRows`: until a trim the page shows rows that exist,
  and a dialog keeps the id of one while it is open.
- `DeleteCorrect`: `DeletesWhatWasAsked` through `Asked`: while the question is open the selection
  is the account asked about, which is not one's own, or none.

`ProgressListProofs` proves all five invariants, from `ListAssumption`, for any threads, items and
starts:

- `TypeCorrect`: `TypeOK`; the item under way is one of its own thread.
- `CrashTakesInit`: `CrashNeedsInit` through `Lengths`. That a row is taken when there is a text but no
  verdict cannot be excluded by the lists alone: a list of verdicts leads its list of texts by the
  number of threads that stand between the two appends, which a tearing start breaks.
- `RowsKeepOrder`: `RowsInOrder` through `Order`: rows, texts and the items under way are ascending
  for each thread, so the order survives that removals come from one end and appends to the other.
- `RowsPair`: `OwnVerdict` (in a calm test) through `Matched`: the verdicts are the texts and the one
  item whose text is still to come.
- `PassShowsNoFailure`: `PassListsNoFailure` through `Judged`: as long as the result is no failure, only
  the item under way may have failed, and no result is shown while there is one.

`SerialPortProofs` proves from `PortAssumption`:

- `TypeCorrect`: `TypeOK`. `RequestsSentOnce`: `SentOnce` in every scenario. Queue and log are free of
  repetitions and disjoint (`Ordered`), and what waits is of an attempt already made or a click
  already counted, so that the next one is new.
- `RepliesOwn`: `OwnReply` for calm scenarios, through `Steady` (the port stays open) and `Mine`:
  request, fragments on the line and in both buffers, and the copy of the caller are of the present
  attempt. It is not inductive without saying where each of them may be at which point of
  `sentRtuCmd`, which is why the clear on the next write is enough.
- `PromiseKept`: the step simulation of `RtuPromise` under the same conditions, with `Past` (only
  commands up to the present one have been carried out).

`SnmpProofs` proves from `SessionAssumption` and `ClientAssumption`:

- `ClientRunsSession`: a behaviour of `SnmpClient` is one of `SnmpSession`: the client adds its own
  variables and never touches the session's but through its actions.
- `TypeCorrect`, `LastRequestAwaited` (`AwaitsLastRequest` through `Sound`), `AnswersOwn` (`OwnAnswer`
  through `Network`, `Present` and `Past`: a datagram with the last id is the last request or its
  answer, all others have smaller ids), `JobsInOrder` (`InOrder` through `Covers`: ids of the results,
  then of the current job, then of the queue are the accepted ones in their order, also when one failing
  call ends a whole run of jobs by recursion).
- `OneStale`: `OneStaleJob` through `Single` (the timer makes a job only when the session is idle), `Stale`
  and `Heard` (the values heard so far end with those of the question's own jobs).

`BoxCheckProofs` proves from `BoxAssumption`, for any number of boxes, lines, repetitions and mishaps
and any set of defects that items look for:

- `Outcome`, the lemma under everything: a reading stores nothing, or brings all values of the box, or
  is recorded as one that returned TRUE and left old values in place (`stale`).
- `TypeCorrect`, and `GroupsReturn`: `ReturnsAsAssumed` through `Returns`, which says what the group's two
  locals are as long as no check has failed.
- `DefectsFound`: `NoDefectPassed`, for every defect but a residual option that nobody has read. `Told`:
  with RTU chosen the option in the memory is the box's own from the RTU link on, through the walk and
  the readings after it. `Known`: as long as nothing failed and nothing was stale, the groups see
  the box's own values *and number of lines*. `Awaits`: then the item that finds the defect is
  still to come, in this line, in a later one, or in a later group. It must follow the item through the
  loop that reads again, the items that are skipped, the groups that return early, and from one
  group to the next.
- `MetersCleared`: `PassedIsCleared` through `ClearedAt`, an account per line of whether it was cleared, what
  was last read of it and how far the judging has come, which survives that the meter counts at any
  moment.
- `SoundPasses`: `SoundBoxPasses` through `Sound`: as long as there is no reason outside of the box, values
  are good ones read at a good moment, only lines that the box has are judged, and the residual
  option is the one set unless SNMP left it unread.

`LedgerProofs` proves from `LedgerAssumption`, for any number of tests, saves and crashes:

- `TypeCorrect`: `TypeOK`, in which the group stack is as deep as there are threads inside of a group.
  For the values the argument needs what each thread is about to set (`Taken`), and that a core thread has
  accesses only while it saves (`Reached`).
- `RowsCorrect`: `RowsNameCustomer` through `Apart` and `Named`. `Apart`: as long as page and entry have not
  overlapped, one thread at a time has any accesses and the open group is its own, so that a write
  hits the key it means. `Named`: in memory, on the way to the settings, in the settings and in
  the file there is the customer or nobody, each from the moment on at which it has been written.
- `TallyKept`: `CrashCostsOne` through `Unwritten` (a counter of the settings that differs from the one in
  memory is still to be written), `Kept` (the file is the memory of before the entry, of after
  it, or a mixture) and `Counts` (the tally at each step of an entry). The mixture is the point: each of the
  three comparisons is off by one at most *whichever* of the four keys had been written.

The step proofs go through the actions one by one. With them every invariant and every safety property
of the runs is proved for all values of the constants. What stays with TLC: liveness (`RunEnds`,
`StartEnds`, `AllShown`, `CommandReturns`, `QueueDrains`, `JobsEnd`, `TrimConverges`), which needs
fairness and ENABLED, and the five violations, which are counterexamples.

## Inventory of the program

| component (src/) | state | operations | interacts with | what makes it correct |
| --- | --- | --- | --- | --- |
| test run (cores/test_corethread, home/home_workwid) | step, result, mRet, mFirst, counters | start, end early, run, no-load question, result | all below, by calls, one queued signal and shared fields | verdict, tally, order and display agree; always ends. **modelled** |
| test logs (cores/test_logs) | mLogItems, counters | updatePro, saveLogs, writeLog(s) | sProgress, databases, settings | one truthful entry per test. **modelled**, SQL left out |
| device reading (cores/test_devread) | none | checkNet, readSn, readDev | devices, sProgress | failure sets the result. **modelled**, values in `BoxCheck` |
| UDP reports (cores/test_network, common/network) | receive queue | workDown | sProgress through Test_Logs | a failing item makes its own test fail. **modelled**, queue left out |
| progress (common/datapacket) | four lists, step, result | init, updatePro, delay | two producers, two timers | rows join the right verdict; no empty read. **modelled** |
| serial port (common/serialport) | queue, buffer, isOpen | open, close, write, read, timer | Modbus layer, GUI | half duplex: own reply only. **modelled** |
| Modbus RTU (common/modbus) | none | read, write, transmit | serial port | success means done. call discipline **modelled**; packing, CRC not |
| device control (ctrls, cores/test_devctrl) | none | set thresholds, clear energy, set type | Modbus, SNMP | retries do not repeat what succeeded. `sentRtuCmd` **modelled** |
| SNMP session (common/snmpclient/snmplib) | job queue, current job, id, timer | requests, timeout, datagram | UDP socket | values belong to their job; every job ends. **modelled** |
| SNMP wrapper (common/snmpclient/snmpclient) | mOids, mSetCmdList, mValues, isErr | requestValue, setValue, 55 ms timer | session, core thread | an answer holds the values asked for, and of one earlier job at most. **modelled** |
| error ranges (cores/test_errrange) | none | range checks, factory settings | measured data, logs | groups report what their checks said. **modelled** in `BoxCheck`, limits are data |
| device data (devices) | measured values, offline flags | readPduData, parsing | Modbus, snmp_pp, reference source | judged values are fresh. **modelled** in `BoxCheck`, fields abstract |
| RK9800 source (common/RK9800) | serial port | readPacket | reference device | outcome only |
| serial numbers (sernum) | date and running number in the settings | create, read, write | Modbus | no number twice. left over, see below |
| settings (common/cfgcom, setting) | the items and their ini file | read, write, reset of the counters | tally | a restart restores the order but for one entry. counters and customer **modelled**, limits are data |
| databases (common/sqlcom, dbcom, logs) | tables | insert, trim by count, export | logs | the oldest rows are trimmed, the page acts on rows that exist. **modelled**, filters and export not |
| users (setups) | table of users, login time | log in, edit | GUI | the account asked about is removed, one's own never. **modelled** |
| GUI tables, messages, colours; main window; MAC addresses, printer, Excel | display | - | - | presentation and output, not modelled |
| JSON push, websocket | - | - | - | left over from another program, not built |
| smtplib, QtSingleApplication, snmp_pp | - | - | - | vendored |

Hard behaviours, in short: threads without locks (run, lists, buffer); a question left
on the screen while the world moves on; one step of several failing and its verdict being
overwritten; late, lost, duplicated replies; retries whose earlier copies are still under
way; waits without limit; a queue at its limit. The list with lines is in
`PROJECT.json` under "hazards"; those without a property are the work of the plan.

## Not modelled

- **Serial numbers** (sernum): nothing calls `snEnter`, and `readSn` wants a reply of 8 bytes
  where the present `Rtu_Read::read` returns the whole frame, so it cannot succeed.
- **Third-party code**: snmp_pp (headers of a library, most of the C++ lines of the repository),
  smtplib, QtSingleApplication. The program's use of snmp_pp is the walk in `BoxCheck`.
- **Interface**: widgets, charts, colours, `.ui` forms, navigation; they show state and change
  none that a check or a tally looks at. Printing, e-mail and Excel output.
- **Data**: limits and thresholds, units, field positions, texts; BER and Modbus encoding with
  the CRC. The models tell a right value from a wrong one, not why it is wrong.
- **Left over**: JSON push and websocket (a header they include does not exist), the marking table,
  dev_iprtu and the version 1 walk, the alarm writes, hubPort.
- **RK9800**: one half-duplex exchange on a port of its own; its outcome is a step of `TestRun`.

So the models cover the code that decides, and a small share of all lines.

## Plan

Done, in order of importance: `TestVerdict`/`TestRun`, `ProgressList`, `CheckGroups`/`BoxCheck`,
`RtuPromise`/`SerialPort`, `SnmpSession`/`SnmpClient`, `TableView`/`Users`, `Ledger`, all with proofs of
their safety properties.

Next, proving: that the groups of `BoxCheck` taken together are steps of `TestRun`'s `phaseReturns`
(`GroupsReturn` has the verdicts, not the steps); what each liveness property decreases, as an
action property (a command's attempts, a queue's length), so that only fairness is left to TLC.

Next, modelling: the change of the box type in the middle of a test (in `BoxCheck`); the receive
queue of the UDP thread, which is taken from under a read lock and has one consumer. Runs stay
few: a new question joins the run that already has its bounds.
