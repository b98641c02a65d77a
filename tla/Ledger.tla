------------------------------- MODULE Ledger -------------------------------
(***************************************************************************)
(* The tally of an order and its customer, in memory and in the settings   *)
(* file: the core thread enters each tested box (Test_Logs::writeLog), the *)
(* settings page replaces both at any time (Set_WorkWid), and the program  *)
(* may be gone at any moment and start again from the file.                *)
(*                                                                         *)
(* Both threads use one QSettings object without a lock. A write or a read *)
(* is three calls: beginGroup, setValue or value, endGroup; between them   *)
(* the other thread may push or pop its own group, and a key then lands in *)
(* a place nobody reads, or is read as missing. That the two calls corrupt *)
(* the object altogether is not modelled. QSettings writes its file from   *)
(* the event loop of the GUI thread, all of it at once.                    *)
(***************************************************************************)
EXTENDS Integers, Sequences, FiniteSets, SequencesExt

CONSTANTS
  Customers,   \* names an order can be for
  Orders,      \* numbers of boxes an order can have
  Scenarios    \* what a behaviour may contain, one of them each

NoName == "none"  \* the empty user

\* Bounds, whether there may be an order from before, and whether the settings
\* may be used while an entry is made.
Scenario == [tests : Nat, saves : Nat, crashes : Nat, begun : BOOLEAN, overlap : BOOLEAN]

ASSUME LedgerAssumption ==
  /\ NoName \notin Customers
  /\ Orders \subseteq Nat \ {0}
  /\ Scenarios \subseteq Scenario

Counters == {"num", "all", "ok", "err"}

\* The group each key is read from. "done" is the key "user" of a group that
\* nobody reads, to which writeLog writes when an order is complete.
Group ==
  [key \in Counters \cup {"user", "done", "addr"} |->
     IF key \in Counters THEN "BusbarCnt"
     ELSE IF key = "user" THEN "BusbarUser"
     ELSE IF key = "done" THEN "User" ELSE "BusbarSys"]

write(key) == [op |-> "write", key |-> key]
read(key)  == [op |-> "read", key |-> key]

writeCnt == << write("num"), write("all"), write("ok"), write("err") >>
initCnt  == << read("num"), read("all"), read("ok"), read("err") >>

\* Mutant: the customer is not written.
writeCfgDev_NoUser == << write("addr") >>

\* writeCfgDev: address and customer; the limits of the checks are left out.
writeCfgDev == << write("addr"), write("user") >>

Threads == {"core", "gui"}

VARIABLES
  env,       \* the scenario
  item,      \* Cfg::item: the counters and the user
  ini,       \* the same keys in the QSettings object
  disk,      \* and in its file
  groups,    \* the group stack of the QSettings object
  program,   \* per thread: the accesses it still has to make
  at,        \* per thread: the call it is about to make
  value,     \* per thread: the argument of its setValue
  core,      \* the core thread: "idle", "test", "judge", "save"
  row,       \* the user of the entry under way
  saveDue,   \* saveFunSlot is to come
  tests, saves, crashes,  \* bounds
  ordered, customer,      \* history: the order saved last
  logged,    \* history: rows entered since
  names,     \* history: their users
  cuts,      \* history: ends of the program since
  settled,   \* history: the order has reached the file
  mixed      \* history: page and entry have overlapped since, or the order was cut short

settings == <<ini, disk, groups>>
access   == <<program, at, value>>
bounds   == <<env, tests, saves, crashes>>
history  == <<ordered, customer, logged, names, cuts, settled>>
vars     == <<item, settings, access, core, row, saveDue, bounds, history, mixed>>

\* A new file, or one with an order that was saved before.
Init ==
  /\ env \in Scenarios
  /\ \/ customer = NoName /\ ordered = 0
     \/ env.begun /\ customer \in Customers /\ ordered \in Orders
  /\ item = [num |-> ordered, all |-> 0, ok |-> 0, err |-> 0, user |-> customer]
  /\ ini = item /\ disk = item
  /\ groups = << >>
  /\ program = [t \in Threads |-> << >>]
  /\ at = [t \in Threads |-> "begin"]
  /\ value = [t \in Threads |-> 0]
  /\ core = "idle" /\ row = NoName
  /\ saveDue = FALSE
  /\ tests = 0 /\ saves = 0 /\ crashes = 0
  /\ logged = 0 /\ names = {}
  /\ cuts = 0 /\ settled = TRUE /\ mixed = FALSE

Entering == core \in {"judge", "save"}
GuiFree  == program["gui"] = << >>

\* May the settings page and the entry of a test go on side by side?
MayOverlap == env.overlap \/ (~Entering /\ GuiFree)

-----------------------------------------------------------------------------
(* CfgCom::write and read, by either thread *)

beginGroup(t) ==
  /\ program[t] # << >>
  /\ at[t] = "begin"
  /\ LET key == Head(program[t]).key IN
     /\ groups' = Append(groups, Group[key])
     /\ value' = [value EXCEPT ![t] = IF key \in DOMAIN item THEN item[key] ELSE 0]
  /\ at' = [at EXCEPT ![t] = "value"]
  /\ UNCHANGED <<item, ini, disk, program, core, row, saveDue, bounds, history, mixed>>

\* The key is the one meant only if no other group is on the stack.
setValue(t) ==
  LET key == Head(program[t]).key
      own == groups = <<Group[key]>>
  IN /\ program[t] # << >>
     /\ at[t] = "value"
     /\ IF Head(program[t]).op = "write"
        THEN /\ ini' = IF own /\ key \in DOMAIN ini THEN [ini EXCEPT ![key] = value[t]] ELSE ini
             /\ UNCHANGED item
        ELSE /\ item' = [item EXCEPT ![key] = IF own THEN ini[key] ELSE 0]
             /\ UNCHANGED ini
     /\ at' = [at EXCEPT ![t] = "end"]
     /\ UNCHANGED <<disk, groups, program, value, core, row, saveDue, bounds, history, mixed>>

\* Mutant: the group stays open.
endGroup_Open(t) ==
  /\ program[t] # << >>
  /\ at[t] = "end"
  /\ program' = [program EXCEPT ![t] = Tail(@)]
  /\ at' = [at EXCEPT ![t] = "begin"]
  /\ UNCHANGED <<item, settings, value, core, row, saveDue, bounds, history, mixed>>

endGroup(t) ==
  /\ program[t] # << >>
  /\ at[t] = "end"
  /\ groups' = Front(groups)
  /\ program' = [program EXCEPT ![t] = Tail(@)]
  /\ at' = [at EXCEPT ![t] = "begin"]
  /\ UNCHANGED <<item, ini, disk, value, core, row, saveDue, bounds, history, mixed>>

\* The event loop of the GUI thread.
flush ==
  /\ GuiFree
  /\ disk # ini \/ ~settled
  /\ disk' = ini
  /\ settled' = (settled \/ ~saveDue)
  /\ UNCHANGED <<item, ini, groups, access, core, row, saveDue, bounds, ordered, customer,
                 logged, names, cuts, mixed>>

-----------------------------------------------------------------------------
(* The core thread *)

\* Home_WorkWid::initWid lets a test begin; the file has been written by then.
startTest ==
  /\ core = "idle" /\ GuiFree
  /\ item.user # NoName /\ item.num >= 1
  /\ disk = ini
  /\ tests < env.tests
  /\ tests' = tests + 1
  /\ core' = "test"
  /\ UNCHANGED <<item, settings, access, row, saveDue, env, saves, crashes, history, mixed>>

\* writeLog: the user is taken, the total counts.
countTest ==
  /\ core = "test"
  /\ MayOverlap
  /\ row' = item.user
  /\ item' = [item EXCEPT !.all = @ + 1]
  /\ core' = "judge"
  /\ mixed' = (mixed \/ ~GuiFree)
  /\ UNCHANGED <<settings, access, saveDue, bounds, history>>

\* Mutant: the passed box is not taken off the order.
judgeTest_NoNum(pass) ==
  /\ core = "judge"
  /\ item' = IF pass THEN [item EXCEPT !.ok = @ + 1] ELSE [item EXCEPT !.err = @ + 1]
  /\ program' = [program EXCEPT !["core"] = writeCnt]
  /\ core' = "save"
  /\ UNCHANGED <<settings, at, value, row, saveDue, bounds, history, mixed>>

\* The verdict counts; with the last box of the order the user is cleared, but
\* only in memory. Then the counters are written.
judgeTest(pass) ==
  /\ core = "judge"
  /\ LET left == IF item.num > 0 THEN item.num - 1 ELSE 0
         last == pass /\ item.num = 1
     IN /\ item' = IF pass
                   THEN [item EXCEPT !.ok = @ + 1, !.num = left,
                                     !.user = IF last THEN NoName ELSE @]
                   ELSE [item EXCEPT !.err = @ + 1]
        /\ program' = [program EXCEPT !["core"] =
                         IF last THEN <<write("done")>> \o writeCnt ELSE writeCnt]
  /\ core' = "save"
  /\ UNCHANGED <<settings, at, value, row, saveDue, bounds, history, mixed>>

insertItem ==
  /\ core = "save"
  /\ program["core"] = << >>
  /\ core' = "idle"
  /\ logged' = logged + 1
  /\ names' = names \cup {row}
  /\ UNCHANGED <<item, settings, access, row, saveDue, bounds, ordered, customer, cuts,
                 settled, mixed>>

-----------------------------------------------------------------------------
(* The GUI thread *)

\* "Save" on the settings page, which is open during a test as well: a new
\* order begins, its counters are written and read back.
on_setBtn_clicked(name, number) ==
  /\ GuiFree
  /\ saves < env.saves
  /\ MayOverlap
  /\ item' = [item EXCEPT !.num = number, !.user = name, !.all = 0, !.ok = 0, !.err = 0]
  /\ program' = [program EXCEPT !["gui"] = writeCnt \o initCnt]
  /\ saveDue' = TRUE
  /\ saves' = saves + 1
  /\ ordered' = number /\ customer' = name
  /\ logged' = 0 /\ names' = {} /\ cuts' = 0
  /\ settled' = FALSE
  /\ mixed' = Entering
  /\ UNCHANGED <<settings, at, value, core, row, env, tests, crashes>>

\* Fifty milliseconds later the customer is written too.
saveFunSlot ==
  /\ GuiFree
  /\ saveDue
  /\ MayOverlap
  /\ saveDue' = FALSE
  /\ program' = [program EXCEPT !["gui"] = writeCfgDev]
  /\ mixed' = (mixed \/ Entering)
  /\ UNCHANGED <<item, settings, at, value, core, row, bounds, history>>

\* The button of the work page, setAddr.
setAddr ==
  /\ GuiFree
  /\ core # "idle"
  /\ MayOverlap
  /\ program' = [program EXCEPT !["gui"] = << write("addr") >>]
  /\ mixed' = (mixed \/ Entering)
  /\ UNCHANGED <<item, settings, at, value, core, row, saveDue, bounds, history>>

-----------------------------------------------------------------------------
\* The program is gone and starts again from its file.
restart ==
  /\ crashes < env.crashes
  /\ crashes' = crashes + 1
  /\ cuts' = cuts + 1
  /\ item' = disk /\ ini' = disk
  /\ groups' = << >>
  /\ program' = [t \in Threads |-> << >>]
  /\ at' = [t \in Threads |-> "begin"]
  /\ value' = [t \in Threads |-> 0]
  /\ core' = "idle" /\ row' = NoName
  /\ saveDue' = FALSE
  /\ mixed' = (mixed \/ ~settled)
  /\ settled' = TRUE
  /\ UNCHANGED <<env, disk, tests, saves, ordered, customer, logged, names>>

-----------------------------------------------------------------------------
Access(t) == beginGroup(t) \/ setValue(t) \/ endGroup(t)

Next ==
  \/ \E t \in Threads : Access(t)
  \/ flush
  \/ startTest \/ countTest \/ (\E pass \in BOOLEAN : judgeTest(pass)) \/ insertItem
  \/ \E name \in Customers, number \in Orders : on_setBtn_clicked(name, number)
  \/ saveFunSlot \/ setAddr
  \/ restart

Spec == Init /\ [][Next]_vars

-----------------------------------------------------------------------------
Stored == [num : Nat, all : Nat, ok : Nat, err : Nat, user : Customers \cup {NoName}]

TypeOK ==
  /\ {item, ini, disk} \subseteq Stored
  /\ groups \in Seq({"BusbarCnt", "BusbarUser", "User", "BusbarSys"})
  /\ \A t \in Threads : program[t] \in Seq([op : {"write", "read"}, key : DOMAIN Group])
  /\ at \in [Threads -> {"begin", "value", "end"}]
  /\ core \in {"idle", "test", "judge", "save"}
  /\ cuts \in Nat /\ logged \in Nat /\ {saveDue, settled, mixed} \subseteq BOOLEAN
  /\ Len(groups) = Cardinality({t \in Threads : at[t] # "begin"})

AtRest == core = "idle" /\ GuiFree /\ ~saveDue

Near(a, b) == a - b \in -cuts..cuts
Remaining(number, passed) == IF number > passed THEN number - passed ELSE 0

\* Without an overlap the tally is exact: every row is counted, the total is
\* the sum of the verdicts, and what is left is what was ordered and has not
\* passed. An end of the program, at whatever call, costs at most one entry.
CrashCostsOne ==
  AtRest /\ ~mixed =>
    /\ Near(item.all, logged)
    /\ Near(item.all, item.ok + item.err)
    /\ Near(item.num, Remaining(ordered, item.ok))

\* Every row names the customer of the order saved last, across the end of an
\* order, which clears the customer in memory only, and restarts.
RowsNameCustomer == ~mixed => names \subseteq {customer}
=============================================================================
