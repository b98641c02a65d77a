---------------------------- MODULE LedgerProofs ----------------------------
(***************************************************************************)
(* Proofs about Ledger, for every set of customers, orders and scenarios:  *)
(* any number of tests, saved pages and ends of the program.               *)
(*                                                                         *)
(* While page and entry do not overlap, one thread at a time has anything  *)
(* to access, and the only open group is its own (Apart).  So a write sets *)
(* the key it means to, and a counter of the settings that differs from    *)
(* the one in memory is still to be written (Unwritten).  What an end of   *)
(* the program finds in the file is then a mixture of the counters before  *)
(* and after one entry (Kept), and starting from it adds one at most to    *)
(* what the tally may be off (Counts).  For the rows, the user who may     *)
(* come back from the file must be the customer or nobody (Named).         *)
(***************************************************************************)
EXTENDS Ledger, SequenceMembers, FiniteSetTheorems, TLAPS

Keys == DOMAIN Group
Places == {"BusbarCnt", "BusbarUser", "User", "BusbarSys"}
Calls == {"begin", "value", "end"}
Names == Customers \cup {NoName}

\* What a thread may have to do with the settings: the counters are read too.
Accesses == {write(key) : key \in Keys} \cup {read(key) : key \in Counters}

\* How many threads are inside of a group.
Depth(a) == Cardinality({t \in Threads : a[t] # "begin"})

\* The variables have their types; Booleans apart, for the provers' sake.
Typed ==
  /\ item \in Stored /\ ini \in Stored /\ disk \in Stored
  /\ groups \in Seq(Places)
  /\ program \in [Threads -> Seq(Accesses)]
  /\ at \in [Threads -> Calls] /\ value \in [Threads -> Nat \cup Names]
  /\ core \in {"idle", "test", "judge", "save"}
  /\ Len(groups) = Depth(at)
  /\ cuts \in Nat /\ logged \in Nat /\ ordered \in Nat
  /\ customer \in Names /\ row \in Names

Flags == saveDue \in BOOLEAN /\ settled \in BOOLEAN /\ mixed \in BOOLEAN

\* A thread inside of an access has one; only a core thread that saves has
\* any, and it writes only.
Reached ==
  /\ \A t \in Threads : at[t] # "begin" => program[t] # << >>
  /\ program["core"] # << >> => core = "save"
  /\ \A i \in DOMAIN program["core"] : program["core"][i].op = "write"

\* What beginGroup has taken along has the type of its key.
Taken ==
  \A t \in Threads : at[t] = "value" =>
    LET key == Head(program[t]).key IN
    IF key \in Counters THEN value[t] \in Nat ELSE key = "user" => value[t] \in Names

-----------------------------------------------------------------------------
(* Accesses, the settings under a key, and the depth of the stack *)

\* The keys by name.
LEMMA KeysAre ==
  /\ Keys = Counters \cup {"user", "done", "addr"}
  /\ \A key \in Keys : Group[key] \in Places
  BY DEF Keys, Group, Places

\* An access is a write, or a read of a counter.
LEMMA AccessIs ==
  ASSUME NEW a \in Accesses
  PROVE  /\ a.key \in Keys /\ a.op \in {"write", "read"}
         /\ a.op = "write" => a = write(a.key)
         /\ a.op # "write" => a.key \in Counters /\ a.op = "read"
  <1>1. CASE \E key \in Keys : a = write(key)
    BY <1>1 DEF write
  <1>2. CASE \E key \in Counters : a = read(key)
    BY <1>2, KeysAre DEF read
  <1>3. QED
    BY <1>1, <1>2 DEF Accesses

\* The counters are numbers, the user is a name.
LEMMA StoredKeys ==
  ASSUME NEW r \in Stored
  PROVE  /\ \A key \in Counters : r[key] \in Nat
         /\ r.num \in Nat /\ r.all \in Nat /\ r.ok \in Nat /\ r.err \in Nat
         /\ r.user \in Names
         /\ DOMAIN r = Counters \cup {"user"}
  BY DEF Stored, Counters, Names

\* One key of the settings is replaced.
LEMMA StoredExcept ==
  ASSUME NEW r \in Stored, NEW key \in Counters \cup {"user"}, NEW v,
         key \in Counters => v \in Nat, key = "user" => v \in Names
  PROVE  /\ [r EXCEPT ![key] = v] \in Stored
         /\ [r EXCEPT ![key] = v][key] = v
         /\ \A k \in Counters \cup {"user"} : k # key => [r EXCEPT ![key] = v][k] = r[k]
  BY DEF Stored, Counters, Names

\* All but the last member of a sequence.
LEMMA Fronted ==
  ASSUME NEW S, NEW s \in Seq(S), Len(s) > 0
  PROVE  SubSeq(s, 1, Len(s) - 1) \in Seq(S) /\ Len(SubSeq(s, 1, Len(s) - 1)) = Len(s) - 1
  <1>1. Len(s) \in Nat /\ \A i \in 1..Len(s) : s[i] \in S
    OBVIOUS
  <1>2. Len(s) - 1 \in Nat
    BY <1>1
  <1> DEFINE n == Len(s) - 1
             f == [i \in 1..n |-> s[i]]
  <1>3. SubSeq(s, 1, n) = f
    BY <1>1, <1>2
  <1>4. f \in [1..n -> S]
    BY <1>1
  <1>5. n \in Nat
    BY <1>2
  <1> HIDE DEF n, f
  <1>6. f \in Seq(S) /\ Len(f) = n
    BY <1>4, <1>5, FunctionSeq
  <1>7. QED
    BY <1>3, <1>6 DEF n

\* A thread enters or leaves a group, or is inside of it.
LEMMA Inside ==
  ASSUME NEW a \in [Threads -> Calls], NEW t \in Threads, NEW c \in Calls
  PROVE  LET b == [a EXCEPT ![t] = c] IN
         /\ Depth(a) \in Nat
         /\ a[t] = "begin" /\ c # "begin" => Depth(b) = Depth(a) + 1
         /\ a[t] # "begin" /\ c = "begin" => Depth(b) = Depth(a) - 1 /\ Depth(a) > 0
         /\ a[t] # "begin" /\ c # "begin" => Depth(b) = Depth(a)
  <1> DEFINE b == [a EXCEPT ![t] = c]
             A == {u \in Threads : a[u] # "begin"}
             B == {u \in Threads : b[u] # "begin"}
  <1>1. IsFiniteSet(A)
    <2>1. IsFiniteSet({"core"} \cup {"gui"})
      BY FS_Singleton, FS_AddElement
    <2>2. Threads = {"core"} \cup {"gui"}
      BY DEF Threads
    <2>3. A \in SUBSET Threads
      OBVIOUS
    <2>4. QED
      BY <2>1, <2>2, <2>3, FS_Subset
  <1>2. Cardinality(A) \in Nat
    BY <1>1, FS_CardinalityType
  <1>3. c # "begin" => B = A \cup {t}
    OBVIOUS
  <1>4. c = "begin" => B = A \ {t}
    OBVIOUS
  <1>5. t \in A <=> a[t] # "begin"
    OBVIOUS
  <1>6. Cardinality(A) = 0 => A = {}
    BY <1>1, FS_EmptySet
  <1>7. /\ Cardinality(A \cup {t}) = IF t \in A THEN Cardinality(A) ELSE Cardinality(A) + 1
        /\ Cardinality(A \ {t}) = IF t \in A THEN Cardinality(A) - 1 ELSE Cardinality(A)
    BY <1>1, FS_AddElement, FS_RemoveElement
  <1> HIDE DEF A, B
  <1>8. ASSUME a[t] = "begin", c # "begin"
        PROVE  Cardinality(B) = Cardinality(A) + 1
    BY <1>3, <1>5, <1>7, <1>8
  <1>9. ASSUME a[t] # "begin", c # "begin"
        PROVE  Cardinality(B) = Cardinality(A)
    BY <1>3, <1>5, <1>7, <1>9
  <1>a. ASSUME a[t] # "begin", c = "begin"
        PROVE  Cardinality(B) = Cardinality(A) - 1 /\ Cardinality(A) > 0
    <2>1. A # {} /\ Cardinality(A) # 0
      BY <1>5, <1>6, <1>a
    <2>2. Cardinality(B) = Cardinality(A) - 1
      BY <1>4, <1>5, <1>7, <1>a
    <2>3. QED
      BY <1>2, <2>1, <2>2
  <1>b. QED
    BY <1>2, <1>8, <1>9, <1>a DEF A, B, Depth

\* Both threads are outside of any group if and only if the stack is empty.
LEMMA Outside ==
  ASSUME NEW a \in [Threads -> Calls]
  PROVE  (\A t \in Threads : a[t] = "begin") <=> Depth(a) = 0
  <1> DEFINE A == {u \in Threads : a[u] # "begin"}
  <1>1. IsFiniteSet(A)
    <2>1. IsFiniteSet({"core"} \cup {"gui"})
      BY FS_Singleton, FS_AddElement
    <2>2. Threads = {"core"} \cup {"gui"}
      BY DEF Threads
    <2>3. QED
      BY <2>1, <2>2, FS_Subset
  <1>2. Cardinality(A) = 0 <=> A = {}
    BY <1>1, FS_EmptySet
  <1>3. QED
    BY <1>2 DEF Depth

-----------------------------------------------------------------------------
(* TypeOK *)

\* A sequence of accesses: its head and its tail.
LEMMA Accessing ==
  ASSUME Typed, NEW t \in Threads, program[t] # << >>
  PROVE  /\ program[t] \in Seq(Accesses) /\ Len(program[t]) \in Nat \ {0}
         /\ Head(program[t]) = program[t][1] /\ Head(program[t]) \in Accesses
         /\ Tail(program[t]) \in Seq(Accesses)
         /\ Len(Tail(program[t])) = Len(program[t]) - 1
         /\ \A i \in 1..Len(Tail(program[t])) : Tail(program[t])[i] = program[t][i + 1]
  <1>1. program[t] \in Seq(Accesses)
    BY DEF Typed
  <1> DEFINE s == program[t]
  <1>2. s \in Seq(Accesses) /\ s # << >>
    BY <1>1
  <1> HIDE DEF s
  <1>3. /\ Len(s) \in Nat \ {0} /\ Head(s) = s[1] /\ Head(s) \in Accesses
        /\ Tail(s) \in Seq(Accesses) /\ Len(Tail(s)) = Len(s) - 1
        /\ \A i \in 1..Len(Tail(s)) : Tail(s)[i] = s[i + 1]
    BY <1>2
  <1>4. QED
    BY <1>2, <1>3 DEF s

\* The programs that the threads are given.
LEMMA Given ==
  /\ writeCnt \in Seq(Accesses) /\ initCnt \in Seq(Accesses)
  /\ writeCnt \o initCnt \in Seq(Accesses)
  /\ <<write("done")>> \o writeCnt \in Seq(Accesses)
  /\ writeCfgDev \in Seq(Accesses) /\ <<write("addr")>> \in Seq(Accesses)
  /\ << >> \in Seq(Accesses)
  <1>1. /\ \A key \in Counters \cup {"user", "done", "addr"} : write(key) \in Accesses
        /\ \A key \in Counters : read(key) \in Accesses
    BY KeysAre DEF Accesses
  <1>2. /\ write("num") \in Accesses /\ write("all") \in Accesses /\ write("ok") \in Accesses
        /\ write("err") \in Accesses /\ write("done") \in Accesses
        /\ write("addr") \in Accesses /\ write("user") \in Accesses
        /\ read("num") \in Accesses /\ read("all") \in Accesses /\ read("ok") \in Accesses
        /\ read("err") \in Accesses
    BY <1>1 DEF Counters
  <1>3. /\ writeCnt \in Seq(Accesses) /\ initCnt \in Seq(Accesses)
        /\ writeCfgDev \in Seq(Accesses) /\ <<write("addr")>> \in Seq(Accesses)
        /\ <<write("done")>> \in Seq(Accesses) /\ << >> \in Seq(Accesses)
    BY <1>2 DEF writeCnt, initCnt, writeCfgDev
  <1>4. QED
    BY <1>3

\* What beginGroup takes along has the type of its key.
Argument(key) == IF key \in DOMAIN item THEN item[key] ELSE 0

LEMMA ArgumentTyped ==
  ASSUME Typed, NEW key
  PROVE  /\ Argument(key) \in Nat \cup Names
         /\ key \in Counters => Argument(key) \in Nat /\ Argument(key) = item[key]
         /\ key = "user" => Argument(key) \in Names /\ Argument(key) = item.user
  BY StoredKeys DEF Typed, Argument

\* Only the core thread's own steps make it go on.
CoreLeaves == UNCHANGED <<core, row, cuts, logged, ordered, customer>>

\* The calls of an access keep the types.
LEMMA AccessTyped ==
  ASSUME Typed, Reached, Taken, NEW t \in Threads, Access(t)
  PROVE  Typed'
  <1> DEFINE key == Head(program[t]).key
  <1>0. program[t] # << >> /\ CoreLeaves /\ UNCHANGED disk
    BY DEF Access, beginGroup, setValue, endGroup, CoreLeaves, bounds, history
  <1>1. Head(program[t]) \in Accesses /\ key \in Keys
    BY <1>0, Accessing, AccessIs
  <1>2. CASE beginGroup(t)
    <2>1. /\ at[t] = "begin" /\ at' = [at EXCEPT ![t] = "value"]
          /\ groups' = Append(groups, Group[key])
          /\ value' = [value EXCEPT ![t] = Argument(key)]
          /\ UNCHANGED <<item, ini, program>>
      BY <1>2 DEF beginGroup, Argument
    <2>2. Group[key] \in Places
      BY <1>1, KeysAre
    <2>3. groups' \in Seq(Places) /\ Len(groups') = Len(groups) + 1
      BY <2>1, <2>2 DEF Typed
    <2>4. Len(groups') = Depth(at')
      BY <2>1, <2>3, Inside DEF Typed, Calls
    <2>5. at' \in [Threads -> Calls] /\ value' \in [Threads -> Nat \cup Names]
      BY <2>1, ArgumentTyped DEF Typed, Calls
    <2>6. QED
      BY <1>0, <2>1, <2>3, <2>4, <2>5 DEF Typed, CoreLeaves
  <1>3. CASE setValue(t)
    <2>1. /\ at[t] = "value" /\ at' = [at EXCEPT ![t] = "end"]
          /\ UNCHANGED <<groups, program, value>>
      BY <1>3 DEF setValue
    <2>2. Len(groups') = Depth(at')
      BY <2>1, Inside DEF Typed, Calls
    <2>3. at' \in [Threads -> Calls]
      BY <2>1 DEF Typed, Calls
    <2>4. item' \in Stored /\ ini' \in Stored
      <3>1. CASE Head(program[t]).op = "write"
        <4>1. /\ item' = item
              /\ \/ ini' = ini
                 \/ key \in Counters \cup {"user"} /\ ini' = [ini EXCEPT ![key] = value[t]]
          BY <1>3, <3>1, StoredKeys DEF setValue, Typed
        <4>2. key \in Counters => value[t] \in Nat
          BY <2>1 DEF Taken
        <4>3. key = "user" => value[t] \in Names
          BY <2>1 DEF Taken, Counters
        <4>4. CASE key \in Counters \cup {"user"}
          <5>1. [ini EXCEPT ![key] = value[t]] \in Stored
            BY <4>2, <4>3, <4>4, StoredExcept DEF Typed
          <5>2. QED
            BY <4>1, <5>1 DEF Typed
        <4>5. QED
          BY <4>1, <4>4 DEF Typed
      <3>2. CASE Head(program[t]).op # "write"
        <4>1. key \in Counters
          BY <1>0, <3>2, Accessing, AccessIs
        <4>2. PICK v : item' = [item EXCEPT ![key] = v] /\ v \in {ini[key], 0} /\ ini' = ini
          BY <1>3, <3>2 DEF setValue
        <4>3. v \in Nat
          BY <4>1, <4>2, StoredKeys DEF Typed
        <4>4. key # "user"
          BY <4>1 DEF Counters
        <4>5. QED
          BY <4>1, <4>2, <4>3, <4>4, StoredExcept DEF Typed
      <3>3. QED
        BY <3>1, <3>2
    <2>5. QED
      BY <1>0, <2>1, <2>2, <2>3, <2>4 DEF Typed, CoreLeaves
  <1>4. CASE endGroup(t)
    <2>1. /\ at[t] = "end" /\ at' = [at EXCEPT ![t] = "begin"]
          /\ groups' = SubSeq(groups, 1, Len(groups) - 1)
          /\ program' = [program EXCEPT ![t] = Tail(@)]
          /\ UNCHANGED <<item, ini, value>>
      BY <1>4 DEF endGroup, Front
    <2>2. /\ Depth(at') = Len(groups) - 1
          /\ Len(groups) > 0
      BY <2>1, Inside DEF Typed, Calls
    <2>3. groups' \in Seq(Places) /\ Len(groups') = Len(groups) - 1
      <3>1. groups \in Seq(Places) /\ Len(groups) \in Nat
        BY DEF Typed
      <3>2. QED
        BY <2>1, <2>2, <3>1, Fronted
    <2>4. at' \in [Threads -> Calls]
      BY <2>1 DEF Typed, Calls
    <2>5. program' \in [Threads -> Seq(Accesses)]
      BY <1>0, <2>1, Accessing DEF Typed
    <2>6. QED
      BY <1>0, <2>1, <2>2, <2>3, <2>4, <2>5 DEF Typed, CoreLeaves
  <1>5. QED
    BY <1>2, <1>3, <1>4 DEF Access

\* Nothing of an access but the depth of the stack matters to a step that
\* makes none.
LEMMA StepTyped ==
  ASSUME Typed, Reached, Taken, [Next]_vars
  PROVE  Typed'
  <1>1. CASE \E t \in Threads : Access(t)
    BY <1>1, AccessTyped
  <1>2. CASE flush
    BY <1>2 DEF flush, Typed, access
  <1>3. CASE startTest \/ insertItem
    BY <1>3 DEF startTest, insertItem, Typed, settings, access, bounds, history
  <1>4. CASE countTest
    <2>1. item.all + 1 \in Nat /\ item.user \in Names
      BY StoredKeys DEF Typed
    <2>2. item' \in Stored
      BY <1>4, <2>1 DEF countTest, Typed, Stored
    <2>3. QED
      BY <1>4, <2>1, <2>2 DEF countTest, Typed, settings, access, bounds, history
  <1>5. ASSUME NEW pass \in BOOLEAN, judgeTest(pass)
        PROVE  Typed'
    <2>1. item' \in Stored
      <3>1. item.ok + 1 \in Nat /\ item.err + 1 \in Nat
        BY StoredKeys DEF Typed
      <3>2. CASE pass
        <4>1. PICK left \in Nat, user \in Names :
                item' = [item EXCEPT !.ok = @ + 1, !.num = left, !.user = user]
          <5>1. (IF item.num > 0 THEN item.num - 1 ELSE 0) \in Nat
            BY StoredKeys DEF Typed
          <5>2. item.user \in Names /\ NoName \in Names
            BY StoredKeys DEF Typed, Names
          <5>3. QED
            BY <1>5, <3>2, <5>1, <5>2 DEF judgeTest
        <4>2. QED
          BY <3>1, <4>1 DEF Typed, Stored, Names
      <3>3. CASE ~pass
        <4>1. item' = [item EXCEPT !.err = @ + 1]
          BY <1>5, <3>3 DEF judgeTest
        <4>2. QED
          BY <3>1, <4>1 DEF Typed, Stored
      <3>4. QED
        BY <3>2, <3>3
    <2>2. program' \in [Threads -> Seq(Accesses)]
      BY <1>5, Given DEF judgeTest, Typed
    <2>3. QED
      BY <1>5, <2>1, <2>2 DEF judgeTest, Typed, settings, bounds, history
  <1>6. ASSUME NEW name \in Customers, NEW number \in Orders, on_setBtn_clicked(name, number)
        PROVE  Typed'
    <2>1. number \in Nat /\ name \in Names
      BY LedgerAssumption DEF Names
    <2>2. item' \in Stored
      BY <1>6, <2>1 DEF on_setBtn_clicked, Typed, Stored, Names
    <2>3. program' \in [Threads -> Seq(Accesses)]
      BY <1>6, Given DEF on_setBtn_clicked, Typed
    <2>4. QED
      BY <1>6, <2>1, <2>2, <2>3 DEF on_setBtn_clicked, Typed, settings
  <1>7. CASE saveFunSlot \/ setAddr
    <2>1. program' \in [Threads -> Seq(Accesses)]
      BY <1>7, Given DEF saveFunSlot, setAddr, Typed
    <2>2. QED
      BY <1>7, <2>1 DEF saveFunSlot, setAddr, Typed, settings, bounds, history
  <1>8. CASE restart
    <2>1. /\ program' \in [Threads -> Seq(Accesses)] /\ at' \in [Threads -> Calls]
          /\ value' \in [Threads -> Nat \cup Names] /\ \A t \in Threads : at'[t] = "begin"
      BY <1>8, Given DEF restart, Calls
    <2>2. groups' \in Seq(Places) /\ Len(groups') = Depth(at')
      <3>1. groups' = << >>
        BY <1>8 DEF restart
      <3>2. Depth(at') = 0
        BY <2>1, Outside
      <3>3. QED
        BY <3>1, <3>2
    <2>3. cuts' \in Nat /\ row' \in Names
      BY <1>8 DEF restart, Typed, Names
    <2>4. QED
      BY <1>8, <2>1, <2>2, <2>3 DEF restart, Typed
  <1>9. CASE UNCHANGED vars
    BY <1>9 DEF vars, settings, access, bounds, history, Typed
  <1>a. QED
    BY <1>1, <1>2, <1>3, <1>4, <1>5, <1>6, <1>7, <1>8, <1>9, Zenon DEF Next

\* The Boolean variables are so.
LEMMA StepFlags ==
  ASSUME Flags, [Next]_vars
  PROVE  Flags'
  <1>1. CASE \E t \in Threads : Access(t)
    BY <1>1, Zenon DEF Access, beginGroup, setValue, endGroup, Flags, history
  <1>2. CASE flush \/ startTest \/ countTest \/ (\E pass \in BOOLEAN : judgeTest(pass)) \/ insertItem
    BY <1>2, Zenon DEF flush, startTest, countTest, judgeTest, insertItem, Flags, history
  <1>3. CASE \E name \in Customers, number \in Orders : on_setBtn_clicked(name, number)
    <2>1. saveDue' = TRUE /\ settled' = FALSE /\ mixed' = Entering
      BY <1>3, Zenon DEF on_setBtn_clicked
    <2>2. mixed' \in BOOLEAN
      BY <2>1 DEF Entering
    <2>3. QED
      BY <2>1, <2>2 DEF Flags
  <1>4. CASE saveFunSlot \/ setAddr
    <2>1. mixed' = (mixed \/ Entering) /\ settled' = settled /\ saveDue' \in {saveDue, FALSE}
      BY <1>4, Zenon DEF saveFunSlot, setAddr, history
    <2>2. mixed' \in BOOLEAN
      BY <2>1, Zenon
    <2>3. QED
      BY <2>1, <2>2 DEF Flags
  <1>5. CASE restart
    BY <1>5, Zenon DEF restart, Flags
  <1>6. CASE UNCHANGED vars
    BY <1>6, Zenon DEF vars, history, Flags
  <1>7. QED
    BY <1>1, <1>2, <1>3, <1>4, <1>5, <1>6, Zenon DEF Next

\* The entry of a test writes, and writes every counter.
LEMMA Written ==
  ASSUME NEW p \in {<<write("done")>> \o writeCnt, writeCnt}
  PROVE  /\ \A i \in DOMAIN p : p[i].op = "write"
         /\ \A key \in Counters : \E i \in DOMAIN p : p[i] = write(key)
  BY DEF writeCnt, write, Counters

\* The threads make their accesses one call at a time, and the core thread
\* makes none before it has a verdict.
LEMMA StepReached ==
  ASSUME Typed, Reached, Taken, [Next]_vars
  PROVE  Reached' /\ Taken'
  <1>0. Threads = {"core", "gui"}
    BY DEF Threads
  <1>1. ASSUME NEW t \in Threads, Access(t)
        PROVE  Reached' /\ Taken'
    <2> DEFINE key == Head(program[t]).key
    <2>0. program[t] # << >> /\ UNCHANGED core
      BY <1>1 DEF Access, beginGroup, setValue, endGroup
    <2>1. CASE beginGroup(t)
      <3>1. /\ at[t] = "begin" /\ at' = [at EXCEPT ![t] = "value"] /\ UNCHANGED <<item, program>>
            /\ value' = [value EXCEPT ![t] = Argument(key)]
        BY <2>1 DEF beginGroup, Argument
      <3>2. Reached'
        BY <2>0, <3>1 DEF Reached, Typed
      <3>3. Taken'
        BY <3>1, ArgumentTyped DEF Taken, Typed
      <3>4. QED
        BY <3>2, <3>3
    <2>2. CASE setValue(t)
      <3>1. at[t] = "value" /\ at' = [at EXCEPT ![t] = "end"] /\ UNCHANGED <<program, value>>
        BY <2>2 DEF setValue
      <3>2. Reached'
        BY <2>0, <3>1 DEF Reached, Typed
      <3>3. Taken'
        BY <3>1 DEF Taken, Typed
      <3>4. QED
        BY <3>2, <3>3
    <2>3. CASE endGroup(t)
      <3>1. /\ at[t] = "end" /\ at' = [at EXCEPT ![t] = "begin"] /\ UNCHANGED value
            /\ program' = [program EXCEPT ![t] = Tail(@)]
        BY <2>3 DEF endGroup
      <3>2. \A i \in DOMAIN program'["core"] : program'["core"][i].op = "write"
        <4>1. CASE t = "core"
          <5>1. program'["core"] = Tail(program["core"])
            BY <3>1, <4>1 DEF Typed
          <5>2. QED
            BY <2>0, <4>1, <5>1, Accessing DEF Reached
        <4>2. CASE t # "core"
          BY <3>1, <4>2 DEF Reached, Typed
        <4>3. QED
          BY <4>1, <4>2
      <3>3. Reached'
        BY <2>0, <3>1, <3>2 DEF Reached, Typed
      <3>4. Taken'
        BY <3>1 DEF Taken, Typed
      <3>5. QED
        BY <3>3, <3>4
    <2>4. QED
      BY <1>1, <2>1, <2>2, <2>3 DEF Access
  <1>2. CASE flush \/ startTest \/ countTest \/ insertItem \/ UNCHANGED vars
    <2>1. UNCHANGED <<program, at, value>> /\ (core = "save" => core' = "save" \/ program["core"] = << >>)
      BY <1>2 DEF flush, startTest, countTest, insertItem, vars, access
    <2>2. QED
      BY <2>1, Zenon DEF Reached, Taken
  <1>3. ASSUME NEW pass \in BOOLEAN, judgeTest(pass)
        PROVE  Reached' /\ Taken'
    <2>1. /\ core = "judge" /\ core' = "save" /\ UNCHANGED <<at, value>>
          /\ \/ program' = [program EXCEPT !["core"] = <<write("done")>> \o writeCnt]
             \/ program' = [program EXCEPT !["core"] = writeCnt]
      BY <1>3 DEF judgeTest
    <2>2. program["core"] = << >> /\ at["core"] = "begin"
      BY <1>0, <2>1 DEF Reached, Typed
    <2>3. /\ program'["gui"] = program["gui"]
          /\ program'["core"] \in {<<write("done")>> \o writeCnt, writeCnt}
      BY <1>0, <2>1 DEF Typed
    <2>4. Taken'
      BY <1>0, <2>1, <2>2, <2>3 DEF Taken
    <2>5. \A i \in DOMAIN program'["core"] : program'["core"][i].op = "write"
      BY <2>3, Written
    <2>6. QED
      BY <1>0, <2>1, <2>2, <2>3, <2>4, <2>5 DEF Reached
  <1>4. CASE saveFunSlot \/ setAddr \/ \E name \in Customers, number \in Orders : on_setBtn_clicked(name, number)
    <2>1. /\ program["gui"] = << >> /\ UNCHANGED <<at, value, core>>
          /\ \E p : program' = [program EXCEPT !["gui"] = p]
      BY <1>4 DEF saveFunSlot, setAddr, on_setBtn_clicked, GuiFree
    <2>2. program'["core"] = program["core"] /\ at["gui"] = "begin"
      BY <1>0, <2>1 DEF Typed, Reached
    <2>3. QED
      BY <1>0, <2>1, <2>2 DEF Reached, Taken
  <1>5. CASE restart
    <2>1. \A t \in Threads : program'[t] = << >> /\ at'[t] = "begin"
      BY <1>5 DEF restart
    <2>2. DOMAIN << >> = {}
      OBVIOUS
    <2>3. QED
      BY <1>0, <2>1, <2>2 DEF Reached, Taken
  <1>6. QED
    BY <1>1, <1>2, <1>3, <1>4, <1>5, Zenon DEF Next

\* The ledger begins with the types.
LEMMA InitTyped ==
  ASSUME Init
  PROVE  Typed /\ Flags /\ Reached /\ Taken
  <1>0. Threads = {"core", "gui"}
    BY DEF Threads
  <1>1. customer \in Names /\ ordered \in Nat
    <2>1. (customer = NoName /\ ordered = 0) \/ (customer \in Customers /\ ordered \in Orders)
      BY Zenon DEF Init
    <2>2. QED
      <3>1. Orders \subseteq Nat
        BY LedgerAssumption
      <3>2. CASE customer = NoName /\ ordered = 0
        BY <3>2 DEF Names
      <3>3. CASE customer \in Customers /\ ordered \in Orders
        BY <3>1, <3>3 DEF Names
      <3>4. QED
        BY <2>1, <3>2, <3>3, Zenon
  <1>2. item \in Stored /\ ini \in Stored /\ disk \in Stored
    BY <1>1 DEF Init, Stored, Names
  <1>3. /\ \A t \in Threads : program[t] = << >> /\ at[t] = "begin"
        /\ at \in [Threads -> Calls] /\ program \in [Threads -> Seq(Accesses)]
        /\ value \in [Threads -> Nat \cup Names]
    BY Given DEF Init, Calls
  <1>4. groups \in Seq(Places) /\ Len(groups) = Depth(at)
    <2>1. groups = << >>
      BY DEF Init
    <2>2. Depth(at) = 0
      BY <1>3, Outside
    <2>3. QED
      BY <2>1, <2>2
  <1>5. Typed
    BY <1>1, <1>2, <1>3, <1>4 DEF Init, Typed, Names
  <1>6. DOMAIN << >> = {}
    OBVIOUS
  <1>7. Reached /\ Taken
    BY <1>0, <1>3, <1>6 DEF Reached, Taken
  <1>8. Flags
    BY Zenon DEF Init, Flags
  <1>9. QED
    BY <1>5, <1>7, <1>8

\* The type invariant: counters are never negative, and the group stack of the
\* QSettings object is as deep as there are threads between beginGroup and
\* endGroup (CfgCom::write, read), however the two threads interleave.
THEOREM TypeCorrect == Spec => []TypeOK
  <1>1. Typed /\ Flags /\ Reached /\ Taken /\ [Next]_vars => Typed' /\ Flags' /\ Reached' /\ Taken'
    BY StepTyped, StepFlags, StepReached
  <1>2. Typed /\ Flags => TypeOK
    <2>1. Accesses \subseteq [op : {"write", "read"}, key : DOMAIN Group]
      BY KeysAre DEF Accesses, write, read, Keys
    <2>2. \A S, T, s : S \subseteq T /\ s \in Seq(S) => s \in Seq(T)
      OBVIOUS
    <2>3. ASSUME Typed
          PROVE  \A t \in Threads : program[t] \in Seq([op : {"write", "read"}, key : DOMAIN Group])
      <3>1. \A t \in Threads : program[t] \in Seq(Accesses)
        BY <2>3 DEF Typed
      <3>2. QED
        BY <2>1, <2>2, <3>1, Zenon
    <2>4. Flags => {saveDue, settled, mixed} \subseteq BOOLEAN
      BY Zenon DEF Flags
    <2>5. QED
      BY <2>3, <2>4 DEF Typed, TypeOK, Places, Calls, Depth
  <1>3. QED
    BY <1>1, <1>2, InitTyped, PTL DEF Spec

-----------------------------------------------------------------------------
(* One thread at a time *)

\* Unless page and entry have overlapped, one of the threads at most has
\* anything to access, and the group that is open is the one of its key.
Apart ==
  ~mixed =>
    /\ GuiFree \/ ~Entering
    /\ \A t \in Threads : at[t] # "begin" => groups = <<Group[Head(program[t]).key]>>

Other(t) == IF t = "core" THEN "gui" ELSE "core"

\* A thread with nothing to access is outside of any group.
LEMMA Free ==
  ASSUME Typed, Reached
  PROVE  /\ ~Entering => program["core"] = << >>
         /\ core # "save" => program["core"] = << >>
         /\ \A t \in Threads : program[t] = << >> => at[t] = "begin"
  BY DEF Reached, Entering

\* The other one has nothing to access,
LEMMA Alone ==
  ASSUME Typed, Reached, Apart, ~mixed, NEW t \in Threads, program[t] # << >>
  PROVE  /\ Other(t) \in Threads /\ Other(t) # t /\ \A u \in Threads : u = t \/ u = Other(t)
         /\ program[Other(t)] = << >> /\ at[Other(t)] = "begin"
         /\ t = "gui" => ~Entering
         /\ t = "core" => core = "save" /\ GuiFree
  <1>1. Other(t) \in Threads /\ Other(t) # t /\ \A u \in Threads : u = t \/ u = Other(t)
    BY DEF Other, Threads
  <1>2. GuiFree \/ ~Entering
    BY DEF Apart
  <1>3. CASE t = "core"
    <2>1. core = "save" /\ Entering
      BY <1>3 DEF Reached, Entering
    <2>2. QED
      BY <1>1, <1>2, <1>3, <2>1, Free DEF GuiFree, Other
  <1>4. CASE t = "gui"
    BY <1>1, <1>2, <1>4, Free DEF GuiFree, Other
  <1>5. QED
    BY <1>3, <1>4 DEF Threads

\* so that the stack is empty before it opens its group.
LEMMA NoneOpen ==
  ASSUME Typed, \A t \in Threads : at[t] = "begin"
  PROVE  groups = << >>
  <1>1. Depth(at) = 0
    BY Outside DEF Typed
  <1>2. Len(groups) = 0 /\ groups \in Seq(Places)
    BY <1>1 DEF Typed
  <1>3. QED
    BY <1>2

\* The calls of one thread at a time open and close its group.
LEMMA AccessApart ==
  ASSUME Typed, Reached, Apart, NEW t \in Threads, Access(t)
  PROVE  Apart'
  <1>0. program[t] # << >> /\ UNCHANGED <<core, mixed>>
    BY DEF Access, beginGroup, setValue, endGroup
  <1> SUFFICES ASSUME ~mixed
               PROVE  Apart'
    BY <1>0, Zenon DEF Apart
  <1>1. /\ \A u \in Threads : u # t => at[u] = "begin"
        /\ t = "gui" => ~Entering
        /\ t = "core" => GuiFree
        /\ t = "core" \/ t = "gui"
    BY <1>0, Alone DEF Threads
  <1>2. CASE beginGroup(t)
    <2>1. /\ at[t] = "begin" /\ at' = [at EXCEPT ![t] = "value"] /\ UNCHANGED program
          /\ groups' = Append(groups, Group[Head(program[t]).key])
      BY <1>2 DEF beginGroup
    <2>2. groups = << >>
      BY <1>1, <2>1, NoneOpen
    <2>3. groups' = <<Group[Head(program[t]).key]>>
      BY <2>1, <2>2
    <2>4. \A u \in Threads : at'[u] # "begin" => u = t
      BY <1>1, <2>1 DEF Typed
    <2>5. GuiFree' \/ ~Entering'
      BY <1>0, <2>1 DEF Apart, GuiFree, Entering
    <2>6. QED
      BY <2>1, <2>3, <2>4, <2>5 DEF Apart
  <1>3. CASE setValue(t)
    <2>1. at[t] = "value" /\ at' = [at EXCEPT ![t] = "end"] /\ UNCHANGED <<program, groups>>
      BY <1>3 DEF setValue
    <2>2. groups = <<Group[Head(program[t]).key]>>
      BY <2>1 DEF Apart
    <2>3. \A u \in Threads : at'[u] # "begin" => u = t
      BY <1>1, <2>1 DEF Typed
    <2>4. GuiFree' \/ ~Entering'
      BY <1>0, <2>1 DEF Apart, GuiFree, Entering
    <2>5. QED
      BY <2>1, <2>2, <2>3, <2>4 DEF Apart
  <1>4. CASE endGroup(t)
    <2>1. at' = [at EXCEPT ![t] = "begin"] /\ program' = [program EXCEPT ![t] = Tail(@)]
      BY <1>4 DEF endGroup
    <2>2. \A u \in Threads : at'[u] = "begin"
      BY <1>1, <2>1 DEF Typed
    <2>3. GuiFree' \/ ~Entering'
      BY <1>0, <1>1, <2>1 DEF GuiFree, Entering, Typed
    <2>4. QED
      BY <2>2, <2>3 DEF Apart
  <1>5. QED
    BY <1>2, <1>3, <1>4 DEF Access

\* Whoever is given accesses is alone, or the overlap is noted.
LEMMA StepApart ==
  ASSUME Typed, Reached, Apart, [Next]_vars
  PROVE  Apart'
  <1>0. Threads = {"core", "gui"}
    BY DEF Threads
  <1>1. CASE \E t \in Threads : Access(t)
    BY <1>1, AccessApart
  <1>2. CASE flush \/ UNCHANGED vars
    <2>1. UNCHANGED <<mixed, program, at, groups, core>>
      BY <1>2 DEF flush, vars, settings, access
    <2>2. QED
      BY <2>1, Zenon DEF Apart, GuiFree, Entering
  <1>3. CASE startTest \/ insertItem
    <2>1. UNCHANGED <<mixed, program, at, groups>> /\ core' \in {"test", "idle"}
      BY <1>3 DEF startTest, insertItem, settings, access
    <2>2. ~Entering'
      BY <2>1 DEF Entering
    <2>3. QED
      BY <2>1, <2>2, Zenon DEF Apart
  <1>4. CASE countTest
    <2>1. UNCHANGED <<program, at, groups>> /\ mixed' = (mixed \/ ~GuiFree)
      BY <1>4, Zenon DEF countTest, settings, access
    <2>2. GuiFree => GuiFree'
      BY <2>1 DEF GuiFree
    <2>3. QED
      BY <2>1, <2>2, Zenon DEF Apart
  <1>5. CASE \E pass \in BOOLEAN : judgeTest(pass)
    <2>1. core = "judge" /\ UNCHANGED <<mixed, at, groups>> /\ program'["gui"] = program["gui"]
      BY <1>0, <1>5 DEF judgeTest, settings, Typed
    <2>2. at["core"] = "begin"
      BY <1>0, <2>1, Free
    <2>3. Entering
      BY <2>1 DEF Entering
    <2>4. GuiFree => GuiFree' /\ at["gui"] = "begin"
      BY <1>0, <2>1, Free DEF GuiFree
    <2>5. QED
      BY <1>0, <2>1, <2>2, <2>3, <2>4 DEF Apart
  <1>6. CASE saveFunSlot \/ setAddr \/ \E name \in Customers, number \in Orders : on_setBtn_clicked(name, number)
    <2>1. GuiFree /\ UNCHANGED <<at, core>> /\ (~mixed' => ~Entering)
      <3>1. CASE saveFunSlot
        BY <3>1, Zenon DEF saveFunSlot
      <3>2. CASE setAddr
        BY <3>2, Zenon DEF setAddr
      <3>3. ASSUME NEW name \in Customers, NEW number \in Orders, on_setBtn_clicked(name, number)
            PROVE  GuiFree /\ UNCHANGED <<at, core>> /\ (~mixed' => ~Entering)
        BY <3>3, Zenon DEF on_setBtn_clicked
      <3>4. QED
        BY <1>6, <3>1, <3>2, <3>3, Zenon
    <2>2. ASSUME ~Entering
          PROVE  ~Entering' /\ \A t \in Threads : at'[t] = "begin"
      BY <1>0, <2>1, <2>2, Free DEF Entering, GuiFree
    <2>3. QED
      BY <2>1, <2>2 DEF Apart
  <1>7. CASE restart
    <2>1. \A t \in Threads : program'[t] = << >> /\ at'[t] = "begin"
      BY <1>7 DEF restart
    <2>2. QED
      BY <1>0, <2>1 DEF Apart, GuiFree
  <1>8. QED
    BY <1>1, <1>2, <1>3, <1>4, <1>5, <1>6, <1>7, Zenon DEF Next

-----------------------------------------------------------------------------
(* What an access does, when one thread at a time makes any *)

\* The thread is still to write the key.
ToWrite(t, key) ==
  \E i \in DOMAIN program[t] : program[t][i] = write(key) /\ (i = 1 => at[t] # "end")

\* A write that is still to come stays so until the value is set.
LEMMA StillToWrite ==
  ASSUME Typed, NEW t \in Threads, Access(t), NEW u \in Threads, NEW key, ToWrite(u, key),
         ~(u = t /\ setValue(t) /\ Head(program[t]) = write(key))
  PROVE  ToWrite(u, key)'
  <1>1. PICK i \in DOMAIN program[u] : program[u][i] = write(key) /\ (i = 1 => at[u] # "end")
    BY DEF ToWrite
  <1>2. program[t] # << >>
    BY DEF Access, beginGroup, setValue, endGroup
  <1>3. CASE beginGroup(t)
    BY <1>1, <1>3 DEF beginGroup, ToWrite, Typed
  <1>4. CASE setValue(t)
    <2>1. at' = [at EXCEPT ![t] = "end"] /\ UNCHANGED program
      BY <1>4 DEF setValue
    <2>2. u = t => i # 1
      BY <1>1, <1>2, <1>4, Accessing
    <2>3. i = 1 => at'[u] # "end"
      BY <1>1, <2>1, <2>2 DEF Typed
    <2>4. QED
      BY <1>1, <2>1, <2>3 DEF ToWrite
  <1>5. CASE endGroup(t)
    <2>1. /\ at[t] = "end" /\ at' = [at EXCEPT ![t] = "begin"]
          /\ program' = [program EXCEPT ![t] = Tail(@)]
      BY <1>5 DEF endGroup
    <2>2. CASE u = t
      <3>1. /\ program'[u] = Tail(program[t]) /\ at'[u] = "begin" /\ i # 1
        BY <1>1, <2>1, <2>2 DEF Typed
      <3>2. /\ i \in 1..Len(program[t]) /\ Len(program[t]) \in Nat
            /\ Tail(program[t]) \in Seq(Accesses) /\ Len(Tail(program[t])) = Len(program[t]) - 1
            /\ \A j \in 1..Len(Tail(program[t])) : Tail(program[t])[j] = program[t][j + 1]
        BY <1>1, <1>2, <2>2, Accessing
      <3>3. i - 1 \in 1..Len(Tail(program[t])) /\ (i - 1) + 1 = i
        BY <3>1, <3>2
      <3>4. Tail(program[t])[i - 1] = write(key) /\ i - 1 \in DOMAIN Tail(program[t])
        BY <1>1, <2>2, <3>2, <3>3
      <3>5. QED
        BY <3>1, <3>4 DEF ToWrite
    <2>3. CASE u # t
      BY <1>1, <2>1, <2>3 DEF ToWrite, Typed
    <2>4. QED
      BY <2>2, <2>3
  <1>6. QED
    BY <1>3, <1>4, <1>5 DEF Access

\* The value is set under the key it was taken for.
LEMMA Sets ==
  ASSUME Typed, Apart, ~mixed, NEW t \in Threads, setValue(t),
         NEW key \in Counters \cup {"user"}, Head(program[t]) = write(key)
  PROVE  /\ item' = item /\ ini'[key] = value[t]
         /\ \A k \in Counters \cup {"user"} : k # key => ini'[k] = ini[k]
  <1>1. Head(program[t]).op = "write" /\ Head(program[t]).key = key
    BY DEF write
  <1>2. groups = <<Group[key]>> /\ program[t] # << >> /\ at[t] = "value"
    BY <1>1 DEF setValue, Apart
  <1>3. DOMAIN ini = Counters \cup {"user"}
    BY StoredKeys DEF Typed
  <1>4. item' = item /\ ini' = [ini EXCEPT ![key] = value[t]]
    BY <1>1, <1>2, <1>3 DEF setValue
  <1>5. QED
    BY <1>3, <1>4

\* A value that is read takes the place of the one in memory.
LEMMA Reads ==
  ASSUME Typed, Apart, ~mixed, NEW t \in Threads, setValue(t), Head(program[t]).op # "write"
  PROVE  /\ ini' = ini /\ Head(program[t]).key \in Counters
         /\ item' = [item EXCEPT ![Head(program[t]).key] = ini[Head(program[t]).key]]
  <1>1. at[t] = "value" /\ program[t] # << >>
    BY DEF setValue
  <1>2. groups = <<Group[Head(program[t]).key]>>
    BY <1>1 DEF Apart
  <1>3. Head(program[t]).key \in Counters
    BY <1>1, Accessing, AccessIs
  <1>4. QED
    BY <1>2, <1>3 DEF setValue

\* No other key is touched, and the user in memory by no access at all.
LEMMA Touches ==
  ASSUME Typed, NEW t \in Threads, Access(t)
  PROVE  /\ item'.user = item.user
         /\ \A k \in Counters \cup {"user"} :
              ini'[k] = ini[k] \/ (setValue(t) /\ Head(program[t]) = write(k))
         /\ ~setValue(t) => item' = item /\ ini' = ini
  <1>0. program[t] # << >>
    BY DEF Access, beginGroup, setValue, endGroup
  <1>1. CASE ~setValue(t)
    <2>1. item' = item /\ ini' = ini
      BY <1>1 DEF Access, beginGroup, endGroup
    <2>2. QED
      BY <1>1, <2>1
  <1>2. CASE setValue(t)
    <2> DEFINE key == Head(program[t]).key
    <2>1. CASE Head(program[t]).op = "write"
      <3>1. Head(program[t]) = write(key)
        BY <1>0, <2>1, Accessing, AccessIs
      <3>2. item' = item /\ (ini' = ini \/ ini' = [ini EXCEPT ![key] = value[t]])
        BY <1>2, <2>1 DEF setValue
      <3>3. \A k \in Counters \cup {"user"} : ini'[k] = ini[k] \/ k = key
        BY <3>2, StoredKeys DEF Typed
      <3>4. QED
        BY <1>2, <3>1, <3>2, <3>3
    <2>2. CASE Head(program[t]).op # "write"
      <3>1. key \in Counters
        BY <1>0, <2>2, Accessing, AccessIs
      <3>2. ini' = ini /\ \E v : item' = [item EXCEPT ![key] = v]
        BY <1>2, <2>2 DEF setValue
      <3>3. key # "user"
        BY <3>1 DEF Counters
      <3>4. item'.user = item.user
        BY <3>2, <3>3
      <3>5. QED
        BY <1>2, <3>2, <3>4
    <2>3. QED
      BY <2>1, <2>2
  <1>3. QED
    BY <1>1, <1>2

-----------------------------------------------------------------------------
(* RowsNameCustomer *)

\* The customer of the order saved last, or nobody.
Right(name) == name \in {customer, NoName}

\* The rows and the one being made name the customer.
Rows == names \subseteq {customer} /\ (Entering => row = customer)

\* The user in memory is the customer while a box is tested, later perhaps
\* nobody.
InMemory == Right(item.user) /\ (core = "test" => item.user = customer)

\* Nor is another one on his way to the settings.
InSettings ==
  /\ saveDue \/ ToWrite("gui", "user") \/ Right(ini.user)
  /\ \A t \in Threads : at[t] = "value" /\ Head(program[t]).key = "user" => Right(value[t])

\* What has reached the file says so too.
InFile == settled => ~saveDue /\ Right(disk.user)

Named == ~mixed => Rows /\ InMemory /\ InSettings /\ InFile

\* The accesses carry the right user along.
LEMMA AccessNamed ==
  ASSUME Typed, Reached, Taken, Apart, Named, NEW t \in Threads, Access(t)
  PROVE  Named'
  <1>0. /\ UNCHANGED <<core, mixed, row, saveDue, disk, names, customer, settled>>
        /\ program[t] # << >>
    BY DEF Access, beginGroup, setValue, endGroup, history
  <1> SUFFICES ASSUME ~mixed
               PROVE  (Rows /\ InMemory /\ InSettings /\ InFile)'
    BY <1>0, Zenon DEF Named
  <1>1. Rows /\ InMemory /\ InSettings /\ InFile
    BY DEF Named
  <1>2. Rows' /\ InFile'
    BY <1>0, <1>1, Zenon DEF Rows, InFile, Entering, Right
  <1>3. InMemory'
    <2>1. item'.user = item.user
      BY Touches
    <2>2. QED
      BY <1>0, <1>1, <2>1, Zenon DEF InMemory, Right
  <1>4. ASSUME NEW u \in Threads, at'[u] = "value", Head(program'[u]).key = "user"
        PROVE  Right(value[u])' 
    <2>1. CASE u # t
      <3>1. at'[u] = at[u] /\ program'[u] = program[u] /\ value'[u] = value[u]
        BY <2>1 DEF Access, beginGroup, setValue, endGroup, Typed
      <3>2. QED
        BY <1>0, <1>1, <1>4, <3>1 DEF InSettings, Right
    <2>2. CASE u = t
      <3>1. /\ at' = [at EXCEPT ![t] = "value"] /\ UNCHANGED program
            /\ value' = [value EXCEPT ![t] = Argument(Head(program[t]).key)]
        <4>1. at'[t] # "begin" /\ at'[t] # "end"
          BY <1>4, <2>2
        <4>2. ~setValue(t) /\ ~endGroup(t)
          BY <4>1 DEF setValue, endGroup, Typed
        <4>3. QED
          BY <4>2 DEF Access, beginGroup, Argument
      <3>2. value'[t] = Argument("user")
        BY <1>4, <2>2, <3>1 DEF Typed
      <3>3. value'[t] = item.user
        BY <3>2, ArgumentTyped
      <3>4. QED
        BY <1>0, <1>1, <2>2, <3>3 DEF InMemory, Right
    <2>3. QED
      BY <2>1, <2>2
  <1>5. saveDue' \/ ToWrite("gui", "user")' \/ Right(ini.user)'
    <2>0. "gui" \in Threads /\ "user" \in Counters \cup {"user"} /\ ini.user = ini["user"]
      BY DEF Threads
    <2>1. CASE saveDue
      BY <1>0, <2>1
    <2>2. CASE setValue(t) /\ Head(program[t]) = write("user")
      <3>1. Right(value[t])
        <4>1. at[t] = "value" /\ Head(program[t]).key = "user"
          BY <2>2 DEF setValue, write
        <4>2. QED
          BY <1>1, <4>1 DEF InSettings
      <3>2. ini'["user"] = value[t]
        BY <2>0, <2>2, Sets
      <3>3. QED
        BY <1>0, <3>1, <3>2 DEF Right
    <2>3. CASE ~(setValue(t) /\ Head(program[t]) = write("user")) /\ ToWrite("gui", "user")
      BY <2>0, <2>3, StillToWrite
    <2>4. CASE ~(setValue(t) /\ Head(program[t]) = write("user")) /\ Right(ini.user)
      <3>1. ini'["user"] = ini["user"]
        BY <2>0, <2>4, Touches
      <3>2. QED
        BY <1>0, <2>4, <3>1 DEF Right
    <2>5. QED
      BY <1>1, <2>1, <2>2, <2>3, <2>4, Zenon DEF InSettings
  <1>6. InSettings'
    BY <1>4, <1>5 DEF InSettings
  <1>7. QED
    BY <1>2, <1>3, <1>6

\* The other steps keep the right user, or the overlap is noted.
LEMMA StepNamed ==
  ASSUME Typed, Reached, Taken, Apart, Named, [Next]_vars
  PROVE  Named'
  <1>0. Threads = {"core", "gui"}
    BY DEF Threads
  <1>1. CASE \E t \in Threads : Access(t)
    BY <1>1, AccessNamed
  <1>2. CASE UNCHANGED vars
    <2>1. UNCHANGED <<mixed, program, at, value, core, row, saveDue, names, customer, settled, item, ini, disk>>
      BY <1>2 DEF vars, settings, access, history
    <2>2. QED
      BY <2>1, Zenon DEF Named, Rows, InMemory, InSettings, InFile, Right, ToWrite, Entering
  <1>3. CASE flush
    <2>1. /\ UNCHANGED <<mixed, program, at, value, core, row, saveDue, names, customer, item, ini>>
          /\ GuiFree /\ disk' = ini /\ settled' = (settled \/ ~saveDue)
      BY <1>3, Zenon DEF flush, access
    <2>2. ASSUME Named, ~mixed
          PROVE  Rows' /\ InMemory' /\ InSettings'
      BY <2>1, <2>2, Zenon DEF Named, Rows, InMemory, InSettings, Right, ToWrite, Entering
    <2>3. ASSUME Named, ~mixed, settled'
          PROVE  ~saveDue' /\ Right(disk.user)'
      <3>1. InSettings /\ InFile
        BY <2>3, Zenon DEF Named
      <3>2. ~saveDue
        BY <2>1, <2>3, <3>1, Zenon DEF InFile
      <3>3. ~ToWrite("gui", "user")
        BY <2>1 DEF GuiFree, ToWrite
      <3>4. Right(ini.user)
        BY <3>1, <3>2, <3>3, Zenon DEF InSettings
      <3>5. QED
        BY <2>1, <3>2, <3>4, Zenon DEF Right
    <2>4. QED
      BY <2>1, <2>2, <2>3, Zenon DEF Named, InFile
  <1>4. CASE startTest
    <2>1. /\ UNCHANGED <<mixed, program, at, value, row, saveDue, names, customer, settled, item, ini, disk>>
          /\ item.user # NoName /\ core' = "test"
      BY <1>4 DEF startTest, settings, access, history
    <2>2. ~Entering'
      BY <2>1 DEF Entering
    <2>3. InMemory => InMemory'
      BY <2>1 DEF InMemory, Right
    <2>4. QED
      BY <2>1, <2>2, <2>3, Zenon DEF Named, Rows, InSettings, InFile, Right, ToWrite
  <1>5. CASE countTest
    <2>1. /\ UNCHANGED <<program, at, value, saveDue, names, customer, settled, ini, disk>>
          /\ mixed' = (mixed \/ ~GuiFree) /\ core = "test" /\ core' = "judge"
      BY <1>5, Zenon DEF countTest, settings, access, history
    <2>2. row' = item.user /\ item'.user = item.user
      BY <1>5 DEF countTest
    <2>3. InMemory => row' = customer' /\ InMemory'
      BY <2>1, <2>2 DEF InMemory, Right
    <2>4. QED
      BY <2>1, <2>3, Zenon DEF Named, Rows, InSettings, InFile, Right, ToWrite
  <1>6. CASE \E pass \in BOOLEAN : judgeTest(pass)
    <2>1. /\ UNCHANGED <<mixed, at, value, row, saveDue, names, customer, settled, ini, disk>>
          /\ core = "judge" /\ core' = "save" /\ program'["gui"] = program["gui"]
          /\ item'.user \in {item.user, NoName}
      <3>1. PICK pass \in BOOLEAN : judgeTest(pass)
        BY <1>6
      <3>2. /\ UNCHANGED <<mixed, at, value, row, saveDue, names, customer, settled, ini, disk>>
            /\ core = "judge" /\ core' = "save"
        BY <3>1, Zenon DEF judgeTest, settings, history
      <3>3. program'["gui"] = program["gui"]
        BY <1>0, <3>1 DEF judgeTest, Typed
      <3>4. item'.user \in {item.user, NoName}
        BY <3>1 DEF judgeTest, Typed, Stored
      <3>5. QED
        BY <3>2, <3>3, <3>4
    <2>2. Entering /\ at["core"] = "begin"
      BY <1>0, <2>1, Free DEF Entering
    <2>3. InMemory => InMemory'
      BY <2>1 DEF InMemory, Right
    <2>4. Rows => Rows'
      BY <2>1, <2>2 DEF Rows
    <2>5. ToWrite("gui", "user") => ToWrite("gui", "user")'
      BY <2>1 DEF ToWrite
    <2>6. InSettings => InSettings'
      BY <1>0, <2>1, <2>2, <2>5 DEF InSettings, Right
    <2>7. QED
      BY <2>1, <2>3, <2>4, <2>6, Zenon DEF Named, InFile, Right
  <1>7. CASE insertItem
    <2>1. /\ UNCHANGED <<mixed, program, at, value, row, saveDue, customer, settled, item, ini, disk>>
          /\ core = "save" /\ core' = "idle" /\ names' = names \cup {row}
      BY <1>7 DEF insertItem, settings, access
    <2>2. Rows => Rows'
      BY <2>1 DEF Rows, Entering
    <2>3. InMemory => InMemory'
      BY <2>1 DEF InMemory, Right
    <2>4. QED
      BY <2>1, <2>2, <2>3, Zenon DEF Named, InSettings, InFile, Right, ToWrite
  <1>8. ASSUME NEW name \in Customers, NEW number \in Orders, on_setBtn_clicked(name, number)
        PROVE  Named'
    <2>1. /\ UNCHANGED <<at, core>> /\ GuiFree /\ mixed' = Entering
          /\ saveDue' = TRUE /\ settled' = FALSE /\ names' = {} /\ customer' = name
      BY <1>8, Zenon DEF on_setBtn_clicked
    <2>2. item'.user = name
      BY <1>8 DEF on_setBtn_clicked, Typed, Stored
    <2>3. ASSUME ~Entering
          PROVE  ~Entering' /\ \A t \in Threads : at'[t] = "begin"
      BY <1>0, <2>1, <2>3, Free DEF Entering, GuiFree
    <2>4. InMemory'
      BY <2>1, <2>2 DEF InMemory, Right
    <2>5. ASSUME ~Entering
          PROVE  Rows' /\ InSettings' /\ InFile'
      BY <2>1, <2>3, <2>5 DEF Rows, InSettings, InFile
    <2>6. QED
      BY <2>1, <2>4, <2>5, Zenon DEF Named
  <1>9. CASE saveFunSlot
    <2>1. /\ UNCHANGED <<at, value, core, row, item, ini, disk, names, customer, settled>> /\ GuiFree
          /\ mixed' = (mixed \/ Entering) /\ saveDue' = FALSE /\ program' = [program EXCEPT !["gui"] = writeCfgDev]
      BY <1>9, Zenon DEF saveFunSlot, settings, history
    <2>2. at["gui"] = "begin" /\ program'["gui"] = writeCfgDev /\ program'["core"] = program["core"]
      BY <1>0, <2>1, Free DEF GuiFree, Typed
    <2>3. ToWrite("gui", "user")'
      <3>1. 2 \in DOMAIN writeCfgDev /\ writeCfgDev[2] = write("user")
        BY DEF writeCfgDev
      <3>2. QED
        BY <2>1, <2>2, <3>1 DEF ToWrite
    <2>4. InSettings => InSettings'
      BY <1>0, <2>1, <2>2, <2>3 DEF InSettings, Right
    <2>5. QED
      BY <2>1, <2>4, Zenon DEF Named, Rows, InMemory, InFile, Right, Entering
  <1>a. CASE setAddr
    <2>1. /\ UNCHANGED <<at, value, core, row, item, ini, disk, names, customer, settled, saveDue>> /\ GuiFree
          /\ mixed' = (mixed \/ Entering) /\ program' = [program EXCEPT !["gui"] = <<write("addr")>>]
      BY <1>a, Zenon DEF setAddr, settings, history
    <2>2. at["gui"] = "begin" /\ program'["core"] = program["core"]
      BY <1>0, <2>1, Free DEF GuiFree, Typed
    <2>3. ~ToWrite("gui", "user")
      BY <2>1 DEF GuiFree, ToWrite
    <2>4. InSettings => InSettings'
      BY <1>0, <2>1, <2>2, <2>3 DEF InSettings, Right
    <2>5. QED
      BY <2>1, <2>4, Zenon DEF Named, Rows, InMemory, InFile, Right, Entering
  <1>b. CASE restart
    <2>1. /\ mixed' = (mixed \/ ~settled) /\ core' = "idle" /\ saveDue' = FALSE /\ item' = disk
          /\ ini' = disk /\ disk' = disk /\ UNCHANGED <<customer, names>>
          /\ at' = [t \in Threads |-> "begin"]
      BY <1>b, Zenon DEF restart
    <2>2. ASSUME InFile, Rows, settled
          PROVE  Rows' /\ InMemory' /\ InSettings' /\ InFile'
      BY <2>1, <2>2 DEF Rows, InMemory, InSettings, InFile, Right, Entering
    <2>3. QED
      BY <2>1, <2>2, Zenon DEF Named
  <1>c. QED
    BY <1>1, <1>2, <1>3, <1>4, <1>5, <1>6, <1>7, <1>8, <1>9, <1>a, <1>b, Zenon DEF Next

\* At the start nobody has been named, and whoever is to be is right.
LEMMA InitNamed ==
  ASSUME Init
  PROVE  Apart /\ Named
  <1>1. /\ \A t \in Threads : at[t] = "begin"
        /\ core = "idle" /\ names = {} /\ saveDue = FALSE
    BY DEF Init
  <1>2. program["gui"] = << >>
    BY DEF Init, Threads
  <1>3. item.user = customer /\ ini.user = customer /\ disk.user = customer
    BY DEF Init
  <1>4. Apart
    BY <1>1, <1>2 DEF Apart, GuiFree
  <1>5. Named
    BY <1>1, <1>3 DEF Named, Rows, InMemory, InSettings, InFile, Right, Entering
  <1>6. QED
    BY <1>4, <1>5

\* Every row names the customer of the order saved last (Test_Logs::writeLog),
\* though an order that is complete clears the user in memory only, and a
\* restart brings him back.
THEOREM RowsCorrect == Spec => []RowsNameCustomer
  <1> DEFINE Inv == Typed /\ Reached /\ Taken /\ Apart /\ Named
  <1>1. Init => Inv
    BY InitTyped, InitNamed
  <1>2. Inv /\ [Next]_vars => Inv'
    BY StepTyped, StepReached, StepApart, StepNamed
  <1>3. Inv => RowsNameCustomer
    BY Zenon DEF Named, Rows, RowsNameCustomer
  <1>4. QED
    BY <1>1, <1>2, <1>3, PTL DEF Spec

-----------------------------------------------------------------------------
(* CrashCostsOne *)

\* The same counters,
Same(r, s) == r.all = s.all /\ r.ok = s.ok /\ r.err = s.err /\ r.num = s.num

\* those before the total has counted,
Counted(r, s) == r.all = s.all - 1 /\ r.ok = s.ok /\ r.err = s.err /\ r.num = s.num

\* and those of which some are from before the entry of a test, others from
\* after it.
Behind(r, s) ==
  /\ r.all \in {s.all - 1, s.all}
  /\ \/ r.ok = s.ok /\ r.err \in {s.err - 1, s.err}
     \/ r.ok = s.ok - 1 /\ r.err = s.err
  /\ r.num \in {s.num, s.num + 1}

\* A counter of the settings that is not the one in memory is still to be
\* written, or its test is being entered.
Unwritten ==
  /\ core # "judge" =>
       \A key \in Counters : ini[key] = item[key] \/ \E t \in Threads : ToWrite(t, key)
  /\ core = "judge" => Counted(ini, item)
  /\ core = "save" => Behind(ini, item)

\* What is about to be set is what is in memory.
Current ==
  \A t \in Threads : at[t] = "value" /\ Head(program[t]).op = "write" =>
    \A key \in Counters : Head(program[t]).key = key => value[t] = item[key]

\* The settings page reads after it has written.
ReadsLast ==
  \A i, j \in DOMAIN program["gui"] :
    i <= j /\ program["gui"][i].op = "read" => program["gui"][j].op = "read"

\* What the file holds of an order that has reached it.
Kept ==
  settled =>
    /\ core \in {"idle", "save"} => Behind(disk, item)
    /\ core = "test" => Same(disk, item)
    /\ core = "judge" => Counted(disk, item)

\* The tally in memory, at every step of an entry.
Counts ==
  /\ Near(IF core \in {"judge", "save"} THEN item.all - 1 ELSE item.all, logged)
  /\ Near(IF core = "judge" THEN item.all - 1 ELSE item.all, item.ok + item.err)
  /\ Near(item.num, Remaining(ordered, item.ok))

Carried == ~mixed => Unwritten /\ Current /\ ReadsLast
Filed == ~mixed => Kept /\ Counts

\* Counters by name and by field.
LEMMA ByKey ==
  ASSUME NEW r \in Stored, NEW s \in Stored, \A key \in Counters : r[key] = s[key]
  PROVE  Same(r, s)
  BY DEF Same, Counters

\* With nothing left to write the settings hold what is in memory.
LEMMA AllWritten ==
  ASSUME Typed, Unwritten, core # "judge", \A t \in Threads : program[t] = << >>
  PROVE  (\A key \in Counters : ini[key] = item[key]) /\ Same(ini, item)
  <1>1. \A t \in Threads, key \in Counters : ~ToWrite(t, key)
    BY DEF ToWrite
  <1>2. \A key \in Counters : ini[key] = item[key]
    BY <1>1 DEF Unwritten
  <1>3. QED
    BY <1>2, ByKey DEF Typed

\* An access leaves the counters in memory as they are: what is read back is
\* what was written.
LEMMA AccessItem ==
  ASSUME Typed, Reached, Taken, Apart, Carried, ~mixed, NEW t \in Threads, Access(t)
  PROVE  item' = item /\ core # "judge"
  <1>0. program[t] # << >> /\ Unwritten /\ ReadsLast
    BY DEF Access, beginGroup, setValue, endGroup, Carried
  <1>1. core # "judge"
    BY <1>0, Alone DEF Entering, Threads
  <1>2. CASE ~setValue(t)
    BY <1>1, <1>2, Touches
  <1>3. CASE setValue(t) /\ Head(program[t]).op = "write"
    BY <1>1, <1>3 DEF setValue
  <1>4. CASE setValue(t) /\ Head(program[t]).op # "write"
    <2> DEFINE key == Head(program[t]).key
    <2>1. key \in Counters /\ item' = [item EXCEPT ![key] = ini[key]]
      BY <1>4, Reads
    <2>2. t = "gui" /\ 1 \in DOMAIN program["gui"] /\ program["gui"][1].op = "read"
      <3>1. /\ Head(program[t]) = program[t][1] /\ 1 \in DOMAIN program[t]
            /\ Head(program[t]).op = "read"
        BY <1>0, <1>4, Accessing, AccessIs
      <3>2. t # "core"
        BY <3>1 DEF Reached
      <3>3. QED
        BY <3>1, <3>2 DEF Threads
    <2>3. program["core"] = << >>
      BY <1>0, <2>2, Alone DEF Other
    <2>4. \A u \in Threads : ~ToWrite(u, key)
      <3>1. ~ToWrite("core", key)
        BY <2>3 DEF ToWrite
      <3>2. ~ToWrite("gui", key)
        <4>1. \A j \in DOMAIN program["gui"] : 1 <= j
          BY DEF Typed, Threads
        <4>2. \A j \in DOMAIN program["gui"] : program["gui"][j].op = "read"
          BY <1>0, <2>2, <4>1 DEF ReadsLast
        <4>3. write(key).op # "read"
          BY DEF write
        <4>4. QED
          BY <4>2, <4>3 DEF ToWrite
      <3>3. QED
        BY <3>1, <3>2 DEF Threads
    <2>5. ini[key] = item[key]
      BY <1>0, <1>1, <2>1, <2>4 DEF Unwritten
    <2>6. item' = [item EXCEPT ![key] = item[key]]
      BY <2>1, <2>5
    <2>7. item' = item
      BY <2>6 DEF Typed, Stored
    <2>8. QED
      BY <1>1, <2>7
  <1>5. QED
    BY <1>2, <1>3, <1>4

\* An access carries one counter to the settings.
LEMMA AccessCarried ==
  ASSUME Typed, Reached, Taken, Apart, Carried, NEW t \in Threads, Access(t)
  PROVE  Carried'
  <1>0. UNCHANGED <<core, mixed>> /\ program[t] # << >>
    BY DEF Access, beginGroup, setValue, endGroup
  <1> SUFFICES ASSUME ~mixed
               PROVE  (Unwritten /\ Current /\ ReadsLast)'
    BY <1>0, Zenon DEF Carried
  <1>1. Unwritten /\ Current /\ ReadsLast
    BY DEF Carried
  <1>2. item' = item /\ core # "judge"
    BY AccessItem
  <1>3. ASSUME NEW key \in Counters
        PROVE  /\ ini'[key] \in {ini[key], item[key]}
               /\ ini'[key] = item[key] \/ \E u \in Threads : ToWrite(u, key)'
    <2>0. key \in Counters \cup {"user"}
      OBVIOUS
    <2>1. CASE setValue(t) /\ Head(program[t]) = write(key)
      <3>1. ini'[key] = value[t]
        BY <2>0, <2>1, Sets
      <3>2. at[t] = "value" /\ Head(program[t]).op = "write" /\ Head(program[t]).key = key
        BY <2>1 DEF setValue, write
      <3>3. value[t] = item[key]
        BY <1>1, <3>2 DEF Current
      <3>4. QED
        BY <3>1, <3>3
    <2>2. CASE ~(setValue(t) /\ Head(program[t]) = write(key))
      <3>1. ini'[key] = ini[key]
        BY <2>0, <2>2, Touches
      <3>2. ini[key] = item[key] \/ \E u \in Threads : ToWrite(u, key)
        BY <1>1, <1>2 DEF Unwritten
      <3>3. \A u \in Threads : ToWrite(u, key) => ToWrite(u, key)'
        BY <2>2, StillToWrite
      <3>4. QED
        BY <3>1, <3>2, <3>3
    <2>3. QED
      BY <2>1, <2>2
  <1>4. Unwritten'
    <2>1. core = "save" => Behind(ini, item)'
      <3>1. /\ ini'.all \in {ini.all, item.all} /\ ini'.num \in {ini.num, item.num}
            /\ ini'.ok \in {ini.ok, item.ok} /\ ini'.err \in {ini.err, item.err}
        BY <1>3 DEF Counters
      <3>2. Behind(ini, item) => Behind(ini', item)
        BY <3>1 DEF Behind
      <3>3. QED
        BY <1>1, <1>2, <3>2 DEF Unwritten
    <2>2. \A key \in Counters : ini'[key] = item'[key] \/ \E u \in Threads : ToWrite(u, key)'
      BY <1>2, <1>3
    <2>3. QED
      BY <1>0, <1>2, <2>1, <2>2 DEF Unwritten
  <1>5. Current'
    <2> SUFFICES ASSUME NEW u \in Threads, at'[u] = "value", NEW key \in Counters,
                        Head(program'[u]).key = key, Head(program'[u]).op = "write"
                 PROVE  value'[u] = item'[key]
      BY DEF Current
    <2>1. CASE u # t
      <3>1. at'[u] = at[u] /\ program'[u] = program[u] /\ value'[u] = value[u]
        BY <2>1 DEF Access, beginGroup, setValue, endGroup, Typed
      <3>2. QED
        BY <1>1, <1>2, <3>1 DEF Current
    <2>2. CASE u = t
      <3>1. /\ at' = [at EXCEPT ![t] = "value"] /\ UNCHANGED program
            /\ value' = [value EXCEPT ![t] = Argument(Head(program[t]).key)]
        <4>1. at'[t] # "begin" /\ at'[t] # "end"
          BY <2>2
        <4>2. ~setValue(t) /\ ~endGroup(t)
          BY <4>1 DEF setValue, endGroup, Typed
        <4>3. QED
          BY <4>2 DEF Access, beginGroup, Argument
      <3>2. value'[t] = Argument(key)
        BY <2>2, <3>1 DEF Typed
      <3>3. QED
        BY <1>2, <2>2, <3>2, ArgumentTyped
    <2>3. QED
      BY <2>1, <2>2
  <1>6. ReadsLast'
    <2>1. CASE program'["gui"] = program["gui"]
      BY <1>1, <2>1 DEF ReadsLast
    <2>2. CASE program'["gui"] # program["gui"]
      <3>1. t = "gui" /\ program'["gui"] = Tail(program["gui"])
        <4>1. program' = [program EXCEPT ![t] = Tail(@)]
          BY <2>2 DEF Access, beginGroup, setValue, endGroup
        <4>2. DOMAIN program = Threads /\ "gui" \in Threads
          BY DEF Typed, Threads
        <4>3. QED
          BY <2>2, <4>1, <4>2
      <3>2. /\ \A i \in 1..Len(Tail(program["gui"])) : Tail(program["gui"])[i] = program["gui"][i + 1]
            /\ Tail(program["gui"]) \in Seq(Accesses) /\ program["gui"] \in Seq(Accesses)
            /\ Len(Tail(program["gui"])) = Len(program["gui"]) - 1 /\ Len(program["gui"]) \in Nat
        BY <1>0, <3>1, Accessing
      <3>3. \A i \in 1..Len(Tail(program["gui"])) : i + 1 \in DOMAIN program["gui"]
        BY <3>2
      <3>4. \A i, j \in 1..Len(Tail(program["gui"])) : i <= j => i + 1 <= j + 1
        BY <3>2
      <3>5. DOMAIN Tail(program["gui"]) = 1..Len(Tail(program["gui"]))
        BY <3>2
      <3>6. QED
        BY <1>1, <3>1, <3>2, <3>3, <3>4, <3>5 DEF ReadsLast
    <2>3. QED
      BY <2>1, <2>2
  <1>7. QED
    BY <1>4, <1>5, <1>6

\* No thread is about to set a value when none has anything to access.
LEMMA NoneCurrent ==
  ASSUME Threads = {"core", "gui"}, \A t \in Threads : at'[t] = "begin"
  PROVE  Current'
  BY DEF Current

\* The programs that the settings page is given read last.
LEMMA PageReadsLast ==
  ASSUME NEW p \in {writeCnt \o initCnt, writeCfgDev, <<write("addr")>>, << >>}
  PROVE  /\ \A i, j \in DOMAIN p : i <= j /\ p[i].op = "read" => p[j].op = "read"
         /\ p = writeCnt \o initCnt => \A key \in Counters : \E i \in DOMAIN p : p[i] = write(key)
  <1>1. CASE p = writeCnt \o initCnt
    <2>1. /\ DOMAIN p = 1..8
          /\ \A i \in 1..4 : p[i] = writeCnt[i] /\ p[i].op = "write"
          /\ \A i \in 5..8 : p[i].op = "read"
      BY <1>1 DEF writeCnt, initCnt, write, read
    <2>2. \A i, j \in 1..8 : i <= j /\ p[i].op = "read" => j \in 5..8
      BY <2>1
    <2>3. \A key \in Counters : \E i \in 1..4 : writeCnt[i] = write(key)
      BY DEF writeCnt, Counters
    <2>4. QED
      BY <2>1, <2>2, <2>3
  <1>2. CASE p # writeCnt \o initCnt
    BY <1>2 DEF writeCfgDev, write
  <1>3. QED
    BY <1>1, <1>2

\* The verdict has counted in memory, and the box may be off the order.
LEMMA Verdict ==
  ASSUME Typed, NEW pass \in BOOLEAN, judgeTest(pass)
  PROVE  /\ item'.all = item.all
         /\ \/ /\ item'.ok = item.ok + 1 /\ item'.err = item.err
               /\ item'.num = IF item.num > 0 THEN item.num - 1 ELSE 0
            \/ item'.ok = item.ok /\ item'.err = item.err + 1 /\ item'.num = item.num
  BY DEF judgeTest, Typed, Stored

\* So the counters of before are behind.
LEMMA Judged ==
  ASSUME Typed, NEW pass \in BOOLEAN, judgeTest(pass), NEW r, Counted(r, item)
  PROVE  Behind(r, item')
  <1>1. item.all \in Nat /\ item.ok \in Nat /\ item.err \in Nat /\ item.num \in Nat
    BY StoredKeys DEF Typed
  <1>2. r.all = item.all - 1 /\ r.ok = item.ok /\ r.err = item.err /\ r.num = item.num
    BY DEF Counted
  <1>3. CASE /\ item'.ok = item.ok + 1 /\ item'.err = item.err
             /\ item'.num = IF item.num > 0 THEN item.num - 1 ELSE 0
    BY <1>1, <1>2, <1>3, Verdict DEF Behind
  <1>4. CASE item'.ok = item.ok /\ item'.err = item.err + 1 /\ item'.num = item.num
    BY <1>1, <1>2, <1>4, Verdict DEF Behind
  <1>5. QED
    BY <1>3, <1>4, Verdict

\* Every step keeps the counters of the settings, or the overlap is noted.
LEMMA StepCarried ==
  ASSUME Typed, Reached, Taken, Apart, Carried, [Next]_vars
  PROVE  Carried'
  <1>0. Threads = {"core", "gui"}
    BY DEF Threads
  <1>1. CASE \E t \in Threads : Access(t)
    BY <1>1, AccessCarried
  <1>2. CASE UNCHANGED vars
    <2>1. UNCHANGED <<mixed, program, at, value, core, item, ini>>
      BY <1>2 DEF vars, settings, access
    <2>2. QED
      BY <2>1, Zenon DEF Carried, Unwritten, Current, ReadsLast, ToWrite
  <1>3. CASE flush
    <2>1. UNCHANGED <<mixed, program, at, value, core, item, ini>>
      BY <1>3 DEF flush, access
    <2>2. QED
      BY <2>1, Zenon DEF Carried, Unwritten, Current, ReadsLast, ToWrite
  <1>4. CASE startTest
    <2>1. UNCHANGED <<mixed, program, at, value, item, ini>> /\ core = "idle" /\ core' = "test"
      BY <1>4 DEF startTest, settings, access
    <2>2. Unwritten => Unwritten'
      BY <2>1 DEF Unwritten, ToWrite
    <2>3. QED
      BY <2>1, <2>2, Zenon DEF Carried, Current, ReadsLast
  <1>5. CASE countTest
    <2>1. /\ UNCHANGED <<program, at, value, ini>> /\ core = "test" /\ core' = "judge"
          /\ mixed' = (mixed \/ ~GuiFree)
      BY <1>5, Zenon DEF countTest, settings, access
    <2>2. /\ item'.all = item.all + 1 /\ item'.ok = item.ok
          /\ item'.err = item.err /\ item'.num = item.num
      BY <1>5 DEF countTest, Typed, Stored
    <2>3. ASSUME GuiFree, ~mixed
          PROVE  (Unwritten /\ Current /\ ReadsLast)'
      <3>1. \A t \in Threads : program[t] = << >> /\ at[t] = "begin"
        BY <1>0, <2>1, <2>3, Free DEF GuiFree
      <3>2. Unwritten /\ ReadsLast
        BY <2>3 DEF Carried
      <3>3. Same(ini, item)
        BY <2>1, <3>1, <3>2, AllWritten
      <3>4. Counted(ini', item')
        BY <2>1, <2>2, <3>3, StoredKeys DEF Same, Counted, Typed
      <3>5. Unwritten'
        BY <2>1, <3>4 DEF Unwritten
      <3>6. QED
        BY <1>0, <2>1, <3>1, <3>2, <3>5, Zenon DEF Current, ReadsLast
    <2>4. QED
      BY <2>1, <2>3, Zenon DEF Carried
  <1>6. ASSUME NEW pass \in BOOLEAN, judgeTest(pass)
        PROVE  Carried'
    <2>1. UNCHANGED <<mixed, at, value, ini>> /\ core = "judge" /\ core' = "save"
      BY <1>6, Zenon DEF judgeTest, settings
    <2>2. /\ program'["gui"] = program["gui"]
          /\ program'["core"] \in {<<write("done")>> \o writeCnt, writeCnt}
      BY <1>0, <1>6 DEF judgeTest, Typed
    <2>3. at["core"] = "begin"
      BY <1>0, <2>1, Free
    <2>4. ASSUME ~mixed
          PROVE  (Unwritten /\ Current /\ ReadsLast)'
      <3>1. GuiFree /\ at["gui"] = "begin"
        BY <1>0, <2>1, <2>4, Free DEF Apart, Entering, GuiFree
      <3>2. Counted(ini, item) /\ ReadsLast
        BY <2>1, <2>4 DEF Carried, Unwritten
      <3>3. Behind(ini', item')
        BY <1>6, <2>1, <3>2, Judged
      <3>4. \A key \in Counters : ToWrite("core", key)'
        BY <2>1, <2>2, <2>3, Written DEF ToWrite
      <3>5. Unwritten'
        BY <1>0, <2>1, <3>3, <3>4 DEF Unwritten
      <3>6. Current'
        BY <1>0, <2>1, <2>3, <3>1 DEF Current
      <3>7. QED
        BY <2>2, <3>2, <3>5, <3>6, Zenon DEF ReadsLast
    <2>5. QED
      BY <2>1, <2>4, Zenon DEF Carried
  <1>7. CASE insertItem
    <2>1. /\ UNCHANGED <<mixed, program, at, value, item, ini>>
          /\ core = "save" /\ core' = "idle"
      BY <1>7 DEF insertItem, settings, access
    <2>2. Unwritten => Unwritten'
      BY <2>1 DEF Unwritten, ToWrite
    <2>3. QED
      BY <2>1, <2>2, Zenon DEF Carried, Current, ReadsLast
  <1>8. ASSUME NEW name \in Customers, NEW number \in Orders, on_setBtn_clicked(name, number)
        PROVE  Carried'
    <2>1. /\ UNCHANGED <<at, core>> /\ GuiFree /\ mixed' = Entering
          /\ program' = [program EXCEPT !["gui"] = writeCnt \o initCnt]
      BY <1>8, Zenon DEF on_setBtn_clicked
    <2>2. ASSUME ~Entering
          PROVE  (Unwritten /\ Current /\ ReadsLast)'
      <3>1. \A t \in Threads : at'[t] = "begin"
        BY <1>0, <2>1, <2>2, Free DEF GuiFree
      <3>2. program'["gui"] = writeCnt \o initCnt
        BY <1>0, <2>1 DEF Typed
      <3>3. \A key \in Counters : \E i \in DOMAIN program'["gui"] : program'["gui"][i] = write(key)
        BY <3>2, PageReadsLast
      <3>4. \A key \in Counters : ToWrite("gui", key)'
        BY <1>0, <3>1, <3>3 DEF ToWrite
      <3>5. Unwritten'
        BY <1>0, <2>1, <2>2, <3>4 DEF Unwritten, Entering
      <3>6. ReadsLast'
        BY <3>2, PageReadsLast DEF ReadsLast
      <3>7. QED
        BY <1>0, <3>1, <3>5, <3>6, NoneCurrent
    <2>3. QED
      BY <2>1, <2>2, Zenon DEF Carried
  <1>9. CASE saveFunSlot \/ setAddr
    <2>1. /\ UNCHANGED <<at, core, item, ini>> /\ GuiFree /\ mixed' = (mixed \/ Entering)
          /\ \/ program' = [program EXCEPT !["gui"] = writeCfgDev]
             \/ program' = [program EXCEPT !["gui"] = <<write("addr")>>]
      BY <1>9, Zenon DEF saveFunSlot, setAddr, settings
    <2>2. ASSUME ~Entering, ~mixed
          PROVE  (Unwritten /\ Current /\ ReadsLast)'
      <3>1. \A t \in Threads : program[t] = << >> /\ at'[t] = "begin"
        BY <1>0, <2>1, <2>2, Free DEF GuiFree
      <3>2. program'["gui"] \in {writeCfgDev, <<write("addr")>>}
        BY <1>0, <2>1 DEF Typed
      <3>3. Unwritten /\ core # "judge"
        BY <2>2 DEF Carried, Entering
      <3>4. \A key \in Counters : ini[key] = item[key]
        BY <3>1, <3>3, AllWritten
      <3>5. Unwritten'
        BY <2>1, <2>2, <3>3, <3>4 DEF Unwritten, Entering
      <3>6. ReadsLast'
        BY <3>2, PageReadsLast DEF ReadsLast
      <3>7. QED
        BY <1>0, <3>1, <3>5, <3>6, NoneCurrent
    <2>3. QED
      BY <2>1, <2>2, Zenon DEF Carried
  <1>a. CASE restart
    <2>1. /\ core' = "idle" /\ item' = disk /\ ini' = disk
          /\ \A t \in Threads : at'[t] = "begin" /\ program'[t] = << >>
      BY <1>a DEF restart
    <2>2. Unwritten'
      BY <2>1 DEF Unwritten
    <2>3. ReadsLast'
      BY <1>0, <2>1, PageReadsLast DEF ReadsLast
    <2>4. QED
      BY <1>0, <2>1, <2>2, <2>3, NoneCurrent DEF Carried
  <1>b. QED
    BY <1>1, <1>2, <1>3, <1>4, <1>5, <1>6, <1>7, <1>8, <1>9, <1>a, Zenon DEF Next

\* What is left of an order changes by one at most with a box.
LEMMA LeftOver ==
  ASSUME NEW number \in Nat, NEW p \in Nat
  PROVE  /\ Remaining(number, p) \in Nat
         /\ Remaining(number, p + 1) =
              IF Remaining(number, p) > 0 THEN Remaining(number, p) - 1 ELSE 0
         /\ Remaining(number, p) - Remaining(number, p + 1) \in {0, 1}
  BY DEF Remaining

\* So a program that starts from its file has lost one entry at most.
LEMMA Restarted ==
  ASSUME Typed, Kept, Counts, settled
  PROVE  /\ disk.all - logged \in -(cuts + 1)..(cuts + 1)
         /\ disk.all - (disk.ok + disk.err) \in -(cuts + 1)..(cuts + 1)
         /\ disk.num - Remaining(ordered, disk.ok) \in -(cuts + 1)..(cuts + 1)
  <1>0. /\ item.all \in Nat /\ item.ok \in Nat /\ item.err \in Nat /\ item.num \in Nat
        /\ disk.all \in Nat /\ disk.ok \in Nat /\ disk.err \in Nat /\ disk.num \in Nat
        /\ cuts \in Nat /\ logged \in Nat /\ ordered \in Nat
    BY StoredKeys DEF Typed
  <1>1. /\ (IF core \in {"judge", "save"} THEN item.all - 1 ELSE item.all) - logged \in -cuts..cuts
        /\ (IF core = "judge" THEN item.all - 1 ELSE item.all) - (item.ok + item.err) \in -cuts..cuts
        /\ item.num - Remaining(ordered, item.ok) \in -cuts..cuts
    BY DEF Counts, Near
  <1>2. Remaining(ordered, item.ok) \in Nat
    BY <1>0, LeftOver
  <1>3. CASE core \in {"idle", "save"}
    <2>1. Behind(disk, item)
      BY <1>3 DEF Kept
    <2>2. disk.all \in {item.all - 1, item.all} /\ disk.num \in {item.num, item.num + 1}
      BY <2>1 DEF Behind
    <2>3. disk.ok + disk.err \in {item.ok + item.err - 1, item.ok + item.err}
      BY <1>0, <2>1 DEF Behind
    <2>4. disk.ok = item.ok \/ disk.ok = item.ok - 1
      BY <2>1 DEF Behind
    <2>5. Remaining(ordered, disk.ok) \in {Remaining(ordered, item.ok), Remaining(ordered, item.ok) + 1}
      <3>1. CASE disk.ok = item.ok
        BY <3>1
      <3>2. CASE disk.ok = item.ok - 1
        <4>1. item.ok = disk.ok + 1
          BY <1>0, <3>2
        <4>2. Remaining(ordered, disk.ok) \in Nat
          BY <1>0, LeftOver
        <4>3. Remaining(ordered, disk.ok) - Remaining(ordered, item.ok) \in {0, 1}
          BY <1>0, <4>1, LeftOver
        <4>4. QED
          BY <1>2, <4>2, <4>3
      <3>3. QED
        BY <2>4, <3>1, <3>2
    <2>6. disk.all - logged \in -(cuts + 1)..(cuts + 1)
      BY <1>0, <1>1, <1>3, <2>2
    <2>7. disk.all - (disk.ok + disk.err) \in -(cuts + 1)..(cuts + 1)
      BY <1>0, <1>1, <1>3, <2>2, <2>3
    <2>8. disk.num - Remaining(ordered, disk.ok) \in -(cuts + 1)..(cuts + 1)
      BY <1>0, <1>1, <1>2, <2>2, <2>5
    <2>9. QED
      BY <2>6, <2>7, <2>8
  <1>4. CASE core = "test"
    <2>1. Same(disk, item)
      BY <1>4 DEF Kept
    <2>2. QED
      BY <1>0, <1>1, <1>2, <1>4, <2>1 DEF Same
  <1>5. CASE core = "judge"
    <2>1. Counted(disk, item)
      BY <1>5 DEF Kept
    <2>2. QED
      BY <1>0, <1>1, <1>2, <1>5, <2>1 DEF Counted
  <1>6. QED
    BY <1>3, <1>4, <1>5 DEF Typed

\* Every step keeps file and tally, or the overlap is noted.
LEMMA StepFiled ==
  ASSUME Typed, Reached, Taken, Apart, Carried, Filed, [Next]_vars
  PROVE  Filed'
  <1>0. Threads = {"core", "gui"}
    BY DEF Threads
  <1>1. ASSUME NEW t \in Threads, Access(t)
        PROVE  Filed'
    <2>1. UNCHANGED <<mixed, core, disk, settled, cuts, logged, ordered>>
      BY <1>1 DEF Access, beginGroup, setValue, endGroup, history
    <2>2. ~mixed => item' = item
      BY <1>1, AccessItem
    <2>3. QED
      BY <2>1, <2>2, Zenon DEF Filed, Kept, Counts, Near
  <1>2. CASE UNCHANGED vars \/ saveFunSlot \/ setAddr
    <2>1. /\ UNCHANGED <<core, disk, settled, cuts, logged, ordered, item>>
          /\ ~mixed' => ~mixed
      <3>1. CASE UNCHANGED vars
        BY <3>1, Zenon DEF vars, settings, history
      <3>2. CASE saveFunSlot
        BY <3>2, Zenon DEF saveFunSlot, settings, history
      <3>3. CASE setAddr
        BY <3>3, Zenon DEF setAddr, settings, history
      <3>4. QED
        BY <1>2, <3>1, <3>2, <3>3, Zenon
    <2>2. QED
      BY <2>1, Zenon DEF Filed, Kept, Counts, Near
  <1>3. CASE flush
    <2>1. /\ UNCHANGED <<mixed, core, cuts, logged, ordered, item>> /\ GuiFree /\ disk' = ini
      BY <1>3, Zenon DEF flush
    <2>2. Counts => Counts'
      BY <2>1, Zenon DEF Counts, Near
    <2>3. ASSUME ~mixed
          PROVE  Kept'
      <3>1. Unwritten
        BY <2>3 DEF Carried
      <3>2. CASE core \in {"idle", "test"}
        <4>1. \A t \in Threads : program[t] = << >>
          BY <1>0, <2>1, <3>2, Free DEF GuiFree
        <4>2. Same(ini, item)
          BY <3>1, <3>2, <4>1, AllWritten
        <4>3. Behind(ini, item)
          BY <4>2 DEF Same, Behind
        <4>4. QED
          BY <2>1, <3>2, <4>2, <4>3 DEF Kept
      <3>3. CASE core \in {"judge", "save"}
        BY <2>1, <3>1, <3>3 DEF Kept, Unwritten
      <3>4. QED
        BY <3>2, <3>3 DEF Typed
    <2>4. QED
      BY <2>1, <2>2, <2>3, Zenon DEF Filed
  <1>4. CASE startTest
    <2>1. /\ UNCHANGED <<mixed, disk, settled, cuts, logged, ordered, item>> /\ GuiFree
          /\ core = "idle" /\ core' = "test" /\ disk = ini
      BY <1>4 DEF startTest, settings, history
    <2>2. Counts => Counts'
      BY <2>1 DEF Counts, Near
    <2>3. ASSUME ~mixed
          PROVE  Kept'
      <3>1. \A t \in Threads : program[t] = << >>
        BY <1>0, <2>1, Free DEF GuiFree
      <3>2. Same(ini, item)
        BY <2>1, <2>3, <3>1, AllWritten DEF Carried
      <3>3. QED
        BY <2>1, <3>2 DEF Kept
    <2>4. QED
      BY <2>1, <2>2, <2>3, Zenon DEF Filed
  <1>5. CASE countTest
    <2>1. /\ UNCHANGED <<disk, settled, cuts, logged, ordered>> /\ core = "test" /\ core' = "judge"
          /\ ~mixed' => ~mixed
      BY <1>5, Zenon DEF countTest, settings, history
    <2>2. /\ item'.all = item.all + 1 /\ item'.ok = item.ok
          /\ item'.err = item.err /\ item'.num = item.num
      BY <1>5 DEF countTest, Typed, Stored
    <2>3. item.all \in Nat
      BY StoredKeys DEF Typed
    <2>4. Counts => Counts'
      BY <2>1, <2>2, <2>3 DEF Counts, Near
    <2>5. Kept => Kept'
      BY <2>1, <2>2, <2>3 DEF Kept, Same, Counted
    <2>6. QED
      BY <2>1, <2>4, <2>5, Zenon DEF Filed
  <1>6. ASSUME NEW pass \in BOOLEAN, judgeTest(pass)
        PROVE  Filed'
    <2>1. /\ UNCHANGED <<mixed, disk, settled, cuts, logged, ordered>>
          /\ core = "judge" /\ core' = "save"
      BY <1>6, Zenon DEF judgeTest, settings, history
    <2>2. Kept => Kept'
      <3>1. Counted(disk, item) => Behind(disk, item')
        BY <1>6, Judged
      <3>2. QED
        BY <2>1, <3>1 DEF Kept
    <2>3. ASSUME Counts
          PROVE  Counts'
      <3>0. /\ item.all \in Nat /\ item.ok \in Nat /\ item.err \in Nat /\ item.num \in Nat
            /\ cuts \in Nat /\ logged \in Nat /\ ordered \in Nat
        BY StoredKeys DEF Typed
      <3>1. /\ (item.all - 1) - logged \in -cuts..cuts
            /\ (item.all - 1) - (item.ok + item.err) \in -cuts..cuts
            /\ item.num - Remaining(ordered, item.ok) \in -cuts..cuts
        BY <2>1, <2>3 DEF Counts, Near
      <3>2. item'.all = item.all
        BY <1>6, Verdict
      <3>3. item'.ok + item'.err = item.ok + item.err + 1
        BY <1>6, <3>0, Verdict
      <3>4. item'.num - Remaining(ordered, item'.ok) \in -cuts..cuts
        <4>1. CASE item'.ok = item.ok /\ item'.num = item.num
          BY <3>1, <4>1
        <4>2. CASE /\ item'.ok = item.ok + 1
                   /\ item'.num = IF item.num > 0 THEN item.num - 1 ELSE 0
          <5>1. /\ Remaining(ordered, item.ok) \in Nat
                /\ Remaining(ordered, item'.ok) =
                     IF Remaining(ordered, item.ok) > 0 THEN Remaining(ordered, item.ok) - 1 ELSE 0
            <6>1. /\ Remaining(ordered, item.ok) \in Nat
                  /\ Remaining(ordered, item.ok + 1) =
                       IF Remaining(ordered, item.ok) > 0 THEN Remaining(ordered, item.ok) - 1 ELSE 0
              BY <3>0, LeftOver
            <6>2. QED
              BY <4>2, <6>1
          <5>2. QED
            BY <3>0, <3>1, <4>2, <5>1
        <4>3. QED
          BY <1>6, <4>1, <4>2, Verdict
      <3>5. (item'.all - 1) - logged \in -cuts..cuts
        BY <3>1, <3>2
      <3>6. item'.all - (item'.ok + item'.err) \in -cuts..cuts
        BY <3>0, <3>1, <3>2, <3>3
      <3>7. QED
        BY <2>1, <3>4, <3>5, <3>6 DEF Counts, Near
    <2>4. QED
      BY <2>1, <2>2, <2>3, Zenon DEF Filed
  <1>7. CASE insertItem
    <2>1. /\ UNCHANGED <<mixed, disk, settled, cuts, ordered, item>> /\ core = "save" /\ core' = "idle"
          /\ logged' = logged + 1
      BY <1>7 DEF insertItem, settings
    <2>2. Kept => Kept'
      BY <2>1 DEF Kept
    <2>3. item.all \in Nat /\ logged \in Nat
      BY StoredKeys DEF Typed
    <2>4. Counts => Counts'
      <3>1. item.all - 1 - logged = item.all - (logged + 1)
        BY <2>3
      <3>2. QED
        BY <2>1, <3>1 DEF Counts, Near
    <2>5. QED
      BY <2>1, <2>2, <2>4, Zenon DEF Filed
  <1>8. ASSUME NEW name \in Customers, NEW number \in Orders, on_setBtn_clicked(name, number)
        PROVE  Filed'
    <2>1. UNCHANGED core /\ mixed' = Entering /\ settled' = FALSE
      BY <1>8, Zenon DEF on_setBtn_clicked
    <2>2. cuts' = 0 /\ logged' = 0 /\ ordered' = number
      BY <1>8, Zenon DEF on_setBtn_clicked
    <2>3. item'.all = 0 /\ item'.ok = 0 /\ item'.err = 0 /\ item'.num = number
      BY <1>8 DEF on_setBtn_clicked, Typed, Stored
    <2>4. number \in Nat \ {0}
      BY LedgerAssumption
    <2>5. ASSUME ~Entering
          PROVE  Counts'
      BY <2>1, <2>2, <2>3, <2>4, <2>5 DEF Counts, Near, Remaining, Entering
    <2>6. Kept'
      BY <2>1 DEF Kept
    <2>7. QED
      BY <2>1, <2>5, <2>6, Zenon DEF Filed
  <1>9. CASE restart
    <2>1. /\ UNCHANGED <<disk, logged, ordered>> /\ item' = disk /\ cuts' = cuts + 1
          /\ core' = "idle"
      BY <1>9, Zenon DEF restart
    <2>2. ~mixed' => ~mixed /\ settled
      BY <1>9, Zenon DEF restart
    <2>3. Kept'
      BY <2>1 DEF Kept, Behind
    <2>4. ASSUME ~mixed, settled
          PROVE  Counts'
      <3>1. Kept /\ Counts
        BY <2>4, Zenon DEF Filed
      <3>2. QED
        BY <2>1, <2>4, <3>1, Restarted DEF Counts, Near
    <2>5. QED
      BY <2>2, <2>3, <2>4, Zenon DEF Filed
  <1>a. QED
    BY <1>1, <1>2, <1>3, <1>4, <1>5, <1>6, <1>7, <1>8, <1>9, Zenon DEF Next

\* What is lost of an order begins at nothing: the file is new, or nothing of
\* its order has been tested.
LEMMA InitFiled ==
  ASSUME Init
  PROVE  Carried /\ Filed
  <1>1. /\ \A t \in Threads : at[t] = "begin" /\ program[t] = << >>
        /\ core = "idle" /\ ini = item /\ disk = item
        /\ logged = 0 /\ cuts = 0
    BY DEF Init
  <1>2. item.num = ordered /\ item.all = 0 /\ item.ok = 0 /\ item.err = 0
    BY DEF Init
  <1>3. ordered \in Nat
    BY InitTyped DEF Typed
  <1>4. Carried
    <2>1. DOMAIN << >> = {} /\ "gui" \in Threads
      BY DEF Threads
    <2>2. QED
      BY <1>1, <2>1 DEF Carried, Unwritten, Current, ReadsLast
  <1>5. Kept
    BY <1>1 DEF Kept, Behind
  <1>6. Counts
    BY <1>1, <1>2, <1>3 DEF Counts, Near, Remaining
  <1>7. QED
    BY <1>4, <1>5, <1>6, Zenon DEF Filed

\* At rest the tally is exact but for one entry per end of the program, at
\* whatever call of writeLog, CfgCom::write or QSettings it came.
THEOREM TallyKept == Spec => []CrashCostsOne
  <1> DEFINE Inv == Typed /\ Reached /\ Taken /\ Apart /\ Carried /\ Filed
  <1>1. Init => Inv
    BY InitTyped, InitNamed, InitFiled
  <1>2. Inv /\ [Next]_vars => Inv'
    BY StepTyped, StepReached, StepApart, StepCarried, StepFiled
  <1>3. Inv => CrashCostsOne
    BY DEF Filed, Counts, CrashCostsOne, AtRest
  <1>4. QED
    BY <1>1, <1>2, <1>3, PTL DEF Spec
=============================================================================
