---------------------------- MODULE TestVerdict ----------------------------
(***************************************************************************)
(* What the test bench promises about one production order, whatever its   *)
(* threads and dialogs do: a test that has begun ends in exactly one entry *)
(* of the tally; the entry is a pass if and only if nothing went wrong     *)
(* while the test ran; a pass, and only a pass, takes one box off the      *)
(* order; no test begins once the order is complete.                       *)
(*                                                                         *)
(* The promise has one exception, and it is bounded: a start that comes    *)
(* before the thread of the test before it has finished.  It may be lost,  *)
(* it may share its entry with the test it overtakes, and the entry may be *)
(* a pass in spite of a fault; the next start in time ends the exception.  *)
(***************************************************************************)
EXTENDS Integers

CONSTANT Order  \* boxes to deliver when the order is entered, a natural number

VARIABLES
  testing,  \* a test has begun and has no entry yet
  faulty,   \* something went wrong since the last test began
  num,      \* boxes still to deliver
  ok, err,  \* entries so far, by verdict
  overtaken \* the last start came too early

vars == <<testing, faulty, num, ok, err, overtaken>>

Init ==
  /\ testing = FALSE
  /\ faulty = FALSE
  /\ num = Order
  /\ ok = 0
  /\ err = 0
  /\ overtaken = FALSE

Begin ==
  /\ ~testing
  /\ num > 0
  /\ testing' = TRUE
  /\ faulty' = FALSE
  /\ overtaken' = FALSE
  /\ UNCHANGED <<num, ok, err>>

\* A start before the thread of the last test has finished.
Overtake ==
  /\ num > 0
  /\ testing' = TRUE
  /\ overtaken' = TRUE
  /\ UNCHANGED <<faulty, num, ok, err>>

\* It comes to nothing.
StartLost ==
  /\ testing /\ overtaken
  /\ testing' = FALSE
  /\ UNCHANGED <<faulty, num, ok, err, overtaken>>

\* A check fails, the device is silent, the network reports an error or the
\* operator ends the test; after the entry is made a fault changes no entry.
Fault ==
  /\ faulty' = TRUE
  /\ UNCHANGED <<testing, num, ok, err, overtaken>>

\* The entry is made; a start that overtook may have a run of its own to come.
Entry ==
  /\ testing
  /\ testing' \in {FALSE, overtaken}
  /\ UNCHANGED <<faulty, overtaken>>

RecordPass ==
  /\ Entry
  /\ ~faulty \/ overtaken
  /\ ok' = ok + 1
  /\ num' = IF num > 0 THEN num - 1 ELSE num
  /\ num > 0 \/ overtaken
  /\ UNCHANGED err

RecordFail ==
  /\ Entry
  /\ faulty
  /\ err' = err + 1
  /\ UNCHANGED <<num, ok>>

Next == Begin \/ Overtake \/ StartLost \/ Fault \/ RecordPass \/ RecordFail

Spec == Init /\ [][Next]_vars
=============================================================================
