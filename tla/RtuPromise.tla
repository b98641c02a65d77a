----------------------------- MODULE RtuPromise -----------------------------
(***************************************************************************)
(* What a caller of the Modbus layer relies on: while a call is open the   *)
(* device may carry the command out, the call succeeds only if it did, and *)
(* once the call has returned nothing of it happens any more.              *)
(***************************************************************************)
EXTENDS Integers

VARIABLES
  calling,  \* a call is open
  done,     \* the device has carried out the latest command
  verdict   \* what the latest call returned

vars == <<calling, done, verdict>>

Init ==
  /\ calling = FALSE
  /\ done = FALSE
  /\ verdict = "none"

Call ==
  /\ ~calling
  /\ calling' = TRUE
  /\ done' = FALSE
  /\ verdict' = "none"

CarryOut ==
  /\ calling
  /\ done' = TRUE
  /\ UNCHANGED <<calling, verdict>>

Succeed ==
  /\ calling
  /\ done
  /\ calling' = FALSE
  /\ verdict' = "ok"
  /\ UNCHANGED done

Fail ==
  /\ calling
  /\ calling' = FALSE
  /\ verdict' = "fail"
  /\ UNCHANGED done

Next == Call \/ CarryOut \/ Succeed \/ Fail

Spec == Init /\ [][Next]_vars
=============================================================================
