---------------------------- MODULE MCSerialPort ----------------------------
(* Instances of SerialPort for TLC. *)
EXTENDS SerialPort

Calmest == [ Attempts |-> 3, MaxCmds |-> 3, MaxClears |-> 0, Faults |-> TRUE, Slow |-> FALSE,
             EarlyEnd |-> FALSE, Unplug |-> FALSE, Refusals |-> FALSE ]

\* A lossy line in a calm test, and everything that can go wrong together.
MCScenarios ==
  { Calmest,
    [Calmest EXCEPT !.Attempts = 2, !.MaxCmds = 1, !.MaxClears = 1,
                    !.Slow = TRUE, !.EarlyEnd = TRUE, !.Unplug = TRUE] }

RefusalScenarios == {[Calmest EXCEPT !.MaxCmds = 1, !.Faults = FALSE, !.Refusals = TRUE]}
=============================================================================
