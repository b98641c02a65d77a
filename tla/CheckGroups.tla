---------------------------- MODULE CheckGroups ----------------------------
(***************************************************************************)
(* The groups of checks workDown runs, and what it knows of a group when   *)
(* the group has returned.  TestRun takes a group as a whole, BoxCheck     *)
(* goes through its checks one by one.                                     *)
(***************************************************************************)

\* In the order of workDown.
Phases == {"err", "version", "base", "alarm", "factory", "vol"}

\* The verdicts a group can return although one of its checks failed:
\* envErrRange returns the last sensor's, checkAlarmErr overwrites res when
\* the last line's check passed, checkBaseInfo returns nothing.
MaskedRet(phase) ==
  CASE phase \in {"err", "alarm"} -> {TRUE, FALSE}
    [] phase = "base" -> {TRUE}
    [] OTHER -> {FALSE}

NextPhase(phase, r) ==
  IF ~r THEN "ask"
  ELSE CASE phase = "err" -> "version"
         [] phase = "version" -> "base"
         [] phase = "base" -> "alarm"
         [] phase = "alarm" -> "factory"
         [] phase = "factory" -> "ask"
=============================================================================
