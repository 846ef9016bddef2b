--------------------------- MODULE MCAndonWatcher ---------------------------
(* The watcher as the only station that pulls, on a line of two commits:   *)
(* what it does in the end.  (MCParts has it beside another station and    *)
(* through a restart.)                                                     *)
EXTENDS AndonPart

vars == <<masters, passed, failures, events, cord, live, pc, st, res, event, last, restarts, other>>

Init == AW!Init

Next == AW!Step \/ AW!Errors \/ AW!Environment

Spec == Init /\ [][Next]_vars /\ AW!Ticks /\ AW!Recovers

-----------------------------------------------------------------------------
(* The line follows master: it stops on a broken one, restarts on a good   *)
(* one, and a stop without a live card gets one, unless a newer master     *)
(* comes or the stop is lifted first.                                      *)
LineFollowsMaster == AW!BrokenMasterStops /\ AW!GoodMasterRestarts /\ AW!StopIsCarded
=============================================================================
