------------------------------ MODULE AndonPart ------------------------------
(* The andon watcher with the line and the stations it shares it with, as the *)
(* runs and the proofs take it, and what it promises.                         *)

CONSTANTS Other, MaxMaster, MaxPulls, MaxRestarts
VARIABLES masters, passed, failures, events, cord, live, pc, st, res, event, last, restarts, other

AW == INSTANCE AndonWatcher WITH line <- masters, todo <- event

\* Beside other stations that pull and clear, and through restarts, the watcher
\* never closes the cards of the event that stops the line.
ResolveSparesTheStop == AW!ResolveSparesTheStop

\* The watcher's verdicts hold: it stops the line only on two signed failures of the
\* commit, and never rests on a verdict of the current master that it did not act on.
VerdictsHold == AW!VerdictsHold
==============================================================================
