---------------------------- MODULE MCJobControl ----------------------------
(* Constants for model-checking JobControl.                                *)
EXTENDS JobControl, TLC

CONSTANTS p1, p2, p3

TwoPids   == {p1, p2}
ThreePids == {p1, p2, p3}
ZeroOne   == {0, 1}
JustZero  == {0}

Nothing      == {}
WaitOnly     == {"wait"}
AsyncOnly    == {"async"}
JobsOnly     == {"jobs"}
ScriptRuns   == {"async", "jobs", "wait", "external", "subshell", "pipe"}
QuietRuns    == ScriptRuns \cup {"descend"}
TerminalRuns == {"async", "jobs", "wait", "fg", "bg", "external"}

PidSymmetry == Permutations(Pids)
=============================================================================
