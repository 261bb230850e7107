---------------------------- MODULE MCControlFlow ----------------------------
(* Constants for model-checking ControlFlow.                               *)
EXTENDS ControlFlow

(* What the scripts are made of: lists under set -e; loops left from       *)
(* inside functions, eval and sourced files; ways out of a shell that has  *)
(* an EXIT trap; trap actions.                                             *)
Lists    == {"cmd", "set", "and", "or", "not", "seq", "sub", "call", "eval"}
Breaking == {"while", "for", "seq", "break", "continue", "return", "cmd",
             "call", "eval", "dot", "sub", "pipe"}
Leaving  == {"cmd", "sub", "subst", "trap", "exit", "fatal", "eval", "return",
             "command", "parse"}
Acting   == {"cmd", "if", "until", "trap", "exit", "seq", "command"}

(* Under set -e: a list in a loop, a list in a condition, a trap action.   *)
ListInLoop  == {Lists \cup {"for"}}
ListInTest  == {Lists \cup {"if"}}
FailingTrap == {{"cmd", "set", "trap"}}

(* A signal in the EXIT action; one whose action does not parse; one that  *)
(* comes between a break and its loop.                                     *)
ActingTwice == {{"cmd", "trap", "exit"}}
Unparsable  == {{"cmd", "trap", "eval", "parse"}}
BreakInTrap == {{"for", "break", "trap", "cmd"}}

AllScripts == {Lists, Breaking, Leaving, Acting}
Deviating  == ListInLoop \cup ListInTest \cup FailingTrap \cup ActingTwice \cup Unparsable \cup BreakInTrap
NoOperands == {}
Three      == {3}
=============================================================================
