------------------------------ MODULE UndoLog ------------------------------
(***************************************************************************)
(* What a shell promises of redirections, however it saves descriptors:    *)
(* every command keeps a log of what the descriptors it redirects referred *)
(* to, and plays it back, last entry first, when the command is over.      *)
(* Only `exec` forgets its log, and a forked child starts without one.     *)
(***************************************************************************)
EXTENDS Integers, Sequences

CONSTANTS ScriptFds, Files

VARIABLES
  view,   \* what each descriptor of the script refers to
  log     \* the logs of the commands under way, innermost first

States == Files \cup {"closed"}

Init == /\ view \in [ScriptFds -> States]
        /\ log = <<<<>>>>

Logged(fd) == Append(Head(log), [fd |-> fd, was |-> view[fd]])

Enter == log' = <<<<>>>> \o log /\ UNCHANGED view

(* A redirection that fails is logged like one that changes nothing.       *)
Redirect(fd, v) ==
  /\ view' = [view EXCEPT ![fd] = v]
  /\ log' = <<Logged(fd)>> \o Tail(log)

(* The last stage of a pipeline: a command with its input redirected.      *)
EnterPipe ==
  /\ view' = [n \in ScriptFds |-> IF n = 0 THEN "pipe_in" ELSE view[n]]
  /\ log' = << IF 0 \in ScriptFds THEN <<[fd |-> 0, was |-> view[0]]>> ELSE <<>> >> \o log

Undo ==
  /\ log # <<>> /\ Head(log) # <<>>
  /\ LET e == Head(log)[Len(Head(log))]
     IN  view' = [view EXCEPT ![e.fd] = e.was]
  /\ log' = <<SubSeq(Head(log), 1, Len(Head(log)) - 1)>> \o Tail(log)

Leave == log # <<>> /\ Head(log) = <<>> /\ log' = Tail(log) /\ UNCHANGED view

Keep == log # <<>> /\ log' = Tail(log) /\ UNCHANGED view

Fork ==
  /\ log' = <<<<>>>>
  /\ view' \in {view, [n \in ScriptFds |-> IF n = 1 THEN "pipe_out" ELSE view[n]]}

Next == \/ Enter \/ EnterPipe \/ Undo \/ Leave \/ Keep \/ Fork
        \/ log # <<>> /\ \E fd \in ScriptFds, v \in States : Redirect(fd, v)

Spec == Init /\ [][Next]_<<view, log>>
=============================================================================
