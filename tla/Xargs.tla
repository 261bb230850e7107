------------------------------- MODULE Xargs -------------------------------
(***************************************************************************)
(* The xargs applet (core/xargs.c): tokens gathered into command lines     *)
(* under -n, -L and -s, or put into a template by -I; up to -P commands    *)
(* running at once in a table of slots; and the exit status.  It runs in   *)
(* the shell's own process: the shell's background child is a child here   *)
(* too, which waitpid(-1) may collect, and the table outlives a call, when *)
(* a pid in it may come to be that of another command.  The shell's traps  *)
(* are that process's too: a signal breaks off a read or a wait, and the   *)
(* commands of its trap run there and then.                                *)
(***************************************************************************)
EXTENDS Integers, FiniteSets, SequencesExt

CONSTANTS
    XRuns,       \* what may be run: [n, room, procs, repl, always, shell, trap, input]
    LaterRuns,   \* ... when it is not the first of its shell
    Statuses,    \* how a command may end
    Pids,        \* the pids the kernel gives to commands
    Shell,       \* that of the shell's background child
    MaxParallel  \* MAX_PARALLEL, the size of g_procs

(* -n is at least 1, and -P is put between 1 and MAX_PARALLEL.               *)
ASSUME XargsAssumption ==
    /\ MaxParallel \in Nat \ {0} /\ Statuses \subseteq Nat /\ Shell \notin Pids
    /\ \A r \in XRuns \cup LaterRuns :
          /\ r \in [n : Nat \ {0}, room : Int, procs : 1 .. MaxParallel, repl : BOOLEAN,
                    always : BOOLEAN, shell : BOOLEAN, trap : {"none", "plain", "reaps"},
                    input : Seq(Range(r.input))]
          /\ \A i \in DOMAIN r.input : r.input[i].len \in Nat

VARIABLES
    run,      \* the options; input: what read_token will return, in order; trap:
              \*   no signal is trapped, or one is, or its commands end in `&'
    items,    \* tokens gathered and not yet given to a command
    got,      \* tokens read so far
    eof,      \* tokens that read_token returns before the end of its input
    made,     \* the command lines started, in order: sequences of tokens
    kids,     \* pid -> Running, or the status it ended with, uncollected
    child,    \* the pid exec_cmd waits for
    slots,    \* g_procs[0 .. g_nprocs - 1]: [pid, used]
    status,   \* `worst', then the exit status
    ended,    \* history: the status every command ended with
    abandoned, \* history: the children whose wait a signal broke off
    at        \* "read", "start", "wait", "drain", "done"

Running == -1

xVars == <<run, items, got, eof, made, kids, child, slots, status, ended, abandoned, at>>

(* A token is [w, len], w its text and len its bytes; the token Broken is    *)
(* one read_token refuses: a quote or a backslash left open.  A word that a   *)
(* signal breaks in two is two tokens.                                       *)
Broken == "broken"
Template == run.repl

Length(its) ==
    LET sum[k \in 0 .. Len(its)] == IF k = 0 THEN 0 ELSE sum[k - 1] + its[k].len + 1
    IN  sum[Len(its)]

FullLate(t) ==
    /\ items # <<>>
    /\ Len(items) > run.n \/ Length(items) + t.len + 1 > run.room

(* Flush if the -n limit or the room for arguments would be exceeded.        *)
Full(t) ==
    /\ items # <<>>
    /\ Len(items) >= run.n \/ Length(items) + t.len + 1 > run.room

Busy == {i \in DOMAIN slots : slots[i].used}
Free == {i \in DOMAIN slots : ~slots[i].used}
Least(ns) == CHOOSE i \in ns : \A j \in ns : i <= j
Worse(a, b) == IF b > a THEN b ELSE a

(* The slot table: the first free slot, or one more.                         *)
Taken(pid) == [pid |-> pid, used |-> TRUE]
RecordedLast(pid) ==
    IF Free # {} THEN [slots EXCEPT ![CHOOSE i \in Free : \A j \in Free : j <= i] = Taken(pid)]
    ELSE IF Len(slots) < MaxParallel THEN Append(slots, Taken(pid)) ELSE slots
Recorded(pid) ==
    IF Free # {} THEN [slots EXCEPT ![Least(Free)] = Taken(pid)]
    ELSE IF Len(slots) < MaxParallel THEN Append(slots, Taken(pid)) ELSE slots

---------------------------------------------------------------------------
(* read_token, and what one turn of the main loop makes of it.               *)
NoInput == eof = 0 \/ Head(run.input).w = Broken    \* ~got_input
Peek == run.input[got + 1]
More == got < eof

(* Gathered, the earlier items having been given to a command when full.     *)
Gather ==
    /\ at = "read" /\ More /\ Peek.w # Broken /\ ~Template /\ ~Full(Peek)
    /\ items' = Append(items, Peek)
    /\ got' = got + 1
    /\ UNCHANGED <<run, eof, made, kids, child, slots, status, ended, abandoned, at>>

MustFlush ==
    /\ at = "read" /\ More /\ Peek.w # Broken /\ ~Template /\ Full(Peek)
    /\ at' = "start"
    /\ UNCHANGED <<run, items, got, eof, made, kids, child, slots, status, ended, abandoned>>

(* -I: one command per token.                                                *)
Substituted ==
    /\ at = "read" /\ More /\ Peek.w # Broken /\ Template
    /\ items' = <<Peek>>
    /\ got' = got + 1
    /\ at' = "start"
    /\ UNCHANGED <<run, eof, made, kids, child, slots, status, ended, abandoned>>

(* A token that cannot be read ends the loop with status 1; what was         *)
(* gathered still runs.                                                      *)
Refused ==
    /\ at = "read" /\ More /\ Peek.w = Broken
    /\ got' = eof
    /\ status' = 1
    /\ UNCHANGED <<run, items, eof, made, kids, child, slots, ended, abandoned, at>>

(* getchar fails when a signal is trapped meanwhile, which read_token takes   *)
(* for the end of the input.                                                 *)
ReadInterrupted ==
    /\ at = "read" /\ More /\ run.trap # "none"
    /\ eof' = got
    /\ UNCHANGED <<run, items, got, made, kids, child, slots, status, ended, abandoned, at>>

EndOfInputDrops ==
    /\ at = "read" /\ ~More
    /\ at' = IF NoInput /\ run.always THEN "start" ELSE "drain"
    /\ UNCHANGED <<run, items, got, eof, made, kids, child, slots, status, ended, abandoned>>

EndOfInput ==
    /\ at = "read" /\ ~More
    /\ at' = IF items # <<>> \/ (NoInput /\ run.always /\ ~Template)
             THEN "start" ELSE "drain"
    /\ UNCHANGED <<run, items, got, eof, made, kids, child, slots, status, ended, abandoned>>

(* A command is started once a slot is free; with -P 1 the caller then waits *)
(* for it.  A pid that was collected may come back.                          *)
Ready == at = "start" /\ (run.procs > 1 => Cardinality(Busy) < run.procs)
GoesOn == at' = IF More THEN "read" ELSE "drain"

Start ==
    /\ Ready
    /\ \E pid \in Pids \ DOMAIN kids :
          /\ kids' = [k \in DOMAIN kids \cup {pid} |-> IF k = pid THEN Running ELSE kids[k]]
          /\ IF run.procs = 1 THEN child' = pid /\ UNCHANGED slots
             ELSE slots' = Recorded(pid) /\ UNCHANGED child
    /\ made' = Append(made, items)
    /\ items' = <<>>
    /\ IF run.procs = 1 THEN at' = "wait" ELSE GoesOn
    /\ UNCHANGED <<run, got, eof, status, ended, abandoned>>

ForkFails ==
    /\ Ready
    /\ items' = <<>>
    /\ status' = Worse(status, 1)
    /\ GoesOn
    /\ UNCHANGED <<run, got, eof, made, kids, child, slots, ended, abandoned>>

WaitForItForgets ==
    /\ at = "wait" /\ child \in DOMAIN kids /\ kids[child] # Running
    /\ kids' = [k \in DOMAIN kids \ {child} |-> kids[k]]
    /\ GoesOn
    /\ UNCHANGED <<run, items, got, eof, made, child, slots, status, ended, abandoned>>

(* exec_cmd: waitpid for this very child.                                    *)
WaitForIt ==
    /\ at = "wait" /\ child \in DOMAIN kids /\ kids[child] # Running
    /\ status' = Worse(status, kids[child])
    /\ kids' = [k \in DOMAIN kids \ {child} |-> kids[k]]
    /\ GoesOn
    /\ UNCHANGED <<run, items, got, eof, made, child, slots, ended, abandoned>>

(* exec_cmd's waitpid fails: a signal was trapped, or a trap has collected    *)
(* the child.  Either way the command counts as one that returned 1.         *)
WaitInterruptedUntold ==
    /\ at = "wait" /\ child \in DOMAIN kids /\ kids[child] = Running /\ run.trap # "none"
    /\ abandoned' = abandoned \cup {child}
    /\ GoesOn
    /\ UNCHANGED <<run, items, got, eof, made, kids, child, slots, status, ended>>
WaitInterrupted ==
    /\ at = "wait" /\ child \in DOMAIN kids /\ kids[child] = Running /\ run.trap # "none"
    /\ abandoned' = abandoned \cup {child}
    /\ status' = Worse(status, 1)
    /\ GoesOn
    /\ UNCHANGED <<run, items, got, eof, made, kids, child, slots, ended>>
WaitGone ==
    /\ at = "wait" /\ child \notin DOMAIN kids
    /\ status' = Worse(status, 1)
    /\ GoesOn
    /\ UNCHANGED <<run, items, got, eof, made, kids, child, slots, ended, abandoned>>

CollectedKeepsSlot(pid) ==
    /\ kids' = [k \in DOMAIN kids \ {pid} |-> kids[k]]
    /\ abandoned' = abandoned \ {pid}
    /\ UNCHANGED slots

(* wait_one: any child of the process; the first slot with its pid, if there *)
(* is one, is free then.  A wait broken off, or with no child left, returns  *)
(* 0 to a loop that calls it again: no step.                                 *)
SlotsOf(pid) == {i \in DOMAIN slots : slots[i].pid = pid}
Collected(pid) ==
    /\ kids' = [k \in DOMAIN kids \ {pid} |-> kids[k]]
    /\ abandoned' = abandoned \ {pid}
    /\ slots' = IF SlotsOf(pid) = {} THEN slots
                ELSE [slots EXCEPT ![Least(SlotsOf(pid))].used = FALSE]

Reapable == {k \in DOMAIN kids : kids[k] # Running}

(* No free slot: one child is waited for, its status dropped.                *)
WaitForSlot ==
    /\ at = "start" /\ run.procs > 1 /\ Cardinality(Busy) >= run.procs
    /\ \E pid \in Reapable : Collected(pid)
    /\ UNCHANGED <<run, items, got, eof, made, child, status, ended, at>>

(* wait_all_children: the worst status of those that are left.               *)
Drain ==
    /\ at = "drain" /\ Busy # {}
    /\ \E pid \in Reapable :
          Collected(pid) /\ status' = Worse(status, kids[pid])
    /\ UNCHANGED <<run, items, got, eof, made, child, ended, at>>

ExitAtOnce ==
    /\ at = "drain"
    /\ status' = IF status > 125 THEN 1 ELSE status
    /\ at' = "done"
    /\ UNCHANGED <<run, items, got, eof, made, kids, child, slots, ended, abandoned>>

(* Exit: 126 and 127 come out as 1.                                          *)
Exit ==
    /\ at = "drain" /\ Busy = {}
    /\ status' = IF status > 125 THEN 1 ELSE status
    /\ at' = "done"
    /\ UNCHANGED <<run, items, got, eof, made, kids, child, slots, ended, abandoned>>

(* A child ends by itself, at any moment.                                    *)
ChildEnds ==
    \E pid \in DOMAIN kids, s \in Statuses :
        /\ kids[pid] = Running
        /\ kids' = [kids EXCEPT ![pid] = s]
        /\ ended' = IF pid \in {Shell} \cup abandoned THEN ended ELSE Append(ended, s)
        /\ UNCHANGED <<run, items, got, eof, made, child, slots, status, abandoned, at>>

(* The trap's own background job (exec_async) first reaps for the job table,  *)
(* whose waitpid(-1) takes every child that has ended, those of xargs too.   *)
TrapReaps ==
    /\ at # "done" /\ run.trap = "reaps" /\ Reapable # {}
    /\ kids' = [k \in DOMAIN kids \ Reapable |-> kids[k]]
    /\ abandoned' = abandoned \ Reapable
    /\ UNCHANGED <<run, items, got, eof, made, child, slots, status, ended, at>>

(* Another call in the same shell: the table is as the last one left it.     *)
Again ==
    /\ at = "done"
    /\ \E r \in LaterRuns :
          run' = [r EXCEPT !.shell = Shell \in DOMAIN kids] /\ eof' = Len(r.input)
    /\ items' = <<>> /\ got' = 0 /\ made' = <<>>
    /\ status' = 0 /\ ended' = <<>> /\ at' = "read"
    /\ UNCHANGED <<kids, child, slots, abandoned>>

---------------------------------------------------------------------------
XInit ==
    /\ run \in XRuns /\ eof = Len(run.input) /\ abandoned = {}
    /\ items = <<>> /\ got = 0 /\ made = <<>> /\ slots = <<>>
    /\ kids = [k \in IF run.shell THEN {Shell} ELSE {} |-> Running]
    /\ child = Shell /\ status = 0 /\ ended = <<>> /\ at = "read"

XStep ==
    \/ Gather \/ MustFlush \/ Substituted \/ Refused \/ EndOfInput \/ Start \/ ForkFails
    \/ WaitForIt \/ WaitGone \/ WaitForSlot \/ Drain \/ Exit

Signalled == ReadInterrupted \/ WaitInterrupted \/ TrapReaps

XNext == XStep \/ ChildEnds \/ Signalled \/ Again

(* xargs keeps running, and no command runs for ever; a signal need not come. *)
XSpec == XInit /\ [][XNext]_xVars /\ WF_xVars(XStep) /\ WF_xVars(ChildEnds)

---------------------------------------------------------------------------
(* Properties.                                                             *)

MineRunning == {k \in DOMAIN kids : k # Shell /\ kids[k] = Running}

(* Exit status 0 says that every token that was read is in exactly one        *)
(* command, in the order it was read (the flush before an item is added, the *)
(* flush after the last), and that all were read unless a signal is trapped.  *)
EveryTokenOnce ==
    at = "done" /\ status = 0 =>
        /\ FlattenSeq(made) = SubSeq(run.input, 1, eof)
        /\ run.trap = "none" => eof = Len(run.input)

(* No command line exceeds -n or the room for arguments, a token too long on *)
(* its own excepted, and no more than -P commands run at once beside those    *)
(* whose wait a signal broke off.                                            *)
WithinLimits ==
    /\ \A i \in DOMAIN made :
          /\ Len(made[i]) <= run.n
          /\ Len(made[i]) > 1 => Length(made[i]) <= run.room
    /\ Cardinality(MineRunning \ abandoned) <= run.procs

(* With one command at a time exit status 0 says that each was waited for to  *)
(* its end and none failed; and the shell's background child is still there   *)
(* to be waited for, if no trap has it reaped for the job table.              *)
AloneItTellsAll ==
    run.procs = 1 /\ at = "done" =>
        /\ status = 0 => Len(ended) = Len(made) /\ \A i \in DOMAIN ended : ended[i] = 0
        /\ run.shell /\ run.trap # "reaps" => Shell \in DOMAIN kids

(* docs/COMPATIBILITY.md, exit status reference: 0 when all commands          *)
(* completed, 1 when a command returned non-zero.                             *)
StatusTellsFailure ==
    at = "done" /\ status = 0 => \A i \in DOMAIN ended : ended[i] = 0

(* The shell's own background child is not collected behind its back.         *)
ShellChildKept == run.shell => Shell \in DOMAIN kids

(* Every command that was started is waited for before xargs returns, unless  *)
(* a signal broke the wait off.                                              *)
NoneLeftBehind == at = "done" => DOMAIN kids \subseteq {Shell} \cup abandoned

(* ... and whatever is trapped: no command is left, and no token unread.      *)
NothingAdrift == at = "done" => DOMAIN kids \subseteq {Shell}
NothingUnread == at = "done" /\ status = 0 => FlattenSeq(made) = run.input

(* A slot in use is the only claim to a child that is there, and the first    *)
(* place its pid is found at, whatever slots of earlier commands hold that    *)
(* pid: the loops on the table never wait for what was collected before.      *)
SlotsAreChildren ==
    \A i \in Busy :
        /\ slots[i].pid \in DOMAIN kids \ {Shell}
        /\ \A j \in 1 .. i - 1 : slots[j].pid # slots[i].pid

(* xargs gives every argument to one command within its limits, leaves none   *)
(* of them running, and tells how they ended.                                 *)
ArgumentsAccounted ==
    EveryTokenOnce /\ WithinLimits /\ NoneLeftBehind /\ SlotsAreChildren /\ AloneItTellsAll

(* Every call of xargs returns: a slot is always freed by the child it waits   *)
(* for.                                                                       *)
Returns == at = "read" ~> at = "done"
=============================================================================
