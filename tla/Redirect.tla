------------------------------ MODULE Redirect ------------------------------
(***************************************************************************)
(* The redirections of one shell process (redirect.c) under the commands   *)
(* that use them (exec.c, expand.c): each command applies its list one     *)
(* redirection at a time, runs, and restores; bare `exec` commits; a fork  *)
(* goes on as the child, whose parent waits with its table untouched.      *)
(*                                                                         *)
(* A frame of `stack` is a command under way, innermost first; `saved` is  *)
(* its list of saved descriptors, here in the order they were saved.       *)
(***************************************************************************)
EXTENDS Integers, Sequences

(***************************************************************************)
(* The descriptor table of one process as the kernel keeps it: an external *)
(* component, modelled from how redirect.c, exec.c and expand.c call       *)
(* open(2), dup(2), dup2(2), fcntl(2), pipe(2) and close(2).  What a       *)
(* descriptor refers to is a member of Files.                              *)
(***************************************************************************)
CONSTANTS
  Fds,      \* descriptor numbers below RLIMIT_NOFILE
  Files     \* open files, terminals and pipe ends

ASSUME DescriptorsAssumption ==
  /\ Fds \subseteq Nat
  /\ {"tty", "pipe_in", "pipe_out", "report"} \subseteq Files
  /\ "closed" \notin Files

NoFd == -1

Slot == [file : Files \cup {"closed"}, cloexec : BOOLEAN]

Slotted(file, cloexec) == [file |-> file, cloexec |-> cloexec]

Closed == Slotted("closed", FALSE)

IsOpen(t, n) == t[n].file # "closed"

(* The descriptors from `base` on that the next call could return.         *)
FreeFrom(t, base) == {n \in Fds : n >= base /\ ~IsOpen(t, n)}

Lowest(ns) == CHOOSE n \in ns : \A m \in ns : n <= m

(* open(2), dup(2) and fcntl(F_DUPFD_CLOEXEC) take the lowest number free. *)
Placed(t, n, file, cloexec) == [t EXCEPT ![n] = Slotted(file, cloexec)]

(* dup2(2): a copy is never close-on-exec, and onto itself nothing changes. *)
Dup2(t, a, b) == IF a = b \/ ~IsOpen(t, a) THEN t ELSE Placed(t, b, t[a].file, FALSE)

Close(t, ns) == [n \in Fds |-> IF n \in ns THEN Closed ELSE t[n]]

(* execve(2)                                                               *)
Execed(t) == [n \in Fds |-> IF t[n].cloexec THEN Closed ELSE t[n]]

-----------------------------------------------------------------------------
CONSTANTS
  SaveBase,       \* FD_SAVE_BASE
  ScriptFds,      \* descriptors the script names
  Opens,          \* <<fd, file>>: n<file, n>file, n>>file, n<>file, n<<EOF
  Dups,           \* <<fd, src>>: n<&src, n>&src
  Closes,         \* n<&-, n>&-
  Kinds,          \* the kinds of command the script uses
  Interactive,    \* sh->interactive
  ScriptOnStdin,  \* shell_run_stdin reads the script from a private copy of fd 0
  MaxRedirs,      \* bound: redirections of one command
  MaxDepth,       \* bound: commands under way in one process
  MaxForks        \* bound: forks followed

(***************************************************************************)
(* "command" is a function, an ordinary builtin, an applet, an assignment  *)
(* or the report that a command was not found; "special" a special builtin *)
(* other than bare `exec`; "fork_applet" sh or env; "body" and "stage" the *)
(* last and an earlier stage of a pipeline.                                *)
(***************************************************************************)
Inline  == {"brace", "command", "special", "exec", "command_exec"}
Forking == {"subshell", "external", "fork_applet", "cmd_subst"}
AllKinds == Inline \cup Forking \cup {"body", "stage"}

Phases == {"apply", "run", "restore", "execed", "gone"}

ASSUME RedirectAssumption ==
  /\ SaveBase \in Nat /\ ScriptFds \subseteq Fds /\ {0, 1} \subseteq Fds
  /\ Opens \subseteq ScriptFds \X Files /\ Dups \subseteq ScriptFds \X Fds
  /\ Closes \subseteq ScriptFds
  /\ Kinds \subseteq AllKinds
  /\ {Interactive, ScriptOnStdin} \subseteq BOOLEAN
  /\ ScriptOnStdin => SaveBase \in Fds
  /\ {MaxRedirs, MaxDepth, MaxForks} \subseteq Nat

VARIABLES
  t,       \* the descriptor table of this process
  stack,   \* the commands under way in it
  forks    \* forks followed so far

vars == <<t, stack, forks>>

Frame(kind, phase) ==
  [kind |-> kind, phase |-> phase, saved |-> <<>>, left |-> MaxRedirs, failed |-> FALSE]

Top == Head(stack)

Push(f) == stack' = <<f>> \o stack
Swap(f) == stack' = <<f>> \o Tail(stack)
Become(f) == stack' = <<f>>

Copies(f) == {f.saved[i].copy : i \in DOMAIN f.saved} \ {NoFd}

-----------------------------------------------------------------------------
(* A command starts: in this process, or in a forked child that goes on    *)
(* with a copy of the table and none of the commands under way.            *)

Begin(kind) ==
  /\ Top.phase = "run" /\ Len(stack) < MaxDepth
  /\ kind \in Kinds \cap Inline
  /\ Push(Frame(kind, "apply"))
  /\ UNCHANGED <<t, forks>>

Fork(kind) ==
  /\ Top.phase = "run" /\ forks < MaxForks
  /\ kind \in Kinds \cap (Forking \ {"cmd_subst"})
  /\ forks' = forks + 1
  /\ Become(Frame(kind, "apply"))
  /\ UNCHANGED t

-----------------------------------------------------------------------------
(* redirect_apply                                                          *)

(* Mutant of SavedCopy: saved copies from 3 on, as they once were.         *)
SavedCopyLow(fd) ==
  LET free == FreeFrom(t, 3)
  IN  IF IsOpen(t, fd) /\ free # {} THEN Lowest(free) ELSE NoFd

(* save_fd: the copy's number, or NoFd if fd is closed or none is free.    *)
SavedCopy(fd) ==
  LET free == FreeFrom(t, SaveBase)
  IN  IF IsOpen(t, fd) /\ free # {} THEN Lowest(free) ELSE NoFd

(* Mutant of TableSaved: a plain F_DUPFD, inherited by every child.        *)
TableSavedInherited(fd) ==
  IF SavedCopy(fd) = NoFd THEN t ELSE Placed(t, SavedCopy(fd), t[fd].file, FALSE)

TableSaved(fd) ==
  IF SavedCopy(fd) = NoFd THEN t ELSE Placed(t, SavedCopy(fd), t[fd].file, TRUE)

(* One turn of the loop: fd has been saved, whether the rest works or not. *)
Turn(fd, ok) ==
  /\ Top.phase = "apply" /\ ~Top.failed /\ Top.left > 0
  /\ Swap([Top EXCEPT !.saved = Append(@, [fd |-> fd, copy |-> SavedCopy(fd)]),
                      !.left = @ - 1, !.failed = ~ok])
  /\ UNCHANGED forks

(* The new descriptor is moved onto fd, unless it is fd already.           *)
Open(fd, file) ==
  /\ Turn(fd, TRUE)
  /\ FreeFrom(TableSaved(fd), 0) # {}
  /\ t' = Placed(TableSaved(fd), fd, file, FALSE)

(* No such file, noclobber, a here-document that cannot be written, no     *)
(* descriptor left, a word that is no descriptor.                          *)
RedirectFails(fd) ==
  /\ Turn(fd, FALSE)
  /\ t' = TableSaved(fd)

Dup(fd, src) ==
  LET saved == TableSaved(fd)
  IN  /\ Turn(fd, src = fd \/ IsOpen(saved, src))
      /\ t' = Dup2(saved, src, fd)

CloseFd(fd) ==
  /\ Turn(fd, TRUE)
  /\ t' = Close(TableSaved(fd), {fd})

-----------------------------------------------------------------------------
(* After redirect_apply.                                                   *)

(* A special builtin whose redirection fails ends a script.                *)
Fatal(f) == f.kind = "external" \/ (~Interactive /\ f.kind \in {"special", "exec"})

RunsAnyway == {"brace", "subshell", "fork_applet"}

Start ==
  /\ Top.phase = "apply" /\ (Top.failed => Top.kind \in RunsAnyway)
  /\ Top.kind \notin {"exec", "command_exec", "external"}
  /\ Swap([Top EXCEPT !.phase = "run"])
  /\ UNCHANGED <<t, forks>>

(* The child of an external command, or env after it has run: execve.      *)
ExecImage ==
  /\ \/ Top.kind = "external" /\ Top.phase = "apply" /\ ~Top.failed
     \/ Top.kind = "fork_applet" /\ Top.phase = "run"
  /\ t' = Execed(t)
  /\ Become(Frame(Top.kind, "execed"))
  /\ UNCHANGED forks

Abandon ==
  /\ Top.phase = "apply" /\ Top.failed
  /\ Top.kind \in {"command", "special"} /\ ~Fatal(Top)
  /\ Swap([Top EXCEPT !.phase = "restore"])
  /\ UNCHANGED <<t, forks>>

Die ==
  /\ Top.phase = "apply" /\ Top.failed /\ Fatal(Top)
  /\ Become(Frame(Top.kind, "gone"))
  /\ UNCHANGED <<t, forks>>

(* Mutant of TableCommitted: the saved copies stay open.                   *)
TableCommittedKeeps == t

TableCommitted == Close(t, Copies(Top))

(* Bare `exec`: redirect_commit, also after a redirection that failed.     *)
Commit ==
  /\ Top.phase = "apply" /\ Top.kind \in {"exec", "command_exec"}
  /\ Top.failed => ~Fatal(Top)
  /\ t' = TableCommitted
  /\ stack' = Tail(stack)
  /\ UNCHANGED forks

(* A forked child ends with _exit, everything else restores.               *)
End ==
  /\ Top.phase = "run"
  /\ \/ /\ Top.kind \in {"brace", "command", "special", "body"}
        /\ Swap([Top EXCEPT !.phase = "restore"])
     \/ /\ Top.kind \in {"subshell", "fork_applet", "cmd_subst", "stage"}
        /\ Become(Frame(Top.kind, "gone"))
  /\ UNCHANGED <<t, forks>>

LastSaved == Top.saved[Len(Top.saved)]

(* Mutant of TableUndone: a copy that does not exist means nothing to do.  *)
TableUndoneSkips ==
  IF LastSaved.copy = NoFd THEN t
  ELSE Close(Dup2(t, LastSaved.copy, LastSaved.fd), {LastSaved.copy})

TableUndone ==
  IF LastSaved.copy = NoFd THEN Close(t, {LastSaved.fd})
  ELSE Close(Dup2(t, LastSaved.copy, LastSaved.fd), {LastSaved.copy})

(* One turn of redirect_restore's loop, the last saved descriptor first.   *)
Undo ==
  /\ Top.phase = "restore" /\ Top.saved # <<>>
  /\ t' = TableUndone
  /\ Swap([Top EXCEPT !.saved = SubSeq(@, 1, Len(@) - 1)])
  /\ UNCHANGED forks

Finish ==
  /\ Top.phase = "restore" /\ Top.saved = <<>>
  /\ stack' = Tail(stack)
  /\ UNCHANGED <<t, forks>>

-----------------------------------------------------------------------------
(* Pipes.  pipe(2) takes the two lowest free descriptors, wherever they    *)
(* are.                                                                    *)

ReadEnd  == Lowest(FreeFrom(t, 0))
WriteEnd == Lowest(FreeFrom(t, 0) \ {ReadEnd})

HasTwo(tab) == LET free == FreeFrom(tab, 0) IN free # {} /\ free # {Lowest(free)}

(* Mutant of Piped: the ends taken for each other.                         *)
PipedSwapped ==
  Placed(Placed(t, ReadEnd, "pipe_out", FALSE), WriteEnd, "pipe_in", FALSE)

Piped == Placed(Placed(t, ReadEnd, "pipe_in", FALSE), WriteEnd, "pipe_out", FALSE)

(* exec_pipeline, a forked stage: the child's output becomes the pipe.     *)
Stage ==
  /\ "stage" \in Kinds /\ Top.phase = "run" /\ forks < MaxForks /\ HasTwo(t)
  /\ forks' = forks + 1
  /\ t' = Close(Dup2(Piped, WriteEnd, 1), {ReadEnd, WriteEnd})
  /\ Become(Frame("stage", "run"))

(* exec_pipeline, the last stage: the shell's own input becomes the pipe;  *)
(* the saved input is where dup(2) puts it.                                *)
Body ==
  /\ "body" \in Kinds /\ Top.phase = "run" /\ Len(stack) < MaxDepth /\ HasTwo(t)
  /\ FreeFrom(Piped, 0) # {}
  /\ LET c == Lowest(FreeFrom(Piped, 0))
         saved == Placed(Piped, c, Piped[0].file, FALSE)
     IN  /\ t' = Close(Dup2(saved, ReadEnd, 0), {ReadEnd, WriteEnd})
         /\ Push([Frame("body", "run") EXCEPT !.saved = <<[fd |-> 0, copy |-> c]>>])
  /\ UNCHANGED forks

(* cmd_subst, the child: its output becomes the pipe, and the write end of *)
(* the pipe that reports a syntax error stays open, where pipe(2) put it.  *)
CmdSubst ==
  /\ "cmd_subst" \in Kinds /\ Top.phase = "run" /\ forks < MaxForks /\ HasTwo(t)
  /\ LET r == Lowest(FreeFrom(Piped, 0))
         w == Lowest(FreeFrom(Piped, 0) \ {r})
         reporting == Placed(Piped, w, "report", TRUE)
     IN  /\ HasTwo(Piped)
         /\ t' = Close(Dup2(Close(reporting, {ReadEnd}), WriteEnd, 1), {WriteEnd})
  /\ forks' = forks + 1
  /\ Become(Frame("cmd_subst", "run"))

-----------------------------------------------------------------------------
(* Descriptors 0 to 2 are open, and a script on stdin is read through a    *)
(* copy of fd 0 that is parked like a saved one (shell_run_stdin).         *)
Init ==
  /\ t = [n \in Fds |-> IF n \in 0 .. 2 THEN Slotted("tty", FALSE)
                        ELSE IF ScriptOnStdin /\ n = SaveBase THEN Slotted("tty", TRUE)
                        ELSE Closed]
  /\ stack = <<Frame("script", "run")>>
  /\ forks = 0

Apply == \/ \E o \in Opens : Open(o[1], o[2])
         \/ \E d \in Dups : Dup(d[1], d[2])
         \/ \E fd \in Closes : CloseFd(fd)
         \/ \E fd \in ScriptFds : RedirectFails(fd)

(* The process is no longer this shell's.                                  *)
Ended == Top.phase \in {"execed", "gone"} /\ UNCHANGED vars

Next == \/ \E kind \in Kinds : Begin(kind) \/ Fork(kind)
        \/ Apply \/ Start \/ ExecImage \/ Abandon \/ Die \/ Commit
        \/ End \/ Undo \/ Finish
        \/ Stage \/ Body \/ CmdSubst
        \/ Ended

Spec == Init /\ [][Next]_vars

-----------------------------------------------------------------------------
Entry == [fd : Fds, copy : Fds \cup {NoFd}]

Frames == [kind : AllKinds \cup {"script"}, phase : Phases, saved : Seq(Entry),
           left : 0 .. MaxRedirs, failed : BOOLEAN]

(* Every variable keeps its shape; only a command that can be restored     *)
(* holds saved descriptors in its restore phase, and one is always running.*)
TypeOK ==
  /\ t \in [Fds -> Slot]
  /\ stack \in Seq(Frames) /\ stack # <<>>
  /\ forks \in 0 .. MaxForks
  /\ \A i \in 2 .. Len(stack) : stack[i].phase = "run"

(* The places on the stack where a saved copy is recorded.                 *)
Records == {r \in UNION {{i} \X DOMAIN stack[i].saved : i \in DOMAIN stack} :
              stack[r[1]].saved[r[2]].copy # NoFd}

CopyAt(r) == stack[r[1]].saved[r[2]].copy

(* A saved copy is open, belongs to one record of one command, is out of   *)
(* the script's reach and is closed in whatever program a child becomes,   *)
(* whatever the commands nested inside redirect, commit or fail to do.     *)
SavedCopiesLive ==
  \A r \in Records :
    /\ CopyAt(r) >= SaveBase /\ IsOpen(t, CopyAt(r)) /\ t[CopyAt(r)].cloexec
    /\ \A q \in Records : CopyAt(q) = CopyAt(r) => q = r

(* "A saved fd must be parked at 10 or above": no descriptor of 0 to 9 is  *)
(* one the shell keeps for itself while the script's code runs.            *)
CopiesParked ==
  \A r \in Records : CopyAt(r) >= SaveBase

(* Between commands the shell holds no descriptor but the script's own and *)
(* the copy it reads the script through: every save is closed again, also  *)
(* when a redirection in the middle of a list failed.                      *)
NothingLeaks ==
  Len(stack) = 1 /\ Top.kind = "script" =>
    \A n \in Fds : n >= SaveBase /\ IsOpen(t, n) => ScriptOnStdin /\ n = SaveBase

(* A program a child becomes inherits only what the script named or found. *)
ExecedSeesScript ==
  Top.phase = "execed" =>
    \A n \in Fds : IsOpen(t, n) => n \in 0 .. 2 \cup ScriptFds

(* The descriptors of the shell stay its own: closed again when their      *)
(* command is over, and out of sight of every program.                     *)
CopiesStayPrivate == NothingLeaks /\ ExecedSeesScript

(* A command whose redirection failed does not run.                        *)
FailedNeverRuns ==
  \A i \in DOMAIN stack : stack[i].failed => stack[i].phase \notin {"run", "execed"}

(* Both ends of a pipe are where the commands look for them: the output of *)
(* a stage or a command substitution, the input of the last stage.         *)
PipesConnect ==
  [][LET f == Head(stack')
     IN  /\ forks' > forks /\ f.kind \in {"stage", "cmd_subst"} =>
              t'[1].file = "pipe_out"
         /\ Len(stack') > Len(stack) /\ f.kind = "body" => t'[0].file = "pipe_in"]_vars

(* "fd was not open originally; close it": a descriptor is recorded as     *)
(* closed only if it was.                                                  *)
UnsavedWasClosed ==
  [][LET f == Head(stack')
         e == f.saved[Len(f.saved)]
     IN  Len(stack') = Len(stack) /\ Len(f.saved) > Len(Top.saved) =>
           (e.copy = NoFd => ~IsOpen(t, e.fd))]_vars

(* The undo log (UndoLog) the saved copies stand for.                      *)
Was(e) == IF e.copy = NoFd THEN "closed" ELSE t[e.copy].file

View == [n \in ScriptFds |-> t[n].file]

Log == [i \in DOMAIN stack |->
          [k \in DOMAIN stack[i].saved |->
             [fd |-> stack[i].saved[k].fd, was |-> Was(stack[i].saved[k])]]]

Undoing == INSTANCE UndoLog WITH view <- View, log <- Log

(* Every command undoes exactly its own redirections: each step of the     *)
(* shell is a step of UndoLog, so no saved copy is ever visible to the     *)
(* script, overwritten by it or restored to the wrong place.               *)
RedirectionsAreScoped == Undoing!Spec
=============================================================================
