----------------------------- MODULE JobControl -----------------------------
(***************************************************************************)
(* One shell process and its children: `&`, wait, jobs, fg, bg, external   *)
(* commands, subshells and pipelines, with the trap actions that           *)
(* shell_signal_handler runs on top of whatever waitpid the shell is in.   *)
(*                                                                         *)
(* `stack` is the C call stack seen from the commands: its head is what    *)
(* the process is doing.  A command position ("top", the in-process last   *)
(* stage "body" of a pipeline, a "trap" action) may issue the next         *)
(* command; every other frame is blocked in a waitpid.                     *)
(***************************************************************************)
EXTENDS JobTable, Sequences

CONSTANTS
  Interactive,   \* sh->interactive
  Monitor,       \* sh->job_control: foreground waits use WUNTRACED
  Pipefail,      \* sh->opt_pipefail
  TopRuns,       \* commands the script runs
  BodyRuns,      \* commands an in-process last stage may run
  TrapRuns,      \* commands a trap action may run
  MayStop,       \* something sends the children SIGSTOP and SIGCONT
  ForkMayFail,   \* fork(2) may return -1
  MaxStages,     \* bound: forked stages of a pipeline
  MaxSignals,    \* bound: trapped signals delivered
  MaxDepth       \* bound: frames on the stack

Commands == {"async", "jobs", "wait", "fg", "bg", "external", "subshell",
             "descend", "pipe"}

ASSUME JobControlAssumption ==
  /\ {Interactive, Monitor, Pipefail, MayStop, ForkMayFail} \subseteq BOOLEAN
  /\ Monitor => Interactive
  /\ TopRuns \subseteq Commands /\ BodyRuns \subseteq Commands
  /\ TrapRuns \subseteq Commands
  /\ {MaxStages, MaxSignals, MaxDepth} \subseteq Nat

VARIABLES
  proc,       \* the kernel's children of this process
  jl,         \* sh->jobs
  stack,      \* what the process is executing, innermost first
  allocs,     \* job_t nodes allocated so far
  signals,    \* trapped signals delivered so far
  last,       \* what the last completed command reported
  fate,       \* ghost: the code the process of each job really ended with
  inherited   \* ghost: jobs up to this one came with the parent's table

vars == <<proc, jl, stack, allocs, signals, last, fate, inherited>>

Alive == -1     \* no fate yet
Flow  == 1000   \* FLOW_BREAK and above: break, continue, return

(* `pids` are the children the frame still has to wait for, in order.      *)
Frame(op) == [op |-> op, node |-> NoJob, next |-> NoJob,
              pids |-> <<>>, rc |-> 0, eintr |-> FALSE]

Result(cmd, node, code) == [cmd |-> cmd, node |-> node, code |-> code]

Top == Head(stack)
Pid == Head(Top.pids)
Issuing  == {"top", "body", "trap"}
Blocking == {"waitall", "waitpid", "fg", "external", "subshell", "collect"}

Runs(cmd) == \/ Top.op = "top" /\ cmd \in TopRuns
             \/ Top.op = "body" /\ cmd \in BodyRuns
             \/ Top.op = "trap" /\ cmd \in TrapRuns

MayPush == Len(stack) < MaxDepth
Push(f) == stack' = <<f>> \o stack
Swap(f) == stack' = <<f>> \o Tail(stack)
Pop     == stack' = Tail(stack)

Report(cmd, node, code) == last' = Result(cmd, node, code)

-----------------------------------------------------------------------------
(* The children and whoever signals them.                                  *)

ChildExit(p, c) ==
  /\ proc[p].st \in {"run", "stop"}
  /\ proc' = Exited(proc, p, c)
  /\ fate' = IF proc[p].job = NoJob THEN fate ELSE [fate EXCEPT ![proc[p].job] = c]
  /\ UNCHANGED <<jl, stack, allocs, signals, last, inherited>>

ChildStop(p) ==
  /\ MayStop /\ proc[p].st = "run"
  /\ proc' = Stopped(proc, p)
  /\ UNCHANGED <<jl, stack, allocs, signals, last, fate, inherited>>

(* SIGCONT from outside, or from the kill builtin, which leaves the job    *)
(* table alone.                                                            *)
ChildContinue(p) ==
  /\ MayStop /\ proc[p].st = "stop"
  /\ proc' = Continued(proc, {p})
  /\ UNCHANGED <<jl, stack, allocs, signals, last, fate, inherited>>

-----------------------------------------------------------------------------
(* cmd &                                                                   *)

(* A mutant of JobsBeforeAsync: reaping in any shell.                      *)
JobsBeforeAsyncAlways == JobReapAndPrune(jl, proc)

JobsBeforeAsync == IF Interactive THEN jl ELSE JobReapAndPrune(jl, proc)
ProcBeforeAsync == IF Interactive THEN proc ELSE Drained(proc)

Async(p) ==
  /\ Runs("async") /\ allocs < MaxJobs
  /\ p \in Free(ProcBeforeAsync)
  /\ allocs' = allocs + 1
  /\ proc' = Forked(ProcBeforeAsync, {p}, allocs')
  /\ jl' = JobRegister(JobsBeforeAsync, allocs', p)
  /\ Report("async", NoJob, 0)
  /\ UNCHANGED <<stack, signals, fate, inherited>>

AsyncForkFails ==
  /\ Runs("async") /\ ForkMayFail
  /\ proc' = ProcBeforeAsync
  /\ jl' = JobsBeforeAsync
  /\ Report("async", NoJob, 1)
  /\ UNCHANGED <<stack, allocs, signals, fate, inherited>>

-----------------------------------------------------------------------------
(* jobs: a Done job leaves the table once it has been displayed.           *)

JobsCommand ==
  /\ Runs("jobs")
  /\ jl' = JobReapAndPrune(jl, proc)
  /\ proc' = Drained(proc)
  /\ Report("jobs", NoJob, 0)
  /\ UNCHANGED <<stack, allocs, signals, fate, inherited>>

-----------------------------------------------------------------------------
(* job_wait(jl, p), once its waitpid need not block any longer: the status *)
(* cached in a DONE job, the status of a zombie, or, for a p that is no    *)
(* child of this process (ECHILD), what the job last recorded.             *)

(* Mutant of Cached: any recorded status will do.                          *)
CachedAlways(p) == JobFindByPid(jl, p) # NoJob

Cached(p) == LET n == JobFindByPid(jl, p)
             IN  n # NoJob /\ jl.jobs[n].state = "DONE"

(* Mutant of WaitReturns: waitpid with WNOHANG.                            *)
WaitReturnsAtOnce(p) == p \in Pids

WaitReturns(p) == Cached(p) \/ proc[p].st = "zombie" \/ NoSuchChild(proc, p)

WaitCode(p) ==
  LET n == JobFindByPid(jl, p)
  IN  IF ~Cached(p) /\ proc[p].st = "zombie" THEN proc[p].code
      ELSE IF n # NoJob THEN jl.jobs[n].status ELSE 0

JobsAfterWait(p) ==
  LET n == JobFindByPid(jl, p)
  IN  IF Cached(p) \/ NoSuchChild(proc, p) \/ n = NoJob THEN jl
      ELSE JobSetStatus(jl, n, proc[p].code)

(* Mutant of ProcAfterWait: waitpid(-1) until nothing is left.             *)
ProcAfterWaitAny(p) == IF Cached(p) THEN proc ELSE Drained(proc)

ProcAfterWait(p) == IF Cached(p) THEN proc ELSE Reaped(proc, {p})

(* job_remove for node n if it is DONE.                                    *)
RemoveIfDone(l, n) == IF n \in DoneNodes(l) THEN JobRemove(l, {n}) ELSE l

(* wait: the loop reads j->next before it waits for j.                     *)
WaitAll ==
  /\ Runs("wait") /\ MayPush
  /\ LET n == First(Nodes(jl))
     IN  IF n = NoJob
           THEN Report("waitall", NoJob, 0) /\ UNCHANGED stack
           ELSE /\ Push([Frame("waitall") EXCEPT !.node = n, !.next = NextNode(jl, n)])
                /\ UNCHANGED last
  /\ UNCHANGED <<proc, jl, allocs, signals, fate, inherited>>

(* One turn of the loop: job_wait only while the job is recorded RUNNING.  *)
WaitAllStep ==
  /\ Top.op = "waitall" /\ Top.node \in Nodes(jl)
  /\ LET n == Top.node
         p == jl.jobs[n].pid
         waits == jl.jobs[n].state = "RUNNING"
         done  == RemoveIfDone(IF waits THEN JobsAfterWait(p) ELSE jl, n)
     IN  /\ waits => WaitReturns(p)
         /\ proc' = IF waits THEN ProcAfterWait(p) ELSE proc
         /\ jl' = done
         /\ IF Top.next = NoJob
              THEN Pop /\ Report("waitall", NoJob, 0)
              ELSE /\ Top.next \in Nodes(done)
                   /\ Swap([Top EXCEPT !.node = Top.next, !.next = NextNode(done, Top.next)])
                   /\ UNCHANGED last
  /\ UNCHANGED <<allocs, signals, fate, inherited>>

(* wait p, one operand of the list.                                        *)
WaitPid(p) ==
  /\ Runs("wait") /\ MayPush
  /\ LET n == JobFindByPid(jl, p)
     IN  IF n = NoJob
           THEN Report("wait", NoJob, 127) /\ UNCHANGED stack
           ELSE Push([Frame("waitpid") EXCEPT !.node = n, !.pids = <<p>>]) /\ UNCHANGED last
  /\ UNCHANGED <<proc, jl, allocs, signals, fate, inherited>>

WaitPidReturn ==
  /\ Top.op = "waitpid" /\ Top.node \in Nodes(jl)
  /\ WaitReturns(Pid)
  /\ proc' = ProcAfterWait(Pid)
  /\ jl' = RemoveIfDone(JobsAfterWait(Pid), Top.node)
  /\ Pop
  /\ Report("wait", Top.node, WaitCode(Pid))
  /\ UNCHANGED <<allocs, signals, fate, inherited>>

(* The job_t a wait loop stands on, or will step to, has been freed: what  *)
(* the program reads there is undefined, and the model stops.              *)
HoldsFreed(f) == \/ f.op \in {"waitall", "waitpid"} /\ f.node \notin Nodes(jl)
                 \/ f.op = "waitall" /\ f.next # NoJob /\ f.next \notin Nodes(jl)

ReadFreedJob ==
  /\ HoldsFreed(Top)
  /\ stack' = <<Frame("undefined")>>
  /\ UNCHANGED <<proc, jl, allocs, signals, last, fate, inherited>>

Undefined == Top.op = "undefined" /\ UNCHANGED vars

-----------------------------------------------------------------------------
(* fg and bg of job n, which any job specification may have named.  The    *)
(* children are reaped first; a stopped job is then continued.             *)

Resumed(l, n) == IF l.jobs[n].state = "STOPPED" THEN JobSetState(l, n, "RUNNING") ELSE l

ProcResumed(l, n) ==
  IF l.jobs[n].state = "STOPPED" THEN Continued(Drained(proc), {l.jobs[n].pid})
                                 ELSE Drained(proc)

Foreground(n) ==
  /\ Runs("fg") /\ MayPush /\ n \in Nodes(jl)
  /\ LET l == JobReap(jl, proc)
     IN  /\ n \in Named(l)
         /\ jl' = Resumed(l, n)
         /\ proc' = ProcResumed(l, n)
         /\ Push([Frame("fg") EXCEPT !.node = n, !.pids = <<l.jobs[n].pid>>])
  /\ UNCHANGED <<allocs, signals, last, fate, inherited>>

Background(n) ==
  /\ Runs("bg") /\ n \in Nodes(jl)
  /\ LET l == JobReap(jl, proc)
     IN  /\ n \in Named(l)
         /\ jl' = Resumed(l, n)
         /\ proc' = ProcResumed(l, n)
  /\ Report("bg", NoJob, 0)
  /\ UNCHANGED <<stack, allocs, signals, fate, inherited>>

NoSuchJob(cmd) ==
  /\ Runs(cmd)
  /\ jl' = JobReap(jl, proc)
  /\ proc' = Drained(proc)
  /\ Report(cmd, NoJob, 1)
  /\ UNCHANGED <<stack, allocs, signals, fate, inherited>>

Ended(p) == proc[p].st = "zombie" \/ NoSuchChild(proc, p)

StopReported(p) == Monitor /\ p \in UntoldStops(proc)

(* The job ended, or is no child any more: ECHILD leaves status 0.         *)
ForegroundReturn ==
  /\ Top.op = "fg" /\ Ended(Pid)
  /\ LET k == JobFindByPid(jl, Pid)
     IN  jl' = IF k = NoJob THEN jl ELSE JobRemove(jl, {k})
  /\ proc' = Reaped(proc, {Pid})
  /\ Pop
  /\ Report("fg", NoJob, proc[Pid].code)
  /\ UNCHANGED <<allocs, signals, fate, inherited>>

ForegroundStops ==
  /\ Top.op = "fg" /\ StopReported(Pid)
  /\ LET k == JobFindByPid(jl, Pid)
     IN  jl' = IF k = NoJob THEN jl ELSE JobSetStatus(jl, k, StopCode)
  /\ proc' = Told(proc, Pid)
  /\ Pop
  /\ Report("fg", NoJob, StopCode)
  /\ UNCHANGED <<allocs, signals, fate, inherited>>

-----------------------------------------------------------------------------
(* An external command, and a ( ... ) subshell seen from its parent.       *)

ForkAndWait(cmd, p) ==
  /\ Runs(cmd) /\ MayPush /\ p \in Free(proc)
  /\ proc' = Forked(proc, {p}, NoJob)
  /\ Push([Frame(cmd) EXCEPT !.pids = <<p>>])
  /\ UNCHANGED <<jl, allocs, signals, last, fate, inherited>>

External(p) == ForkAndWait("external", p)
Subshell(p) == ForkAndWait("subshell", p)

(* What a waitpid left in `status`: the child's, or, when it failed, what  *)
(* an uninitialised int happens to hold.                                   *)
Collected(f, p) == IF proc[p].st = "zombie" /\ ~f.eintr THEN {proc[p].code} ELSE Statuses

(* waitpid returns for frame f: the child ended, is no child, or a signal  *)
(* handler has run and the caller does not retry.                          *)
Returned(f, p) == f.eintr \/ Ended(p)

ProcCollected(f, p) == IF f.eintr THEN proc ELSE Reaped(proc, {p})

ChildReturn ==
  /\ Top.op \in {"external", "subshell"}
  /\ Returned(Top, Pid)
  /\ \E c \in Collected(Top, Pid) : Report(Top.op, NoJob, c)
  /\ proc' = ProcCollected(Top, Pid)
  /\ Pop
  /\ UNCHANGED <<jl, allocs, signals, fate, inherited>>

(* ^Z under job control: the command becomes a stopped job.                *)
ExternalStops ==
  /\ Top.op = "external" /\ StopReported(Pid) /\ allocs < MaxJobs
  /\ allocs' = allocs + 1
  /\ jl' = JobSetStatus(JobRegister(jl, allocs', Pid), allocs', StopCode)
  /\ proc' = ToldAsJob(proc, Pid, allocs')
  /\ Pop
  /\ Report("external", NoJob, StopCode)
  /\ UNCHANGED <<signals, fate, inherited>>

(* The child side of that fork: a process without children that starts     *)
(* with a copy of its parent's job table.                                  *)
EnterSubshell ==
  /\ Runs("descend")
  /\ proc' = NotMine(proc)
  /\ stack' = <<Frame("top")>>
  /\ inherited' = allocs
  /\ Report("none", NoJob, 0)
  /\ UNCHANGED <<jl, allocs, signals, fate>>

-----------------------------------------------------------------------------
(* exec_pipeline: all stages but the last are forked, the last one runs in *)
(* this process, and then the forked ones are waited for in order.         *)

Stages == UNION {[1 .. n -> Pids] : n \in 1 .. MaxStages}
Distinct(s) == \A i, j \in DOMAIN s : i # j => s[i] # s[j]
PidsOf(s) == {s[i] : i \in DOMAIN s}

Pipeline(s) ==
  /\ Runs("pipe") /\ MayPush
  /\ Distinct(s) /\ PidsOf(s) \subseteq Free(proc)
  /\ proc' = Forked(proc, PidsOf(s), NoJob)
  /\ Push([Frame("body") EXCEPT !.pids = s])
  /\ UNCHANGED <<jl, allocs, signals, last, fate, inherited>>

(* The fork of a later stage fails: return 1 at once.                      *)
PipelineForkFails(s) ==
  /\ Runs("pipe") /\ ForkMayFail /\ Len(s) < MaxStages
  /\ Distinct(s) /\ PidsOf(s) \subseteq Free(proc)
  /\ proc' = Forked(proc, PidsOf(s), NoJob)
  /\ Report("pipe", NoJob, 1)
  /\ UNCHANGED <<jl, stack, allocs, signals, fate, inherited>>

(* Mutant of BodyDone: break or return leaves without waiting.             *)
BodyDoneFlowLeaves(c) ==
  /\ Top.op = "body"
  /\ IF c = Flow THEN Pop ELSE Swap([Top EXCEPT !.op = "collect", !.rc = c])
  /\ UNCHANGED <<proc, jl, allocs, signals, last, fate, inherited>>

BodyDone(c) ==
  /\ Top.op = "body"
  /\ Swap([Top EXCEPT !.op = "collect", !.rc = c])
  /\ UNCHANGED <<proc, jl, allocs, signals, last, fate, inherited>>

(* last_rc after a stage ended with k.                                     *)
PipeStatus(rc, k) == IF rc # Flow /\ Pipefail /\ k # 0 THEN k ELSE rc

(* Mutant of CollectStage: the loop does not step to the next stage.       *)
CollectStageAgain ==
  /\ Top.op = "collect"
  /\ Returned(Top, Pid)
  /\ proc' = ProcCollected(Top, Pid)
  /\ IF Len(Top.pids) = 1 THEN Pop /\ Report("pipe", NoJob, Top.rc)
                          ELSE UNCHANGED <<stack, last>>
  /\ UNCHANGED <<jl, allocs, signals, fate, inherited>>

CollectStage ==
  /\ Top.op = "collect"
  /\ Returned(Top, Pid)
  /\ proc' = ProcCollected(Top, Pid)
  /\ \E k \in Collected(Top, Pid) :
       LET rc == PipeStatus(Top.rc, k)
       IN  IF Len(Top.pids) = 1
             THEN Pop /\ Report("pipe", NoJob, rc)
             ELSE /\ Swap([Top EXCEPT !.pids = Tail(@), !.rc = rc, !.eintr = FALSE])
                  /\ UNCHANGED last
  /\ UNCHANGED <<jl, allocs, signals, fate, inherited>>

-----------------------------------------------------------------------------
(* shell_signal_handler: sigaction is called with sa_flags 0, so a waitpid *)
(* the handler interrupts fails with EINTR.  Only these callers retry.     *)

Retries(op) == op \in {"waitall", "waitpid", "fg", "external"}

Signal ==
  /\ signals < MaxSignals /\ MayPush
  /\ Top.op \in Blocking
  /\ \E cut \in BOOLEAN :
       /\ cut => ~Retries(Top.op) /\ ~Ended(Pid)
       /\ stack' = <<Frame("trap"), [Top EXCEPT !.eintr = cut]>> \o Tail(stack)
  /\ signals' = signals + 1
  /\ UNCHANGED <<proc, jl, allocs, last, fate, inherited>>

(* The trap action ends: $? is what it was before the signal.              *)
TrapDone ==
  /\ Top.op = "trap"
  /\ Pop
  /\ UNCHANGED <<proc, jl, allocs, signals, last, fate, inherited>>

-----------------------------------------------------------------------------
Init ==
  /\ proc = [p \in Pids |-> NotAChild]
  /\ jl = EmptyJobList
  /\ stack = <<Frame("top")>>
  /\ allocs = 0 /\ signals = 0
  /\ last = Result("none", NoJob, 0)
  /\ fate = [n \in 1 .. MaxJobs |-> Alive]
  /\ inherited = 0

(* A step of the shell that does not start a new command.                  *)
Continue ==
  \/ WaitAllStep \/ WaitPidReturn \/ ReadFreedJob
  \/ ForegroundReturn \/ ForegroundStops
  \/ ChildReturn \/ ExternalStops
  \/ CollectStage \/ \E c \in Codes \cup {Flow} : BodyDone(c)
  \/ TrapDone

Issue ==
  \/ AsyncForkFails \/ JobsCommand \/ WaitAll \/ EnterSubshell
  \/ \E p \in Pids : Async(p) \/ WaitPid(p) \/ External(p) \/ Subshell(p)
  \/ \E n \in 1 .. MaxJobs : Foreground(n) \/ Background(n)
  \/ \E cmd \in {"fg", "bg"} : NoSuchJob(cmd)
  \/ \E s \in Stages : Pipeline(s)
  \/ \E s \in Stages \cup {<<>>} : PipelineForkFails(s)

Environment ==
  \/ \E p \in Pids, c \in Codes : ChildExit(p, c)
  \/ \E p \in Pids : ChildStop(p) \/ ChildContinue(p)
  \/ Signal

Next == Continue \/ Issue \/ Environment \/ Undefined

Spec == Init /\ [][Next]_vars

(* Commands and trap actions end, and so do the children: the fairness the *)
(* liveness property needs, and all of it.                                 *)
Fairness ==
  /\ WF_vars(Continue)
  /\ \A p \in Pids : WF_vars(\E c \in Codes : ChildExit(p, c))

FairSpec == Spec /\ Fairness

-----------------------------------------------------------------------------
Ops == Issuing \cup Blocking \cup {"undefined"}

FrameType ==
  [op : Ops, node : 0 .. MaxJobs, next : 0 .. MaxJobs, pids : Seq(Pids),
   rc : Statuses \cup {Flow}, eintr : BOOLEAN]

(* A frame that waits for children, or will, has one left to wait for.     *)
Frames == {f \in FrameType :
             f.op \in (Blocking \ {"waitall"}) \cup {"body"} => f.pids # <<>>}

ProcOK(ps, n) == ps \in [Pids -> Child] /\ \A p \in Pids : ps[p].job <= n

StackOK(s) == s \in Seq(Frames) /\ s # <<>> /\ s[Len(s)].op \in {"top", "undefined"}

LastOK(r) == r \in [cmd : Commands \cup {"none", "waitall"}, node : 0 .. MaxJobs,
                    code : Statuses \cup {1, 127, Flow}]

CountsOK ==
  /\ allocs \in 0 .. MaxJobs
  /\ signals \in 0 .. MaxSignals
  /\ inherited \in 0 .. allocs

(* Every variable keeps its shape: a wait always has a child to wait for,  *)
(* the base of the stack stays, and nodes are named by past allocations.   *)
TypeOK ==
  /\ ProcOK(proc, allocs)
  /\ IsJobList(jl, 1 .. allocs)
  /\ StackOK(stack)
  /\ LastOK(last)
  /\ CountsOK
  /\ fate \in [1 .. MaxJobs -> Codes \cup {Alive}]

(* Job numbers ascend along the table and are never given twice, and %+    *)
(* and %- always name jobs that are in it, whatever was removed in         *)
(* whatever order (job_register, job_remove, job_set_current).             *)
JobNumbers == IdsAscend(jl) /\ MarksLive(jl)

(* The status `wait` reports for a job this shell started is the one its   *)
(* process ended with: job_wait's ECHILD branch never answers for it.      *)
WaitTellsTheTruth ==
  last.cmd = "wait" /\ last.node > inherited =>
    last.code = fate[last.node]

(* A forked stage stays this shell's child until exec_pipeline itself      *)
(* collects it: nothing the in-process last stage or a trap action does    *)
(* takes its status away.                                                  *)
StagesStayChildren ==
  \A i \in DOMAIN stack : stack[i].op \in {"body", "collect"} =>
    \A k \in DOMAIN stack[i].pids : ~NoSuchChild(proc, stack[i].pids[k])

(* No two jobs of the table share a pid, so wait, kill and job_reap mean   *)
(* the job the user means.                                                 *)
PidsUnique ==
  \A m, n \in Nodes(jl) : jl.jobs[m].pid = jl.jobs[n].pid => m = n

(* The job_t that a suspended wait loop stands on, or steps to next, is    *)
(* still allocated when the trap action above it is running.               *)
HeldJobsLive == \A i \in DOMAIN stack : ~HoldsFreed(stack[i])

(* A plain `wait` ends only when none of the jobs up to the last one it    *)
(* stood on has a process that still runs.                                 *)
WaitAllWaits ==
  [][(Top.op = "waitall" /\ Len(stack') < Len(stack) /\ Head(stack').op # "undefined") =>
       \A p \in Pids : proc[p].job \in 1 .. Top.node => proc[p].st # "run"]_vars

(* The parent waits for all children at the end of the pipeline: with no   *)
(* command under way, every child left is a job's.                         *)
NoStrayChildren ==
  Top.op = "top" => \A p \in Pids :
    ~NoSuchChild(proc, p) => \E n \in Nodes(jl) : jl.jobs[n].pid = p

(* Every child of the shell is answered for once: by the pipeline that has *)
(* still to collect it, or by one job.                                     *)
ChildrenAccounted == StagesStayChildren /\ PidsUnique /\ NoStrayChildren

(* A signal delivered during a wait does not corrupt an exit status: no    *)
(* wait ends while its child has neither ended nor been stopped.           *)
SignalsDoNotCorruptStatus ==
  [][(Top.op \in {"external", "subshell", "collect"} /\ stack' # stack /\ Len(stack') <= Len(stack)) =>
       proc[Pid].st \in {"zombie", "stop"}]_vars

(* A pid that is not a child of this shell is reported with 127.           *)
UnknownPidIs127 ==
  last.cmd = "wait" /\ last.node <= inherited => last.code = 127

(* Every command under way ends, unless a trap action has freed the job    *)
(* its wait loop stands on: nothing is said of what follows then.          *)
CommandsEnd == (Top.op # "top") ~> (Top.op \in {"top", "undefined"})

(* The table refines the life of its jobs (JobLife), for a process that    *)
(* has not inherited a table.                                              *)
Life == [n \in 1 .. MaxJobs |->
           IF n > allocs THEN "unborn"
           ELSE IF n \notin Nodes(jl) THEN "forgotten"
           ELSE IF fate[n] = Alive THEN "running" ELSE "ended"]

Lives == INSTANCE JobLife WITH life <- Life

(* Every step of the shell and its children is a step of JobLife: a job    *)
(* starts once and is forgotten only after its process has ended, whatever *)
(* the table, the reaping and the pruning do.                              *)
JobsLiveAndEnd == Lives!Spec
=============================================================================
