------------------------------ MODULE JobTable ------------------------------
(***************************************************************************)
(* The child processes of one shell process, and its job list.             *)
(*                                                                         *)
(* The children are as the kernel keeps them: external, modelled from how  *)
(* src/core/src/shell uses fork(2), waitpid(2) and kill(2).  A pid nobody  *)
(* uses (not yet forked, or reaped) is "none"; the pid of a process that   *)
(* is not this one's child is "other" and, like "none", makes waitpid fail *)
(* with ECHILD.                                                            *)
(*                                                                         *)
(* The job list is that of src/core/src/shell/job.c as a value, one        *)
(* operator per function of that file.                                     *)
(*                                                                         *)
(* A job_t is named by its allocation number, so list order, which is the  *)
(* order of job_append, is the order of the numbers, and a pointer to a    *)
(* freed job_t is a number no longer in the domain of `jobs`.              *)
(***************************************************************************)
EXTENDS Integers, FiniteSets

CONSTANTS
  Pids,      \* process ids; the kernel hands them out again once reaped
  Codes,     \* exit codes a child may end with (128+sig for a signal death)
  StopCode,  \* 128 + WSTOPSIG, what a stopped child reports
  MaxJobs    \* bound: jobs started, so that a child can name its own

ASSUME ChildrenAssumption == /\ 0 \in Codes
                             /\ Codes \subseteq Nat
                             /\ StopCode \in Nat \ Codes
                             /\ MaxJobs \in Nat

ChildStates == {"none", "other", "run", "stop", "zombie"}

(* Wait statuses, already mapped through status_to_code.                   *)
Statuses == Codes \cup {StopCode}

(* `told` is FALSE while a stop has not yet been reported to a waiter;     *)
(* `job` is a ghost: the job the child was forked for, 0 if for none.      *)
Child == [st : ChildStates, code : Codes, told : BOOLEAN, job : 0 .. MaxJobs]

ChildIn(state, n) == [st |-> state, code |-> 0, told |-> TRUE, job |-> n]

NotAChild == ChildIn("none", 0)

NoSuchChild(proc, p) == proc[p].st \in {"none", "other"}

Free(proc) == {p \in Pids : proc[p].st = "none"}
Zombies(proc) == {p \in Pids : proc[p].st = "zombie"}

(* Stops a waitpid with WUNTRACED would report.                            *)
UntoldStops(proc) == {p \in Pids : proc[p].st = "stop" /\ ~proc[p].told}

Forked(proc, ps, n) ==
  [p \in Pids |-> IF p \in ps THEN ChildIn("run", n) ELSE proc[p]]

Exited(proc, p, c) ==
  [proc EXCEPT ![p] = [@ EXCEPT !.st = "zombie", !.code = c, !.told = TRUE]]

(* A stop nobody has been told of, and one that has been reported; a child *)
(* that was waited for in the foreground and becomes job n as it stops.    *)
Stopped(proc, p)     == [proc EXCEPT ![p] = [@ EXCEPT !.st = "stop", !.told = FALSE]]
Told(proc, p)        == [proc EXCEPT ![p] = [@ EXCEPT !.told = TRUE]]
ToldAsJob(proc, p, n) == [proc EXCEPT ![p] = [@ EXCEPT !.told = TRUE, !.job = n]]

Reaped(proc, ps) ==
  [p \in Pids |-> IF p \in ps /\ ~NoSuchChild(proc, p) THEN NotAChild ELSE proc[p]]

(* The same processes seen from a forked child of their parent.            *)
NotMine(proc) ==
  [p \in Pids |-> IF proc[p].st = "none" THEN NotAChild
                  ELSE ChildIn("other", 0)]

(* kill(pid, SIGCONT): a stopped child runs on, and its stop, if it was    *)
(* never reported, is no longer waitable.                                  *)
Continued(proc, ps) ==
  [p \in Pids |-> IF p \in ps /\ proc[p].st = "stop"
                    THEN [proc[p] EXCEPT !.st = "run", !.told = TRUE]
                    ELSE proc[p]]

(* waitpid(-1, &status, WNOHANG | WUNTRACED) repeated until it returns no  *)
(* pid: every zombie is gone, every stop has been told.                    *)
Drained(proc) ==
  [p \in Pids |-> IF proc[p].st = "zombie" THEN NotAChild
                  ELSE [proc[p] EXCEPT !.told = TRUE]]

(* The status waitpid reports for a waitable child.                        *)
StatusOf(proc, p) == IF proc[p].st = "stop" THEN StopCode ELSE proc[p].code

---------------------------------------------------------------------------
(* The job list.                                                           *)

JobStates == {"RUNNING", "STOPPED", "DONE"}

NoJob == 0      \* a NULL job_t pointer, and the job number 0 of "no job"

Job == [id : Nat \ {0}, pid : Pids, state : JobStates, status : Statuses]

(* The shape of a job list whose nodes are among ns.                       *)
IsJobList(jl, ns) ==
  /\ jl = [jobs |-> jl.jobs, current |-> jl.current,
           previous |-> jl.previous, next_id |-> jl.next_id]
  /\ DOMAIN jl.jobs \subseteq ns
  /\ jl.jobs \in [DOMAIN jl.jobs -> Job]
  /\ jl.current \in Nat /\ jl.previous \in Nat /\ jl.next_id \in Nat \ {0}

EmptyJobList == [jobs |-> [n \in {} |-> NoJob],
                 current |-> 0, previous |-> 0, next_id |-> 1]

(* The nodes of the list.                                                  *)
Nodes(jl) == DOMAIN jl.jobs

First(ns) == IF ns = {} THEN NoJob ELSE CHOOSE n \in ns : \A m \in ns : n <= m

(* j->next                                                                 *)
NextNode(jl, n) == First({m \in Nodes(jl) : m > n})

NodesById(jl, i)  == {n \in Nodes(jl) : jl.jobs[n].id = i}
NodesByPid(jl, p) == {n \in Nodes(jl) : jl.jobs[n].pid = p}

JobFindById(jl, i)  == First(NodesById(jl, i))
JobFindByPid(jl, p) == First(NodesByPid(jl, p))

(* The node whose id is the highest: the last resort of %+.                *)
HighestId(jl) ==
  IF Nodes(jl) = {} THEN NoJob
  ELSE CHOOSE n \in Nodes(jl) : \A m \in Nodes(jl) : jl.jobs[m].id <= jl.jobs[n].id

JobCurrent(jl) ==
  LET n == JobFindById(jl, jl.current) IN IF n # NoJob THEN n ELSE HighestId(jl)

JobPrevious(jl) ==
  LET n == JobFindById(jl, jl.previous) IN IF n # NoJob THEN n ELSE JobCurrent(jl)

(* What %+, %- and %n can name.                                            *)
Named(jl) == {JobCurrent(jl), JobPrevious(jl)}
               \cup {JobFindById(jl, jl.jobs[m].id) : m \in Nodes(jl)}

(* job_set_current: the old current job becomes the previous one.          *)
JobSetCurrent(jl, i) ==
  IF jl.current = i THEN jl
  ELSE [jl EXCEPT !.previous = jl.current, !.current = i]

(* job_register, with n the address malloc returned.                       *)
JobRegister(jl, n, p) ==
  LET j == [id |-> jl.next_id, pid |-> p, state |-> "RUNNING", status |-> 0]
      appended == [m \in Nodes(jl) \cup {n} |-> IF m = n THEN j ELSE jl.jobs[m]]
  IN  JobSetCurrent([jl EXCEPT !.jobs = appended, !.next_id = @ + 1], jl.next_id)

Without(jobs, gone) == [n \in DOMAIN jobs \ gone |-> jobs[n]]

(* Mutant of NextIdAfter: numbering restarts at the "no job" number.       *)
NextIdAfterZero(jl, gone) ==
  IF Nodes(jl) # {} /\ Nodes(jl) \subseteq gone THEN 0 ELSE jl.next_id

(* Drained tables start numbering at 1 again.                              *)
NextIdAfter(jl, gone) ==
  IF Nodes(jl) # {} /\ Nodes(jl) \subseteq gone THEN 1 ELSE jl.next_id

(* Mutant of JobRemove: the promoted job stays the previous one as well.   *)
JobRemoveKeepsPrevious(jl, gone) ==
  LET cur == jl.current \in {jl.jobs[n].id : n \in Nodes(jl) \cap gone}
  IN  [jl EXCEPT !.jobs = Without(@, gone),
                 !.current = IF cur THEN jl.previous ELSE @,
                 !.next_id = NextIdAfter(jl, gone)]

(***************************************************************************)
(* job_remove for each node of `gone`.  Removing the current job promotes  *)
(* the previous one; removing the previous one leaves no previous job;     *)
(* either way `previous` ends 0, in whatever order the nodes go.           *)
(***************************************************************************)
JobRemove(jl, gone) ==
  LET ids     == {jl.jobs[n].id : n \in Nodes(jl) \cap gone}
      cur     == jl.current \in ids
      prev    == jl.previous \in ids
  IN  [jobs     |-> Without(jl.jobs, gone),
       current  |-> IF ~cur THEN jl.current ELSE IF prev THEN 0 ELSE jl.previous,
       previous |-> IF cur \/ prev THEN 0 ELSE jl.previous,
       next_id  |-> NextIdAfter(jl, gone)]

(* A job with wait status s recorded in it.                                *)
Recorded(j, s) ==
  [j EXCEPT !.status = s, !.state = IF s = StopCode THEN "STOPPED" ELSE "DONE"]

JobSetStatus(jl, n, s) == [jl EXCEPT !.jobs[n] = Recorded(@, s)]

JobSetState(jl, n, s) == [jl EXCEPT !.jobs[n].state = s]

(* Mutant of DoneNodes: a stopped job counts as finished.                  *)
NotRunningNodes(jl) == {n \in Nodes(jl) : jl.jobs[n].state # "RUNNING"}

DoneNodes(jl) == {n \in Nodes(jl) : jl.jobs[n].state = "DONE"}

(***************************************************************************)
(* job_reap: every waitable child is collected; the first node with its    *)
(* pid records the status, and the status of a pid in no node is dropped.  *)
(***************************************************************************)
JobReap(jl, proc) ==
  LET waitable == Zombies(proc) \cup UntoldStops(proc)
      hit(n)   == /\ jl.jobs[n].pid \in waitable
                  /\ n = JobFindByPid(jl, jl.jobs[n].pid)
      seen(n)  == StatusOf(proc, jl.jobs[n].pid)
  IN  [jl EXCEPT !.jobs =
        [n \in Nodes(jl) |->
          IF hit(n) THEN Recorded(jl.jobs[n], seen(n)) ELSE jl.jobs[n]]]

(* Mutant of JobReapAndPrune: it does not prune.                           *)
JobReapOnly(jl, proc) == JobReap(jl, proc)

JobReapAndPrune(jl, proc) ==
  LET reaped == JobReap(jl, proc) IN JobRemove(reaped, DoneNodes(reaped))

-----------------------------------------------------------------------------
(***************************************************************************)
(* What the job numbers promise the user of %n, %+ and %-.                 *)
(***************************************************************************)
(* Job numbers ascend along the list and stay below the next one.          *)
IdsAscend(jl) ==
  /\ \A n \in Nodes(jl) : jl.jobs[n].id < jl.next_id
  /\ \A m, n \in Nodes(jl) : m < n => jl.jobs[m].id < jl.jobs[n].id

(* %+ and %- never name a job that has left the table, nor the same job.   *)
MarksLive(jl) ==
  /\ jl.current  # 0 => \E n \in Nodes(jl) : jl.jobs[n].id = jl.current
  /\ jl.previous # 0 => \E n \in Nodes(jl) : jl.jobs[n].id = jl.previous
  /\ jl.previous # 0 => jl.current # 0 /\ jl.current # jl.previous
=============================================================================
