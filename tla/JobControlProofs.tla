-------------------------- MODULE JobControlProofs --------------------------
(***************************************************************************)
(* Type correctness and the numbering of jobs, for every value of the      *)
(* constants.  TypeOK and JobNumbers are inductive together: a new number  *)
(* is above the old ones because the old ones stay below next_id, and the  *)
(* marks live because a job leaves the table only through job_remove.      *)
(***************************************************************************)
EXTENDS JobControl, SequenceTheorems, WellFoundedInduction, TLAPS

-----------------------------------------------------------------------------
(* What the operations of the job table preserve: the shape of the list,   *)
(* ascending job numbers, and live marks.                                  *)

(* A set of numbers that is not empty has a least member, so First and the *)
(* loops built on it return the first node or NULL.                        *)
LEMMA FirstInSet ==
  ASSUME NEW ns \in SUBSET Nat
  PROVE  /\ First(ns) \in ns \cup {NoJob}
         /\ First(ns) \in Nat
         /\ \A m \in ns : First(ns) \in ns /\ First(ns) <= m
<1>1. CASE ns = {}
  BY <1>1 DEF First, NoJob
<1>2. CASE ns # {}
  <2>1. \E n \in ns : \A m \in ns : ~(<<m, n>> \in OpToRel(<, Nat))
    BY <1>2, WFMin, NatLessThanWellFounded
  <2>2. PICK n \in ns : \A m \in ns : ~(m < n)
    BY <2>1 DEF OpToRel
  <2>3. \A m \in ns : n <= m
    BY <2>2
  <2> QED
    BY <1>2, <2>3 DEF First
<1> QED
  BY <1>1, <1>2

(* The searches of job.c return a node of the list or NULL.                *)
LEMMA FindInList ==
  ASSUME NEW ns \in SUBSET Nat, NEW t, IsJobList(t, ns), NEW i, NEW p, NEW n
  PROVE  /\ JobFindById(t, i) \in Nodes(t) \cup {NoJob}
         /\ JobFindByPid(t, p) \in Nodes(t) \cup {NoJob}
         /\ NextNode(t, n) \in Nodes(t) \cup {NoJob}
         /\ First(Nodes(t)) \in Nodes(t) \cup {NoJob}
<1>1. Nodes(t) \in SUBSET Nat
  BY DEF IsJobList, Nodes
<1>2. {m \in Nodes(t) : t.jobs[m].id = i} \in SUBSET Nat
  BY <1>1
<1>3. {m \in Nodes(t) : t.jobs[m].pid = p} \in SUBSET Nat
  BY <1>1
<1>4. {m \in Nodes(t) : m > n} \in SUBSET Nat
  BY <1>1
<1> QED
  BY <1>1, <1>2, <1>3, <1>4, FirstInSet
     DEF JobFindById, JobFindByPid, NextNode, NodesById, NodesByPid

(* A change that leaves nodes, job numbers and marks alone leaves the      *)
(* numbering invariant alone.                                              *)
LEMMA SameNumbers ==
  ASSUME NEW t, NEW l, IdsAscend(t), MarksLive(t),
         Nodes(l) = Nodes(t),
         \A n \in Nodes(t) : l.jobs[n].id = t.jobs[n].id,
         l.current = t.current, l.previous = t.previous, l.next_id = t.next_id
  PROVE  IdsAscend(l) /\ MarksLive(l)
BY DEF IdsAscend, MarksLive

(* job_register appends a job whose number is above all others.            *)
LEMMA RegisterKeeps ==
  ASSUME NEW k \in Nat, NEW t, IsJobList(t, 1 .. k), IdsAscend(t), MarksLive(t),
         NEW p \in Pids
  PROVE  LET l == JobRegister(t, k + 1, p)
         IN  IsJobList(l, 1 .. k + 1) /\ IdsAscend(l) /\ MarksLive(l)
                /\ k + 1 \in Nodes(l)
<1> DEFINE n == k + 1
           j == [id |-> t.next_id, pid |-> p, state |-> "RUNNING", status |-> 0]
           jobs == [m \in Nodes(t) \cup {n} |-> IF m = n THEN j ELSE t.jobs[m]]
           l == JobRegister(t, n, p)
<1>1. n \notin Nodes(t) /\ \A m \in Nodes(t) : m \in Nat /\ m < n
  BY DEF IsJobList, Nodes
<1>2. j \in Job
  BY ChildrenAssumption DEF IsJobList, Job, JobStates, Statuses
<1>3. /\ l.jobs = jobs
      /\ l.next_id = t.next_id + 1
      /\ l.current = t.next_id
      /\ l.previous = t.current
      /\ l = [jobs |-> l.jobs, current |-> l.current,
              previous |-> l.previous, next_id |-> l.next_id]
  <2>1. t.current # t.next_id
    BY DEF MarksLive, IdsAscend, IsJobList, Job, Nodes
  <2> QED
    BY <2>1 DEF JobRegister, JobSetCurrent, IsJobList
<1>4. jobs \in [Nodes(t) \cup {n} -> Job] /\ Nodes(l) = Nodes(t) \cup {n}
  BY <1>1, <1>2, <1>3 DEF IsJobList, Nodes
<1> HIDE DEF l
<1>5. IsJobList(l, 1 .. n)
  BY <1>1, <1>3, <1>4 DEF IsJobList, Nodes
<1>6. IdsAscend(l)
  BY <1>1, <1>3, <1>4 DEF IdsAscend, IsJobList, Job, Nodes
<1>7. MarksLive(l)
  BY <1>1, <1>3, <1>4 DEF MarksLive, IdsAscend, IsJobList, Job, Nodes
<1> QED
  BY <1>4, <1>5, <1>6, <1>7 DEF l

(* job_remove of any nodes keeps the numbers and leaves no dangling mark.  *)
LEMMA RemoveKeeps ==
  ASSUME NEW ns, NEW t, IsJobList(t, ns), IdsAscend(t), MarksLive(t), NEW gone
  PROVE  LET l == JobRemove(t, gone)
         IN  IsJobList(l, ns) /\ IdsAscend(l) /\ MarksLive(l) /\ Nodes(l) = Nodes(t) \ gone
<1> DEFINE l == JobRemove(t, gone)
           ids == {t.jobs[n].id : n \in Nodes(t) \cap gone}
<1>1. /\ Nodes(l) = Nodes(t) \ gone
      /\ \A n \in Nodes(l) : n \in Nodes(t) /\ l.jobs[n] = t.jobs[n]
      /\ l.jobs \in [Nodes(l) -> Job]
  BY DEF JobRemove, Without, Nodes, IsJobList
<1>2. /\ l.current = IF t.current \notin ids THEN t.current
                     ELSE IF t.previous \in ids THEN 0 ELSE t.previous
      /\ l.previous = IF t.current \in ids \/ t.previous \in ids THEN 0 ELSE t.previous
      /\ l.next_id = NextIdAfter(t, gone)
      /\ l = [jobs |-> l.jobs, current |-> l.current,
              previous |-> l.previous, next_id |-> l.next_id]
  BY DEF JobRemove
<1>3. l.next_id \in {1, t.next_id} /\ (Nodes(l) # {} => l.next_id = t.next_id)
  BY <1>1, <1>2 DEF NextIdAfter
<1>4. \A n \in Nodes(t) : t.jobs[n].id \in ids \/ n \in Nodes(l)
  BY <1>1
<1> HIDE DEF l, ids
<1>5. IsJobList(l, ns)
  BY <1>1, <1>2, <1>3 DEF IsJobList, Nodes
<1>6. IdsAscend(l)
  BY <1>1, <1>3 DEF IdsAscend
<1>7. MarksLive(l)
  BY <1>1, <1>2, <1>4 DEF MarksLive
<1> QED
  BY <1>1, <1>5, <1>6, <1>7 DEF l

(* A status recorded in a job leaves its number and its pid alone.         *)
LEMMA RecordedIsJob ==
  ASSUME NEW j \in Job, NEW s \in Statuses
  PROVE  Recorded(j, s) \in Job /\ Recorded(j, s).id = j.id /\ Recorded(j, s).pid = j.pid
BY DEF Recorded, Job, JobStates

(* Recording a status or a state in a node keeps the list.                 *)
LEMMA SetStatusKeeps ==
  ASSUME NEW ns, NEW t, IsJobList(t, ns), IdsAscend(t), MarksLive(t),
         NEW n, NEW s \in Statuses
  PROVE  LET l == JobSetStatus(t, n, s)
         IN  IsJobList(l, ns) /\ IdsAscend(l) /\ MarksLive(l) /\ Nodes(l) = Nodes(t)
<1> DEFINE l == JobSetStatus(t, n, s)
<1>1. /\ l.jobs = [t.jobs EXCEPT ![n] = Recorded(@, s)]
      /\ l.current = t.current /\ l.previous = t.previous /\ l.next_id = t.next_id
      /\ l = [jobs |-> l.jobs, current |-> l.current,
              previous |-> l.previous, next_id |-> l.next_id]
  BY DEF JobSetStatus, IsJobList
<1>2. \A m \in Nodes(t) : Recorded(t.jobs[m], s) \in Job
                            /\ Recorded(t.jobs[m], s).id = t.jobs[m].id
  BY RecordedIsJob DEF IsJobList, Nodes
<1> HIDE DEF l
<1>3. /\ Nodes(l) = Nodes(t)
      /\ l.jobs \in [Nodes(t) -> Job]
      /\ \A m \in Nodes(t) : l.jobs[m].id = t.jobs[m].id
  <2>1. /\ DOMAIN l.jobs = DOMAIN t.jobs
        /\ \A m \in Nodes(t) : l.jobs[m] = IF m = n THEN Recorded(t.jobs[m], s)
                                              ELSE t.jobs[m]
    BY <1>1 DEF Nodes
  <2>2. \A m \in Nodes(t) : t.jobs[m] \in Job
    BY DEF IsJobList, Nodes
  <2>3. \A m \in Nodes(t) : l.jobs[m] \in Job /\ l.jobs[m].id = t.jobs[m].id
    BY <1>2, <2>1, <2>2
  <2>4. l.jobs = [m \in DOMAIN l.jobs |-> l.jobs[m]]
    BY <1>1
  <2> QED
    BY <2>1, <2>3, <2>4 DEF Nodes
<1>4. IsJobList(l, ns)
  BY <1>1, <1>3 DEF IsJobList, Nodes
<1> QED
  BY <1>1, <1>3, <1>4, SameNumbers DEF l

(* A state set by fg or bg leaves the numbering alone too.                 *)
LEMMA SetStateKeeps ==
  ASSUME NEW ns, NEW t, IsJobList(t, ns), IdsAscend(t), MarksLive(t),
         NEW n, NEW s \in JobStates
  PROVE  LET l == JobSetState(t, n, s)
         IN  IsJobList(l, ns) /\ IdsAscend(l) /\ MarksLive(l) /\ Nodes(l) = Nodes(t)
<1> DEFINE l == JobSetState(t, n, s)
<1>1. /\ l.jobs = IF n \in Nodes(t)
                    THEN [t.jobs EXCEPT ![n] = [id |-> @.id, pid |-> @.pid, state |-> s, status |-> @.status]]
                    ELSE t.jobs
      /\ l.current = t.current /\ l.previous = t.previous /\ l.next_id = t.next_id
      /\ l = [jobs |-> l.jobs, current |-> l.current,
              previous |-> l.previous, next_id |-> l.next_id]
  BY DEF JobSetState, IsJobList, Nodes, Job
<1> HIDE DEF l
<1>3. /\ Nodes(l) = Nodes(t)
      /\ l.jobs \in [Nodes(t) -> Job]
      /\ \A m \in Nodes(t) : l.jobs[m].id = t.jobs[m].id
  BY <1>1 DEF Nodes, IsJobList, Job
<1>4. IsJobList(l, ns)
  BY <1>1, <1>3 DEF IsJobList, Nodes
<1> QED
  BY <1>1, <1>3, <1>4, SameNumbers DEF l

(* job_reap changes states and statuses only.                              *)
LEMMA ReapKeeps ==
  ASSUME NEW ns, NEW t, IsJobList(t, ns), IdsAscend(t), MarksLive(t),
         NEW ps \in [Pids -> Child]
  PROVE  LET l == JobReap(t, ps)
         IN  IsJobList(l, ns) /\ IdsAscend(l) /\ MarksLive(l) /\ Nodes(l) = Nodes(t)
<1> DEFINE l == JobReap(t, ps)
           waitable == Zombies(ps) \cup UntoldStops(ps)
           hit(n) == /\ t.jobs[n].pid \in waitable
                     /\ n = JobFindByPid(t, t.jobs[n].pid)
           seen(n) == StatusOf(ps, t.jobs[n].pid)
           new(n) == IF hit(n) THEN Recorded(t.jobs[n], seen(n)) ELSE t.jobs[n]
<1>1. /\ l.jobs = [n \in Nodes(t) |-> new(n)]
      /\ l.current = t.current /\ l.previous = t.previous /\ l.next_id = t.next_id
      /\ l = [jobs |-> l.jobs, current |-> l.current,
              previous |-> l.previous, next_id |-> l.next_id]
  BY DEF JobReap, IsJobList
<1>2. ASSUME NEW n \in Nodes(t) PROVE new(n) \in Job /\ new(n).id = t.jobs[n].id
  <2>1. t.jobs[n] \in Job
    BY DEF IsJobList, Nodes
  <2>2. t.jobs[n].pid \in Pids
    BY <2>1 DEF Job
  <2>3. seen(n) \in Statuses
    BY <2>2 DEF StatusOf, Statuses, Child
  <2> HIDE DEF hit, seen
  <2> QED
    BY <2>1, <2>3, RecordedIsJob
<1> HIDE DEF l, new
<1>3. /\ Nodes(l) = Nodes(t)
      /\ l.jobs \in [Nodes(t) -> Job]
      /\ \A m \in Nodes(t) : l.jobs[m].id = t.jobs[m].id
  BY <1>1, <1>2 DEF Nodes
<1>4. IsJobList(l, ns)
  BY <1>1, <1>3 DEF IsJobList, Nodes
<1> QED
  BY <1>1, <1>3, <1>4, SameNumbers DEF l

(* Pruning is a removal: the list stays a list, its numbers ascend, its    *)
(* marks live.                                                             *)
LEMMA ReapAndPruneKeeps ==
  ASSUME NEW ns, NEW t, IsJobList(t, ns), IdsAscend(t), MarksLive(t),
         NEW ps \in [Pids -> Child]
  PROVE  LET l == JobReapAndPrune(t, ps)
         IN  IsJobList(l, ns) /\ IdsAscend(l) /\ MarksLive(l) /\ Nodes(l) \subseteq Nodes(t)
BY ReapKeeps, RemoveKeeps DEF JobReapAndPrune

-----------------------------------------------------------------------------
(* The shell and its children.                                             *)

JobsOK(l, k) == IsJobList(l, 1 .. k) /\ IdsAscend(l) /\ MarksLive(l)

IInv == TypeOK /\ JobNumbers

-----------------------------------------------------------------------------
(* The kernel's bookkeeping of children keeps its shape.                   *)

(* What happens to a child (it ends, stops, continues, is told of or       *)
(* turned into a job) leaves a child, and its job unless that is what      *)
(* changes.                                                                *)
LEMMA ChildUpdates ==
  ASSUME NEW r \in Child, NEW c \in Codes, NEW n \in 0 .. MaxJobs
  PROVE  /\ [r EXCEPT !.st = "zombie", !.code = c, !.told = TRUE] \in Child
         /\ [r EXCEPT !.st = "zombie", !.code = c, !.told = TRUE].job = r.job
         /\ [r EXCEPT !.st = "stop", !.told = FALSE] \in Child
         /\ [r EXCEPT !.st = "stop", !.told = FALSE].job = r.job
         /\ [r EXCEPT !.st = "run", !.told = TRUE] \in Child
         /\ [r EXCEPT !.st = "run", !.told = TRUE].job = r.job
         /\ [r EXCEPT !.told = TRUE] \in Child
         /\ [r EXCEPT !.told = TRUE].job = r.job
         /\ [r EXCEPT !.told = TRUE, !.job = n] \in Child
         /\ [r EXCEPT !.told = TRUE, !.job = n].job = n
BY DEF Child, ChildStates

(* A child just forked, and no child, are children's records.              *)
LEMMA NewChildren ==
  ASSUME NEW n \in 0 .. MaxJobs, NEW s \in ChildStates
  PROVE  ChildIn(s, n) \in Child /\ ChildIn(s, n).job = n
BY ChildrenAssumption DEF ChildIn, Child

(* fork(2): the new children belong to job n, the others are as they were. *)
LEMMA ForkedKeeps ==
  ASSUME NEW k \in 0 .. MaxJobs, NEW m \in 0 .. MaxJobs, NEW n \in 0 .. m, k <= m,
         NEW ps, ProcOK(ps, k), NEW qs
  PROVE  ProcOK(Forked(ps, qs, n), m)
<1>1. n \in 0 .. MaxJobs /\ "run" \in ChildStates
  BY ChildrenAssumption DEF ChildStates
<1>2. ChildIn("run", n) \in Child /\ ChildIn("run", n).job = n
  BY <1>1, NewChildren
<1>3. \A q \in Pids : ps[q].job \in Nat
  BY ChildrenAssumption DEF ProcOK, Child
<1> QED
  BY <1>2, <1>3, ChildrenAssumption DEF ProcOK, Forked

(* A child that ends keeps its job.                                        *)
LEMMA ExitedKeeps ==
  ASSUME NEW k \in 0 .. MaxJobs, NEW ps, ProcOK(ps, k), NEW p \in Pids, NEW c \in Codes
  PROVE  ProcOK(Exited(ps, p, c), k)
<1> DEFINE new == [ps[p] EXCEPT !.st = "zombie", !.code = c, !.told = TRUE]
<1>1. ps[p] \in Child
  BY DEF ProcOK
<1>2. new \in Child /\ new.job = ps[p].job
  BY <1>1, ChildUpdates
<1>3. Exited(ps, p, c) = [ps EXCEPT ![p] = new]
  BY DEF Exited
<1> HIDE DEF new
<1> QED
  BY <1>2, <1>3 DEF ProcOK

(* A child reaped, all children drained, and the children seen from a      *)
(* forked child: each pid is NotAChild, another's, or what it was.         *)
LEMMA ReapedKeeps ==
  ASSUME NEW k \in 0 .. MaxJobs, NEW ps, ProcOK(ps, k), NEW qs
  PROVE  /\ ProcOK(Reaped(ps, qs), k)
         /\ ProcOK(Drained(ps), k)
         /\ ProcOK(NotMine(ps), k)
<1> DEFINE other == ChildIn("other", 0)
           told(p) == [ps[p] EXCEPT !.told = TRUE]
<1>1. NotAChild \in Child /\ NotAChild.job <= k /\ other \in Child /\ other.job <= k
  <2>1. 0 \in 0 .. MaxJobs /\ 0 <= k /\ {"none", "other"} \subseteq ChildStates
    BY ChildrenAssumption DEF ChildStates
  <2> QED
    BY <2>1, NewChildren DEF NotAChild
<1>2. ASSUME NEW p \in Pids PROVE told(p) \in Child /\ told(p).job <= k
  <2>1. ps[p] \in Child /\ ps[p].job <= k /\ 0 \in Codes /\ k \in 0 .. MaxJobs
    BY ChildrenAssumption DEF ProcOK
  <2> QED
    BY <2>1, ChildUpdates
<1>3. ProcOK(Reaped(ps, qs), k)
  BY <1>1 DEF ProcOK, Reaped
<1>4. Drained(ps) = [p \in Pids |-> IF ps[p].st = "zombie" THEN NotAChild ELSE told(p)]
  BY DEF Drained
<1>5. NotMine(ps) = [p \in Pids |-> IF ps[p].st = "none" THEN NotAChild ELSE other]
  BY DEF NotMine
<1> HIDE DEF other, told
<1>6. ProcOK(Drained(ps), k)
  BY <1>1, <1>2, <1>4 DEF ProcOK
<1>7. ProcOK(NotMine(ps), k)
  BY <1>1, <1>5 DEF ProcOK
<1> QED
  BY <1>3, <1>6, <1>7

(* SIGCONT keeps every child's job.                                        *)
LEMMA ContinuedKeeps ==
  ASSUME NEW k \in 0 .. MaxJobs, NEW ps, ProcOK(ps, k), NEW qs
  PROVE  ProcOK(Continued(ps, qs), k)
<1> DEFINE new(p) == [ps[p] EXCEPT !.st = "run", !.told = TRUE]
<1>1. ASSUME NEW p \in Pids PROVE new(p) \in Child /\ new(p).job <= k
  <2>1. ps[p] \in Child /\ ps[p].job <= k /\ 0 \in Codes /\ k \in 0 .. MaxJobs
    BY ChildrenAssumption DEF ProcOK
  <2> QED
    BY <2>1, ChildUpdates
<1>2. Continued(ps, qs) =
        [p \in Pids |-> IF p \in qs /\ ps[p].st = "stop" THEN new(p) ELSE ps[p]]
  BY DEF Continued
<1> HIDE DEF new
<1> QED
  BY <1>1, <1>2 DEF ProcOK

(* A stop, told or not, and the ghost job of a stopped command.            *)
LEMMA StopKeeps ==
  ASSUME NEW k \in 0 .. MaxJobs, NEW m \in 0 .. MaxJobs, k <= m,
         NEW ps, ProcOK(ps, k), NEW p \in Pids
  PROVE  /\ ProcOK(Stopped(ps, p), k)
         /\ ProcOK(Told(ps, p), k)
         /\ ProcOK(ToldAsJob(ps, p, m), m)
<1> DEFINE stopped == [ps[p] EXCEPT !.st = "stop", !.told = FALSE]
           told    == [ps[p] EXCEPT !.told = TRUE]
           job     == [ps[p] EXCEPT !.told = TRUE, !.job = m]
<1>1. ps[p] \in Child /\ 0 \in Codes
  BY ChildrenAssumption DEF ProcOK
<1>2. /\ stopped \in Child /\ stopped.job = ps[p].job
      /\ told \in Child /\ told.job = ps[p].job
      /\ job \in Child /\ job.job = m
  BY <1>1, ChildUpdates
<1>3. \A q \in Pids : ps[q].job \in Nat
  BY ChildrenAssumption DEF ProcOK, Child
<1>4. /\ Stopped(ps, p) = [ps EXCEPT ![p] = stopped]
      /\ Told(ps, p) = [ps EXCEPT ![p] = told]
      /\ ToldAsJob(ps, p, m) = [ps EXCEPT ![p] = job]
  BY DEF Stopped, Told, ToldAsJob
<1> HIDE DEF stopped, told, job
<1> QED
  BY <1>2, <1>3, <1>4, ChildrenAssumption DEF ProcOK

-----------------------------------------------------------------------------
(* The stack of frames.                                                    *)

(* A fresh frame has the shape of one.                                     *)
LEMMA FrameIsFrame ==
  ASSUME NEW op \in Ops, op \in {"top", "trap", "undefined", "waitall"}
  PROVE  Frame(op) \in Frames
BY ChildrenAssumption DEF Frame, Frames, FrameType, Blocking, NoJob, Statuses

(* The innermost frame of a stack is a frame, and so are those below it.   *)
LEMMA StackTop ==
  ASSUME NEW s, StackOK(s)
  PROVE  /\ Head(s) \in Frames
         /\ Head(s).op \notin {"top", "undefined"} => Len(s) > 1
         /\ Head(s).op \in (Blocking \ {"waitall"}) \cup {"body"} =>
              Head(s).pids \in Seq(Pids) \ {<<>>} /\ Head(Head(s).pids) \in Pids
<1>1. Head(s) \in Frames /\ Head(s) = s[1] /\ Len(s) \in Nat /\ Len(s) # 0
  BY HeadTailProperties, EmptySeq, LenProperties DEF StackOK
<1>2. Head(s).op \notin {"top", "undefined"} => Len(s) > 1
  BY <1>1 DEF StackOK
<1>3. Head(s).op \in (Blocking \ {"waitall"}) \cup {"body"} =>
        Head(s).pids \in Seq(Pids) \ {<<>>}
  BY <1>1 DEF Frames, FrameType
<1>4. \A q \in Seq(Pids) \ {<<>>} : Head(q) \in Pids
  BY HeadTailProperties
<1> QED
  BY <1>1, <1>2, <1>3, <1>4

(* A frame pushed leaves a stack.                                          *)
LEMMA PushKeeps ==
  ASSUME NEW s, StackOK(s), NEW f \in Frames
  PROVE  StackOK(<<f>> \o s)
BY DEF StackOK

(* A frame popped or replaced leaves a stack, if it is not the base.       *)
LEMMA PopKeeps ==
  ASSUME NEW s, StackOK(s), Head(s).op \notin {"top", "undefined"}, NEW f \in Frames
  PROVE  StackOK(Tail(s)) /\ StackOK(<<f>> \o Tail(s))
<1>1. Len(s) > 1
  BY StackTop
<1>2. /\ Tail(s) \in Seq(Frames) /\ Len(Tail(s)) = Len(s) - 1
      /\ \A i \in 1 .. Len(Tail(s)) : Tail(s)[i] = s[i + 1]
  BY HeadTailProperties DEF StackOK
<1>4. Len(s) \in Nat /\ Len(Tail(s)) \in 1 .. Len(Tail(s))
  BY <1>1, <1>2, LenProperties DEF StackOK
<1>5. Tail(s) # <<>>
  BY <1>1, <1>2, <1>4, EmptySeq
<1>6. Tail(s)[Len(Tail(s))] = s[Len(s)]
  BY <1>2, <1>4
<1>3. StackOK(Tail(s))
  BY <1>2, <1>5, <1>6 DEF StackOK
<1> QED
  BY <1>3, PushKeeps

(* The frames the shell pushes, and what it writes into the topmost one.   *)
LEMMA FilledFrames ==
  ASSUME NEW f \in FrameType, NEW n \in 0 .. MaxJobs, NEW m \in 0 .. MaxJobs,
         NEW s \in Seq(Pids) \ {<<>>}
  PROVE  /\ f.op = "waitall" => [f EXCEPT !.node = n, !.next = m] \in Frames
         /\ [f EXCEPT !.pids = s] \in Frames
         /\ [f EXCEPT !.node = n, !.pids = s] \in Frames
BY DEF Frames, FrameType, Blocking

(* The frames with which a wait starts.                                    *)
LEMMA NewFrames ==
  ASSUME NEW n \in 0 .. MaxJobs, NEW m \in 0 .. MaxJobs,
         NEW op \in Ops, NEW s \in Seq(Pids) \ {<<>>}
  PROVE  /\ [Frame("waitall") EXCEPT !.node = n, !.next = m] \in Frames
         /\ [Frame(op) EXCEPT !.pids = s] \in Frames
         /\ [Frame(op) EXCEPT !.node = n, !.pids = s] \in Frames
<1>1. \A o \in Ops : Frame(o) \in FrameType /\ Frame(o).op = o
  BY ChildrenAssumption DEF NoJob, Statuses, Frame, FrameType
<1>2. "waitall" \in Ops
  BY DEF Ops, Blocking
<1> QED
  BY <1>1, <1>2, FilledFrames

(* The frames a wait goes on with.                                         *)
LEMMA TopFrames ==
  ASSUME NEW f \in Frames, NEW c \in Statuses \cup {Flow}, NEW b \in BOOLEAN,
         NEW n \in 0 .. MaxJobs, NEW m \in 0 .. MaxJobs
  PROVE  /\ [f EXCEPT !.eintr = b] \in Frames
         /\ f.op = "waitall" => [f EXCEPT !.node = n, !.next = m] \in Frames
         /\ f.op = "body" => [f EXCEPT !.op = "collect", !.rc = c] \in Frames
         /\ f.op = "collect" /\ Tail(f.pids) \in Seq(Pids) \ {<<>>} =>
              [f EXCEPT !.pids = Tail(@), !.rc = c, !.eintr = b] \in Frames
BY DEF Frames, FrameType, Ops, Blocking, Issuing

-----------------------------------------------------------------------------
(* The job table under the operations the commands use.                    *)
LEMMA JobOps ==
  ASSUME NEW k \in Nat, NEW l, JobsOK(l, k), NEW n, NEW s \in Statuses,
         NEW ps \in [Pids -> Child], NEW gone
  PROVE  /\ JobsOK(JobRemove(l, gone), k)
         /\ JobsOK(JobSetStatus(l, n, s), k)
         /\ JobsOK(JobReap(l, ps), k) /\ Nodes(JobReap(l, ps)) = Nodes(l)
         /\ JobsOK(JobReapAndPrune(l, ps), k)
         /\ JobsOK(RemoveIfDone(l, n), k)
         /\ JobsOK(Resumed(l, n), k)
<1>1. JobsOK(JobRemove(l, gone), k) /\ JobsOK(JobRemove(l, {n}), k)
  BY RemoveKeeps DEF JobsOK
<1>2. JobsOK(JobSetStatus(l, n, s), k)
  BY SetStatusKeeps DEF JobsOK
<1>3. JobsOK(JobReap(l, ps), k) /\ Nodes(JobReap(l, ps)) = Nodes(l)
  BY ReapKeeps DEF JobsOK
<1>4. JobsOK(JobReapAndPrune(l, ps), k)
  BY ReapAndPruneKeeps DEF JobsOK
<1>5. JobsOK(JobSetState(l, n, "RUNNING"), k)
  BY SetStateKeeps DEF JobsOK, JobStates
<1> QED
  BY <1>1, <1>2, <1>3, <1>4, <1>5 DEF RemoveIfDone, Resumed

(* The searches return a node of the table or NULL, so never a number      *)
(* above the last allocation.                                              *)
LEMMA Searches ==
  ASSUME NEW k \in Nat, NEW l, JobsOK(l, k), NEW p, NEW n
  PROVE  /\ Nodes(l) \subseteq 1 .. k
         /\ JobFindByPid(l, p) \in Nodes(l) \cup {NoJob}
         /\ First(Nodes(l)) \in 0 .. k
         /\ NextNode(l, n) \in 0 .. k
         /\ JobFindByPid(l, p) \in 0 .. k
<1>1. 1 .. k \in SUBSET Nat /\ IsJobList(l, 1 .. k)
  BY DEF JobsOK
<1>2. Nodes(l) \subseteq 1 .. k
  BY DEF JobsOK, IsJobList, Nodes
<1>3. /\ JobFindByPid(l, p) \in Nodes(l) \cup {NoJob}
      /\ First(Nodes(l)) \in Nodes(l) \cup {NoJob}
      /\ NextNode(l, n) \in Nodes(l) \cup {NoJob}
  BY <1>1, FindInList
<1> QED
  BY <1>2, <1>3 DEF NoJob

(* The reaping before `&`: the table stays one and loses no live mark.     *)
LEMMA BeforeAsyncKeeps ==
  ASSUME IInv
  PROVE  JobsOK(JobsBeforeAsync, allocs) /\ ProcOK(ProcBeforeAsync, allocs)
<1>1. /\ JobsOK(jl, allocs) /\ ProcOK(proc, allocs)
      /\ allocs \in 0 .. MaxJobs /\ allocs \in Nat /\ proc \in [Pids -> Child]
      /\ 0 \in Statuses
  BY ChildrenAssumption DEF IInv, TypeOK, CountsOK, JobNumbers, JobsOK, ProcOK, Statuses
<1>2. JobsOK(JobsBeforeAsync, allocs)
  BY <1>1, JobOps DEF JobsBeforeAsync
<1>3. ProcOK(ProcBeforeAsync, allocs)
  BY <1>1, ReapedKeeps DEF ProcBeforeAsync
<1> QED
  BY <1>2, <1>3

(* What job_wait leaves behind, and the status job_wait returns.    *)
LEMMA WaitKeeps ==
  ASSUME IInv, NEW p \in Pids
  PROVE  /\ JobsOK(JobsAfterWait(p), allocs)
         /\ ProcOK(ProcAfterWait(p), allocs)
         /\ WaitCode(p) \in Statuses
<1>1. /\ JobsOK(jl, allocs) /\ ProcOK(proc, allocs)
      /\ allocs \in 0 .. MaxJobs /\ allocs \in Nat /\ proc \in [Pids -> Child]
  BY ChildrenAssumption DEF IInv, TypeOK, CountsOK, JobNumbers, JobsOK, ProcOK
<1>2. proc[p].code \in Statuses /\ 0 \in Statuses
  BY <1>1, ChildrenAssumption DEF Child, Statuses
<1>3. JobsOK(JobsAfterWait(p), allocs)
  BY <1>1, <1>2, JobOps DEF JobsAfterWait
<1>4. ProcOK(ProcAfterWait(p), allocs)
  BY <1>1, ReapedKeeps DEF ProcAfterWait
<1>5. JobFindByPid(jl, p) \in Nodes(jl) \cup {NoJob}
  BY <1>1, Searches
<1>6. \A n \in Nodes(jl) : jl.jobs[n].status \in Statuses
  BY <1>1 DEF JobsOK, IsJobList, Job, Nodes
<1>7. WaitCode(p) \in Statuses
  BY <1>2, <1>5, <1>6 DEF WaitCode
<1> QED
  BY <1>3, <1>4, <1>7


-----------------------------------------------------------------------------
(* What every action starts from, and what it has to re-establish.         *)
FateOK == fate \in [1 .. MaxJobs -> Codes \cup {Alive}]

(* What a step may use of the state it starts in.                          *)
LEMMA Before ==
  ASSUME IInv
  PROVE  /\ ProcOK(proc, allocs) /\ proc \in [Pids -> Child]
         /\ JobsOK(jl, allocs) /\ Nodes(jl) \subseteq 0 .. MaxJobs
         /\ StackOK(stack) /\ Top \in Frames
         /\ LastOK(last) /\ CountsOK /\ FateOK
         /\ allocs \in 0 .. MaxJobs /\ allocs \in Nat /\ MaxJobs \in Nat
<1>1. allocs \in 0 .. MaxJobs /\ allocs \in Nat /\ MaxJobs \in Nat
  BY ChildrenAssumption DEF IInv, TypeOK, CountsOK
<1>2. JobsOK(jl, allocs) /\ Nodes(jl) \subseteq 0 .. MaxJobs
  BY <1>1 DEF IInv, TypeOK, JobNumbers, JobsOK, IsJobList, Nodes
<1>3. StackOK(stack) /\ Top \in Frames
  BY StackTop DEF IInv, TypeOK, Top
<1> QED
  BY <1>1, <1>2, <1>3 DEF IInv, TypeOK, ProcOK, FateOK

(* What a step has to show of the state it ends in.                        *)
LEMMA After ==
  ASSUME ProcOK(proc', allocs'), JobsOK(jl', allocs'), StackOK(stack'),
         LastOK(last'), CountsOK', FateOK'
  PROVE  IInv'
BY DEF IInv, TypeOK, JobNumbers, JobsOK, FateOK

(* What a command may report.                                              *)
LEMMA ResultOK ==
  ASSUME NEW cmd \in Commands \cup {"none", "waitall"}, NEW n \in 0 .. MaxJobs,
         NEW c \in Statuses \cup {1, 127, Flow}
  PROVE  LastOK(Result(cmd, n, c))
BY DEF LastOK, Result

(* The constants lie in the ranges the types name.                         *)
LEMMA Numbers ==
  /\ NoJob \in 0 .. MaxJobs /\ 0 \in Statuses /\ StopCode \in Statuses
  /\ Codes \subseteq Statuses
  /\ {"async", "jobs", "wait", "fg", "bg", "external", "subshell", "descend", "pipe"} = Commands
BY ChildrenAssumption DEF NoJob, Statuses, Commands

(* The child a blocked frame waits for.                                    *)
LEMMA PidIsPid ==
  ASSUME IInv, Top.op \in (Blocking \ {"waitall"}) \cup {"body"}
  PROVE  Pid \in Pids /\ Top.pids \in Seq(Pids) \ {<<>>}
BY StackTop, Before DEF Pid, Top

(* A step that pushes a frame keeps the stack's shape.                     *)
LEMMA PushType ==
  ASSUME IInv, NEW f \in Frames, Push(f)
  PROVE  StackOK(stack')
BY PushKeeps, Before DEF Push

(* A step that pops a frame keeps the stack's shape.                       *)
LEMMA PopType ==
  ASSUME IInv, Top.op \notin {"top", "undefined"}, Pop
  PROVE  StackOK(stack')
<1>1. Frame("top") \in Frames
  BY FrameIsFrame DEF Ops, Issuing
<1> QED
  BY <1>1, PopKeeps, Before DEF Pop, Top

(* A step that replaces the innermost frame keeps the stack's shape.       *)
LEMMA SwapType ==
  ASSUME IInv, Top.op \notin {"top", "undefined"}, NEW f \in Frames, Swap(f)
  PROVE  StackOK(stack')
BY PopKeeps, Before DEF Swap, Top

(* A stack of one frame, in a forked child or after freed memory was read. *)
LEMMA BaseType ==
  ASSUME NEW op \in {"top", "undefined"}
  PROVE  StackOK(<<Frame(op)>>)
<1>1. Frame(op) \in Frames /\ Frame(op).op = op
  BY FrameIsFrame DEF Ops, Issuing, Frame
<1> QED
  BY <1>1 DEF StackOK

-----------------------------------------------------------------------------
(* One lemma per action.                                                   *)

(* A child ends.                                                           *)
LEMMA ChildExitKeeps ==
  ASSUME IInv, NEW p \in Pids, NEW c \in Codes, ChildExit(p, c)
  PROVE  IInv'
<1>p. ProcOK(proc', allocs')
  BY ExitedKeeps, Before DEF ChildExit
<1>j. JobsOK(jl', allocs')
  BY Before DEF ChildExit
<1>s. StackOK(stack')
  BY Before DEF ChildExit
<1>l. LastOK(last')
  BY Before DEF ChildExit
<1>c. CountsOK' /\ FateOK'
  <2>1. CountsOK'
    BY Before DEF ChildExit, CountsOK
  <2>2. proc[p].job \in Nat /\ proc[p].job <= MaxJobs
    BY Before DEF Child
  <2>3. FateOK'
    BY Before DEF ChildExit, FateOK
  <2> QED
    BY <2>1, <2>3
<1> QED
  BY <1>p, <1>j, <1>s, <1>l, <1>c, After

(* A child stops.                                                          *)
LEMMA ChildStopKeeps ==
  ASSUME IInv, NEW p \in Pids, ChildStop(p)
  PROVE  IInv'
<1>p. ProcOK(proc', allocs')
  BY StopKeeps, Before DEF ChildStop
<1>j. JobsOK(jl', allocs')
  BY Before DEF ChildStop
<1>s. StackOK(stack')
  BY Before DEF ChildStop
<1>l. LastOK(last')
  BY Before DEF ChildStop
<1>c. CountsOK' /\ FateOK'
  BY Before DEF ChildStop, CountsOK, FateOK
<1> QED
  BY <1>p, <1>j, <1>s, <1>l, <1>c, After

(* A child continues.                                                      *)
LEMMA ChildContinueKeeps ==
  ASSUME IInv, NEW p \in Pids, ChildContinue(p)
  PROVE  IInv'
<1>p. ProcOK(proc', allocs')
  BY ContinuedKeeps, Before DEF ChildContinue
<1>j. JobsOK(jl', allocs')
  BY Before DEF ChildContinue
<1>s. StackOK(stack')
  BY Before DEF ChildContinue
<1>l. LastOK(last')
  BY Before DEF ChildContinue
<1>c. CountsOK' /\ FateOK'
  BY Before DEF ChildContinue, CountsOK, FateOK
<1> QED
  BY <1>p, <1>j, <1>s, <1>l, <1>c, After

(* cmd &: the new job's number is above all numbers in the table.          *)
LEMMA AsyncKeeps ==
  ASSUME IInv, NEW p \in Pids, Async(p)
  PROVE  IInv'
<1>1. allocs' = allocs + 1 /\ allocs' \in 0 .. MaxJobs /\ allocs <= allocs'
  BY Before DEF Async
<1>2. JobsOK(JobsBeforeAsync, allocs) /\ ProcOK(ProcBeforeAsync, allocs)
  BY BeforeAsyncKeeps
<1>p. ProcOK(proc', allocs')
  <2>1. allocs' \in 0 .. allocs'
    BY <1>1
  <2> QED
    BY <1>1, <1>2, <2>1, ForkedKeeps, Before DEF Async
<1>j. JobsOK(jl', allocs')
  BY <1>1, <1>2, RegisterKeeps, Before DEF Async, JobsOK
<1>s. StackOK(stack')
  BY Before DEF Async
<1>l. LastOK(last')
  BY ResultOK, Numbers, Before DEF Async, Report
<1>c. CountsOK' /\ FateOK'
  BY <1>1, Before DEF Async, CountsOK, FateOK
<1> QED
  BY <1>p, <1>j, <1>s, <1>l, <1>c, After

(* The fork of & fails.                                                    *)
LEMMA AsyncForkFailsKeeps ==
  ASSUME IInv, AsyncForkFails
  PROVE  IInv'
<1>1. JobsOK(JobsBeforeAsync, allocs) /\ ProcOK(ProcBeforeAsync, allocs)
  BY BeforeAsyncKeeps
<1>p. ProcOK(proc', allocs')
  BY <1>1 DEF AsyncForkFails
<1>j. JobsOK(jl', allocs')
  BY <1>1 DEF AsyncForkFails
<1>s. StackOK(stack')
  BY Before DEF AsyncForkFails
<1>l. LastOK(last')
  BY ResultOK, Numbers, Before DEF AsyncForkFails, Report
<1>c. CountsOK' /\ FateOK'
  BY Before DEF AsyncForkFails, CountsOK, FateOK
<1> QED
  BY <1>p, <1>j, <1>s, <1>l, <1>c, After

(* jobs.                                                                   *)
LEMMA JobsCommandKeeps ==
  ASSUME IInv, JobsCommand
  PROVE  IInv'
<1>p. ProcOK(proc', allocs')
  BY ReapedKeeps, Before DEF JobsCommand
<1>j. JobsOK(jl', allocs')
  BY JobOps, Numbers, Before DEF JobsCommand
<1>s. StackOK(stack')
  BY Before DEF JobsCommand
<1>l. LastOK(last')
  BY ResultOK, Numbers, Before DEF JobsCommand, Report
<1>c. CountsOK' /\ FateOK'
  BY Before DEF JobsCommand, CountsOK, FateOK
<1> QED
  BY <1>p, <1>j, <1>s, <1>l, <1>c, After

(* The frame of a wait loop, at any node of the table.                     *)
LEMMA WaitAllFrame ==
  ASSUME NEW n \in 0 .. MaxJobs, NEW m \in 0 .. MaxJobs
  PROVE  [Frame("waitall") EXCEPT !.node = n, !.next = m] \in Frames
<1>1. Frame("waitall") \in FrameType /\ Frame("waitall").op = "waitall"
  BY FrameIsFrame DEF Frames, Ops, Blocking, Frame
<1> QED
  BY <1>1 DEF Frames, FrameType, Blocking

(* wait: the first frame of the loop.                                      *)
LEMMA WaitAllKeeps ==
  ASSUME IInv, WaitAll
  PROVE  IInv'
<1>1. /\ First(Nodes(jl)) \in 0 .. MaxJobs
      /\ NextNode(jl, First(Nodes(jl))) \in 0 .. MaxJobs
  BY Searches, Before, Numbers
<1> DEFINE f == [Frame("waitall") EXCEPT !.node = First(Nodes(jl)),
                                          !.next = NextNode(jl, First(Nodes(jl)))]
<1>2. f \in Frames
  BY <1>1, WaitAllFrame
<1>3. Push(f) \/ stack' = stack
  BY DEF WaitAll
<1> HIDE DEF f
<1>p. ProcOK(proc', allocs')
  BY Before DEF WaitAll
<1>j. JobsOK(jl', allocs')
  BY Before DEF WaitAll
<1>s. StackOK(stack')
  BY <1>2, <1>3, PushType, Before
<1>l. LastOK(last')
  BY ResultOK, Numbers, Before DEF WaitAll, Report
<1>c. CountsOK' /\ FateOK'
  BY Before DEF WaitAll, CountsOK, FateOK
<1> QED
  BY <1>p, <1>j, <1>s, <1>l, <1>c, After

(* wait: one turn of the loop.                                             *)
LEMMA WaitAllStepKeeps ==
  ASSUME IInv, WaitAllStep
  PROVE  IInv'
<1> DEFINE p == jl.jobs[Top.node].pid
           waits == jl.jobs[Top.node].state = "RUNNING"
           done == RemoveIfDone(IF waits THEN JobsAfterWait(p) ELSE jl, Top.node)
           f == [Top EXCEPT !.node = Top.next, !.next = NextNode(done, Top.next)]
<1>1. p \in Pids
  BY Before DEF WaitAllStep, JobsOK, IsJobList, Job, Nodes
<1>2. JobsOK(done, allocs)
  <2>1. JobsOK(IF waits THEN JobsAfterWait(p) ELSE jl, allocs)
    BY <1>1, WaitKeeps, Before
  <2> QED
    BY <2>1, JobOps, Numbers, Before
<1>3. proc' = (IF waits THEN ProcAfterWait(p) ELSE proc) /\ jl' = done
      /\ allocs' = allocs /\ Top.op = "waitall"
  BY DEF WaitAllStep
<1>4. /\ Pop \/ Swap(f)
      /\ last' = last \/ Report("waitall", NoJob, 0)
  BY DEF WaitAllStep
<1>5. f \in Frames
  <2>1. NextNode(done, Top.next) \in 0 .. MaxJobs
    BY <1>2, Searches, Before, Numbers
  <2>2. Top.next \in 0 .. MaxJobs
    BY Before DEF Frames, FrameType
  <2> QED
    BY <1>3, <2>1, <2>2, TopFrames, Numbers, Before
<1> HIDE DEF p, waits, done, f
<1>p. ProcOK(proc', allocs')
  BY <1>1, <1>3, WaitKeeps, Before
<1>j. JobsOK(jl', allocs')
  BY <1>2, <1>3
<1>s. StackOK(stack')
  BY <1>3, <1>4, <1>5, PopType, SwapType
<1>l. LastOK(last')
  BY <1>4, ResultOK, Numbers, Before DEF Report
<1>c. CountsOK' /\ FateOK'
  BY Before DEF WaitAllStep, CountsOK, FateOK
<1> QED
  BY <1>p, <1>j, <1>s, <1>l, <1>c, After

(* wait p.                                                                 *)
LEMMA WaitPidKeeps ==
  ASSUME IInv, NEW p \in Pids, WaitPid(p)
  PROVE  IInv'
<1> DEFINE n == JobFindByPid(jl, p)
           f == [Frame("waitpid") EXCEPT !.node = n, !.pids = <<p>>]
<1>1. n \in 0 .. MaxJobs /\ <<p>> \in Seq(Pids) \ {<<>>} /\ "waitpid" \in Ops
  BY Searches, Before, Numbers DEF Ops, Blocking
<1>2. f \in Frames
  BY <1>1, NewFrames
<1>3. Push(f) \/ stack' = stack
  BY DEF WaitPid
<1> HIDE DEF f
<1>p. ProcOK(proc', allocs')
  BY Before DEF WaitPid
<1>j. JobsOK(jl', allocs')
  BY Before DEF WaitPid
<1>s. StackOK(stack')
  BY <1>2, <1>3, PushType, Before
<1>l. LastOK(last')
  BY ResultOK, Numbers, Before DEF WaitPid, Report
<1>c. CountsOK' /\ FateOK'
  BY Before DEF WaitPid, CountsOK, FateOK
<1> QED
  BY <1>p, <1>j, <1>s, <1>l, <1>c, After

(* wait p returns.                                                         *)
LEMMA WaitPidReturnKeeps ==
  ASSUME IInv, WaitPidReturn
  PROVE  IInv'
<1>1. Pid \in Pids /\ Top.op = "waitpid"
  BY PidIsPid DEF WaitPidReturn, Blocking
<1>2. /\ JobsOK(JobsAfterWait(Pid), allocs) /\ ProcOK(ProcAfterWait(Pid), allocs)
      /\ WaitCode(Pid) \in Statuses
  BY <1>1, WaitKeeps
<1>p. ProcOK(proc', allocs')
  BY <1>2 DEF WaitPidReturn
<1>j. JobsOK(jl', allocs')
  BY <1>2, JobOps, Numbers, Before DEF WaitPidReturn
<1>s. StackOK(stack')
  BY <1>1, PopType DEF WaitPidReturn
<1>l. LastOK(last')
  <2>1. Top.node \in 0 .. MaxJobs
    BY Before DEF Frames, FrameType
  <2> QED
    BY <1>2, <2>1, ResultOK, Numbers DEF WaitPidReturn, Report
<1>c. CountsOK' /\ FateOK'
  BY Before DEF WaitPidReturn, CountsOK, FateOK
<1> QED
  BY <1>p, <1>j, <1>s, <1>l, <1>c, After

(* A wait loop reads freed memory.                                         *)
LEMMA ReadFreedJobKeeps ==
  ASSUME IInv, ReadFreedJob
  PROVE  IInv'
<1>p. ProcOK(proc', allocs')
  BY Before DEF ReadFreedJob
<1>j. JobsOK(jl', allocs')
  BY Before DEF ReadFreedJob
<1>s. StackOK(stack')
  BY BaseType DEF ReadFreedJob
<1>l. LastOK(last')
  BY Before DEF ReadFreedJob
<1>c. CountsOK' /\ FateOK'
  BY Before DEF ReadFreedJob, CountsOK, FateOK
<1> QED
  BY <1>p, <1>j, <1>s, <1>l, <1>c, After

(* fg of job n.                                                            *)
LEMMA ForegroundKeeps ==
  ASSUME IInv, NEW n, Foreground(n)
  PROVE  IInv'
<1> DEFINE l == JobReap(jl, proc)
           f == [Frame("fg") EXCEPT !.node = n, !.pids = <<l.jobs[n].pid>>]
<1>1. JobsOK(l, allocs) /\ Nodes(l) = Nodes(jl) /\ n \in Nodes(l)
  BY JobOps, Numbers, Before DEF Foreground
<1>2. jl' = Resumed(l, n) /\ proc' = ProcResumed(l, n) /\ Push(f) /\ allocs' = allocs
  BY DEF Foreground
<1>3. l.jobs[n].pid \in Pids
  BY <1>1 DEF JobsOK, IsJobList, Job, Nodes
<1> HIDE DEF l
<1>4. f \in Frames
  <2>1. <<l.jobs[n].pid>> \in Seq(Pids) \ {<<>>} /\ n \in 0 .. MaxJobs /\ "fg" \in Ops
    BY <1>1, <1>3, Before DEF Ops, Blocking
  <2> QED
    BY <2>1, NewFrames, Numbers
<1> HIDE DEF f
<1>p. ProcOK(proc', allocs')
  BY <1>2, ReapedKeeps, ContinuedKeeps, Before DEF ProcResumed
<1>j. JobsOK(jl', allocs')
  BY <1>1, <1>2, JobOps, Numbers, Before
<1>s. StackOK(stack')
  BY <1>2, <1>4, PushType
<1>l. LastOK(last')
  BY Before DEF Foreground
<1>c. CountsOK' /\ FateOK'
  BY Before DEF Foreground, CountsOK, FateOK
<1> QED
  BY <1>p, <1>j, <1>s, <1>l, <1>c, After

(* bg of job n.                                                            *)
LEMMA BackgroundKeeps ==
  ASSUME IInv, NEW n, Background(n)
  PROVE  IInv'
<1> DEFINE l == JobReap(jl, proc)
<1>1. JobsOK(l, allocs)
  BY JobOps, Numbers, Before
<1>2. jl' = Resumed(l, n) /\ proc' = ProcResumed(l, n) /\ allocs' = allocs
  BY DEF Background
<1> HIDE DEF l
<1>p. ProcOK(proc', allocs')
  BY <1>2, ReapedKeeps, ContinuedKeeps, Before DEF ProcResumed
<1>j. JobsOK(jl', allocs')
  BY <1>1, <1>2, JobOps, Numbers, Before
<1>s. StackOK(stack')
  BY Before DEF Background
<1>l. LastOK(last')
  BY ResultOK, Numbers, Before DEF Background, Report
<1>c. CountsOK' /\ FateOK'
  BY Before DEF Background, CountsOK, FateOK
<1> QED
  BY <1>p, <1>j, <1>s, <1>l, <1>c, After

(* fg or bg of no job.                                                     *)
LEMMA NoSuchJobKeeps ==
  ASSUME IInv, NEW cmd \in {"fg", "bg"}, NoSuchJob(cmd)
  PROVE  IInv'
<1>p. ProcOK(proc', allocs')
  BY ReapedKeeps, Before DEF NoSuchJob
<1>j. JobsOK(jl', allocs')
  BY JobOps, Numbers, Before DEF NoSuchJob
<1>s. StackOK(stack')
  BY Before DEF NoSuchJob
<1>l. LastOK(last')
  BY ResultOK, Numbers, Before DEF NoSuchJob, Report
<1>c. CountsOK' /\ FateOK'
  BY Before DEF NoSuchJob, CountsOK, FateOK
<1> QED
  BY <1>p, <1>j, <1>s, <1>l, <1>c, After

(* fg returns.                                                             *)
LEMMA ForegroundReturnKeeps ==
  ASSUME IInv, ForegroundReturn
  PROVE  IInv'
<1>1. Pid \in Pids /\ Top.op = "fg"
  BY PidIsPid DEF ForegroundReturn, Blocking
<1>2. proc[Pid].code \in Codes
  BY <1>1, Before DEF Child
<1>p. ProcOK(proc', allocs')
  BY ReapedKeeps, Before DEF ForegroundReturn
<1>j. JobsOK(jl', allocs')
  BY JobOps, Numbers, Before DEF ForegroundReturn
<1>s. StackOK(stack')
  BY <1>1, PopType DEF ForegroundReturn
<1>l. LastOK(last')
  BY ResultOK, Numbers, Before, <1>2 DEF ForegroundReturn, Report
<1>c. CountsOK' /\ FateOK'
  BY Before DEF ForegroundReturn, CountsOK, FateOK
<1> QED
  BY <1>p, <1>j, <1>s, <1>l, <1>c, After

(* The job fg waits for stops again.                                       *)
LEMMA ForegroundStopsKeeps ==
  ASSUME IInv, ForegroundStops
  PROVE  IInv'
<1>1. Pid \in Pids /\ Top.op = "fg"
  BY PidIsPid DEF ForegroundStops, Blocking
<1>p. ProcOK(proc', allocs')
  BY <1>1, StopKeeps, Before DEF ForegroundStops
<1>j. JobsOK(jl', allocs')
  BY JobOps, Numbers, Before DEF ForegroundStops
<1>s. StackOK(stack')
  BY <1>1, PopType DEF ForegroundStops
<1>l. LastOK(last')
  BY ResultOK, Numbers, Before DEF ForegroundStops, Report
<1>c. CountsOK' /\ FateOK'
  BY Before DEF ForegroundStops, CountsOK, FateOK
<1> QED
  BY <1>p, <1>j, <1>s, <1>l, <1>c, After

(* An external command or a subshell starts.                               *)
LEMMA ForkAndWaitKeeps ==
  ASSUME IInv, NEW cmd \in {"external", "subshell"}, NEW p \in Pids, ForkAndWait(cmd, p)
  PROVE  IInv'
<1> DEFINE f == [Frame(cmd) EXCEPT !.pids = <<p>>]
<1>1. <<p>> \in Seq(Pids) \ {<<>>} /\ cmd \in Ops
  BY DEF Ops, Blocking
<1>2. f \in Frames
  BY <1>1, NewFrames, Numbers
<1>3. Push(f)
  BY DEF ForkAndWait
<1> HIDE DEF f
<1>p. ProcOK(proc', allocs')
  BY ForkedKeeps, Numbers, Before DEF ForkAndWait, NoJob
<1>j. JobsOK(jl', allocs')
  BY Before DEF ForkAndWait
<1>s. StackOK(stack')
  BY <1>2, <1>3, PushType
<1>l. LastOK(last')
  BY Before DEF ForkAndWait
<1>c. CountsOK' /\ FateOK'
  BY Before DEF ForkAndWait, CountsOK, FateOK
<1> QED
  BY <1>p, <1>j, <1>s, <1>l, <1>c, After

(* An external command or a subshell is waited for.                        *)
LEMMA ChildReturnKeeps ==
  ASSUME IInv, ChildReturn
  PROVE  IInv'
<1>1. Pid \in Pids /\ Top.op \in {"external", "subshell"}
  BY PidIsPid DEF ChildReturn, Blocking
<1>2. Collected(Top, Pid) \subseteq Statuses
  BY <1>1, Numbers, Before DEF Collected, Child
<1>p. ProcOK(proc', allocs')
  BY ReapedKeeps, Before DEF ChildReturn, ProcCollected
<1>j. JobsOK(jl', allocs')
  BY Before DEF ChildReturn
<1>s. StackOK(stack')
  BY <1>1, PopType DEF ChildReturn
<1>l. LastOK(last')
  BY ResultOK, Numbers, Before, <1>1, <1>2 DEF ChildReturn, Report
<1>c. CountsOK' /\ FateOK'
  BY Before DEF ChildReturn, CountsOK, FateOK
<1> QED
  BY <1>p, <1>j, <1>s, <1>l, <1>c, After

(* A foreground command becomes a stopped job.                             *)
LEMMA ExternalStopsKeeps ==
  ASSUME IInv, ExternalStops
  PROVE  IInv'
<1>1. Pid \in Pids /\ Top.op = "external"
  BY PidIsPid DEF ExternalStops, Blocking
<1>2. allocs' = allocs + 1 /\ allocs' \in 0 .. MaxJobs /\ allocs <= allocs' /\ allocs' \in Nat
  BY Before DEF ExternalStops
<1>3. JobsOK(JobRegister(jl, allocs + 1, Pid), allocs + 1)
  BY <1>1, RegisterKeeps, Before DEF JobsOK
<1>p. ProcOK(proc', allocs')
  BY <1>1, <1>2, StopKeeps, Before DEF ExternalStops
<1>j. JobsOK(jl', allocs')
  BY <1>2, <1>3, JobOps, Numbers, Before DEF ExternalStops
<1>s. StackOK(stack')
  BY <1>1, PopType DEF ExternalStops
<1>l. LastOK(last')
  BY ResultOK, Numbers, Before DEF ExternalStops, Report
<1>c. CountsOK' /\ FateOK'
  BY <1>2, Before DEF ExternalStops, CountsOK, FateOK
<1> QED
  BY <1>p, <1>j, <1>s, <1>l, <1>c, After

(* A forked subshell starts from its parent's table.                       *)
LEMMA EnterSubshellKeeps ==
  ASSUME IInv, EnterSubshell
  PROVE  IInv'
<1>p. ProcOK(proc', allocs')
  BY ReapedKeeps, Before DEF EnterSubshell
<1>j. JobsOK(jl', allocs')
  BY Before DEF EnterSubshell
<1>s. StackOK(stack')
  BY BaseType DEF EnterSubshell
<1>l. LastOK(last')
  BY ResultOK, Numbers, Before DEF EnterSubshell, Report
<1>c. CountsOK' /\ FateOK'
  BY Before DEF EnterSubshell, CountsOK, FateOK
<1> QED
  BY <1>p, <1>j, <1>s, <1>l, <1>c, After

(* A pipeline forks its stages.                                            *)
LEMMA PipelineKeeps ==
  ASSUME IInv, NEW s \in Stages, Pipeline(s)
  PROVE  IInv'
<1> DEFINE f == [Frame("body") EXCEPT !.pids = s]
<1>1. s \in Seq(Pids) \ {<<>>} /\ "body" \in Ops
  BY JobControlAssumption, EmptySeq DEF Stages, Ops, Issuing
<1>2. f \in Frames
  BY <1>1, NewFrames, Numbers
<1>3. Push(f)
  BY DEF Pipeline
<1> HIDE DEF f
<1>p. ProcOK(proc', allocs')
  BY ForkedKeeps, Numbers, Before DEF Pipeline, NoJob
<1>j. JobsOK(jl', allocs')
  BY Before DEF Pipeline
<1>s. StackOK(stack')
  BY <1>2, <1>3, PushType
<1>l. LastOK(last')
  BY Before DEF Pipeline
<1>c. CountsOK' /\ FateOK'
  BY Before DEF Pipeline, CountsOK, FateOK
<1> QED
  BY <1>p, <1>j, <1>s, <1>l, <1>c, After

(* A later fork of a pipeline fails.                                       *)
LEMMA PipelineForkFailsKeeps ==
  ASSUME IInv, NEW s, PipelineForkFails(s)
  PROVE  IInv'
<1>p. ProcOK(proc', allocs')
  BY ForkedKeeps, Numbers, Before DEF PipelineForkFails, NoJob
<1>j. JobsOK(jl', allocs')
  BY Before DEF PipelineForkFails
<1>s. StackOK(stack')
  BY Before DEF PipelineForkFails
<1>l. LastOK(last')
  BY ResultOK, Numbers, Before DEF PipelineForkFails, Report
<1>c. CountsOK' /\ FateOK'
  BY Before DEF PipelineForkFails, CountsOK, FateOK
<1> QED
  BY <1>p, <1>j, <1>s, <1>l, <1>c, After

(* The in-process last stage ends.                                         *)
LEMMA BodyDoneKeeps ==
  ASSUME IInv, NEW c \in Codes \cup {Flow}, BodyDone(c)
  PROVE  IInv'
<1> DEFINE f == [Top EXCEPT !.op = "collect", !.rc = c]
<1>1. Top.op = "body" /\ Swap(f) /\ c \in Statuses \cup {Flow}
  BY Numbers DEF BodyDone
<1>2. f \in Frames
  BY <1>1, TopFrames, Numbers, Before
<1> HIDE DEF f
<1>p. ProcOK(proc', allocs')
  BY Before DEF BodyDone
<1>j. JobsOK(jl', allocs')
  BY Before DEF BodyDone
<1>s. StackOK(stack')
  BY <1>1, <1>2, SwapType
<1>l. LastOK(last')
  BY Before DEF BodyDone
<1>c. CountsOK' /\ FateOK'
  BY Before DEF BodyDone, CountsOK, FateOK
<1> QED
  BY <1>p, <1>j, <1>s, <1>l, <1>c, After

(* What collecting the next stage of a pipeline does.                      *)
LEMMA NextStage ==
  ASSUME IInv, CollectStage
  PROVE  /\ Top.op = "collect" /\ Pid \in Pids
         /\ \E rc \in Statuses \cup {Flow} :
              LET f == [Top EXCEPT !.pids = Tail(@), !.rc = rc, !.eintr = FALSE]
              IN  \/ Len(Top.pids) = 1 /\ Pop /\ Report("pipe", NoJob, rc)
                  \/ Len(Top.pids) # 1 /\ f \in Frames /\ Swap(f) /\ last' = last
<1>1. Pid \in Pids /\ Top.op = "collect" /\ Top.pids \in Seq(Pids) \ {<<>>}
  BY PidIsPid DEF CollectStage, Blocking
<1>2. Collected(Top, Pid) \subseteq Statuses
  BY <1>1, Numbers, Before DEF Collected, Child
<1>3. PICK k \in Collected(Top, Pid) :
        LET rc == PipeStatus(Top.rc, k)
        IN  IF Len(Top.pids) = 1
              THEN Pop /\ Report("pipe", NoJob, rc)
              ELSE /\ Swap([Top EXCEPT !.pids = Tail(@), !.rc = rc, !.eintr = FALSE])
                   /\ UNCHANGED last
  BY DEF CollectStage
<1> DEFINE rc == PipeStatus(Top.rc, k)
           f == [Top EXCEPT !.pids = Tail(@), !.rc = rc, !.eintr = FALSE]
<1>4. rc \in Statuses \cup {Flow}
  BY <1>2, Before DEF PipeStatus, Frames, FrameType
<1>5. Len(Top.pids) # 1 => f \in Frames
  <2>1. Len(Top.pids) # 1 => Tail(Top.pids) \in Seq(Pids) \ {<<>>}
    <3>1. Tail(Top.pids) \in Seq(Pids) /\ Len(Tail(Top.pids)) = Len(Top.pids) - 1
      BY <1>1, HeadTailProperties
    <3>2. Len(Top.pids) \in Nat
      BY <1>1, LenProperties
    <3>3. Len(Top.pids) # 1 => Len(Tail(Top.pids)) # 0
      BY <3>1, <3>2
    <3> QED
      BY <3>1, <3>3
  <2> QED
    BY <1>1, <1>4, <2>1, TopFrames, Numbers, Before
<1>6. \/ Len(Top.pids) = 1 /\ Pop /\ Report("pipe", NoJob, rc)
      \/ Len(Top.pids) # 1 /\ f \in Frames /\ Swap(f) /\ last' = last
  BY <1>3, <1>5
<1> HIDE DEF rc
<1> QED
  BY <1>1, <1>4, <1>6

(* A pipeline collects its next stage.                                     *)
LEMMA CollectStageKeeps ==
  ASSUME IInv, CollectStage
  PROVE  IInv'
<1>1. PICK rc \in Statuses \cup {Flow} :
        LET f == [Top EXCEPT !.pids = Tail(@), !.rc = rc, !.eintr = FALSE]
        IN  \/ Pop /\ Report("pipe", NoJob, rc)
            \/ f \in Frames /\ Swap(f) /\ last' = last
  BY NextStage
<1>2. Top.op = "collect"
  BY DEF CollectStage
<1>p. ProcOK(proc', allocs')
  BY ReapedKeeps, Before DEF CollectStage, ProcCollected
<1>j. JobsOK(jl', allocs')
  BY Before DEF CollectStage
<1>s. StackOK(stack')
  BY <1>1, <1>2, PopType, SwapType
<1>l. LastOK(last')
  BY <1>1, ResultOK, Numbers, Before DEF Report
<1>c. CountsOK' /\ FateOK'
  BY Before DEF CollectStage, CountsOK, FateOK
<1> QED
  BY <1>p, <1>j, <1>s, <1>l, <1>c, After

(* A trap action starts on top of a blocked wait.                          *)
LEMMA SignalKeeps ==
  ASSUME IInv, Signal
  PROVE  IInv'
<1>1. PICK cut \in BOOLEAN :
        stack' = <<Frame("trap"), [Top EXCEPT !.eintr = cut]>> \o Tail(stack)
  BY DEF Signal
<1> DEFINE f == [Top EXCEPT !.eintr = cut]
<1>2. f \in Frames /\ Frame("trap") \in Frames
  BY TopFrames, FrameIsFrame, Numbers, Before DEF Ops, Issuing
<1>3. Top.op \notin {"top", "undefined"}
  BY DEF Signal, Blocking
<1>4. stack' = <<Frame("trap")>> \o (<<f>> \o Tail(stack)) /\ StackOK(<<f>> \o Tail(stack))
  <2>1. StackOK(<<f>> \o Tail(stack)) /\ Tail(stack) \in Seq(Frames)
    BY <1>2, <1>3, PopKeeps, Before DEF Top, StackOK
  <2>2. <<Frame("trap"), f>> = <<Frame("trap")>> \o <<f>>
    BY <1>2
  <2>3. <<Frame("trap")>> \in Seq(Frames) /\ <<f>> \in Seq(Frames)
    BY <1>2
  <2>4. stack' = <<Frame("trap"), f>> \o Tail(stack)
    BY <1>1
  <2> HIDE DEF f
  <2> QED
    BY <2>1, <2>2, <2>3, <2>4, ConcatAssociative
<1> HIDE DEF f
<1>p. ProcOK(proc', allocs')
  BY Before DEF Signal
<1>j. JobsOK(jl', allocs')
  BY Before DEF Signal
<1>s. StackOK(stack')
  BY <1>2, <1>4, PushKeeps
<1>l. LastOK(last')
  BY Before DEF Signal
<1>c. CountsOK' /\ FateOK'
  BY Before, JobControlAssumption DEF Signal, CountsOK, FateOK
<1> QED
  BY <1>p, <1>j, <1>s, <1>l, <1>c, After

(* A trap action ends.                                                     *)
LEMMA TrapDoneKeeps ==
  ASSUME IInv, TrapDone
  PROVE  IInv'
<1>p. ProcOK(proc', allocs')
  BY Before DEF TrapDone
<1>j. JobsOK(jl', allocs')
  BY Before DEF TrapDone
<1>s. StackOK(stack')
  BY PopType DEF TrapDone
<1>l. LastOK(last')
  BY Before DEF TrapDone
<1>c. CountsOK' /\ FateOK'
  BY Before DEF TrapDone, CountsOK, FateOK
<1> QED
  BY <1>p, <1>j, <1>s, <1>l, <1>c, After

-----------------------------------------------------------------------------
(* The invariant holds when the shell starts.                              *)
LEMMA InitIInv == Init => IInv
<1> SUFFICES ASSUME Init PROVE IInv
  OBVIOUS
<1>1. ProcOK(proc, 0)
  <2>1. 0 \in 0 .. MaxJobs /\ "none" \in ChildStates
    BY ChildrenAssumption DEF ChildStates
  <2> QED
    BY <2>1, NewChildren DEF Init, ProcOK, NotAChild
<1>2. JobsOK(jl, 0)
  BY DEF Init, JobsOK, EmptyJobList, IsJobList, IdsAscend, MarksLive, Nodes
<1>3. StackOK(stack)
  BY BaseType DEF Init
<1>4. LastOK(last)
  BY ResultOK, Numbers DEF Init
<1>5. CountsOK /\ FateOK
  BY ChildrenAssumption, JobControlAssumption DEF Init, CountsOK, FateOK
<1> QED
  BY <1>1, <1>2, <1>3, <1>4, <1>5 DEF Init, IInv, TypeOK, JobNumbers, JobsOK, FateOK

(* Every action keeps the invariant: one step per action, each by its      *)
(* lemma.                                                                  *)
LEMMA NextKeepsIInv == IInv /\ [Next]_vars => IInv'
<1> SUFFICES ASSUME IInv, [Next]_vars PROVE IInv'
  OBVIOUS
<1>1. CASE UNCHANGED vars
  BY <1>1, Before, After DEF vars, CountsOK, FateOK
<1>2. CASE Continue
  BY <1>2, WaitAllStepKeeps, WaitPidReturnKeeps, ReadFreedJobKeeps, ForegroundReturnKeeps,
     ForegroundStopsKeeps, ChildReturnKeeps, ExternalStopsKeeps, CollectStageKeeps,
     BodyDoneKeeps, TrapDoneKeeps DEF Continue
<1>3. CASE Issue
  <2>1. CASE AsyncForkFails
    BY <2>1, AsyncForkFailsKeeps
  <2>2. CASE JobsCommand \/ WaitAll \/ EnterSubshell
    BY <2>2, JobsCommandKeeps, WaitAllKeeps, EnterSubshellKeeps
  <2>3. CASE \E p \in Pids : Async(p) \/ WaitPid(p) \/ External(p) \/ Subshell(p)
    BY <2>3, AsyncKeeps, WaitPidKeeps, ForkAndWaitKeeps DEF External, Subshell
  <2>4. CASE \E n \in 1 .. MaxJobs : Foreground(n) \/ Background(n)
    BY <2>4, ForegroundKeeps, BackgroundKeeps
  <2>5. CASE \E cmd \in {"fg", "bg"} : NoSuchJob(cmd)
    BY <2>5, NoSuchJobKeeps
  <2>6. CASE \E s \in Stages : Pipeline(s)
    BY <2>6, PipelineKeeps
  <2>7. CASE \E s \in Stages \cup {<<>>} : PipelineForkFails(s)
    BY <2>7, PipelineForkFailsKeeps
  <2> QED
    BY <1>3, <2>1, <2>2, <2>3, <2>4, <2>5, <2>6, <2>7 DEF Issue
<1>4. CASE Environment
  BY <1>4, ChildExitKeeps, ChildStopKeeps, ChildContinueKeeps, SignalKeeps DEF Environment
<1>5. CASE Undefined
  BY <1>5, Before, After DEF Undefined, vars, CountsOK, FateOK
<1> QED
  BY <1>1, <1>2, <1>3, <1>4, <1>5 DEF Next

(* Every variable keeps its shape in every behaviour of the shell and its  *)
(* children, for any number of pids, jobs, stages, signals and frames.     *)
THEOREM TypeCorrect == Spec => []TypeOK
<1>1. Init => IInv
  BY InitIInv
<1>2. IInv /\ [Next]_vars => IInv'
  BY NextKeepsIInv
<1>3. IInv => TypeOK
  BY DEF IInv
<1> QED
  BY <1>1, <1>2, <1>3, PTL DEF Spec

(* Job numbers ascend along the table and are never given twice while in   *)
(* it, and %+ and %- always name jobs of the table, however registering,   *)
(* reaping, pruning, waiting and fg interleave with trap actions.          *)
THEOREM JobNumbersHold == Spec => []JobNumbers
<1>1. Init => IInv
  BY InitIInv
<1>2. IInv /\ [Next]_vars => IInv'
  BY NextKeepsIInv
<1>3. IInv => JobNumbers
  BY DEF IInv
<1> QED
  BY <1>1, <1>2, <1>3, PTL DEF Spec

-----------------------------------------------------------------------------
(***************************************************************************)
(* What the jobs, waits and pipelines of a shell promise, for every value  *)
(* of the constants.  The table and the kernel keep two accounts of the    *)
(* same children; the promises hold as long as the two agree, and the      *)
(* accounts part only when something reaps children on top of a wait.      *)
(***************************************************************************)

(* Only commands of the script itself, with nothing under way below them,  *)
(* collect whatever child has changed state: no trap action and no         *)
(* in-process last stage runs `jobs`, nor `&` where that reaps, and fg and *)
(* bg, which leave Done jobs in the table, are not used.                   *)
ReapsAtTopOnly ==
  /\ TopRuns \cap {"fg", "bg"} = {}
  /\ \A runs \in {BodyRuns, TrapRuns} :
       /\ runs \cap {"jobs", "fg", "bg"} = {}
       /\ "async" \in runs => Interactive

-----------------------------------------------------------------------------
(* The two accounts.                                                       *)

(* Every job of this shell has a child of its own that has not been        *)
(* collected, and every child forked for a job has that job; a job that    *)
(* came with the parent's table has a process that is not a child.         *)
JobHasChild(l, ps, inh, n) ==
  LET p == l.jobs[n].pid
  IN  /\ l.jobs[n].state # "DONE"
      /\ n <= inh => ps[p].st = "other"
      /\ n > inh => ~NoSuchChild(ps, p) /\ ps[p].job = n

ChildHasJob(l, ps, inh, p) ==
  ps[p].job # NoJob =>
    /\ ps[p].job \in Nodes(l) /\ ps[p].job > inh
    /\ l.jobs[ps[p].job].pid = p
    /\ ~NoSuchChild(ps, p)

Unique(l) == \A m, n \in Nodes(l) : l.jobs[m].pid = l.jobs[n].pid => m = n

Linked(l, ps, inh) ==
  /\ \A n \in Nodes(l) : JobHasChild(l, ps, inh, n)
  /\ \A p \in Pids : ChildHasJob(l, ps, inh, p)
  /\ Unique(l)

(* What the kernel has to tell of a job is how its process ended.          *)
FatesKnown(ps, ft) ==
  \A p \in Pids : ps[p].st = "zombie" /\ ps[p].job # NoJob => ft[ps[p].job] = ps[p].code

-----------------------------------------------------------------------------
(* What the kernel's operations do to one child.                           *)

(* The state, job and code of child q after each of them.                  *)
LEMMA ChildAfter ==
  ASSUME NEW ps \in [Pids -> Child], NEW p \in Pids, NEW q \in Pids, NEW c \in Codes,
         NEW n \in 0 .. MaxJobs, NEW S
  PROVE  /\ Exited(ps, p, c)[q].st = IF q = p THEN "zombie" ELSE ps[q].st
         /\ Exited(ps, p, c)[q].job = ps[q].job
         /\ Exited(ps, p, c)[q].code = IF q = p THEN c ELSE ps[q].code
         /\ Stopped(ps, p)[q].st = IF q = p THEN "stop" ELSE ps[q].st
         /\ Stopped(ps, p)[q].job = ps[q].job /\ Stopped(ps, p)[q].code = ps[q].code
         /\ Told(ps, p)[q].st = ps[q].st /\ Told(ps, p)[q].job = ps[q].job
         /\ Told(ps, p)[q].code = ps[q].code
         /\ ToldAsJob(ps, p, n)[q].st = ps[q].st /\ ToldAsJob(ps, p, n)[q].code = ps[q].code
         /\ ToldAsJob(ps, p, n)[q].job = IF q = p THEN n ELSE ps[q].job
         /\ Continued(ps, S)[q].st = IF q \in S /\ ps[q].st = "stop" THEN "run" ELSE ps[q].st
         /\ Continued(ps, S)[q].job = ps[q].job /\ Continued(ps, S)[q].code = ps[q].code
<1>1. ps[q] \in Child /\ ps[p] \in Child
  OBVIOUS
<1>2. DOMAIN ps = Pids
  OBVIOUS
<1>3. /\ Exited(ps, p, c)[q].st = IF q = p THEN "zombie" ELSE ps[q].st
      /\ Exited(ps, p, c)[q].job = ps[q].job
      /\ Exited(ps, p, c)[q].code = IF q = p THEN c ELSE ps[q].code
  BY <1>1, <1>2 DEF Exited, Child
<1>4. /\ Stopped(ps, p)[q].st = IF q = p THEN "stop" ELSE ps[q].st
      /\ Stopped(ps, p)[q].job = ps[q].job /\ Stopped(ps, p)[q].code = ps[q].code
  BY <1>1, <1>2 DEF Stopped, Child
<1>5. /\ Told(ps, p)[q].st = ps[q].st /\ Told(ps, p)[q].job = ps[q].job
      /\ Told(ps, p)[q].code = ps[q].code
  BY <1>1, <1>2 DEF Told, Child
<1>6. /\ ToldAsJob(ps, p, n)[q].st = ps[q].st /\ ToldAsJob(ps, p, n)[q].code = ps[q].code
      /\ ToldAsJob(ps, p, n)[q].job = IF q = p THEN n ELSE ps[q].job
  BY <1>1, <1>2 DEF ToldAsJob, Child
<1>7. /\ Continued(ps, S)[q].st = IF q \in S /\ ps[q].st = "stop" THEN "run" ELSE ps[q].st
      /\ Continued(ps, S)[q].job = ps[q].job /\ Continued(ps, S)[q].code = ps[q].code
  BY <1>1, <1>2 DEF Continued, Child
<1> QED
  BY <1>3, <1>4, <1>5, <1>6, <1>7

(* The same for the operations that make and remove children.              *)
LEMMA ChildrenAfter ==
  ASSUME NEW ps \in [Pids -> Child], NEW q \in Pids, NEW n \in 0 .. MaxJobs, NEW S
  PROVE  /\ Forked(ps, S, n)[q].st = IF q \in S THEN "run" ELSE ps[q].st
         /\ Forked(ps, S, n)[q].job = IF q \in S THEN n ELSE ps[q].job
         /\ Forked(ps, S, n)[q].code = IF q \in S THEN 0 ELSE ps[q].code
         /\ q \in S /\ ~NoSuchChild(ps, q) => Reaped(ps, S)[q].st = "none" /\ Reaped(ps, S)[q].job = 0
         /\ q \notin S \/ NoSuchChild(ps, q) => Reaped(ps, S)[q] = ps[q]
         /\ Drained(ps)[q].st = IF ps[q].st = "zombie" THEN "none" ELSE ps[q].st
         /\ Drained(ps)[q].job = IF ps[q].st = "zombie" THEN 0 ELSE ps[q].job
         /\ ps[q].st # "zombie" => Drained(ps)[q].code = ps[q].code
         /\ NotMine(ps)[q].st = IF ps[q].st = "none" THEN "none" ELSE "other"
         /\ NotMine(ps)[q].job = 0
<1>1. ps[q] \in Child
  OBVIOUS
<1>2. /\ Forked(ps, S, n)[q].st = IF q \in S THEN "run" ELSE ps[q].st
      /\ Forked(ps, S, n)[q].job = IF q \in S THEN n ELSE ps[q].job
      /\ Forked(ps, S, n)[q].code = IF q \in S THEN 0 ELSE ps[q].code
  BY DEF Forked, ChildIn
<1>3. /\ q \in S /\ ~NoSuchChild(ps, q) => Reaped(ps, S)[q].st = "none" /\ Reaped(ps, S)[q].job = 0
      /\ q \notin S \/ NoSuchChild(ps, q) => Reaped(ps, S)[q] = ps[q]
  BY DEF Reaped, NotAChild, ChildIn
<1>4. /\ Drained(ps)[q].st = IF ps[q].st = "zombie" THEN "none" ELSE ps[q].st
      /\ Drained(ps)[q].job = IF ps[q].st = "zombie" THEN 0 ELSE ps[q].job
      /\ ps[q].st # "zombie" => Drained(ps)[q].code = ps[q].code
  BY <1>1 DEF Drained, NotAChild, ChildIn, Child
<1>5. /\ NotMine(ps)[q].st = IF ps[q].st = "none" THEN "none" ELSE "other"
      /\ NotMine(ps)[q].job = 0
  BY DEF NotMine, NotAChild, ChildIn
<1> QED
  BY <1>2, <1>3, <1>4, <1>5

-----------------------------------------------------------------------------
(* The operations keep the two accounts together.                          *)

(* Changes of state that make no child and lose none.                      *)
LEMMA SameChildren ==
  ASSUME NEW l, NEW ps, NEW inh, Linked(l, ps, inh), NEW qs,
         \A n \in Nodes(l) : l.jobs[n].pid \in Pids,
         \A p \in Pids : /\ qs[p].job = ps[p].job
                         /\ NoSuchChild(qs, p) <=> NoSuchChild(ps, p)
                         /\ ps[p].st = "other" => qs[p].st = "other"
  PROVE  Linked(l, qs, inh)
BY DEF Linked, JobHasChild, ChildHasJob

(* The pids of a table are pids.                                           *)
LEMMA PidsOfNodes ==
  ASSUME NEW k \in Nat, NEW l, JobsOK(l, k)
  PROVE  /\ Nodes(l) \subseteq 1 .. k
         /\ \A n \in Nodes(l) : l.jobs[n] \in Job /\ l.jobs[n].pid \in Pids
BY DEF JobsOK, IsJobList, Nodes, Job

(* Where no two jobs share a pid, the search by pid finds the job.         *)
LEMMA FoundByPid ==
  ASSUME NEW k \in Nat, NEW l, JobsOK(l, k), Unique(l), NEW n \in Nodes(l)
  PROVE  JobFindByPid(l, l.jobs[n].pid) = n
<1> DEFINE same == NodesByPid(l, l.jobs[n].pid)
<1>1. same = {n}
  BY DEF NodesByPid, Unique
<1>2. \A m \in {n} : n <= m
  BY PidsOfNodes
<1> QED
  BY <1>1, <1>2 DEF JobFindByPid, First

(* Reaping and pruning: the jobs whose child has ended leave the table,    *)
(* the others stay, none of them Done.                                     *)
LEMMA PrunedNodes ==
  ASSUME NEW k \in Nat, NEW l, JobsOK(l, k), Unique(l), NEW ps \in [Pids -> Child],
         \A n \in Nodes(l) : l.jobs[n].state # "DONE"
  PROVE  LET r == JobReapAndPrune(l, ps)
         IN  /\ Nodes(r) = {n \in Nodes(l) : ps[l.jobs[n].pid].st # "zombie"}
             /\ \A n \in Nodes(r) : r.jobs[n].pid = l.jobs[n].pid /\ r.jobs[n].state # "DONE"
             /\ \A n \in Nodes(r) : ps[l.jobs[n].pid].st # "stop" => r.jobs[n] = l.jobs[n]
<1> DEFINE waitable == Zombies(ps) \cup UntoldStops(ps)
           reaped == JobReap(l, ps)
           r == JobRemove(reaped, DoneNodes(reaped))
<1>1. \A n \in Nodes(l) : l.jobs[n] \in Job /\ l.jobs[n].pid \in Pids
  BY PidsOfNodes
<1>2. /\ Nodes(reaped) = Nodes(l)
      /\ \A n \in Nodes(l) : reaped.jobs[n] =
           IF l.jobs[n].pid \in waitable THEN Recorded(l.jobs[n], StatusOf(ps, l.jobs[n].pid))
                                         ELSE l.jobs[n]
  BY FoundByPid DEF JobReap, Nodes, JobsOK, IsJobList
<1>3. ASSUME NEW n \in Nodes(l)
      PROVE  /\ reaped.jobs[n].pid = l.jobs[n].pid
             /\ reaped.jobs[n].state = "DONE" <=> ps[l.jobs[n].pid].st = "zombie"
             /\ ps[l.jobs[n].pid].st \notin {"zombie", "stop"} => reaped.jobs[n] = l.jobs[n]
  <2> DEFINE p == l.jobs[n].pid
             s == StatusOf(ps, p)
  <2>1. l.jobs[n] \in Job /\ p \in Pids /\ ps[p] \in Child
    BY <1>1
  <2>2. s \in Statuses /\ (ps[p].st # "stop" => s # StopCode) /\ (ps[p].st = "stop" => s = StopCode)
    BY <2>1, ChildrenAssumption DEF StatusOf, Child, Statuses
  <2>3. /\ Recorded(l.jobs[n], s).pid = p
        /\ Recorded(l.jobs[n], s).state = IF s = StopCode THEN "STOPPED" ELSE "DONE"
    BY <2>1 DEF Recorded, Job
  <2>4. p \in waitable => ps[p].st \in {"zombie", "stop"}
    BY DEF Zombies, UntoldStops
  <2>5. ps[p].st = "zombie" => p \in waitable
    BY <2>1 DEF Zombies
  <2> HIDE DEF p, s, waitable
  <2>6. reaped.jobs[n] = IF p \in waitable THEN Recorded(l.jobs[n], s) ELSE l.jobs[n]
    BY <1>2 DEF p, s
  <2>7. l.jobs[n].state # "DONE" /\ l.jobs[n].pid = p
    BY DEF p
  <2>8. reaped.jobs[n].pid = p /\ (reaped.jobs[n].state = "DONE" <=> ps[p].st = "zombie")
    BY <2>2, <2>3, <2>4, <2>5, <2>6, <2>7
  <2>9. ps[p].st \notin {"zombie", "stop"} => reaped.jobs[n] = l.jobs[n]
    BY <2>4, <2>6
  <2> QED
    BY <2>8, <2>9 DEF p
<1> HIDE DEF reaped
<1>4. /\ Nodes(r) = Nodes(reaped) \ DoneNodes(reaped)
      /\ \A n \in Nodes(r) : r.jobs[n] = reaped.jobs[n]
  BY DEF JobRemove, Without, Nodes
<1>5. DoneNodes(reaped) = {n \in Nodes(l) : ps[l.jobs[n].pid].st = "zombie"}
  BY <1>2, <1>3 DEF DoneNodes
<1> HIDE DEF r
<1>6. /\ Nodes(r) = {n \in Nodes(l) : ps[l.jobs[n].pid].st # "zombie"}
      /\ \A n \in Nodes(r) : r.jobs[n].pid = l.jobs[n].pid /\ r.jobs[n].state # "DONE"
      /\ \A n \in Nodes(r) : ps[l.jobs[n].pid].st # "stop" => r.jobs[n] = l.jobs[n]
  BY <1>2, <1>3, <1>4, <1>5
<1> QED
  BY <1>6 DEF JobReapAndPrune, r, reaped

(* `jobs`, and `&` in a script: every ended child is collected and its job *)
(* pruned.                                                                 *)
LEMMA PruneLinked ==
  ASSUME NEW k \in Nat, NEW l, JobsOK(l, k), NEW ps \in [Pids -> Child], NEW inh,
         Linked(l, ps, inh)
  PROVE  Linked(JobReapAndPrune(l, ps), Drained(ps), inh)
<1> DEFINE r == JobReapAndPrune(l, ps)
           qs == Drained(ps)
<1>1. /\ Nodes(r) = {n \in Nodes(l) : ps[l.jobs[n].pid].st # "zombie"}
      /\ \A n \in Nodes(r) : r.jobs[n].pid = l.jobs[n].pid /\ r.jobs[n].state # "DONE"
  BY PrunedNodes DEF Linked, JobHasChild
<1>2. \A q \in Pids : /\ qs[q].st = IF ps[q].st = "zombie" THEN "none" ELSE ps[q].st
                      /\ qs[q].job = IF ps[q].st = "zombie" THEN 0 ELSE ps[q].job
  BY ChildrenAfter, ChildrenAssumption
<1>3. \A n \in Nodes(l) : l.jobs[n].pid \in Pids
  BY PidsOfNodes
<1> HIDE DEF r, qs
<1>4. ASSUME NEW n \in Nodes(r) PROVE JobHasChild(r, qs, inh, n)
  BY <1>1, <1>2, <1>3, <1>4 DEF Linked, JobHasChild, NoSuchChild
<1>5. ASSUME NEW p \in Pids PROVE ChildHasJob(r, qs, inh, p)
  BY <1>1, <1>2, <1>5 DEF Linked, ChildHasJob, NoSuchChild, NoJob
<1>6. Unique(r)
  BY <1>1 DEF Linked, Unique
<1> QED
  BY <1>4, <1>5, <1>6 DEF Linked, r, qs

(* A table with one more job is one.                                       *)
LEMMA RegisteredOK ==
  ASSUME NEW k \in Nat, NEW l, JobsOK(l, k), NEW p \in Pids
  PROVE  JobsOK(JobRegister(l, k + 1, p), k + 1)
BY RegisterKeeps DEF JobsOK

(* What job_register makes of the table.                                   *)
LEMMA Registered ==
  ASSUME NEW k \in Nat, NEW l, JobsOK(l, k), NEW p
  PROVE  LET r == JobRegister(l, k + 1, p)
         IN  /\ Nodes(r) = Nodes(l) \cup {k + 1} /\ k + 1 \notin Nodes(l)
             /\ r.jobs[k + 1].pid = p /\ r.jobs[k + 1].state = "RUNNING"
             /\ \A n \in Nodes(l) : r.jobs[n] = l.jobs[n]
<1> DEFINE j == [id |-> l.next_id, pid |-> p, state |-> "RUNNING", status |-> 0]
           r == JobRegister(l, k + 1, p)
<1>1. k + 1 \notin Nodes(l)
  BY PidsOfNodes
<1>2. r.jobs = [m \in Nodes(l) \cup {k + 1} |-> IF m = k + 1 THEN j ELSE l.jobs[m]]
  BY DEF JobRegister, JobSetCurrent, JobsOK, IsJobList
<1> HIDE DEF r
<1> QED
  BY <1>1, <1>2 DEF Nodes, r

(* A job gets number k + 1: its child was just forked, or was waited for   *)
(* in the foreground and belonged to no job.                               *)
LEMMA RegisterLinked ==
  ASSUME NEW k \in Nat, NEW l, JobsOK(l, k), NEW ps, NEW inh \in 0 .. k,
         Linked(l, ps, inh), NEW p \in Pids, NEW qs,
         ps[p].st \notin {"other"} /\ ps[p].job = NoJob,
         \A q \in Pids \ {p} : qs[q] = ps[q],
         ~NoSuchChild(qs, p) /\ qs[p].job = k + 1
  PROVE  Linked(JobRegister(l, k + 1, p), qs, inh)
<1> DEFINE r == JobRegister(l, k + 1, p)
<1>1. /\ Nodes(r) = Nodes(l) \cup {k + 1} /\ k + 1 \notin Nodes(l)
      /\ r.jobs[k + 1].pid = p /\ r.jobs[k + 1].state = "RUNNING"
      /\ \A n \in Nodes(l) : r.jobs[n] = l.jobs[n]
  BY Registered
<1>2. \A n \in Nodes(l) : n \in 1 .. k /\ l.jobs[n].pid \in Pids
  BY PidsOfNodes
<1>3. \A n \in Nodes(l) : l.jobs[n].pid # p
  BY <1>2 DEF Linked, JobHasChild, NoJob
<1> HIDE DEF r
<1>4. ASSUME NEW n \in Nodes(r) PROVE JobHasChild(r, qs, inh, n)
  <2>1. CASE n = k + 1
    BY <2>1, <1>1 DEF JobHasChild
  <2>2. CASE n \in Nodes(l)
    BY <2>2, <1>1, <1>2, <1>3 DEF Linked, JobHasChild, NoSuchChild
  <2> QED
    BY <2>1, <2>2, <1>1
<1>5. ASSUME NEW q \in Pids PROVE ChildHasJob(r, qs, inh, q)
  <2>1. CASE q = p
    BY <2>1, <1>1 DEF ChildHasJob
  <2>2. CASE q # p
    BY <2>2, <1>1 DEF Linked, ChildHasJob, NoSuchChild
  <2> QED
    BY <2>1, <2>2
<1>6. Unique(r)
  BY <1>1, <1>3 DEF Linked, Unique
<1> QED
  BY <1>4, <1>5, <1>6 DEF Linked, r

(* A stop recorded in a job changes neither account.                       *)
LEMMA StopLinked ==
  ASSUME NEW k \in Nat, NEW l, JobsOK(l, k), NEW ps, NEW inh, Linked(l, ps, inh), NEW n
  PROVE  Linked(JobSetStatus(l, n, StopCode), ps, inh)
<1> DEFINE r == JobSetStatus(l, n, StopCode)
<1>1. /\ Nodes(r) = Nodes(l)
      /\ \A m \in Nodes(l) : r.jobs[m] = IF m = n THEN Recorded(l.jobs[m], StopCode) ELSE l.jobs[m]
  BY DEF JobSetStatus, Nodes, JobsOK, IsJobList
<1>2. \A m \in Nodes(l) : /\ Recorded(l.jobs[m], StopCode).pid = l.jobs[m].pid
                          /\ Recorded(l.jobs[m], StopCode).state = "STOPPED"
  BY PidsOfNodes DEF Recorded, Job
<1> HIDE DEF r
<1>3. \A m \in Nodes(l) : /\ r.jobs[m].pid = l.jobs[m].pid
                          /\ r.jobs[m].state # "DONE"
  BY <1>1, <1>2 DEF Linked, JobHasChild
<1> QED
  BY <1>1, <1>3 DEF Linked, JobHasChild, ChildHasJob, Unique, r

(* job_wait of a job's child returns its code and takes both out, or, for  *)
(* a process that is no child, leaves both as they are.                    *)
LEMMA WaitLinked ==
  ASSUME IInv, Linked(jl, proc, inherited), NEW n \in Nodes(jl), NEW p, p = jl.jobs[n].pid,
         WaitReturns(p)
  PROVE  /\ Linked(RemoveIfDone(JobsAfterWait(p), n), ProcAfterWait(p), inherited)
         /\ n > inherited => proc[p].st = "zombie" /\ WaitCode(p) = proc[p].code
                             /\ Nodes(RemoveIfDone(JobsAfterWait(p), n)) = Nodes(jl) \ {n}
         /\ n <= inherited => RemoveIfDone(JobsAfterWait(p), n) = jl /\ ProcAfterWait(p) = proc
         /\ ~Cached(p)
         /\ \A m \in Nodes(RemoveIfDone(JobsAfterWait(p), n)) :
              m \in Nodes(jl) /\ RemoveIfDone(JobsAfterWait(p), n).jobs[m] = jl.jobs[m]
         /\ \A q \in Pids : \/ ProcAfterWait(p)[q] = proc[q]
                            \/ /\ proc[q].job # NoJob
                               /\ ProcAfterWait(p)[q].st = "none" /\ ProcAfterWait(p)[q].job = NoJob
<1>1. /\ JobsOK(jl, allocs) /\ allocs \in Nat /\ proc \in [Pids -> Child]
      /\ inherited \in Nat
  BY Before DEF CountsOK
<1>2. p \in Pids /\ n \in 1 .. allocs /\ jl.jobs[n] \in Job
  BY <1>1, PidsOfNodes
<1>3. JobFindByPid(jl, p) = n /\ n # NoJob
  BY <1>1, <1>2, FoundByPid DEF Linked, NoJob
<1>4. ~Cached(p)
  BY <1>3 DEF Cached, Linked, JobHasChild
<1>5. CASE n > inherited
  <2>1. proc[p].st = "zombie" /\ proc[p].job = n
    BY <1>4, <1>5 DEF WaitReturns, Linked, JobHasChild
  <2>2. WaitCode(p) = proc[p].code
    BY <1>4, <2>1 DEF WaitCode
  <2>3. proc[p].code \in Codes /\ proc[p].code # StopCode
    BY <1>1, <1>2, ChildrenAssumption DEF Child
  <2> DEFINE l == JobSetStatus(jl, n, proc[p].code)
             r == JobRemove(l, {n})
             qs == Reaped(proc, {p})
  <2>4. JobsAfterWait(p) = l
    BY <1>3, <1>4, <2>1 DEF JobsAfterWait, NoSuchChild
  <2>5. /\ Nodes(l) = Nodes(jl)
        /\ \A m \in Nodes(jl) \ {n} : l.jobs[m] = jl.jobs[m]
        /\ l.jobs[n] = Recorded(jl.jobs[n], proc[p].code)
    BY <1>1 DEF JobSetStatus, Nodes, JobsOK, IsJobList
  <2>6. l.jobs[n].state = "DONE"
    BY <1>2, <2>3, <2>5 DEF Recorded, Job
  <2>7. RemoveIfDone(l, n) = r
    BY <2>5, <2>6 DEF RemoveIfDone, DoneNodes
  <2>8. /\ Nodes(r) = Nodes(jl) \ {n}
        /\ \A m \in Nodes(r) : r.jobs[m] = jl.jobs[m]
    BY <2>5 DEF JobRemove, Without, Nodes
  <2>9. /\ qs[p].st = "none" /\ qs[p].job = 0
        /\ \A q \in Pids \ {p} : qs[q] = proc[q]
    <3>1. 0 \in 0 .. MaxJobs /\ p \in {p} /\ ~NoSuchChild(proc, p)
      BY <2>1, ChildrenAssumption DEF NoSuchChild
    <3>2. qs[p].st = "none" /\ qs[p].job = 0
      BY <1>2, <3>1 DEF Reaped, NotAChild, ChildIn
    <3>3. \A q \in Pids \ {p} : qs[q] = proc[q]
      BY DEF Reaped
    <3> QED
      BY <3>2, <3>3
  <2> HIDE DEF l, r, qs
  <2>10. \A m \in Nodes(r) : jl.jobs[m].pid \in Pids \ {p}
    BY <1>1, <1>2, <2>8, PidsOfNodes DEF Linked, Unique
  <2>11. ASSUME NEW m \in Nodes(r) PROVE JobHasChild(r, qs, inherited, m)
    BY <2>8, <2>9, <2>10 DEF Linked, JobHasChild, NoSuchChild
  <2>12. ASSUME NEW q \in Pids PROVE ChildHasJob(r, qs, inherited, q)
    <3>1. CASE q = p
      BY <2>9, <3>1 DEF ChildHasJob, NoJob
    <3>2. CASE q # p
      <4>1. qs[q] = proc[q] /\ ChildHasJob(jl, proc, inherited, q)
        BY <2>9, <3>2 DEF Linked
      <4>2. proc[q].job # NoJob => proc[q].job \in Nodes(r) /\ r.jobs[proc[q].job] = jl.jobs[proc[q].job]
        BY <2>8, <3>2, <4>1 DEF ChildHasJob
      <4> QED
        BY <4>1, <4>2 DEF ChildHasJob, NoSuchChild
    <3> QED
      BY <3>1, <3>2
  <2>13. Linked(r, qs, inherited)
    BY <2>8, <2>11, <2>12 DEF Linked, Unique
  <2>14. RemoveIfDone(JobsAfterWait(p), n) = r
    BY <2>4, <2>7 DEF l
  <2>15. ProcAfterWait(p) = qs
    BY <1>4 DEF ProcAfterWait, qs
  <2>16. \A q \in Pids : \/ qs[q] = proc[q]
                         \/ proc[q].job # NoJob /\ qs[q].st = "none" /\ qs[q].job = NoJob
    BY <1>3, <2>1, <2>9 DEF NoJob
  <2> QED
    BY <1>4, <1>5, <2>1, <2>2, <2>8, <2>13, <2>14, <2>15, <2>16, <1>1, <1>2
<1>6. CASE n <= inherited
  <2>1. proc[p].st = "other" /\ jl.jobs[n].state # "DONE"
    BY <1>6 DEF Linked, JobHasChild
  <2>2. JobsAfterWait(p) = jl
    BY <2>1 DEF JobsAfterWait, NoSuchChild
  <2>3. RemoveIfDone(jl, n) = jl
    BY <2>1 DEF RemoveIfDone, DoneNodes
  <2>4. ProcAfterWait(p) = proc
    <3>1. \A q \in Pids : Reaped(proc, {p})[q] = proc[q]
      BY <1>1, <2>1, ChildrenAfter, ChildrenAssumption DEF NoSuchChild
    <3>2. Reaped(proc, {p}) = [q \in Pids |-> Reaped(proc, {p})[q]]
      BY DEF Reaped
    <3>3. proc = [q \in Pids |-> proc[q]]
      BY <1>1
    <3> QED
      BY <1>4, <3>1, <3>2, <3>3 DEF ProcAfterWait
  <2> QED
    BY <1>4, <1>6, <2>2, <2>3, <2>4, <1>1, <1>2
<1> QED
  BY <1>1, <1>2, <1>5, <1>6

(* Children forked for no job, out of pids nobody uses.                    *)
LEMMA ForkLinked ==
  ASSUME NEW k \in Nat, NEW l, JobsOK(l, k), NEW ps \in [Pids -> Child], NEW inh,
         Linked(l, ps, inh), NEW S \in SUBSET Free(ps)
  PROVE  Linked(l, Forked(ps, S, NoJob), inh)
<1> DEFINE qs == Forked(ps, S, NoJob)
<1>1. \A q \in Pids : /\ q \in S => qs[q].st = "run" /\ qs[q].job = NoJob /\ ps[q].st = "none"
                      /\ q \notin S => qs[q] = ps[q]
  BY DEF Forked, ChildIn, Free
<1>2. \A n \in Nodes(l) : l.jobs[n].pid \in Pids
  BY PidsOfNodes
<1> HIDE DEF qs
<1>3. ASSUME NEW n \in Nodes(l) PROVE JobHasChild(l, qs, inh, n)
  BY <1>1, <1>2, <1>3 DEF Linked, JobHasChild, NoSuchChild
<1>4. ASSUME NEW p \in Pids PROVE ChildHasJob(l, qs, inh, p)
  BY <1>1, <1>4 DEF Linked, ChildHasJob, NoSuchChild
<1> QED
  BY <1>3, <1>4 DEF Linked, qs

(* A child of no job is collected.                                         *)
LEMMA ReapLinked ==
  ASSUME NEW k \in Nat, NEW l, JobsOK(l, k), NEW ps \in [Pids -> Child], NEW inh,
         Linked(l, ps, inh), NEW p, ps[p].job = NoJob
  PROVE  Linked(l, Reaped(ps, {p}), inh)
<1> DEFINE qs == Reaped(ps, {p})
<1>1. \A q \in Pids : /\ q = p /\ ~NoSuchChild(ps, q) => qs[q].st = "none" /\ qs[q].job = NoJob
                      /\ q # p \/ NoSuchChild(ps, q) => qs[q] = ps[q]
  BY DEF Reaped, NotAChild, ChildIn, NoJob
<1>2. \A n \in Nodes(l) : n \in Nat \ {NoJob} /\ l.jobs[n].pid \in Pids
  BY PidsOfNodes DEF NoJob
<1> HIDE DEF qs
<1>3. ASSUME NEW n \in Nodes(l) PROVE JobHasChild(l, qs, inh, n)
  BY <1>1, <1>2, <1>3 DEF Linked, JobHasChild, NoSuchChild
<1>4. ASSUME NEW q \in Pids PROVE ChildHasJob(l, qs, inh, q)
  BY <1>1, <1>4 DEF Linked, ChildHasJob, NoSuchChild
<1> QED
  BY <1>3, <1>4 DEF Linked, qs

(* In a forked child the table is inherited whole, and so no process of it *)
(* is a child.                                                             *)
LEMMA NotMineLinked ==
  ASSUME NEW k \in Nat, NEW l, JobsOK(l, k), NEW ps \in [Pids -> Child], NEW inh \in Nat,
         Linked(l, ps, inh)
  PROVE  Linked(l, NotMine(ps), k)
<1> DEFINE qs == NotMine(ps)
<1>1. \A q \in Pids : /\ qs[q].st = IF ps[q].st = "none" THEN "none" ELSE "other"
                      /\ qs[q].job = NoJob
  BY DEF NotMine, NotAChild, ChildIn, NoJob
<1>2. \A n \in Nodes(l) : n \in 1 .. k /\ l.jobs[n].pid \in Pids
  BY PidsOfNodes
<1> HIDE DEF qs
<1>3. ASSUME NEW n \in Nodes(l) PROVE JobHasChild(l, qs, k, n)
  <2>1. ps[l.jobs[n].pid].st # "none"
    <3>1. CASE n <= inh
      BY <3>1 DEF Linked, JobHasChild
    <3>2. CASE n > inh
      BY <3>2 DEF Linked, JobHasChild, NoSuchChild
    <3> QED
      BY <1>2, <3>1, <3>2
  <2> QED
    BY <1>1, <1>2, <2>1 DEF Linked, JobHasChild
<1>4. ASSUME NEW p \in Pids PROVE ChildHasJob(l, qs, k, p)
  BY <1>1 DEF ChildHasJob
<1> QED
  BY <1>3, <1>4 DEF Linked, qs

-----------------------------------------------------------------------------
(* The stack.                                                              *)

(* The frames that have forked children to collect.                        *)
Collects == {"external", "subshell", "body", "collect"}

(* What a frame counts on: its children stay children and no job's, the    *)
(* job it stands on keeps its pid, and a wait loop has left no running job *)
(* behind.                                                                 *)
Waits(f, ps) ==
  f.op \in Collects =>
    Distinct(f.pids) /\ \A p \in PidsOf(f.pids) : ~NoSuchChild(ps, p) /\ ps[p].job = NoJob

Stands(f, l, k) ==
  /\ f.node <= k /\ f.next <= k
  /\ f.op = "waitpid" /\ f.node \in Nodes(l) => l.jobs[f.node].pid = Head(f.pids)

Walked(f, l, inh) ==
  f.op = "waitall" /\ ~MayStop =>
    \A n \in Nodes(l) : n > inh =>
      n >= f.node /\ (f.next # NoJob => n = f.node \/ n >= f.next)

FrameHolds(f, ps, l, k, inh) ==
  f.op # "fg" /\ Waits(f, ps) /\ Stands(f, l, k) /\ Walked(f, l, inh)

(* f lies on top of g: it is not the script's own, and shares no child.    *)
Apart(f, g) ==
  /\ f.op # "top"
  /\ f.op \in Collects /\ g.op \in Collects => PidsOf(f.pids) \cap PidsOf(g.pids) = {}

StackHolds(s, ps, l, k, inh) ==
  /\ \A i \in DOMAIN s : FrameHolds(s[i], ps, l, k, inh)
  /\ \A i, j \in DOMAIN s : i < j => Apart(s[i], s[j])

(* A stack of one frame.                                                   *)
LEMMA BaseHolds ==
  ASSUME NEW f, NEW ps, NEW l, NEW k, NEW inh, FrameHolds(f, ps, l, k, inh)
  PROVE  StackHolds(<<f>>, ps, l, k, inh)
BY DEF StackHolds

(* A frame pushed: the others are as they were.                            *)
LEMMA PushHolds ==
  ASSUME NEW s \in Seq(Frames), NEW ps, NEW l, NEW k, NEW inh,
         StackHolds(s, ps, l, k, inh), NEW f \in Frames, FrameHolds(f, ps, l, k, inh),
         \A i \in DOMAIN s : Apart(f, s[i])
  PROVE  StackHolds(<<f>> \o s, ps, l, k, inh)
<1> DEFINE t == <<f>> \o s
<1>1. /\ DOMAIN t = 1 .. Len(s) + 1 /\ t[1] = f
      /\ \A i \in DOMAIN t : i # 1 => i - 1 \in DOMAIN s /\ t[i] = s[i - 1]
  OBVIOUS
<1> HIDE DEF t
<1>2. ASSUME NEW i \in DOMAIN t PROVE FrameHolds(t[i], ps, l, k, inh)
  BY <1>1, <1>2 DEF StackHolds
<1>3. ASSUME NEW i \in DOMAIN t, NEW j \in DOMAIN t, i < j PROVE Apart(t[i], t[j])
  <2>1. j # 1 /\ j - 1 \in DOMAIN s /\ t[j] = s[j - 1]
    BY <1>1, <1>3
  <2>2. CASE i = 1
    BY <1>1, <2>1, <2>2
  <2>3. CASE i # 1
    BY <1>1, <1>3, <2>1, <2>3 DEF StackHolds
  <2> QED
    BY <2>2, <2>3
<1> QED
  BY <1>2, <1>3 DEF StackHolds, t

(* The innermost frame, and what is left without it.                       *)
LEMMA PopHolds ==
  ASSUME NEW s \in Seq(Frames), s # <<>>, NEW ps, NEW l, NEW k, NEW inh,
         StackHolds(s, ps, l, k, inh)
  PROVE  /\ Tail(s) \in Seq(Frames) /\ StackHolds(Tail(s), ps, l, k, inh)
         /\ FrameHolds(Head(s), ps, l, k, inh)
         /\ \A i \in DOMAIN Tail(s) : Apart(Head(s), Tail(s)[i])
<1> DEFINE t == Tail(s)
<1>1. /\ t \in Seq(Frames) /\ 1 \in DOMAIN s /\ Head(s) = s[1]
      /\ \A i \in DOMAIN t : i \in Nat \ {0} /\ i + 1 \in DOMAIN s /\ t[i] = s[i + 1]
  <2>1. Len(s) \in Nat /\ Len(s) # 0 /\ DOMAIN s = 1 .. Len(s)
    BY EmptySeq, LenProperties
  <2>2. t \in Seq(Frames) /\ Head(s) = s[1] /\ Len(t) = Len(s) - 1
        /\ \A i \in 1 .. Len(t) : t[i] = s[i + 1]
    BY HeadTailProperties
  <2> HIDE DEF t
  <2>3. DOMAIN t = 1 .. Len(t)
    BY <2>2, LenProperties
  <2> QED
    BY <2>1, <2>2, <2>3
<1> HIDE DEF t
<1>2. \A i \in DOMAIN t : FrameHolds(t[i], ps, l, k, inh)
  BY <1>1 DEF StackHolds
<1>3. \A i, j \in DOMAIN t : i < j => Apart(t[i], t[j])
  BY <1>1 DEF StackHolds
<1>4. \A i \in DOMAIN t : Apart(Head(s), t[i])
  BY <1>1 DEF StackHolds
<1> QED
  BY <1>1, <1>2, <1>3, <1>4 DEF StackHolds, t

(* What happens below the stack leaves what a frame counts on: its own     *)
(* children stay, jobs leave the table or are appended to it.              *)
LEMMA FrameStays ==
  ASSUME NEW f \in Frames, NEW ps, NEW l, NEW k \in Nat, NEW inh, FrameHolds(f, ps, l, k, inh),
         NEW qs, NEW m \in Nat, k <= m, NEW r,
         Nodes(r) \subseteq Nat,
         \A n \in Nodes(r) : n <= k => n \in Nodes(l) /\ r.jobs[n].pid = l.jobs[n].pid,
         f.op \in Collects => \A p \in PidsOf(f.pids) :
            ~NoSuchChild(ps, p) /\ ps[p].job = NoJob => ~NoSuchChild(qs, p) /\ qs[p].job = NoJob
  PROVE  FrameHolds(f, qs, r, m, inh)
<1>1. f.node \in Nat /\ f.next \in Nat
  BY ChildrenAssumption DEF Frames, FrameType
<1>2. Waits(f, qs)
  BY DEF FrameHolds, Waits
<1>3. Stands(f, r, m)
  BY <1>1 DEF FrameHolds, Stands
<1>4. Walked(f, r, inh)
  BY <1>1 DEF FrameHolds, Walked, Stands
<1> QED
  BY <1>2, <1>3, <1>4 DEF FrameHolds

(* The same for a stack whose frames keep all their children.              *)
LEMMA StackStays ==
  ASSUME NEW s \in Seq(Frames), NEW ps, NEW l, NEW k \in Nat, NEW inh,
         StackHolds(s, ps, l, k, inh),
         NEW qs, NEW m \in Nat, k <= m, NEW r,
         Nodes(r) \subseteq Nat,
         \A n \in Nodes(r) : n <= k => n \in Nodes(l) /\ r.jobs[n].pid = l.jobs[n].pid,
         \A i \in DOMAIN s : s[i].op \in Collects => \A p \in PidsOf(s[i].pids) :
            ~NoSuchChild(ps, p) /\ ps[p].job = NoJob => ~NoSuchChild(qs, p) /\ qs[p].job = NoJob
  PROVE  StackHolds(s, qs, r, m, inh)
<1>1. ASSUME NEW i \in DOMAIN s PROVE FrameHolds(s[i], qs, r, m, inh)
  <2>1. s[i] \in Frames /\ FrameHolds(s[i], ps, l, k, inh)
    BY DEF StackHolds
  <2> QED
    BY <2>1, FrameStays
<1> QED
  BY <1>1 DEF StackHolds

-----------------------------------------------------------------------------
(* The jobs a suspended wait loop stands on.                               *)

WaitLoops == {"waitall", "waitpid"}

(* What may be run on top of a wait: the actions of traps, and what the    *)
(* last stages of their pipelines run.                                     *)
AboveWaits ==
  IF MaxSignals = 0 THEN {}
  ELSE TrapRuns \cup (IF "pipe" \in TrapRuns THEN BodyRuns ELSE {})

(* Nothing that runs on top of a wait frees jobs: neither `jobs`, wait and *)
(* fg, nor the `&` of a script, which prunes the table.                    *)
TrapsKeepJobs ==
  /\ AboveWaits \cap {"jobs", "wait", "fg"} = {}
  /\ "async" \in AboveWaits => Interactive

(* The frames that can be found on top of a wait loop.                     *)
Over == IF MaxSignals = 0 THEN {}
        ELSE {"trap", "external", "subshell", "collect"}
               \cup (IF "pipe" \in TrapRuns THEN {"body"} ELSE {})

OnTop(f, g) == f.op # "top" /\ (g.op \in WaitLoops => f.op \in Over)

Live(f, l) ==
  f.op \in WaitLoops =>
    /\ f.node \in Nodes(l)
    /\ f.op = "waitall" /\ f.next # NoJob => f.next \in Nodes(l)

Held(s, l) ==
  /\ \A i \in DOMAIN s : Live(s[i], l)
  /\ \A i, j \in DOMAIN s : i < j => OnTop(s[i], s[j])

NoWaitLoop(s) == \A i \in DOMAIN s : s[i].op \notin WaitLoops

(* A frame pushed.                                                         *)
LEMMA PushHeld ==
  ASSUME NEW s \in Seq(Frames), NEW l, Held(s, l), NEW f \in Frames, Live(f, l),
         \A i \in DOMAIN s : OnTop(f, s[i])
  PROVE  Held(<<f>> \o s, l)
<1> DEFINE t == <<f>> \o s
<1>1. /\ DOMAIN t = 1 .. Len(s) + 1 /\ t[1] = f
      /\ \A i \in DOMAIN t : i # 1 => i - 1 \in DOMAIN s /\ t[i] = s[i - 1]
  OBVIOUS
<1> HIDE DEF t
<1>2. \A i \in DOMAIN t : Live(t[i], l)
  BY <1>1 DEF Held
<1>3. ASSUME NEW i \in DOMAIN t, NEW j \in DOMAIN t, i < j PROVE OnTop(t[i], t[j])
  <2>1. j # 1 /\ j - 1 \in DOMAIN s /\ t[j] = s[j - 1]
    BY <1>1, <1>3
  <2>2. CASE i = 1
    BY <1>1, <2>1, <2>2
  <2>3. CASE i # 1
    BY <1>1, <1>3, <2>1, <2>3 DEF Held
  <2> QED
    BY <2>2, <2>3
<1> QED
  BY <1>2, <1>3 DEF Held, t

(* The stack without its innermost frame.                                  *)
LEMMA PopHeld ==
  ASSUME NEW s \in Seq(Frames), s # <<>>, NEW l, Held(s, l)
  PROVE  /\ Tail(s) \in Seq(Frames) /\ Held(Tail(s), l) /\ Live(Head(s), l)
         /\ \A i \in DOMAIN Tail(s) : OnTop(Head(s), Tail(s)[i])
         /\ Head(s).op \notin Over => NoWaitLoop(Tail(s))
         /\ Head(s).op \notin Over \cup WaitLoops => NoWaitLoop(s)
<1> DEFINE t == Tail(s)
<1>1. /\ t \in Seq(Frames) /\ 1 \in DOMAIN s /\ Head(s) = s[1]
      /\ \A i \in DOMAIN t : i \in Nat \ {0} /\ i + 1 \in DOMAIN s /\ t[i] = s[i + 1]
      /\ \A i \in DOMAIN s : i \in Nat \ {0} /\ (i # 1 => i - 1 \in DOMAIN t)
  <2>1. Len(s) \in Nat /\ Len(s) # 0 /\ DOMAIN s = 1 .. Len(s)
    BY EmptySeq, LenProperties
  <2>2. t \in Seq(Frames) /\ Head(s) = s[1] /\ Len(t) = Len(s) - 1
        /\ \A i \in 1 .. Len(t) : t[i] = s[i + 1]
    BY HeadTailProperties
  <2> HIDE DEF t
  <2>3. DOMAIN t = 1 .. Len(t)
    BY <2>2, LenProperties
  <2> QED
    BY <2>1, <2>2, <2>3
<1> HIDE DEF t
<1>2. \A i \in DOMAIN t : Live(t[i], l)
  BY <1>1 DEF Held
<1>3. \A i, j \in DOMAIN t : i < j => OnTop(t[i], t[j])
  BY <1>1, SMTT(40) DEF Held
<1>4. \A i \in DOMAIN t : OnTop(Head(s), t[i])
  BY <1>1 DEF Held
<1>5. Head(s).op \notin Over => NoWaitLoop(t)
  BY <1>4 DEF OnTop, NoWaitLoop
<1>6. Head(s).op \notin Over \cup WaitLoops => NoWaitLoop(s)
  BY <1>1, <1>5 DEF NoWaitLoop
<1> QED
  BY <1>1, <1>2, <1>3, <1>4, <1>5, <1>6 DEF Held, t

(* Without wait loops, or with every job kept, any table will do.          *)
LEMMA HeldAnyway ==
  ASSUME NEW s, NEW l, NEW r, Held(s, l), NoWaitLoop(s) \/ Nodes(l) \subseteq Nodes(r)
  PROVE  Held(s, r)
BY DEF Held, Live, NoWaitLoop

(* A command runs above a wait loop only if it is one of AboveWaits.       *)
LEMMA RunsAbove ==
  ASSUME IInv, Held(stack, jl), NEW cmd, Runs(cmd), cmd \notin AboveWaits
  PROVE  NoWaitLoop(stack)
<1>1. stack \in Seq(Frames) /\ stack # <<>>
  BY Before DEF StackOK
<1>2. Top.op \in {"top", "body", "trap"}
  BY DEF Runs
<1>3. CASE Top.op \notin Over
  BY <1>1, <1>2, <1>3, PopHeld DEF Top, WaitLoops
<1>4. CASE Top.op \in Over
  BY <1>2, <1>4 DEF Runs, Over, AboveWaits
<1> QED
  BY <1>3, <1>4

(* A frame goes on where a wait loop, or nothing that could free its job,  *)
(* was under way.                                                          *)
LEMMA SwapHeld ==
  ASSUME NEW s \in Seq(Frames), s # <<>>, NEW l, Held(s, l), NEW f \in Frames, Live(f, l),
         f.op # "top", f.op \in Over \/ Head(s).op \notin Over
  PROVE  Held(<<f>> \o Tail(s), l)
<1>1. /\ Tail(s) \in Seq(Frames) /\ Held(Tail(s), l)
      /\ \A i \in DOMAIN Tail(s) : OnTop(Head(s), Tail(s)[i])
  BY PopHeld
<1>2. \A i \in DOMAIN Tail(s) : OnTop(f, Tail(s)[i])
  BY <1>1 DEF OnTop
<1> QED
  BY <1>1, <1>2, PushHeld

(* A frame pushed upon no wait loop, or one that may lie on top of it.     *)
LEMMA PushedHeld ==
  ASSUME NEW s \in Seq(Frames), NEW l, Held(s, l), NEW f \in Frames, Live(f, l),
         f.op # "top", f.op \in Over \/ NoWaitLoop(s)
  PROVE  Held(<<f>> \o s, l)
<1>1. \A i \in DOMAIN s : OnTop(f, s[i])
  BY DEF OnTop, NoWaitLoop
<1> QED
  BY <1>1, PushHeld

(* A stack of one frame that is no wait loop.                              *)
LEMMA BaseHeld ==
  ASSUME NEW op, op \notin WaitLoops, NEW l
  PROVE  Held(<<Frame(op)>>, l)
<1>1. Frame(op).op = op
  BY DEF Frame
<1> QED
  BY <1>1 DEF Held, Live

(* A status recorded in a job.                                             *)
LEMMA StatusKeepsJobs ==
  ASSUME NEW k, NEW l, JobsOK(l, k), NEW n, NEW s
  PROVE  Nodes(JobSetStatus(l, n, s)) = Nodes(l)
BY DEF JobSetStatus, Nodes, JobsOK, IsJobList

(* The operations that keep every job.                                     *)
LEMMA KeepJobs ==
  ASSUME NEW k \in Nat, NEW l, JobsOK(l, k), NEW ps \in [Pids -> Child], NEW n, NEW p
  PROVE  /\ Nodes(l) \subseteq Nodes(JobRegister(l, k + 1, p))
         /\ Nodes(JobReap(l, ps)) = Nodes(l)
         /\ Nodes(Resumed(l, n)) = Nodes(l)
<1>1. Nodes(l) \subseteq Nodes(JobRegister(l, k + 1, p))
  BY Registered
<1>2. \A m : Nodes(JobSetState(l, m, "RUNNING")) = Nodes(l)
  BY DEF JobSetState, Nodes, JobsOK, IsJobList
<1>3. Nodes(JobReap(l, ps)) = Nodes(l)
  BY JobOps, Numbers
<1> QED
  BY <1>1, <1>2, <1>3 DEF Resumed

(* Commands that leave the stack alone.                                    *)
LEMMA HeldIfUnmoved ==
  ASSUME IInv, TrapsKeepJobs, Held(stack, jl), stack' = stack,
         \/ JobsCommand \/ AsyncForkFails
         \/ \E p \in Pids : Async(p)
         \/ \E n \in 1 .. MaxJobs : Background(n)
         \/ \E cmd \in {"fg", "bg"} : NoSuchJob(cmd)
  PROVE  Held(stack, jl')
<1>1. JobsOK(jl, allocs) /\ allocs \in Nat /\ proc \in [Pids -> Child]
  BY Before
<1>2. CASE JobsCommand
  <2>1. NoWaitLoop(stack)
    BY <1>2, RunsAbove DEF JobsCommand, TrapsKeepJobs
  <2> QED
    BY <2>1, HeldAnyway
<1>3. CASE AsyncForkFails \/ \E p \in Pids : Async(p)
  <2>1. Runs("async")
    BY <1>3 DEF AsyncForkFails, Async
  <2>2. CASE Interactive
    <3>1. PICK p : jl' = jl \/ (jl' = JobRegister(jl, allocs', p) /\ allocs' = allocs + 1)
      BY <1>3, <2>2 DEF AsyncForkFails, Async, JobsBeforeAsync
    <3>2. Nodes(jl) \subseteq Nodes(jl')
      BY <1>1, <3>1, KeepJobs
    <3> QED
      BY <3>2, HeldAnyway
  <2>3. CASE ~Interactive
    <3>1. NoWaitLoop(stack)
      BY <2>1, <2>3, RunsAbove DEF TrapsKeepJobs
    <3> QED
      BY <3>1, HeldAnyway
  <2> QED
    BY <2>2, <2>3
<1>4. CASE \/ \E n \in 1 .. MaxJobs : Background(n)
           \/ \E cmd \in {"fg", "bg"} : NoSuchJob(cmd)
  <2>1. JobsOK(JobReap(jl, proc), allocs) /\ Nodes(JobReap(jl, proc)) = Nodes(jl)
    BY <1>1, JobOps, Numbers
  <2>2. Nodes(jl') = Nodes(jl)
    <3>1. \A n : Nodes(Resumed(JobReap(jl, proc), n)) = Nodes(JobReap(jl, proc))
      BY <1>1, <2>1, KeepJobs
    <3> QED
      BY <1>4, <2>1, <3>1 DEF Background, NoSuchJob
  <2> QED
    BY <2>2, HeldAnyway
<1> QED
  BY <1>2, <1>3, <1>4

(* Commands that push a frame.                                             *)
LEMMA HeldIfPushed ==
  ASSUME IInv, TrapsKeepJobs, Held(stack, jl),
         \/ WaitAll
         \/ \E p \in Pids : WaitPid(p) \/ External(p) \/ Subshell(p)
         \/ \E n \in 1 .. MaxJobs : Foreground(n)
         \/ \E s \in Stages : Pipeline(s)
  PROVE  Held(stack', jl')
<1>1. /\ JobsOK(jl, allocs) /\ allocs \in Nat /\ proc \in [Pids -> Child]
      /\ stack \in Seq(Frames)
  BY Before DEF StackOK
<1>2. CASE WaitAll
  <2> DEFINE n == First(Nodes(jl))
             f == [Frame("waitall") EXCEPT !.node = n, !.next = NextNode(jl, n)]
  <2>1. NoWaitLoop(stack)
    BY <1>2, RunsAbove DEF WaitAll, TrapsKeepJobs
  <2>2. 1 .. allocs \in SUBSET Nat /\ IsJobList(jl, 1 .. allocs)
    BY <1>1 DEF JobsOK
  <2>3. n \in Nodes(jl) \cup {NoJob} /\ NextNode(jl, n) \in Nodes(jl) \cup {NoJob}
    BY <2>2, FindInList
  <2>4. f \in Frames
    <3>1. n \in 0 .. MaxJobs /\ NextNode(jl, n) \in 0 .. MaxJobs
      BY Searches, Before, Numbers
    <3> QED
      BY <3>1, WaitAllFrame
  <2>5. f.op = "waitall" /\ f.node = n /\ f.next = NextNode(jl, n)
    BY DEF Frame
  <2>6. jl' = jl /\ (stack' = stack \/ (n # NoJob /\ stack' = <<f>> \o stack))
    BY <1>2 DEF WaitAll, Push
  <2> HIDE DEF f, n
  <2>7. n # NoJob => Live(f, jl)
    BY <2>3, <2>5 DEF Live
  <2> QED
    BY <1>1, <2>1, <2>4, <2>5, <2>6, <2>7, PushedHeld
<1>3. CASE \E p \in Pids : WaitPid(p)
  <2>1. PICK p \in Pids : WaitPid(p)
    BY <1>3
  <2> DEFINE n == JobFindByPid(jl, p)
             f == [Frame("waitpid") EXCEPT !.node = n, !.pids = <<p>>]
  <2>2. NoWaitLoop(stack)
    BY <2>1, RunsAbove DEF WaitPid, TrapsKeepJobs
  <2>3. n \in Nodes(jl) \cup {NoJob} /\ n \in 0 .. MaxJobs
    BY <1>1, Searches, Before, Numbers
  <2>4. f \in Frames
    <3>1. <<p>> \in Seq(Pids) \ {<<>>} /\ "waitpid" \in Ops
      BY DEF Ops, Blocking
    <3> QED
      BY <2>3, <3>1, NewFrames
  <2>5. f.op = "waitpid" /\ f.node = n
    BY DEF Frame
  <2>6. jl' = jl /\ (stack' = stack \/ (n # NoJob /\ stack' = <<f>> \o stack))
    BY <2>1 DEF WaitPid, Push
  <2> HIDE DEF f, n
  <2>7. n # NoJob => Live(f, jl)
    BY <2>3, <2>5 DEF Live
  <2> QED
    BY <1>1, <2>2, <2>4, <2>5, <2>6, <2>7, PushedHeld
<1>4. CASE \E p \in Pids : External(p) \/ Subshell(p)
  <2>1. PICK p \in Pids, cmd \in {"external", "subshell"} : ForkAndWait(cmd, p)
    BY <1>4 DEF External, Subshell
  <2> DEFINE f == [Frame(cmd) EXCEPT !.pids = <<p>>]
  <2>2. f \in Frames
    <3>1. <<p>> \in Seq(Pids) \ {<<>>} /\ cmd \in Ops
      BY DEF Ops, Blocking
    <3> QED
      BY <3>1, NewFrames, Numbers
  <2>3. f.op = cmd
    BY DEF Frame
  <2>4. jl' = jl /\ stack' = <<f>> \o stack /\ Runs(cmd)
    BY <2>1 DEF ForkAndWait, Push
  <2> HIDE DEF f
  <2>5. Live(f, jl)
    BY <2>3 DEF Live, WaitLoops
  <2>6. f.op \in Over \/ NoWaitLoop(stack)
    BY <2>3, <2>4, RunsAbove DEF Over, AboveWaits
  <2> QED
    BY <1>1, <2>2, <2>3, <2>4, <2>5, <2>6, PushedHeld
<1>5. CASE \E n \in 1 .. MaxJobs : Foreground(n)
  <2>1. PICK n \in 1 .. MaxJobs : Foreground(n)
    BY <1>5
  <2> DEFINE l == JobReap(jl, proc)
             f == [Frame("fg") EXCEPT !.node = n, !.pids = <<l.jobs[n].pid>>]
  <2>2. NoWaitLoop(stack)
    BY <2>1, RunsAbove DEF Foreground, TrapsKeepJobs
  <2>3. JobsOK(l, allocs) /\ n \in Nodes(l) /\ l.jobs[n].pid \in Pids /\ n \in 0 .. MaxJobs
    <3>1. JobsOK(l, allocs) /\ Nodes(l) = Nodes(jl)
      BY <1>1, JobOps, Numbers
    <3>2. n \in Nodes(jl)
      BY <2>1 DEF Foreground
    <3> QED
      BY <1>1, <3>1, <3>2, PidsOfNodes
  <2> HIDE DEF l
  <2>4. f \in Frames
    <3>1. <<l.jobs[n].pid>> \in Seq(Pids) \ {<<>>} /\ "fg" \in Ops
      BY <2>3 DEF Ops, Blocking
    <3> QED
      BY <2>3, <3>1, NewFrames
  <2>5. f.op = "fg"
    BY DEF Frame
  <2>6. jl' = Resumed(l, n) /\ stack' = <<f>> \o stack
    BY <2>1 DEF Foreground, Push, l
  <2> HIDE DEF f
  <2>7. Live(f, jl') /\ Held(stack, jl')
    BY <2>2, <2>5, HeldAnyway DEF Live, WaitLoops
  <2> QED
    BY <1>1, <2>2, <2>4, <2>5, <2>6, <2>7, PushedHeld
<1>6. CASE \E s \in Stages : Pipeline(s)
  <2>1. PICK s \in Stages : Pipeline(s)
    BY <1>6
  <2> DEFINE f == [Frame("body") EXCEPT !.pids = s]
  <2>2. s \in Seq(Pids) \ {<<>>} /\ "body" \in Ops
    BY JobControlAssumption, EmptySeq DEF Stages, Ops, Issuing
  <2>3. f \in Frames /\ f.op = "body"
    BY <2>2, NewFrames, Numbers DEF Frame
  <2>4. jl' = jl /\ stack' = <<f>> \o stack /\ Runs("pipe")
    BY <2>1 DEF Pipeline, Push
  <2> HIDE DEF f
  <2>5. Live(f, jl)
    BY <2>3 DEF Live, WaitLoops
  <2>6. f.op \in Over \/ NoWaitLoop(stack)
    BY <2>3, <2>4, RunsAbove DEF Over, AboveWaits
  <2> QED
    BY <1>1, <2>3, <2>4, <2>5, <2>6, PushedHeld
<1> QED
  BY <1>2, <1>3, <1>4, <1>5, <1>6

(* A wait for children that ends: the table changes only where no wait     *)
(* loop is below.                                                          *)
LEMMA HeldIfPopped ==
  ASSUME IInv, Held(stack, jl), Pop, Top.op \notin Over \/ Nodes(jl) \subseteq Nodes(jl')
  PROVE  Held(stack', jl')
<1>1. stack \in Seq(Frames) /\ stack # <<>>
  BY Before DEF StackOK
<1>2. Held(Tail(stack), jl) /\ (Top.op \notin Over => NoWaitLoop(Tail(stack)))
  BY <1>1, PopHeld DEF Top
<1> QED
  BY <1>2, HeldAnyway DEF Pop

(* One turn of wait.                                                       *)
LEMMA HeldIfStepped ==
  ASSUME IInv, Held(stack, jl), WaitAllStep
  PROVE  Held(stack', jl')
<1> DEFINE n == Top.node
           p == jl.jobs[n].pid
           waits == jl.jobs[n].state = "RUNNING"
           done == RemoveIfDone(IF waits THEN JobsAfterWait(p) ELSE jl, n)
           f == [Top EXCEPT !.node = Top.next, !.next = NextNode(done, Top.next)]
<1>1. stack \in Seq(Frames) /\ stack # <<>> /\ Top \in Frames
  BY Before DEF StackOK
<1>2. /\ Top.op = "waitall" /\ jl' = done
      /\ Pop \/ (Top.next \in Nodes(done) /\ Swap(f))
  BY DEF WaitAllStep
<1>3. JobsOK(done, allocs)
  <2>1. JobsOK(jl, allocs) /\ allocs \in Nat
    BY Before
  <2>2. p \in Pids
    BY <2>1, PidsOfNodes DEF WaitAllStep
  <2>3. JobsOK(IF waits THEN JobsAfterWait(p) ELSE jl, allocs)
    BY <2>1, <2>2, WaitKeeps
  <2> QED
    BY <2>1, <2>3, JobOps, Numbers, Before
<1> HIDE DEF done
<1>4. NextNode(done, Top.next) \in Nodes(done) \cup {NoJob} /\ NextNode(done, Top.next) \in 0 .. MaxJobs
  <2>1. 1 .. allocs \in SUBSET Nat /\ IsJobList(done, 1 .. allocs) /\ allocs \in 0 .. MaxJobs
    BY <1>3, Before DEF JobsOK
  <2>2. NextNode(done, Top.next) \in Nodes(done) \cup {NoJob}
    BY <2>1, FindInList
  <2>3. NextNode(done, Top.next) \in 0 .. allocs
    BY <1>3, <2>1, Searches
  <2> QED
    BY <2>1, <2>2, <2>3, Before
<1>5. f \in Frames /\ f.op = "waitall" /\ f.node = Top.next /\ f.next = NextNode(done, Top.next)
  <2>1. Top.next \in 0 .. MaxJobs /\ Top \in FrameType
    BY <1>1 DEF Frames, FrameType
  <2>2. f \in Frames
    BY <1>1, <1>2, <1>4, <2>1, TopFrames, Numbers
  <2> QED
    BY <1>2, <2>1, <2>2 DEF FrameType
<1> HIDE DEF f
<1>6. CASE Pop
  BY <1>2, <1>6, HeldIfPopped DEF Over
<1>7. CASE Top.next \in Nodes(done) /\ Swap(f)
  <2>1. NoWaitLoop(Tail(stack)) /\ Tail(stack) \in Seq(Frames) /\ Held(Tail(stack), jl)
    BY <1>1, <1>2, PopHeld DEF Top, Over
  <2>2. Held(Tail(stack), done)
    BY <2>1, HeldAnyway
  <2>3. Live(f, done)
    BY <1>4, <1>5, <1>7 DEF Live
  <2> QED
    BY <1>2, <1>5, <1>7, <2>1, <2>2, <2>3, PushedHeld DEF Swap
<1> QED
  BY <1>2, <1>6, <1>7

(* The last stage of a pipeline has run, or one of its stages is collected *)
(* and the next is waited for.                                             *)
LEMMA HeldIfSwapped ==
  ASSUME IInv, Held(stack, jl), (\E c \in Codes \cup {Flow} : BodyDone(c)) \/ (CollectStage /\ ~Pop)
  PROVE  Held(stack', jl')
<1>1. stack \in Seq(Frames) /\ stack # <<>> /\ Top \in Frames /\ Top \in FrameType
  BY Before DEF StackOK, Frames
<1>2. PICK f : /\ Swap(f) /\ f \in Frames /\ f.op = "collect" /\ jl' = jl
               /\ Top.op \in {"body", "collect"}
  <2>1. CASE \E c \in Codes \cup {Flow} : BodyDone(c)
    <3>1. PICK c \in Codes \cup {Flow} : BodyDone(c)
      BY <2>1
    <3> DEFINE f == [Top EXCEPT !.op = "collect", !.rc = c]
    <3>2. Top.op = "body" /\ Swap(f) /\ c \in Statuses \cup {Flow} /\ jl' = jl
      BY <3>1, Numbers DEF BodyDone
    <3>3. f \in Frames /\ f.op = "collect"
      BY <1>1, <3>2, TopFrames, Numbers DEF FrameType
    <3> QED
      BY <3>2, <3>3
  <2>2. CASE CollectStage /\ ~Pop
    <3>1. PICK rc \in Statuses \cup {Flow} :
            LET f == [Top EXCEPT !.pids = Tail(@), !.rc = rc, !.eintr = FALSE]
            IN  f \in Frames /\ Swap(f)
      BY <2>2, NextStage
    <3> DEFINE f == [Top EXCEPT !.pids = Tail(@), !.rc = rc, !.eintr = FALSE]
    <3>2. Top.op = "collect" /\ jl' = jl
      BY <2>2 DEF CollectStage
    <3>3. f.op = "collect" /\ f \in Frames /\ Swap(f)
      BY <1>1, <3>1, <3>2 DEF FrameType
    <3> QED
      BY <3>2, <3>3
  <2> QED
    BY <2>1, <2>2
<1>3. Live(f, jl) /\ f.op # "top"
  BY <1>2 DEF Live, WaitLoops
<1>4. f.op \in Over \/ Top.op \notin Over
  BY <1>2 DEF Over
<1> QED
  BY <1>1, <1>2, <1>3, <1>4, SwapHeld DEF Swap, Top

(* A trap action starts.                                                   *)
LEMMA HeldIfInterrupted ==
  ASSUME IInv, Held(stack, jl), Signal
  PROVE  Held(stack', jl')
<1>1. stack \in Seq(Frames) /\ stack # <<>> /\ Top \in Frames /\ Top \in FrameType
  BY Before DEF StackOK, Frames
<1>2. PICK cut \in BOOLEAN :
        stack' = <<Frame("trap"), [Top EXCEPT !.eintr = cut]>> \o Tail(stack)
  BY DEF Signal
<1> DEFINE f == [Top EXCEPT !.eintr = cut]
<1>3. f \in Frames /\ f.op = Top.op /\ f.node = Top.node /\ f.next = Top.next
  BY <1>1, TopFrames, Numbers DEF FrameType
<1>4. Frame("trap") \in Frames /\ Frame("trap").op = "trap"
  BY FrameIsFrame DEF Ops, Issuing, Frame
<1>5. Live(f, jl) /\ f.op # "top"
  BY <1>1, <1>3, PopHeld DEF Live, Top, Signal, Blocking
<1> HIDE DEF f
<1>6. Held(<<f>> \o Tail(stack), jl)
  <2>1. /\ Tail(stack) \in Seq(Frames) /\ Held(Tail(stack), jl)
        /\ \A i \in DOMAIN Tail(stack) : OnTop(Top, Tail(stack)[i])
    BY <1>1, PopHeld DEF Top
  <2>2. \A i \in DOMAIN Tail(stack) : OnTop(f, Tail(stack)[i])
    BY <1>3, <2>1 DEF OnTop
  <2> QED
    BY <1>3, <1>5, <2>1, <2>2, PushHeld
<1>7. stack' = <<Frame("trap")>> \o (<<f>> \o Tail(stack)) /\ <<f>> \o Tail(stack) \in Seq(Frames)
  <2>1. Tail(stack) \in Seq(Frames)
    BY <1>1
  <2>2. <<Frame("trap"), f>> = <<Frame("trap")>> \o <<f>>
    BY <1>3, <1>4
  <2>3. <<Frame("trap")>> \in Seq(Frames) /\ <<f>> \in Seq(Frames)
    BY <1>3, <1>4
  <2>4. stack' = <<Frame("trap"), f>> \o Tail(stack)
    BY <1>2 DEF f
  <2> QED
    BY <2>1, <2>2, <2>3, <2>4, ConcatAssociative
<1>8. "trap" \in Over
  BY JobControlAssumption DEF Signal, Over, IInv, TypeOK, CountsOK
<1>9. Live(Frame("trap"), jl)
  BY <1>4 DEF Live, WaitLoops
<1>10. jl' = jl
  BY DEF Signal
<1> QED
  BY <1>4, <1>6, <1>7, <1>8, <1>9, <1>10, PushedHeld

(* Every step keeps the jobs the wait loops stand on.                      *)
LEMMA NextKeepsHeld ==
  ASSUME IInv, TrapsKeepJobs, Held(stack, jl), [Next]_vars
  PROVE  Held(stack', jl')
<1>1. CASE UNCHANGED <<stack, jl>>
  BY <1>1
<1>2. CASE WaitAllStep
  BY <1>2, HeldIfStepped
<1>3. CASE WaitPidReturn \/ ForegroundReturn \/ ForegroundStops
  <2>1. Pop /\ Top.op \in {"waitpid", "fg"}
    BY <1>3 DEF WaitPidReturn, ForegroundReturn, ForegroundStops
  <2> QED
    BY <2>1, HeldIfPopped DEF Over
<1>4. CASE ReadFreedJob \/ EnterSubshell
  <2>1. PICK op \in {"top", "undefined"} : stack' = <<Frame(op)>>
    BY <1>4 DEF ReadFreedJob, EnterSubshell
  <2> QED
    BY <2>1, BaseHeld DEF WaitLoops
<1>5. CASE ChildReturn \/ TrapDone \/ (CollectStage /\ Pop)
  <2>1. Pop /\ jl' = jl
    BY <1>5 DEF ChildReturn, TrapDone, CollectStage
  <2> QED
    BY <2>1, HeldIfPopped
<1>6. CASE ExternalStops
  <2>1. /\ Pop /\ allocs' = allocs + 1
        /\ jl' = JobSetStatus(JobRegister(jl, allocs', Pid), allocs', StopCode)
    BY <1>6 DEF ExternalStops
  <2>2. Nodes(jl) \subseteq Nodes(jl')
    <3>1. Pid \in Pids
      BY <1>6, PidIsPid DEF ExternalStops, Blocking
    <3>3. allocs \in Nat /\ allocs + 1 \in Nat /\ JobsOK(jl, allocs) /\ proc \in [Pids -> Child]
      BY Before
    <3> DEFINE r == JobRegister(jl, allocs + 1, Pid)
    <3>2. JobsOK(r, allocs + 1)
      BY <3>1, <3>3, RegisteredOK
    <3>4. Nodes(jl) \subseteq Nodes(r)
      BY <3>3, KeepJobs
    <3> HIDE DEF r
    <3>5. Nodes(JobSetStatus(r, allocs', StopCode)) = Nodes(r)
      BY <3>2, StatusKeepsJobs
    <3> QED
      BY <2>1, <3>4, <3>5 DEF r
  <2> QED
    BY <2>1, <2>2, HeldIfPopped
<1>7. CASE (\E c \in Codes \cup {Flow} : BodyDone(c)) \/ (CollectStage /\ ~Pop)
  BY <1>7, HeldIfSwapped
<1>8. CASE Signal
  BY <1>8, HeldIfInterrupted
<1>9. CASE \/ JobsCommand \/ AsyncForkFails
           \/ \E p \in Pids : Async(p)
           \/ \E n \in 1 .. MaxJobs : Background(n)
           \/ \E cmd \in {"fg", "bg"} : NoSuchJob(cmd)
  <2>1. stack' = stack
    BY <1>9 DEF JobsCommand, AsyncForkFails, Async, Background, NoSuchJob
  <2> QED
    BY <1>9, <2>1, HeldIfUnmoved
<1>10. CASE \/ WaitAll
            \/ \E p \in Pids : WaitPid(p) \/ External(p) \/ Subshell(p)
            \/ \E n \in 1 .. MaxJobs : Foreground(n)
            \/ \E s \in Stages : Pipeline(s)
  BY <1>10, HeldIfPushed
<1>11. CASE \/ \E p \in Pids, c \in Codes : ChildExit(p, c)
            \/ \E p \in Pids : ChildStop(p) \/ ChildContinue(p)
            \/ \E s \in Stages \cup {<<>>} : PipelineForkFails(s)
            \/ Undefined \/ UNCHANGED vars
  BY <1>1, <1>11 DEF ChildExit, ChildStop, ChildContinue, PipelineForkFails, Undefined, vars
<1>12. CASE Continue
  BY <1>2, <1>3, <1>4, <1>5, <1>6, <1>7, <1>12 DEF Continue
<1>13. CASE Issue
  BY <1>4, <1>9, <1>10, <1>11, <1>13 DEF Issue
<1>14. CASE Environment
  BY <1>8, <1>11, <1>14 DEF Environment
<1> QED
  BY <1>11, <1>12, <1>13, <1>14 DEF Next

(* Where the actions of traps keep the jobs they find, no wait loop reads  *)
(* a job that has been freed: the job it stands on and the one it steps to *)
(* next are in the table whatever ends, is signalled or started meanwhile. *)
THEOREM WaitLoopsHoldLiveJobs == TrapsKeepJobs => (Spec => []HeldJobsLive)
<1> SUFFICES ASSUME TrapsKeepJobs PROVE Spec => []HeldJobsLive
  OBVIOUS
<1>1. Init => IInv /\ Held(stack, jl)
  BY InitIInv, BaseHeld DEF Init, WaitLoops
<1>2. IInv /\ Held(stack, jl) /\ [Next]_vars => IInv' /\ Held(stack, jl)'
  BY NextKeepsIInv, NextKeepsHeld
<1>3. IInv /\ Held(stack, jl) => HeldJobsLive
  BY DEF Held, Live, HeldJobsLive, HoldsFreed, WaitLoops
<1> QED
  BY <1>1, <1>2, <1>3, PTL DEF Spec

-----------------------------------------------------------------------------
(* Where only the script's own commands reap, the accounts agree.          *)

(* A status `wait` has reported for a job of this shell is its fate, and   *)
(* the job is gone.                                                        *)
AnswerTrue ==
  last.cmd = "wait" /\ last.node > inherited =>
    /\ last.node <= allocs /\ last.node \notin Nodes(jl)
    /\ last.code = fate[last.node]

(* Without SIGSTOP no child is stopped, and no job of the table but runs.  *)
NobodyStops(ps, l) ==
  ~MayStop => /\ \A p \in Pids : ps[p].st # "stop"
              /\ \A n \in Nodes(l) : l.jobs[n].state = "RUNNING"

Agree ==
  /\ Linked(jl, proc, inherited)
  /\ FatesKnown(proc, fate)
  /\ StackHolds(stack, proc, jl, allocs, inherited)
  /\ AnswerTrue
  /\ NobodyStops(proc, jl)

AInv == IInv /\ Agree

(* What a step may use of the state it starts in.                          *)
LEMMA Known ==
  ASSUME AInv
  PROVE  /\ stack \in Seq(Frames) /\ stack # <<>> /\ Top \in Frames /\ Top \in FrameType
         /\ proc \in [Pids -> Child] /\ JobsOK(jl, allocs)
         /\ allocs \in Nat /\ MaxJobs \in Nat /\ inherited \in 0 .. allocs
         /\ Nodes(jl) \subseteq 1 .. allocs
         /\ \A n \in Nodes(jl) : jl.jobs[n] \in Job /\ jl.jobs[n].pid \in Pids
         /\ Linked(jl, proc, inherited) /\ FatesKnown(proc, fate)
         /\ StackHolds(stack, proc, jl, allocs, inherited)
<1>1. IInv
  BY DEF AInv
<1>2. /\ proc \in [Pids -> Child] /\ JobsOK(jl, allocs) /\ StackOK(stack) /\ Top \in Frames
      /\ allocs \in Nat /\ MaxJobs \in Nat /\ CountsOK
  BY <1>1, Before
<1>3. /\ Nodes(jl) \subseteq 1 .. allocs
      /\ \A n \in Nodes(jl) : jl.jobs[n] \in Job /\ jl.jobs[n].pid \in Pids
  BY <1>2, PidsOfNodes
<1> QED
  BY <1>2, <1>3 DEF StackOK, Frames, CountsOK, AInv, Agree

(* The script's own commands run on nothing.                               *)
LEMMA TopAlone ==
  ASSUME AInv, Top.op = "top"
  PROVE  \A i \in DOMAIN stack : i = 1 /\ stack[i] = Top
<1>1. stack \in Seq(Frames) /\ stack # <<>> /\ StackHolds(stack, proc, jl, allocs, inherited)
  BY Known
<1>2. Len(stack) \in Nat /\ Len(stack) # 0 /\ DOMAIN stack = 1 .. Len(stack)
  BY <1>1, EmptySeq, LenProperties
<1>3. Top = stack[1]
  BY <1>1, HeadTailProperties DEF Top
<1>4. \A j \in DOMAIN stack : ~(1 < j)
  BY <1>1, <1>2, <1>3 DEF StackHolds, Apart
<1> QED
  BY <1>2, <1>3, <1>4

(* A command that reaps runs at the top, or not at all.                    *)
LEMMA ReapsAtTop ==
  ASSUME ReapsAtTopOnly, NEW cmd \in {"jobs", "fg", "bg", "async"}, Runs(cmd),
         cmd = "async" => ~Interactive
  PROVE  Top.op = "top" /\ cmd \in {"jobs", "async"}
BY DEF ReapsAtTopOnly, Runs

(* The next frame of the same wait.                                        *)
LEMMA SwapHolds ==
  ASSUME NEW t \in Seq(Frames), NEW h, \A i \in DOMAIN t : Apart(h, t[i]),
         NEW ps, NEW l, NEW k, NEW inh, StackHolds(t, ps, l, k, inh),
         NEW f \in Frames, FrameHolds(f, ps, l, k, inh), f.op # "top",
         f.op \in Collects => h.op \in Collects /\ PidsOf(f.pids) \subseteq PidsOf(h.pids)
  PROVE  StackHolds(<<f>> \o t, ps, l, k, inh)
<1>1. \A i \in DOMAIN t : Apart(f, t[i])
  BY DEF Apart
<1> QED
  BY <1>1, PushHolds

(* The frames below the innermost one.                                     *)
LEMMA Below ==
  ASSUME AInv
  PROVE  /\ Tail(stack) \in Seq(Frames)
         /\ StackHolds(Tail(stack), proc, jl, allocs, inherited)
         /\ FrameHolds(Top, proc, jl, allocs, inherited)
         /\ \A i \in DOMAIN Tail(stack) : Apart(Top, Tail(stack)[i])
BY Known, PopHolds DEF Top

(* Children forked for a frame of their own.                               *)
LEMMA ForkHolds ==
  ASSUME NEW s \in Seq(Frames), NEW ps \in [Pids -> Child], NEW l, NEW k \in Nat, NEW inh,
         StackHolds(s, ps, l, k, inh), Nodes(l) \subseteq Nat,
         NEW f \in Frames, f.op \in Collects, f.node = NoJob, f.next = NoJob,
         Distinct(f.pids), PidsOf(f.pids) \subseteq Free(ps)
  PROVE  StackHolds(<<f>> \o s, Forked(ps, PidsOf(f.pids), NoJob), l, k, inh)
<1> DEFINE S == PidsOf(f.pids)
           qs == Forked(ps, S, NoJob)
<1>1. \A q \in Pids : /\ q \in S => qs[q].st = "run" /\ qs[q].job = NoJob
                      /\ q \notin S => qs[q] = ps[q]
  BY DEF Forked, ChildIn
<1>2. \A q \in S : q \in Pids /\ NoSuchChild(ps, q)
  BY DEF Free, NoSuchChild
<1>3. \A i \in DOMAIN s : s[i] \in Frames /\ Waits(s[i], ps)
  BY DEF StackHolds, FrameHolds
<1>4. \A i \in DOMAIN s : s[i].op \in Collects => PidsOf(s[i].pids) \subseteq Pids
  BY <1>3 DEF Frames, FrameType, PidsOf
<1> HIDE DEF S, qs
<1>5. ASSUME NEW i \in DOMAIN s, s[i].op \in Collects, NEW p \in PidsOf(s[i].pids),
             ~NoSuchChild(ps, p) /\ ps[p].job = NoJob
      PROVE  ~NoSuchChild(qs, p) /\ qs[p].job = NoJob
  BY <1>1, <1>2, <1>4, <1>5 DEF NoSuchChild
<1>6. StackHolds(s, qs, l, k, inh)
  <2>1. \A i \in DOMAIN s : s[i].op \in Collects => \A p \in PidsOf(s[i].pids) :
          ~NoSuchChild(ps, p) /\ ps[p].job = NoJob => ~NoSuchChild(qs, p) /\ qs[p].job = NoJob
    BY <1>5
  <2>2. k <= k /\ \A n \in Nodes(l) : n <= k => n \in Nodes(l) /\ l.jobs[n].pid = l.jobs[n].pid
    OBVIOUS
  <2> QED
    BY <2>1, <2>2, StackStays
<1>7. FrameHolds(f, qs, l, k, inh)
  <2>1. Waits(f, qs)
    BY <1>1, <1>2 DEF Waits, NoSuchChild, S
  <2>2. Stands(f, l, k) /\ Walked(f, l, inh)
    BY DEF Stands, Walked, Collects, NoJob
  <2> QED
    BY <2>1, <2>2 DEF FrameHolds, Collects
<1>8. \A i \in DOMAIN s : Apart(f, s[i])
  BY <1>2, <1>3 DEF Apart, Collects, Waits, S
<1> QED
  BY <1>6, <1>7, <1>8, PushHolds DEF qs, S

(* What is known of the ended children stays known of those left.          *)
LEMMA FatesStay ==
  ASSUME NEW ps, NEW ft, FatesKnown(ps, ft), NEW qs,
         \A p \in Pids : qs[p].st = "zombie" /\ qs[p].job # NoJob =>
            ps[p].st = "zombie" /\ qs[p].job = ps[p].job /\ qs[p].code = ps[p].code
  PROVE  FatesKnown(qs, ft)
BY DEF FatesKnown

(* A step that names no job in its report, or reports nothing.             *)
LEMMA AnswerStays ==
  ASSUME AInv, inherited' = inherited, allocs' \in Nat, allocs <= allocs', fate' = fate,
         \A n \in Nodes(jl') : n <= allocs => n \in Nodes(jl),
         last' = last \/ last'.node = NoJob
  PROVE  AnswerTrue'
<1>1. /\ AnswerTrue /\ inherited \in Nat /\ allocs \in Nat
      /\ last.node \in Nat
  BY Known, Before DEF AInv, Agree, LastOK
<1> QED
  BY <1>1 DEF AnswerTrue, NoJob

(* A step that leaves table and stack alone and keeps every child.         *)
LEMMA ChildrenStay ==
  ASSUME AInv, UNCHANGED <<jl, stack, allocs, inherited>>,
         \A p \in Pids : /\ proc'[p].job = proc[p].job
                         /\ NoSuchChild(proc', p) <=> NoSuchChild(proc, p)
                         /\ proc[p].st = "other" => proc'[p].st = "other"
  PROVE  /\ Linked(jl', proc', inherited')
         /\ StackHolds(stack', proc', jl', allocs', inherited')
<1>1. Linked(jl, proc', inherited)
  BY Known, SameChildren
<1>2. \A i \in DOMAIN stack : stack[i].op \in Collects => PidsOf(stack[i].pids) \subseteq Pids
  <2>1. \A i \in DOMAIN stack : stack[i] \in Frames
    BY Known
  <2> QED
    BY <2>1 DEF Frames, FrameType, PidsOf
<1>3. StackHolds(stack, proc', jl, allocs, inherited)
  <2>1. \A i \in DOMAIN stack : stack[i].op \in Collects => \A p \in PidsOf(stack[i].pids) :
          ~NoSuchChild(proc, p) /\ proc[p].job = NoJob => ~NoSuchChild(proc', p) /\ proc'[p].job = NoJob
    BY <1>2
  <2>2. allocs \in Nat /\ allocs <= allocs /\ Nodes(jl) \subseteq Nat
        /\ \A n \in Nodes(jl) : n <= allocs => n \in Nodes(jl) /\ jl.jobs[n].pid = jl.jobs[n].pid
    BY Known
  <2> QED
    BY <2>1, <2>2, Known, StackStays
<1> QED
  BY <1>1, <1>3

(* A child ends: what was said of earlier jobs is not touched.             *)
LEMMA ChildExitAgrees ==
  ASSUME AInv, NEW p \in Pids, NEW c \in Codes, ChildExit(p, c)
  PROVE  Agree'
<1>1. \A q \in Pids : /\ proc'[q].st = IF q = p THEN "zombie" ELSE proc[q].st
                      /\ proc'[q].job = proc[q].job
                      /\ proc'[q].code = IF q = p THEN c ELSE proc[q].code
  <2>1. proc \in [Pids -> Child] /\ 0 \in 0 .. MaxJobs
    BY Known
  <2>2. proc' = Exited(proc, p, c)
    BY DEF ChildExit
  <2>3. ASSUME NEW q \in Pids
        PROVE  /\ Exited(proc, p, c)[q].st = IF q = p THEN "zombie" ELSE proc[q].st
               /\ Exited(proc, p, c)[q].job = proc[q].job
               /\ Exited(proc, p, c)[q].code = IF q = p THEN c ELSE proc[q].code
    BY <2>1, ChildAfter
  <2> QED
    BY <2>2, <2>3
<1>2. proc[p].st \in {"run", "stop"} /\ UNCHANGED <<jl, stack, allocs, inherited, last>>
  BY DEF ChildExit
<1>3. /\ Linked(jl', proc', inherited')
      /\ StackHolds(stack', proc', jl', allocs', inherited')
  BY <1>1, <1>2, ChildrenStay DEF NoSuchChild
<1>4. proc[p].job # NoJob => /\ proc[p].job \in Nodes(jl) /\ fate' = [fate EXCEPT ![proc[p].job] = c]
                             /\ jl.jobs[proc[p].job].pid = p
  BY Known DEF Linked, ChildHasJob, ChildExit
<1>5. fate \in [1 .. MaxJobs -> Codes \cup {Alive}] /\ Nodes(jl) \subseteq 1 .. MaxJobs
  BY Before, Known DEF AInv, FateOK
<1>6. \A n \in 1 .. MaxJobs : fate'[n] = IF proc[p].job # NoJob /\ n = proc[p].job THEN c ELSE fate[n]
  BY <1>4, <1>5 DEF ChildExit
<1>7. FatesKnown(proc', fate')
  <2> SUFFICES ASSUME NEW q \in Pids, proc'[q].st = "zombie", proc'[q].job # NoJob
               PROVE  fate'[proc'[q].job] = proc'[q].code
    BY DEF FatesKnown
  <2>1. proc[q].job \in Nodes(jl) /\ jl.jobs[proc[q].job].pid = q
    BY <1>1, Known DEF Linked, ChildHasJob
  <2>2. CASE q = p
    BY <1>1, <1>5, <1>6, <2>1, <2>2
  <2>3. CASE q # p
    <3>1. proc[q].job # proc[p].job
      BY <1>1, <1>4, <2>1, <2>3
    <3>2. fate[proc[q].job] = proc[q].code
      BY <1>1, <2>3, Known DEF FatesKnown
    <3> QED
      BY <1>1, <1>5, <1>6, <2>1, <2>3, <3>1, <3>2
  <2> QED
    BY <2>2, <2>3
<1>8. AnswerTrue'
  <2>1. last.node \in 0 .. MaxJobs /\ AnswerTrue /\ inherited \in Nat
    BY Before, Known DEF AInv, Agree, LastOK
  <2> QED
    BY <1>2, <1>4, <1>6, <2>1 DEF AnswerTrue
<1>9. NobodyStops(proc', jl')
  BY <1>1, <1>2 DEF AInv, Agree, NobodyStops
<1> QED
  BY <1>3, <1>7, <1>8, <1>9 DEF Agree

(* A child is stopped or continued from outside.                           *)
LEMMA StopsAgree ==
  ASSUME AInv, NEW p \in Pids, ChildStop(p) \/ ChildContinue(p)
  PROVE  Agree'
<1>1. /\ MayStop /\ UNCHANGED <<jl, stack, allocs, inherited, last, fate>>
      /\ proc[p].st \in {"run", "stop"}
  BY DEF ChildStop, ChildContinue
<1>2. ASSUME NEW q \in Pids
      PROVE  /\ proc'[q].job = proc[q].job /\ proc'[q].code = proc[q].code
             /\ q # p => proc'[q].st = proc[q].st
             /\ proc'[p].st \in {"run", "stop"}
  <2>k. proc \in [Pids -> Child] /\ 0 \in 0 .. MaxJobs /\ 0 \in Codes
    BY Known, ChildrenAssumption
  <2>1. CASE ChildStop(p)
    <3>1. proc' = Stopped(proc, p)
      BY <2>1 DEF ChildStop
    <3> QED
      BY <1>1, <2>k, <3>1, ChildAfter
  <2>2. CASE ChildContinue(p)
    <3>1. proc' = Continued(proc, {p}) /\ proc[p].st = "stop"
      BY <2>2 DEF ChildContinue
    <3> QED
      BY <1>1, <2>k, <3>1, ChildAfter
  <2> QED
    BY <2>1, <2>2
<1>3. /\ Linked(jl', proc', inherited')
      /\ StackHolds(stack', proc', jl', allocs', inherited')
  BY <1>1, <1>2, ChildrenStay DEF NoSuchChild
<1>4. FatesKnown(proc', fate')
  BY <1>1, <1>2, Known, FatesStay
<1>5. AnswerTrue'
  BY <1>1, AnswerStays, Known
<1>6. NobodyStops(proc', jl')
  BY <1>1 DEF NobodyStops
<1> QED
  BY <1>3, <1>4, <1>5, <1>6 DEF Agree

(* The script's own command collects every ended child: nothing is under   *)
(* way that waits for one.                                                 *)
LEMMA PruneAgrees ==
  ASSUME AInv, Top.op = "top"
  PROVE  LET r == JobReapAndPrune(jl, proc)
             qs == Drained(proc)
         IN  /\ Linked(r, qs, inherited) /\ FatesKnown(qs, fate)
             /\ StackHolds(stack, qs, r, allocs, inherited) /\ NobodyStops(qs, r)
             /\ Nodes(r) \subseteq Nodes(jl)
<1> DEFINE r == JobReapAndPrune(jl, proc)
           qs == Drained(proc)
<1>1. proc \in [Pids -> Child] /\ 0 \in 0 .. MaxJobs
  BY Known
<1>2. ASSUME NEW q \in Pids
      PROVE  /\ qs[q].st = IF proc[q].st = "zombie" THEN "none" ELSE proc[q].st
             /\ qs[q].job = IF proc[q].st = "zombie" THEN 0 ELSE proc[q].job
  BY <1>1, ChildrenAfter
<1>3. Linked(r, qs, inherited)
  BY Known, PruneLinked
<1>4. /\ Nodes(r) \subseteq Nodes(jl)
      /\ \A n \in Nodes(r) : r.jobs[n].pid = jl.jobs[n].pid
      /\ \A n \in Nodes(r) : proc[jl.jobs[n].pid].st # "stop" => r.jobs[n] = jl.jobs[n]
  <2>1. \A n \in Nodes(jl) : jl.jobs[n].state # "DONE"
    BY Known DEF Linked, JobHasChild
  <2>2. Unique(jl) /\ JobsOK(jl, allocs) /\ allocs \in Nat /\ proc \in [Pids -> Child]
    BY Known DEF Linked
  <2> QED
    BY <2>1, <2>2, PrunedNodes
<1> HIDE DEF r, qs
<1>5. FatesKnown(qs, fate)
  BY <1>2 DEF FatesKnown
<1>6. StackHolds(stack, qs, r, allocs, inherited)
  <2>1. \A i \in DOMAIN stack : stack[i].op \notin Collects
    BY TopAlone DEF Collects
  <2>2. stack \in Seq(Frames) /\ allocs \in Nat /\ allocs <= allocs /\ Nodes(r) \subseteq Nat
        /\ StackHolds(stack, proc, jl, allocs, inherited)
    BY <1>4, Known
  <2>3. \A n \in Nodes(r) : n <= allocs => n \in Nodes(jl) /\ r.jobs[n].pid = jl.jobs[n].pid
    BY <1>4
  <2>4. \A i \in DOMAIN stack : stack[i].op \in Collects => \A p \in PidsOf(stack[i].pids) :
          ~NoSuchChild(proc, p) /\ proc[p].job = NoJob => ~NoSuchChild(qs, p) /\ qs[p].job = NoJob
    BY <2>1
  <2> QED
    BY <2>2, <2>3, <2>4, StackStays
<1>7. NobodyStops(qs, r)
  <2>1. NobodyStops(proc, jl)
    BY DEF AInv, Agree
  <2>2. \A n \in Nodes(jl) : jl.jobs[n].pid \in Pids
    BY Known
  <2> QED
    BY <1>2, <1>4, <2>1, <2>2 DEF NobodyStops
<1> QED
  BY <1>3, <1>4, <1>5, <1>6, <1>7 DEF r, qs

(* jobs.                                                                   *)
LEMMA JobsAgree ==
  ASSUME ReapsAtTopOnly, AInv, JobsCommand
  PROVE  Agree'
<1>1. Top.op = "top"
  BY ReapsAtTop DEF JobsCommand
<1>2. /\ jl' = JobReapAndPrune(jl, proc) /\ proc' = Drained(proc)
      /\ UNCHANGED <<stack, allocs, inherited, fate>> /\ last'.node = NoJob
  BY DEF JobsCommand, Report, Result
<1>3. /\ Linked(jl', proc', inherited) /\ FatesKnown(proc', fate)
      /\ StackHolds(stack, proc', jl', allocs, inherited) /\ NobodyStops(proc', jl')
      /\ Nodes(jl') \subseteq Nodes(jl)
  BY <1>1, <1>2, PruneAgrees
<1>4. AnswerTrue'
  BY <1>2, <1>3, AnswerStays, Known
<1> QED
  BY <1>2, <1>3, <1>4 DEF Agree

(* The reaping that `&` begins with in a script.                           *)
LEMMA BeforeAsyncAgrees ==
  ASSUME ReapsAtTopOnly, AInv, Runs("async")
  PROVE  /\ Linked(JobsBeforeAsync, ProcBeforeAsync, inherited)
         /\ FatesKnown(ProcBeforeAsync, fate)
         /\ StackHolds(stack, ProcBeforeAsync, JobsBeforeAsync, allocs, inherited)
         /\ NobodyStops(ProcBeforeAsync, JobsBeforeAsync)
         /\ Nodes(JobsBeforeAsync) \subseteq Nodes(jl)
         /\ JobsOK(JobsBeforeAsync, allocs) /\ ProcBeforeAsync \in [Pids -> Child]
<1>1. CASE Interactive
  BY <1>1, Known DEF JobsBeforeAsync, ProcBeforeAsync, AInv, Agree
<1>2. CASE ~Interactive
  <2>1. Top.op = "top"
    BY <1>2, ReapsAtTop
  <2>2. JobsOK(JobsBeforeAsync, allocs) /\ ProcBeforeAsync \in [Pids -> Child]
    BY BeforeAsyncKeeps DEF AInv, ProcOK
  <2>3. JobsBeforeAsync = JobReapAndPrune(jl, proc) /\ ProcBeforeAsync = Drained(proc)
    BY <1>2 DEF JobsBeforeAsync, ProcBeforeAsync
  <2> QED
    BY <2>1, <2>2, <2>3, PruneAgrees
<1> QED
  BY <1>1, <1>2

(* The fork of `&` fails.                                                  *)
LEMMA AsyncForkFailsAgrees ==
  ASSUME ReapsAtTopOnly, AInv, AsyncForkFails
  PROVE  Agree'
<1>1. /\ jl' = JobsBeforeAsync /\ proc' = ProcBeforeAsync /\ Runs("async")
      /\ UNCHANGED <<stack, allocs, inherited, fate>> /\ last'.node = NoJob
  BY DEF AsyncForkFails, Report, Result
<1>2. /\ Linked(jl', proc', inherited) /\ FatesKnown(proc', fate)
      /\ StackHolds(stack, proc', jl', allocs, inherited) /\ NobodyStops(proc', jl')
      /\ Nodes(jl') \subseteq Nodes(jl)
  BY <1>1, BeforeAsyncAgrees
<1>3. AnswerTrue'
  BY <1>1, <1>2, AnswerStays, Known
<1> QED
  BY <1>1, <1>2, <1>3 DEF Agree

(* The stack sees a job appended.                                          *)
LEMMA RegisterHolds ==
  ASSUME NEW s \in Seq(Frames), NEW ps, NEW l, NEW k \in Nat, NEW inh,
         StackHolds(s, ps, l, k, inh), JobsOK(l, k), NEW p \in Pids, NEW r,
         Nodes(r) = Nodes(l) \cup {k + 1},
         \A n \in Nodes(l) : r.jobs[n].pid = l.jobs[n].pid, NEW qs,
         \A i \in DOMAIN s : s[i].op \in Collects => \A q \in PidsOf(s[i].pids) :
            ~NoSuchChild(ps, q) /\ ps[q].job = NoJob => ~NoSuchChild(qs, q) /\ qs[q].job = NoJob
  PROVE  StackHolds(s, qs, r, k + 1, inh)
<1>1. Nodes(l) \subseteq 1 .. k
  BY PidsOfNodes
<1>2. /\ k + 1 \in Nat /\ k <= k + 1 /\ Nodes(r) \subseteq Nat
      /\ \A n \in Nodes(r) : n <= k => n \in Nodes(l) /\ r.jobs[n].pid = l.jobs[n].pid
  BY <1>1
<1> QED
  BY <1>2, StackStays

(* `&`: a fresh child and its job.                                         *)
LEMMA AsyncAgrees ==
  ASSUME ReapsAtTopOnly, AInv, NEW p \in Pids, Async(p)
  PROVE  Agree'
<1> DEFINE l == JobsBeforeAsync
           ps == ProcBeforeAsync
<1>1. /\ Runs("async") /\ ps[p].st = "none" /\ allocs' = allocs + 1
      /\ proc' = Forked(ps, {p}, allocs + 1) /\ jl' = JobRegister(l, allocs + 1, p)
      /\ UNCHANGED <<stack, inherited, fate>> /\ last'.node = NoJob
  BY DEF Async, Report, Result, Free
<1>2. /\ Linked(l, ps, inherited) /\ FatesKnown(ps, fate)
      /\ StackHolds(stack, ps, l, allocs, inherited) /\ NobodyStops(ps, l)
      /\ Nodes(l) \subseteq Nodes(jl) /\ JobsOK(l, allocs)
  BY <1>1, BeforeAsyncAgrees
<1> HIDE DEF l, ps
<1>3. /\ \A q \in Pids \ {p} : proc'[q] = ps[q]
      /\ proc'[p].st = "run" /\ proc'[p].job = allocs + 1
  BY <1>1 DEF Forked, ChildIn
<1>4. ps[p].job = NoJob
  BY <1>1, <1>2 DEF Linked, ChildHasJob, NoSuchChild
<1>5. /\ Nodes(jl') = Nodes(l) \cup {allocs + 1} /\ allocs + 1 \notin Nodes(l)
      /\ jl'.jobs[allocs + 1].state = "RUNNING"
      /\ \A n \in Nodes(l) : jl'.jobs[n] = l.jobs[n]
  BY <1>1, <1>2, Known, Registered
<1>6. Linked(jl', proc', inherited)
  <2>1. ps[p].st \notin {"other"} /\ ~NoSuchChild(proc', p)
    BY <1>1, <1>3 DEF NoSuchChild
  <2>2. Linked(JobRegister(l, allocs + 1, p), proc', inherited)
    BY <1>2, <1>3, <1>4, <2>1, Known, RegisterLinked
  <2> QED
    BY <1>1, <2>2
<1>7. FatesKnown(proc', fate)
  BY <1>2, <1>3 DEF FatesKnown
<1>8. StackHolds(stack, proc', jl', allocs + 1, inherited)
  <2>1. \A i \in DOMAIN stack : stack[i].op \in Collects => PidsOf(stack[i].pids) \subseteq Pids
    <3>1. \A i \in DOMAIN stack : stack[i] \in Frames
      BY Known
    <3> QED
      BY <3>1 DEF Frames, FrameType, PidsOf
  <2>2. \A i \in DOMAIN stack : stack[i].op \in Collects => \A q \in PidsOf(stack[i].pids) :
          ~NoSuchChild(ps, q) /\ ps[q].job = NoJob => ~NoSuchChild(proc', q) /\ proc'[q].job = NoJob
    BY <1>1, <1>3, <2>1 DEF NoSuchChild
  <2> QED
    BY <1>2, <1>5, <2>2, Known, RegisterHolds
<1>9. NobodyStops(proc', jl')
  BY <1>2, <1>3, <1>5 DEF NobodyStops
<1>10. AnswerTrue'
  <2>1. allocs' \in Nat /\ allocs <= allocs' /\ Nodes(l) \subseteq 1 .. allocs
    BY <1>1, <1>2, Known
  <2>2. \A n \in Nodes(jl') : n <= allocs => n \in Nodes(jl)
    BY <1>2, <1>5, <2>1, Known
  <2> QED
    BY <1>1, <2>1, <2>2, AnswerStays
<1> QED
  BY <1>1, <1>6, <1>7, <1>8, <1>9, <1>10 DEF Agree

(* What a wait that ends leaves below it: job_wait takes a job's child,    *)
(* and no frame has collected on that one.                                 *)
LEMMA BelowWait ==
  ASSUME AInv, NEW qs, NEW r, Nodes(r) \subseteq Nodes(jl),
         \A n \in Nodes(r) : r.jobs[n].pid = jl.jobs[n].pid,
         \A q \in Pids : \/ qs[q] = proc[q]
                         \/ proc[q].job # NoJob /\ qs[q].st = "none" /\ qs[q].job = NoJob
  PROVE  /\ Tail(stack) \in Seq(Frames)
         /\ StackHolds(Tail(stack), qs, r, allocs, inherited)
         /\ FatesKnown(qs, fate)
<1> DEFINE s == Tail(stack)
<1>1. s \in Seq(Frames) /\ StackHolds(s, proc, jl, allocs, inherited)
  BY Known, PopHolds
<1>2. \A i \in DOMAIN s : s[i].op \in Collects => PidsOf(s[i].pids) \subseteq Pids
  <2>1. \A i \in DOMAIN s : s[i] \in Frames
    BY <1>1
  <2> QED
    BY <2>1 DEF Frames, FrameType, PidsOf
<1> HIDE DEF s
<1>3. \A i \in DOMAIN s : s[i].op \in Collects => \A q \in PidsOf(s[i].pids) :
        ~NoSuchChild(proc, q) /\ proc[q].job = NoJob => ~NoSuchChild(qs, q) /\ qs[q].job = NoJob
  BY <1>2 DEF NoSuchChild
<1>4. /\ allocs \in Nat /\ allocs <= allocs /\ Nodes(r) \subseteq Nat
      /\ \A n \in Nodes(r) : n <= allocs => n \in Nodes(jl) /\ r.jobs[n].pid = jl.jobs[n].pid
  BY Known
<1>5. StackHolds(s, qs, r, allocs, inherited)
  BY <1>1, <1>3, <1>4, StackStays
<1>6. FatesKnown(qs, fate)
  BY Known DEF FatesKnown
<1> QED
  BY <1>1, <1>5, <1>6 DEF s

(* wait starts at the first job.                                           *)
LEMMA WaitAllAgrees ==
  ASSUME AInv, WaitAll
  PROVE  Agree'
<1> DEFINE n == First(Nodes(jl))
           f == [Frame("waitall") EXCEPT !.node = n, !.next = NextNode(jl, n)]
<1>1. UNCHANGED <<proc, jl, allocs, fate, inherited>> /\ (last' = last \/ last'.node = NoJob)
  BY DEF WaitAll, Report, Result
<1>2. stack' = stack \/ stack' = <<f>> \o stack
  BY DEF WaitAll, Push
<1>3. n \in 0 .. allocs /\ NextNode(jl, n) \in 0 .. allocs /\ allocs \in 0 .. MaxJobs
  BY Known, Searches, Before DEF AInv
<1>4. f \in Frames
  <2>1. n \in 0 .. MaxJobs /\ NextNode(jl, n) \in 0 .. MaxJobs
    BY <1>3, Known
  <2> QED
    BY <2>1, WaitAllFrame
<1>5. f.op = "waitall" /\ f.node = n /\ f.next = NextNode(jl, n)
  BY DEF Frame
<1>6. \A m \in Nodes(jl) : m >= n /\ (m = n \/ m >= NextNode(jl, n))
  <2>1. Nodes(jl) \in SUBSET Nat /\ {m \in Nodes(jl) : m > n} \in SUBSET Nat /\ n \in Nat
    BY <1>3, Known
  <2>2. \A m \in Nodes(jl) : n <= m
    BY <2>1, FirstInSet
  <2>3. \A m \in {k \in Nodes(jl) : k > n} : NextNode(jl, n) <= m
    BY <2>1, FirstInSet DEF NextNode
  <2> HIDE DEF n
  <2> QED
    BY <1>3, <2>1, <2>2, <2>3
<1> HIDE DEF f, n
<1>7. FrameHolds(f, proc, jl, allocs, inherited)
  <2>1. Stands(f, jl, allocs)
    BY <1>3, <1>5, Known DEF Stands
  <2>2. Walked(f, jl, inherited)
    BY <1>5, <1>6 DEF Walked
  <2> QED
    BY <1>5, <2>1, <2>2 DEF FrameHolds, Waits, Collects
<1>8. StackHolds(<<f>> \o stack, proc, jl, allocs, inherited)
  <2>1. \A i \in DOMAIN stack : Apart(f, stack[i])
    BY <1>5 DEF Apart, Collects
  <2> QED
    BY <1>4, <1>7, <2>1, Known, PushHolds
<1>9. AnswerTrue'
  BY <1>1, AnswerStays, Known
<1> QED
  BY <1>1, <1>2, <1>8, <1>9 DEF Agree, AInv

(* wait: one turn of the loop, from node n with pid p.                     *)
LEMMA TurnAgrees ==
  ASSUME AInv, WaitAllStep
  PROVE  /\ Linked(jl', proc', inherited) /\ FatesKnown(proc', fate)
         /\ StackHolds(Tail(stack), proc', jl', allocs, inherited)
         /\ NobodyStops(proc', jl')
         /\ Nodes(jl') \subseteq Nodes(jl)
         /\ ~MayStop /\ Top.node > inherited =>
              Nodes(jl') = Nodes(jl) \ {Top.node} /\ proc[jl.jobs[Top.node].pid].st = "zombie"
<1> DEFINE n == Top.node
           p == jl.jobs[n].pid
           waits == jl.jobs[n].state = "RUNNING"
           done == RemoveIfDone(IF waits THEN JobsAfterWait(p) ELSE jl, n)
<1>1. /\ n \in Nodes(jl) /\ (waits => WaitReturns(p))
      /\ jl' = done /\ proc' = IF waits THEN ProcAfterWait(p) ELSE proc
  BY DEF WaitAllStep
<1>2. NobodyStops(proc, jl)
  BY DEF AInv, Agree
<1>3. CASE waits
  <2>1. jl' = RemoveIfDone(JobsAfterWait(p), n) /\ proc' = ProcAfterWait(p)
    BY <1>1, <1>3
  <2>2. /\ Linked(jl', proc', inherited)
        /\ n > inherited => Nodes(jl') = Nodes(jl) \ {n} /\ proc[p].st = "zombie"
        /\ \A m \in Nodes(jl') : m \in Nodes(jl) /\ jl'.jobs[m] = jl.jobs[m]
        /\ \A q \in Pids : \/ proc'[q] = proc[q]
                           \/ proc[q].job # NoJob /\ proc'[q].st = "none" /\ proc'[q].job = NoJob
    BY <1>1, <1>3, <2>1, Known, WaitLinked, SMTT(40) DEF AInv
  <2>3. /\ FatesKnown(proc', fate)
        /\ StackHolds(Tail(stack), proc', jl', allocs, inherited)
    <3>1. Nodes(jl') \subseteq Nodes(jl) /\ \A m \in Nodes(jl') : jl'.jobs[m].pid = jl.jobs[m].pid
      BY <2>2
    <3> QED
      BY <2>2, <3>1, BelowWait
  <2>4. NobodyStops(proc', jl')
    BY <1>2, <2>2 DEF NobodyStops
  <2> QED
    BY <2>2, <2>3, <2>4
<1>4. CASE ~waits
  <2>1. jl.jobs[n].state # "DONE"
    BY <1>1, Known DEF Linked, JobHasChild
  <2>2. jl' = jl /\ proc' = proc
    BY <1>1, <1>4, <2>1 DEF RemoveIfDone, DoneNodes
  <2>3. StackHolds(Tail(stack), proc, jl, allocs, inherited)
    BY Known, PopHolds
  <2>4. MayStop
    BY <1>1, <1>2, <1>4 DEF NobodyStops
  <2> QED
    BY <1>2, <2>2, <2>3, <2>4, Known
<1> QED
  BY <1>3, <1>4

(* wait goes on with the next job, or ends.                                *)
LEMMA WaitAllStepAgrees ==
  ASSUME AInv, WaitAllStep
  PROVE  Agree'
<1> DEFINE f == [Top EXCEPT !.node = Top.next, !.next = NextNode(jl', Top.next)]
<1>1. /\ Linked(jl', proc', inherited) /\ FatesKnown(proc', fate)
      /\ StackHolds(Tail(stack), proc', jl', allocs, inherited)
      /\ NobodyStops(proc', jl')
      /\ Nodes(jl') \subseteq Nodes(jl)
      /\ ~MayStop /\ Top.node > inherited => Nodes(jl') = Nodes(jl) \ {Top.node}
  BY TurnAgrees
<1>2. /\ Top.op = "waitall" /\ UNCHANGED <<allocs, inherited, fate>>
      /\ Pop \/ (Top.next \in Nodes(jl') /\ Swap(f))
      /\ last' = last \/ last'.node = NoJob
  BY DEF WaitAllStep, Report, Result
<1>3. StackHolds(stack', proc', jl', allocs', inherited')
  <2>1. CASE Pop
    BY <1>1, <1>2, <2>1 DEF Pop
  <2>2. CASE Top.next \in Nodes(jl') /\ Swap(f)
    <3>1. /\ NextNode(jl', Top.next) \in 0 .. allocs /\ Top.next \in 1 .. allocs
          /\ allocs \in 0 .. MaxJobs /\ allocs \in Nat
      <4>1. JobsOK(jl', allocs)
        BY <1>2, WaitAllStepKeeps DEF AInv, IInv, TypeOK, JobNumbers, JobsOK
      <4> QED
        BY <1>1, <2>2, <4>1, Known, Searches, Before DEF AInv
    <3>2. f \in Frames
      <4>1. Top.next \in 0 .. MaxJobs /\ NextNode(jl', Top.next) \in 0 .. MaxJobs
        BY <3>1, Known
      <4> QED
        BY <1>2, <4>1, TopFrames, Numbers, Known
    <3>3. f.op = "waitall" /\ f.node = Top.next /\ f.next = NextNode(jl', Top.next)
      BY <1>2, Known DEF FrameType
    <3>4. \A m \in Nodes(jl') : m > Top.next => NextNode(jl', Top.next) <= m
      <4>1. {m \in Nodes(jl') : m > Top.next} \in SUBSET Nat
        BY <1>1, Known
      <4> QED
        BY <4>1, FirstInSet DEF NextNode
    <3> HIDE DEF f
    <3>5. Walked(Top, jl, inherited)
      BY Below DEF FrameHolds
    <3>6. Walked(f, jl', inherited)
      <4> SUFFICES ASSUME ~MayStop, NEW m \in Nodes(jl'), m > inherited
                   PROVE  m >= Top.next /\ (m = Top.next \/ m >= NextNode(jl', Top.next))
        BY <3>3 DEF Walked
      <4>1. m \in Nodes(jl) /\ m \in Nat
        BY <1>1, Known
      <4>2. m = Top.node \/ m >= Top.next
        BY <1>2, <3>1, <3>5, <4>1 DEF Walked, NoJob
      <4>3. m # Top.node
        BY <1>1
      <4> QED
        BY <3>1, <3>4, <4>1, <4>2, <4>3
    <3>7. FrameHolds(f, proc', jl', allocs, inherited)
      <4>1. Stands(f, jl', allocs)
        BY <3>1, <3>3 DEF Stands
      <4> QED
        BY <3>3, <3>6, <4>1 DEF FrameHolds, Waits, Collects
    <3>8. StackHolds(<<f>> \o Tail(stack), proc', jl', allocs, inherited)
      <4>1. f.op \notin Collects /\ f.op # "top"
        BY <3>3 DEF Collects
      <4> QED
        BY <1>1, <3>2, <3>7, <4>1, Below, SwapHolds
    <3>9. stack' = <<f>> \o Tail(stack)
      BY <2>2 DEF Swap
    <3> QED
      BY <1>1, <1>2, <3>8, <3>9
  <2> QED
    BY <1>2, <2>1, <2>2
<1>4. AnswerTrue'
  BY <1>1, <1>2, AnswerStays, Known
<1> QED
  BY <1>1, <1>2, <1>3, <1>4 DEF Agree

(* wait p starts at the job of p.                                          *)
LEMMA WaitPidAgrees ==
  ASSUME AInv, NEW p \in Pids, WaitPid(p)
  PROVE  Agree'
<1> DEFINE n == JobFindByPid(jl, p)
           f == [Frame("waitpid") EXCEPT !.node = n, !.pids = <<p>>]
<1>1. UNCHANGED <<proc, jl, allocs, fate, inherited>> /\ (last' = last \/ last'.node = NoJob)
  BY DEF WaitPid, Report, Result
<1>2. stack' = stack \/ (n # NoJob /\ stack' = <<f>> \o stack)
  BY DEF WaitPid, Push
<1>3. n \in 0 .. allocs /\ n \in 0 .. MaxJobs /\ allocs \in Nat
  BY Known, Searches, Before DEF AInv
<1>4. f \in Frames
  <2>1. <<p>> \in Seq(Pids) \ {<<>>} /\ "waitpid" \in Ops
    BY DEF Ops, Blocking
  <2> QED
    BY <1>3, <2>1, NewFrames
<1>5. f.op = "waitpid" /\ f.node = n /\ f.next = NoJob /\ Head(f.pids) = p
  BY DEF Frame
<1>6. n \in Nodes(jl) => jl.jobs[n].pid = p
  <2>1. NodesByPid(jl, p) \in SUBSET Nat
    BY Known DEF NodesByPid
  <2>2. n \in NodesByPid(jl, p) \cup {NoJob}
    BY <2>1, FirstInSet DEF JobFindByPid
  <2>3. NoJob \notin Nodes(jl)
    BY Known DEF NoJob
  <2> HIDE DEF n
  <2> QED
    BY <2>2, <2>3 DEF NodesByPid
<1> HIDE DEF f, n
<1>7. FrameHolds(f, proc, jl, allocs, inherited)
  <2>1. Stands(f, jl, allocs)
    BY <1>3, <1>5, <1>6 DEF Stands, NoJob
  <2> QED
    BY <1>5, <2>1 DEF FrameHolds, Waits, Collects, Walked
<1>8. StackHolds(<<f>> \o stack, proc, jl, allocs, inherited)
  <2>1. \A i \in DOMAIN stack : Apart(f, stack[i])
    BY <1>5 DEF Apart, Collects
  <2> QED
    BY <1>4, <1>7, <2>1, Known, PushHolds
<1>9. StackHolds(stack', proc, jl, allocs, inherited)
  BY <1>2, <1>8, Known
<1>10. AnswerTrue'
  BY <1>1, AnswerStays, Known
<1> QED
  BY <1>1, <1>9, <1>10 DEF Agree, AInv

(* wait p returns: what it reports of a job of this shell is its fate.     *)
LEMMA WaitPidReturnAgrees ==
  ASSUME AInv, WaitPidReturn
  PROVE  Agree'
<1> DEFINE n == Top.node
<1>1. /\ n \in Nodes(jl) /\ Top.op = "waitpid" /\ WaitReturns(Pid)
      /\ proc' = ProcAfterWait(Pid) /\ jl' = RemoveIfDone(JobsAfterWait(Pid), n)
      /\ stack' = Tail(stack) /\ last' = Result("wait", n, WaitCode(Pid))
      /\ UNCHANGED <<allocs, fate, inherited>>
  BY DEF WaitPidReturn, Pop, Report
<1>2. Pid = jl.jobs[n].pid
  <2>1. Stands(Top, jl, allocs)
    BY Below DEF FrameHolds
  <2> QED
    BY <1>1, <2>1 DEF Stands, Pid
<1>3. /\ Linked(jl', proc', inherited)
      /\ n > inherited => /\ proc[Pid].st = "zombie" /\ WaitCode(Pid) = proc[Pid].code
                          /\ Nodes(jl') = Nodes(jl) \ {n}
      /\ \A m \in Nodes(jl') : m \in Nodes(jl) /\ jl'.jobs[m] = jl.jobs[m]
      /\ \A q \in Pids : \/ proc'[q] = proc[q]
                         \/ proc[q].job # NoJob /\ proc'[q].st = "none" /\ proc'[q].job = NoJob
  BY <1>1, <1>2, Known, WaitLinked, SMTT(40) DEF AInv
<1>4. /\ FatesKnown(proc', fate)
      /\ StackHolds(Tail(stack), proc', jl', allocs, inherited)
  <2>1. Nodes(jl') \subseteq Nodes(jl) /\ \A m \in Nodes(jl') : jl'.jobs[m].pid = jl.jobs[m].pid
    BY <1>3
  <2> QED
    BY <1>3, <2>1, BelowWait
<1>5. NobodyStops(proc', jl')
  BY <1>3 DEF NobodyStops, AInv, Agree
<1>6. AnswerTrue'
  <2>1. n \in 1 .. allocs /\ allocs \in Nat /\ Pid \in Pids
    BY <1>1, <1>2, Known
  <2>2. n > inherited => proc[Pid].job = n
    BY <1>1, <1>2, Known DEF Linked, JobHasChild
  <2>3. n > inherited => fate[n] = proc[Pid].code
    BY <1>3, <2>1, <2>2, Known DEF FatesKnown, NoJob
  <2>4. last'.node = n /\ last'.code = WaitCode(Pid)
    BY <1>1 DEF Result
  <2> HIDE DEF n
  <2> QED
    BY <1>1, <1>3, <2>1, <2>3, <2>4 DEF AnswerTrue
<1> QED
  BY <1>1, <1>3, <1>4, <1>5, <1>6 DEF Agree

(* A process that starts over with one frame: a forked subshell, and, for  *)
(* completeness, one that has read freed memory.                           *)
LEMMA StartAgrees ==
  ASSUME AInv, ReadFreedJob \/ EnterSubshell
  PROVE  Agree'
<1>1. PICK op \in {"top", "undefined"} : stack' = <<Frame(op)>>
  BY DEF ReadFreedJob, EnterSubshell
<1>2. \A ps, k, inh : k \in Nat => FrameHolds(Frame(op), ps, jl, k, inh)
  BY DEF FrameHolds, Waits, Stands, Walked, Frame, Collects, NoJob
<1>3. UNCHANGED <<jl, allocs, fate>>
  BY DEF ReadFreedJob, EnterSubshell
<1>4. StackHolds(stack', proc', jl', allocs', inherited')
  BY <1>1, <1>2, <1>3, Known, BaseHolds
<1>5. CASE ReadFreedJob
  <2>1. UNCHANGED <<proc, inherited, last>>
    BY <1>5 DEF ReadFreedJob
  <2>2. AnswerTrue'
    BY <1>3, <2>1, AnswerStays, Known
  <2> QED
    BY <1>3, <1>4, <2>1, <2>2 DEF Agree, AInv
<1>6. CASE EnterSubshell
  <2>1. proc' = NotMine(proc) /\ inherited' = allocs /\ last'.node = NoJob
    BY <1>6 DEF EnterSubshell, Report, Result
  <2>2. Linked(jl', proc', inherited')
    BY <1>3, <2>1, Known, NotMineLinked
  <2>3. \A q \in Pids : proc'[q].st \in {"none", "other"}
    BY <2>1 DEF NotMine, NotAChild, ChildIn
  <2>4. FatesKnown(proc', fate') /\ NobodyStops(proc', jl')
    BY <1>3, <2>3 DEF FatesKnown, NobodyStops, AInv, Agree
  <2>5. AnswerTrue'
    BY <2>1, Known DEF AnswerTrue, NoJob
  <2> QED
    BY <1>4, <2>2, <2>4, <2>5 DEF Agree
<1> QED
  BY <1>5, <1>6

(* Children forked for no job keep the accounts.                           *)
LEMMA ForkedAgrees ==
  ASSUME AInv, NEW S \in SUBSET Free(proc), proc' = Forked(proc, S, NoJob),
         UNCHANGED <<jl, allocs, fate, inherited>>, last' = last \/ last'.node = NoJob
  PROVE  /\ Linked(jl', proc', inherited') /\ FatesKnown(proc', fate')
         /\ AnswerTrue' /\ NobodyStops(proc', jl')
<1>1. Linked(jl, proc', inherited)
  BY Known, ForkLinked
<1>2. \A q \in Pids : proc'[q] = proc[q] \/ proc'[q].st = "run"
  BY DEF Forked, ChildIn
<1>3. FatesKnown(proc', fate)
  BY <1>2, Known DEF FatesKnown
<1>4. NobodyStops(proc', jl)
  BY <1>2 DEF NobodyStops, AInv, Agree
<1>5. AnswerTrue'
  BY AnswerStays, Known
<1> QED
  BY <1>1, <1>3, <1>4, <1>5

(* An external command or a subshell starts.                               *)
LEMMA ForkAndWaitAgrees ==
  ASSUME AInv, NEW cmd \in {"external", "subshell"}, NEW p \in Pids, ForkAndWait(cmd, p)
  PROVE  Agree'
<1> DEFINE f == [Frame(cmd) EXCEPT !.pids = <<p>>]
<1>1. /\ p \in Free(proc) /\ proc' = Forked(proc, {p}, NoJob) /\ stack' = <<f>> \o stack
      /\ UNCHANGED <<jl, allocs, fate, inherited, last>>
  BY DEF ForkAndWait, Push
<1>2. f \in Frames
  <2>1. <<p>> \in Seq(Pids) \ {<<>>} /\ cmd \in Ops
    BY DEF Ops, Blocking
  <2> QED
    BY <2>1, NewFrames, Numbers
<1>3. /\ f.op \in Collects /\ f.node = NoJob /\ f.next = NoJob
      /\ Distinct(f.pids) /\ PidsOf(f.pids) = {p}
  BY DEF Frame, Collects, Distinct, PidsOf
<1> HIDE DEF f
<1>4. StackHolds(stack', proc', jl, allocs, inherited)
  <2>1. Nodes(jl) \subseteq Nat
    BY Known
  <2> QED
    BY <1>1, <1>2, <1>3, <2>1, Known, ForkHolds
<1>5. {p} \in SUBSET Free(proc)
  BY <1>1
<1> QED
  BY <1>1, <1>4, <1>5, ForkedAgrees DEF Agree

(* A pipeline forks its stages.                                            *)
LEMMA PipelineAgrees ==
  ASSUME AInv, NEW s \in Stages, Pipeline(s)
  PROVE  Agree'
<1> DEFINE f == [Frame("body") EXCEPT !.pids = s]
<1>1. /\ PidsOf(s) \subseteq Free(proc) /\ Distinct(s)
      /\ proc' = Forked(proc, PidsOf(s), NoJob) /\ stack' = <<f>> \o stack
      /\ UNCHANGED <<jl, allocs, fate, inherited, last>>
  BY DEF Pipeline, Push
<1>2. f \in Frames
  <2>1. s \in Seq(Pids) \ {<<>>} /\ "body" \in Ops
    BY JobControlAssumption, EmptySeq DEF Stages, Ops, Issuing
  <2> QED
    BY <2>1, NewFrames, Numbers
<1>3. /\ f.op \in Collects /\ f.node = NoJob /\ f.next = NoJob /\ f.pids = s
  BY DEF Frame, Collects
<1> HIDE DEF f
<1>4. StackHolds(stack', proc', jl, allocs, inherited)
  <2>1. Nodes(jl) \subseteq Nat
    BY Known
  <2> QED
    BY <1>1, <1>2, <1>3, <2>1, Known, ForkHolds
<1> QED
  BY <1>1, <1>4, ForkedAgrees DEF Agree

(* A later fork of a pipeline fails: its first stages run on unattended.   *)
LEMMA PipelineForkFailsAgrees ==
  ASSUME AInv, NEW s, PipelineForkFails(s)
  PROVE  Agree'
<1>1. /\ PidsOf(s) \subseteq Free(proc) /\ proc' = Forked(proc, PidsOf(s), NoJob)
      /\ UNCHANGED <<jl, stack, allocs, fate, inherited>> /\ last'.node = NoJob
  BY DEF PipelineForkFails, Report, Result
<1>2. \A q \in Pids : NoSuchChild(proc, q) \/ proc'[q] = proc[q]
  BY <1>1 DEF Forked, Free, NoSuchChild
<1>3. StackHolds(stack, proc', jl, allocs, inherited)
  <2>1. \A i \in DOMAIN stack : stack[i].op \in Collects => PidsOf(stack[i].pids) \subseteq Pids
    <3>1. \A i \in DOMAIN stack : stack[i] \in Frames
      BY Known
    <3> QED
      BY <3>1 DEF Frames, FrameType, PidsOf
  <2>2. \A i \in DOMAIN stack : stack[i].op \in Collects => \A q \in PidsOf(stack[i].pids) :
          ~NoSuchChild(proc, q) /\ proc[q].job = NoJob => ~NoSuchChild(proc', q) /\ proc'[q].job = NoJob
    BY <1>2, <2>1 DEF NoSuchChild
  <2>3. allocs \in Nat /\ allocs <= allocs /\ Nodes(jl) \subseteq Nat
        /\ \A n \in Nodes(jl) : n <= allocs => n \in Nodes(jl) /\ jl.jobs[n].pid = jl.jobs[n].pid
    BY Known
  <2> QED
    BY <2>2, <2>3, Known, StackStays
<1> QED
  BY <1>1, <1>3, ForkedAgrees DEF Agree

(* The child a frame collects next is its own: no job's, and of no frame   *)
(* below.                                                                  *)
LEMMA OwnChild ==
  ASSUME AInv, Top.op \in Collects
  PROVE  /\ Pid \in Pids /\ Pid \in PidsOf(Top.pids) /\ Top.pids \in Seq(Pids) \ {<<>>}
         /\ ~NoSuchChild(proc, Pid) /\ proc[Pid].job = NoJob
         /\ \A i \in DOMAIN Tail(stack) : Tail(stack)[i].op \in Collects =>
              Pid \notin PidsOf(Tail(stack)[i].pids)
<1>1. Pid \in Pids /\ Top.pids \in Seq(Pids) \ {<<>>}
  BY PidIsPid DEF AInv, Collects, Blocking
<1>2. Pid \in PidsOf(Top.pids)
  <2>1. Pid = Top.pids[1] /\ 1 \in DOMAIN Top.pids
    BY <1>1, HeadTailProperties, LenProperties, EmptySeq DEF Pid
  <2> QED
    BY <2>1 DEF PidsOf
<1>3. Waits(Top, proc) /\ \A i \in DOMAIN Tail(stack) : Apart(Top, Tail(stack)[i])
  BY Below DEF FrameHolds
<1> QED
  BY <1>1, <1>2, <1>3 DEF Waits, Apart

(* Whatever becomes of that child, the frames below hold.                  *)
LEMMA BelowCollect ==
  ASSUME AInv, Top.op \in Collects, NEW qs, NEW k \in Nat, allocs <= k, NEW r,
         Nodes(r) \subseteq Nat,
         \A n \in Nodes(r) : n <= allocs => n \in Nodes(jl) /\ r.jobs[n].pid = jl.jobs[n].pid,
         \A q \in Pids \ {Pid} : qs[q] = proc[q]
  PROVE  /\ Tail(stack) \in Seq(Frames)
         /\ StackHolds(Tail(stack), qs, r, k, inherited)
<1> DEFINE s == Tail(stack)
<1>1. s \in Seq(Frames) /\ StackHolds(s, proc, jl, allocs, inherited)
  BY Known, PopHolds
<1>2. \A i \in DOMAIN s : s[i].op \in Collects => PidsOf(s[i].pids) \subseteq Pids \ {Pid}
  <2>1. \A i \in DOMAIN s : s[i] \in Frames
    BY <1>1
  <2>2. \A i \in DOMAIN s : s[i].op \in Collects => Pid \notin PidsOf(s[i].pids)
    BY OwnChild
  <2> HIDE DEF s
  <2> QED
    BY <2>1, <2>2 DEF Frames, FrameType, PidsOf
<1> HIDE DEF s
<1>3. \A i \in DOMAIN s : s[i].op \in Collects => \A q \in PidsOf(s[i].pids) :
        ~NoSuchChild(proc, q) /\ proc[q].job = NoJob => ~NoSuchChild(qs, q) /\ qs[q].job = NoJob
  BY <1>2 DEF NoSuchChild
<1>4. allocs \in Nat
  BY Known
<1>5. StackHolds(s, qs, r, k, inherited)
  BY <1>1, <1>3, <1>4, StackStays, SMTT(40)
<1> QED
  BY <1>1, <1>5 DEF s

(* The child is collected, or an interrupted caller gives up on it.        *)
LEMMA CollectAgrees ==
  ASSUME AInv, Top.op \in Collects, proc' = ProcCollected(Top, Pid),
         UNCHANGED <<jl, allocs, fate, inherited>>, last' = last \/ last'.node = NoJob
  PROVE  /\ Linked(jl', proc', inherited') /\ FatesKnown(proc', fate')
         /\ StackHolds(Tail(stack), proc', jl', allocs', inherited')
         /\ AnswerTrue' /\ NobodyStops(proc', jl')
         /\ \A q \in Pids \ {Pid} : proc'[q] = proc[q]
<1>1. proc' = proc \/ proc' = Reaped(proc, {Pid})
  BY DEF ProcCollected
<1>2. Linked(jl, proc', inherited)
  BY <1>1, OwnChild, Known, ReapLinked
<1>3. \A q \in Pids : proc'[q] = proc[q] \/ (q = Pid /\ proc'[q].st = "none")
  BY <1>1, Known DEF Reaped, NotAChild, ChildIn
<1>4. StackHolds(Tail(stack), proc', jl, allocs, inherited)
  <2>1. /\ allocs \in Nat /\ allocs <= allocs /\ Nodes(jl) \subseteq Nat
        /\ \A n \in Nodes(jl) : n <= allocs => n \in Nodes(jl) /\ jl.jobs[n].pid = jl.jobs[n].pid
        /\ \A q \in Pids \ {Pid} : proc'[q] = proc[q]
    BY <1>3, Known
  <2> QED
    BY <2>1, BelowCollect
<1>5. FatesKnown(proc', fate) /\ NobodyStops(proc', jl)
  BY <1>3, Known DEF FatesKnown, NobodyStops, AInv, Agree
<1>6. AnswerTrue'
  BY AnswerStays, Known
<1> QED
  BY <1>2, <1>3, <1>4, <1>5, <1>6

(* An external command or a subshell has ended.                            *)
LEMMA ChildReturnAgrees ==
  ASSUME AInv, ChildReturn
  PROVE  Agree'
<1>1. /\ Top.op \in Collects /\ proc' = ProcCollected(Top, Pid) /\ stack' = Tail(stack)
      /\ UNCHANGED <<jl, allocs, fate, inherited>> /\ last'.node = NoJob
  BY DEF ChildReturn, Report, Result, Pop, Collects
<1> QED
  BY <1>1, CollectAgrees DEF Agree

(* A pipeline has collected a stage.                                       *)
LEMMA CollectStageAgrees ==
  ASSUME AInv, CollectStage
  PROVE  Agree'
<1>1. Top.op = "collect" /\ Top.op \in Collects /\ proc' = ProcCollected(Top, Pid)
      /\ UNCHANGED <<jl, allocs, fate, inherited>>
  BY DEF CollectStage, Collects
<1>2. PICK rc \in Statuses \cup {Flow} :
        LET f == [Top EXCEPT !.pids = Tail(@), !.rc = rc, !.eintr = FALSE]
        IN  \/ Len(Top.pids) = 1 /\ Pop /\ Report("pipe", NoJob, rc)
            \/ Len(Top.pids) # 1 /\ f \in Frames /\ Swap(f) /\ last' = last
  BY NextStage DEF AInv
<1> DEFINE f == [Top EXCEPT !.pids = Tail(@), !.rc = rc, !.eintr = FALSE]
<1>3. last' = last \/ last'.node = NoJob
  BY <1>2 DEF Report, Result
<1>4. /\ Linked(jl', proc', inherited') /\ FatesKnown(proc', fate')
      /\ StackHolds(Tail(stack), proc', jl', allocs', inherited')
      /\ AnswerTrue' /\ NobodyStops(proc', jl')
      /\ \A q \in Pids \ {Pid} : proc'[q] = proc[q]
  BY <1>1, <1>3, CollectAgrees
<1>5. CASE Pop
  BY <1>4, <1>5 DEF Pop, Agree
<1>6. CASE f \in Frames /\ Swap(f)
  <2>1. f.op = "collect" /\ f.pids = Tail(Top.pids) /\ f.node = Top.node /\ f.next = Top.next
    BY <1>1, Known DEF FrameType
  <2>2. Waits(Top, proc) /\ Stands(Top, jl, allocs)
    BY Below DEF FrameHolds
  <2>3. Top.pids \in Seq(Pids) \ {<<>>}
    BY <1>1, OwnChild
  <2>4. /\ DOMAIN Tail(Top.pids) \subseteq Nat
        /\ 1 \in DOMAIN Top.pids /\ Pid = Top.pids[1]
        /\ \A i \in DOMAIN Tail(Top.pids) :
             i + 1 \in DOMAIN Top.pids /\ i + 1 # 1 /\ Tail(Top.pids)[i] = Top.pids[i + 1]
    <3> DEFINE s == Top.pids
               t == Tail(s)
    <3>1. Len(s) \in Nat /\ Len(s) # 0 /\ DOMAIN s = 1 .. Len(s)
      BY <2>3, EmptySeq, LenProperties
    <3>2. t \in Seq(Pids) /\ Head(s) = s[1] /\ Len(t) = Len(s) - 1
          /\ \A i \in 1 .. Len(t) : t[i] = s[i + 1]
      BY <2>3, HeadTailProperties
    <3> HIDE DEF t, s
    <3>3. DOMAIN t = 1 .. Len(t)
      BY <3>2, LenProperties
    <3> QED
      BY <3>1, <3>2, <3>3 DEF Pid, s, t
  <2> HIDE DEF f
  <2>5. Distinct(Top.pids)
    BY <1>1, <2>2 DEF Waits
  <2>6. /\ Distinct(f.pids)
        /\ \A i \in DOMAIN f.pids : f.pids[i] \in PidsOf(Top.pids) /\ f.pids[i] # Pid
    <3> DEFINE s == Top.pids
               t == Tail(s)
    <3>1. /\ DOMAIN t \subseteq Nat /\ 1 \in DOMAIN s /\ Pid = s[1] /\ f.pids = t
          /\ \A i \in DOMAIN t : i + 1 \in DOMAIN s /\ i + 1 # 1 /\ t[i] = s[i + 1]
          /\ \A i, j \in DOMAIN s : i # j => s[i] # s[j]
      BY <2>1, <2>4, <2>5 DEF Distinct
    <3> HIDE DEF s, t
    <3>2. \A i, j \in DOMAIN t : i # j => t[i] # t[j]
      BY <3>1
    <3>3. \A i \in DOMAIN t : t[i] \in PidsOf(s) /\ t[i] # Pid
      BY <3>1 DEF PidsOf
    <3> QED
      BY <3>1, <3>2, <3>3 DEF Distinct, s
  <2>7. PidsOf(f.pids) \subseteq PidsOf(Top.pids) \ {Pid}
    BY <2>6 DEF PidsOf
  <2>8. PidsOf(Top.pids) \subseteq Pids
    BY <2>3 DEF PidsOf
  <2>9. Waits(f, proc')
    BY <1>1, <1>4, <2>2, <2>6, <2>7, <2>8 DEF Waits, NoSuchChild
  <2>10. FrameHolds(f, proc', jl', allocs', inherited')
    BY <1>1, <2>1, <2>2, <2>9 DEF FrameHolds, Stands, Walked
  <2>11. StackHolds(<<f>> \o Tail(stack), proc', jl', allocs', inherited')
    <3>1. f.op # "top" /\ Top.op \in Collects /\ PidsOf(f.pids) \subseteq PidsOf(Top.pids)
      BY <1>1, <2>1, <2>7
    <3>2. StackHolds(Tail(stack), proc', jl', allocs', inherited') /\ f \in Frames
      BY <1>4, <1>6
    <3> QED
      BY <2>10, <3>1, <3>2, Below, SwapHolds
  <2>12. stack' = <<f>> \o Tail(stack)
    BY <1>6 DEF Swap
  <2> QED
    BY <1>4, <2>11, <2>12 DEF Agree
<1> QED
  BY <1>2, <1>5, <1>6

(* A foreground command becomes a stopped job: its child is that job's.    *)
LEMMA ExternalStopsAgrees ==
  ASSUME AInv, ExternalStops
  PROVE  Agree'
<1> DEFINE l == JobRegister(jl, allocs + 1, Pid)
<1>1. /\ Top.op = "external" /\ Top.op \in Collects /\ proc[Pid].st = "stop" /\ Pid \in Pids
      /\ allocs' = allocs + 1 /\ allocs' \in 0 .. MaxJobs
      /\ proc' = ToldAsJob(proc, Pid, allocs') /\ jl' = JobSetStatus(l, allocs', StopCode)
      /\ stack' = Tail(stack)
      /\ UNCHANGED <<fate, inherited>> /\ last'.node = NoJob
  BY Known DEF ExternalStops, StopReported, UntoldStops, Collects, Pop, Report, Result
<1>2. /\ ~NoSuchChild(proc, Pid) /\ proc[Pid].job = NoJob
  BY <1>1, OwnChild
<1>3. ASSUME NEW q \in Pids
      PROVE  /\ proc'[q].st = proc[q].st
             /\ proc'[q].job = IF q = Pid THEN allocs + 1 ELSE proc[q].job
             /\ q # Pid => proc'[q] = proc[q]
  <2>1. proc \in [Pids -> Child]
    BY Known
  <2>2. proc' = [proc EXCEPT ![Pid] = [@ EXCEPT !.told = TRUE, !.job = allocs + 1]]
    BY <1>1 DEF ToldAsJob
  <2> QED
    BY <1>1, <2>1, <2>2 DEF Child
<1>4. Linked(jl', proc', inherited)
  <2>1. JobsOK(l, allocs + 1) /\ allocs + 1 \in Nat
    BY <1>1, Known, RegisteredOK
  <2>2. Linked(l, proc', inherited)
    <3>1. /\ proc[Pid].st \notin {"other"} /\ ~NoSuchChild(proc', Pid)
          /\ proc'[Pid].job = allocs + 1 /\ \A q \in Pids \ {Pid} : proc'[q] = proc[q]
      BY <1>1, <1>3 DEF NoSuchChild
    <3> HIDE DEF l
    <3> QED
      BY <1>1, <1>2, <3>1, Known, RegisterLinked DEF l
  <2> HIDE DEF l
  <2> QED
    BY <1>1, <2>1, <2>2, StopLinked
<1>5. /\ Nodes(jl') = Nodes(jl) \cup {allocs + 1}
      /\ \A n \in Nodes(jl) : jl'.jobs[n] = jl.jobs[n]
  <2>1. /\ Nodes(l) = Nodes(jl) \cup {allocs + 1} /\ allocs + 1 \notin Nodes(jl)
        /\ \A n \in Nodes(jl) : l.jobs[n] = jl.jobs[n]
    BY Known, Registered
  <2>2. JobsOK(l, allocs + 1)
    BY <1>1, Known, RegisteredOK
  <2> HIDE DEF l
  <2>3. /\ Nodes(jl') = Nodes(l)
        /\ \A n \in Nodes(l) : n # allocs + 1 => jl'.jobs[n] = l.jobs[n]
    BY <1>1, <2>2 DEF JobSetStatus, Nodes, JobsOK, IsJobList
  <2> QED
    BY <2>1, <2>3
<1> HIDE DEF l
<1>6. FatesKnown(proc', fate)
  BY <1>1, <1>3, Known DEF FatesKnown
<1>7. StackHolds(Tail(stack), proc', jl', allocs', inherited)
  <2>1. /\ allocs + 1 \in Nat /\ allocs <= allocs + 1 /\ Nodes(jl') \subseteq Nat
        /\ \A n \in Nodes(jl') : n <= allocs => n \in Nodes(jl) /\ jl'.jobs[n].pid = jl.jobs[n].pid
    BY <1>5, Known
  <2>2. \A q \in Pids \ {Pid} : proc'[q] = proc[q]
    BY <1>3
  <2> QED
    BY <1>1, <2>1, <2>2, BelowCollect
<1>8. NobodyStops(proc', jl')
  BY <1>1 DEF NobodyStops, AInv, Agree
<1>9. AnswerTrue'
  <2>1. allocs' \in Nat /\ allocs <= allocs' /\ \A n \in Nodes(jl') : n <= allocs => n \in Nodes(jl)
    BY <1>1, <1>5, Known
  <2> QED
    BY <1>1, <2>1, AnswerStays
<1> QED
  BY <1>1, <1>4, <1>6, <1>7, <1>8, <1>9 DEF Agree

(* The in-process last stage of a pipeline has run.                        *)
LEMMA BodyDoneAgrees ==
  ASSUME AInv, NEW c \in Codes \cup {Flow}, BodyDone(c)
  PROVE  Agree'
<1> DEFINE f == [Top EXCEPT !.op = "collect", !.rc = c]
<1>1. Top.op = "body" /\ stack' = <<f>> \o Tail(stack)
      /\ UNCHANGED <<proc, jl, allocs, fate, inherited, last>>
  BY DEF BodyDone, Swap
<1>2. f \in Frames
  <2>1. c \in Statuses \cup {Flow}
    BY Numbers
  <2> QED
    BY <1>1, <2>1, TopFrames, Numbers, Known
<1>3. f.op = "collect" /\ f.pids = Top.pids /\ f.node = Top.node /\ f.next = Top.next
  BY Known DEF FrameType
<1> HIDE DEF f
<1>4. FrameHolds(f, proc, jl, allocs, inherited)
  BY <1>1, <1>3, Below DEF FrameHolds, Waits, Stands, Walked, Collects
<1>5. StackHolds(<<f>> \o Tail(stack), proc, jl, allocs, inherited)
  <2>1. f.op # "top" /\ Top.op \in Collects /\ PidsOf(f.pids) \subseteq PidsOf(Top.pids)
    BY <1>1, <1>3 DEF Collects
  <2> QED
    BY <1>2, <1>4, <2>1, Below, SwapHolds
<1>6. AnswerTrue'
  BY <1>1, AnswerStays, Known
<1> QED
  BY <1>1, <1>5, <1>6 DEF Agree, AInv

(* A trap action starts on top of a wait.                                  *)
LEMMA SignalAgrees ==
  ASSUME AInv, Signal
  PROVE  Agree'
<1>1. PICK cut \in BOOLEAN :
        stack' = <<Frame("trap"), [Top EXCEPT !.eintr = cut]>> \o Tail(stack)
  BY DEF Signal
<1> DEFINE f == [Top EXCEPT !.eintr = cut]
<1>2. Top.op # "top" /\ UNCHANGED <<proc, jl, allocs, fate, inherited, last>>
  BY DEF Signal, Blocking
<1>3. /\ f \in Frames /\ f.op = Top.op /\ f.pids = Top.pids
      /\ f.node = Top.node /\ f.next = Top.next
  BY Known, TopFrames, Numbers DEF FrameType
<1>4. Frame("trap") \in Frames /\ Frame("trap").op = "trap"
      /\ Frame("trap").node = NoJob /\ Frame("trap").next = NoJob
  BY FrameIsFrame DEF Ops, Issuing, Frame
<1>5. stack' = <<Frame("trap")>> \o (<<f>> \o Tail(stack)) /\ <<f>> \o Tail(stack) \in Seq(Frames)
  <2>1. Tail(stack) \in Seq(Frames) /\ stack' = <<Frame("trap"), f>> \o Tail(stack)
    BY <1>1, Below
  <2> HIDE DEF f
  <2>2. <<Frame("trap"), f>> = <<Frame("trap")>> \o <<f>>
    BY <1>3, <1>4
  <2>3. <<Frame("trap")>> \in Seq(Frames) /\ <<f>> \in Seq(Frames)
    BY <1>3, <1>4
  <2> QED
    BY <2>1, <2>2, <2>3, ConcatAssociative
<1> HIDE DEF f
<1>6. FrameHolds(f, proc, jl, allocs, inherited)
  BY <1>3, Below DEF FrameHolds, Waits, Stands, Walked
<1>7. StackHolds(<<f>> \o Tail(stack), proc, jl, allocs, inherited)
  BY <1>2, <1>3, <1>6, Below, SwapHolds
<1>8. StackHolds(stack', proc, jl, allocs, inherited)
  <2>1. FrameHolds(Frame("trap"), proc, jl, allocs, inherited)
    BY <1>4, Known DEF FrameHolds, Waits, Stands, Walked, Collects, NoJob
  <2>2. \A i \in DOMAIN (<<f>> \o Tail(stack)) : Apart(Frame("trap"), (<<f>> \o Tail(stack))[i])
    BY <1>4 DEF Apart, Collects
  <2> QED
    BY <1>4, <1>5, <1>7, <2>1, <2>2, PushHolds
<1>9. AnswerTrue'
  BY <1>2, AnswerStays, Known
<1> QED
  BY <1>2, <1>8, <1>9 DEF Agree, AInv

(* A trap action ends.                                                     *)
LEMMA TrapDoneAgrees ==
  ASSUME AInv, TrapDone
  PROVE  Agree'
<1>1. stack' = Tail(stack) /\ UNCHANGED <<proc, jl, allocs, fate, inherited, last>>
  BY DEF TrapDone, Pop
<1>2. AnswerTrue'
  BY <1>1, AnswerStays, Known
<1> QED
  BY <1>1, <1>2, Below DEF Agree, AInv

(* The invariant holds when the shell starts.                              *)
LEMMA InitAgrees == Init => AInv
<1> SUFFICES ASSUME Init PROVE AInv
  OBVIOUS
<1>1. Nodes(jl) = {} /\ \A p \in Pids : proc[p].st = "none" /\ proc[p].job = NoJob
  BY DEF Init, EmptyJobList, Nodes, NotAChild, ChildIn, NoJob
<1>2. Linked(jl, proc, inherited) /\ FatesKnown(proc, fate) /\ NobodyStops(proc, jl)
  BY <1>1 DEF Linked, ChildHasJob, Unique, FatesKnown, NobodyStops
<1>3. StackHolds(stack, proc, jl, allocs, inherited)
  <2>1. FrameHolds(Frame("top"), proc, jl, allocs, inherited)
    BY <1>1 DEF Init, FrameHolds, Waits, Stands, Walked, Frame, Collects, NoJob
  <2> QED
    BY <2>1, BaseHolds DEF Init
<1>4. AnswerTrue
  BY DEF Init, AnswerTrue, Result
<1> QED
  BY <1>2, <1>3, <1>4, InitIInv DEF AInv, Agree

(* Where only the script's own commands reap, every step keeps the two     *)
(* accounts together.                                                      *)
LEMMA NextAgrees ==
  ASSUME ReapsAtTopOnly, AInv, [Next]_vars
  PROVE  AInv'
<1>1. IInv'
  BY NextKeepsIInv DEF AInv
<1>2. Top.op # "fg" /\ \A cmd \in {"fg", "bg"} : ~Runs(cmd)
  BY Below DEF FrameHolds, ReapsAtTopOnly, Runs
<1>3. CASE UNCHANGED vars \/ Undefined
  <2>1. UNCHANGED vars
    BY <1>3 DEF Undefined
  <2> QED
    BY <2>1, <1>1 DEF vars, AInv, Agree, AnswerTrue
<1>4. CASE Continue
  <2>1. ~ForegroundReturn /\ ~ForegroundStops
    BY <1>2 DEF ForegroundReturn, ForegroundStops
  <2> QED
    BY <1>1, <1>4, <2>1, WaitAllStepAgrees, WaitPidReturnAgrees, StartAgrees, ChildReturnAgrees,
       ExternalStopsAgrees, CollectStageAgrees, BodyDoneAgrees, TrapDoneAgrees DEF Continue, AInv
<1>5. CASE Issue
  <2>1. CASE AsyncForkFails \/ JobsCommand \/ WaitAll \/ EnterSubshell
    BY <1>1, <2>1, AsyncForkFailsAgrees, JobsAgree, WaitAllAgrees, StartAgrees DEF AInv
  <2>2. CASE \E p \in Pids : Async(p) \/ WaitPid(p) \/ External(p) \/ Subshell(p)
    BY <1>1, <2>2, AsyncAgrees, WaitPidAgrees, ForkAndWaitAgrees DEF External, Subshell, AInv
  <2>3. CASE \/ \E n \in 1 .. MaxJobs : Foreground(n) \/ Background(n)
             \/ \E cmd \in {"fg", "bg"} : NoSuchJob(cmd)
    BY <1>2, <2>3 DEF Foreground, Background, NoSuchJob
  <2>4. CASE \E s \in Stages : Pipeline(s)
    BY <1>1, <2>4, PipelineAgrees DEF AInv
  <2>5. CASE \E s \in Stages \cup {<<>>} : PipelineForkFails(s)
    BY <1>1, <2>5, PipelineForkFailsAgrees DEF AInv
  <2> QED
    BY <1>5, <2>1, <2>2, <2>3, <2>4, <2>5 DEF Issue
<1>6. CASE Environment
  BY <1>1, <1>6, ChildExitAgrees, StopsAgree, SignalAgrees DEF Environment, AInv
<1> QED
  BY <1>3, <1>4, <1>5, <1>6 DEF Next

(* The accounts agree in every state.                                      *)
LEMMA AccountsAgree ==
  ASSUME ReapsAtTopOnly
  PROVE  Spec => []AInv
<1>1. Init => AInv
  BY InitAgrees
<1>2. AInv /\ [Next]_vars => AInv'
  BY NextAgrees
<1> QED
  BY <1>1, <1>2, PTL DEF Spec

(* The status `wait` reports of a job of this shell is the one its process *)
(* ended with: as long as only the script's own commands reap, job_wait    *)
(* never comes too late for it, whatever ends and is signalled meanwhile.  *)
THEOREM WaitTruthful == ReapsAtTopOnly => (Spec => []WaitTellsTheTruth)
<1> SUFFICES ASSUME ReapsAtTopOnly PROVE Spec => []WaitTellsTheTruth
  OBVIOUS
<1>1. Spec => []AInv
  BY AccountsAgree
<1>2. AInv => WaitTellsTheTruth
  BY DEF AInv, Agree, AnswerTrue, WaitTellsTheTruth
<1> QED
  BY <1>1, <1>2, PTL

-----------------------------------------------------------------------------
(* A plain wait.                                                           *)

(* The step that ends it has just waited for the last job the loop stood   *)
(* on, and has left none behind.                                           *)
LEMMA EndOfWait ==
  ASSUME ~MayStop, AInv, Next, Top.op = "waitall",
         Len(stack') < Len(stack), Head(stack').op # "undefined",
         NEW p \in Pids, proc[p].job \in 1 .. Top.node
  PROVE  proc[p].st # "run"
<1>1. stack' # stack
  BY Known
<1>2. \A cmd : ~Runs(cmd)
  BY DEF Runs
<1>3. ~Issue
  BY <1>2 DEF Issue, AsyncForkFails, JobsCommand, WaitAll, EnterSubshell, Async, WaitPid,
     External, Subshell, ForkAndWait, Foreground, Background, NoSuchJob, Pipeline, PipelineForkFails
<1>4. ~Environment
  <2>1. ~Signal
    <3> SUFFICES ASSUME Signal PROVE FALSE
      OBVIOUS
    <3>1. PICK cut \in BOOLEAN :
            stack' = <<Frame("trap"), [Top EXCEPT !.eintr = cut]>> \o Tail(stack)
      BY DEF Signal
    <3>2. [Top EXCEPT !.eintr = cut] \in Frames /\ Frame("trap") \in Frames
      BY Known, TopFrames, Numbers, FrameIsFrame DEF Ops, Issuing
    <3>3. Len(stack) \in Nat /\ Tail(stack) \in Seq(Frames) /\ Len(Tail(stack)) = Len(stack) - 1
      BY Known, HeadTailProperties, LenProperties
    <3>4. Len(stack') = 2 + Len(Tail(stack))
      BY <3>1, <3>2, <3>3
    <3> QED
      BY <3>3, <3>4
  <2> QED
    BY <1>1, <2>1 DEF Environment, ChildExit, ChildStop, ChildContinue
<1>5. ~ReadFreedJob
  BY DEF ReadFreedJob, Frame
<1>6. WaitAllStep
  BY <1>3, <1>4, <1>5 DEF Next, Undefined, Continue, WaitPidReturn, ForegroundReturn,
     ForegroundStops, ChildReturn, ExternalStops, CollectStage, BodyDone, TrapDone
<1> DEFINE m == proc[p].job
<1>7. m \in Nodes(jl) /\ m > inherited /\ jl.jobs[m].pid = p
  BY Known DEF Linked, ChildHasJob, NoJob
<1>8. m = Top.node
  BY <1>7, Below, Known DEF FrameHolds, Walked, FrameType
<1>9. proc[jl.jobs[Top.node].pid].st = "zombie"
  BY <1>6, <1>7, <1>8, TurnAgrees
<1> QED
  BY <1>7, <1>8, <1>9

(* Where nothing stops the children, a plain `wait` ends only when no job  *)
(* it has walked past still has a process that runs.                       *)
THEOREM PlainWaitWaits == ReapsAtTopOnly /\ ~MayStop => (Spec => WaitAllWaits)
<1> SUFFICES ASSUME ReapsAtTopOnly, ~MayStop PROVE Spec => WaitAllWaits
  OBVIOUS
<1> DEFINE A == (Top.op = "waitall" /\ Len(stack') < Len(stack) /\ Head(stack').op # "undefined") =>
                  \A p \in Pids : proc[p].job \in 1 .. Top.node => proc[p].st # "run"
<1>1. Spec => []AInv
  BY AccountsAgree
<1>2. AInv /\ [Next]_vars => [A]_vars
  BY EndOfWait
<1>3. Spec => [][A]_vars
  BY <1>1, <1>2, PTL DEF Spec
<1> QED
  BY <1>3 DEF WaitAllWaits

-----------------------------------------------------------------------------
(* Every child of the shell is answered for.                               *)

(* Nothing interrupts a wait, and no pipeline gives up half way.           *)
Undisturbed == ReapsAtTopOnly /\ MaxSignals = 0 /\ ~ForkMayFail

Claims(f, p) == f.op \in Collects /\ p \in PidsOf(f.pids)

Claimed(s, p) == \E i \in DOMAIN s : Claims(s[i], p)

(* A frame that was not interrupted and collects one child at a time.      *)
Calm(f) ==
  /\ ~f.eintr
  /\ f.op \in {"external", "subshell"} => PidsOf(f.pids) = {Head(f.pids)}

Stray(ps, p) == ~NoSuchChild(ps, p) /\ ps[p].job = NoJob

(* A child that is no job's is waited for by a frame of the stack.         *)
Accounted(s, ps) ==
  /\ \A i \in DOMAIN s : Calm(s[i])
  /\ \A p \in Pids : Stray(ps, p) => Claimed(s, p)

(* A stack of one frame.                                                   *)
LEMMA BaseAccounted ==
  ASSUME NEW f, Calm(f), NEW ps, \A p \in Pids : ~Stray(ps, p)
  PROVE  Accounted(<<f>>, ps)
BY DEF Accounted

(* A frame pushed for the children that are new.                           *)
LEMMA PushAccounted ==
  ASSUME NEW s \in Seq(Frames), NEW ps, Accounted(s, ps), NEW f \in Frames, Calm(f), NEW qs,
         \A p \in Pids : Stray(qs, p) => Stray(ps, p) \/ Claims(f, p)
  PROVE  Accounted(<<f>> \o s, qs)
<1> DEFINE t == <<f>> \o s
<1>1. /\ DOMAIN t = 1 .. Len(s) + 1 /\ t[1] = f
      /\ \A i \in DOMAIN t : i # 1 => i - 1 \in DOMAIN s /\ t[i] = s[i - 1]
      /\ \A i \in DOMAIN s : i + 1 \in DOMAIN t /\ t[i + 1] = s[i]
      /\ 1 \in DOMAIN t
  OBVIOUS
<1> HIDE DEF t
<1>2. \A i \in DOMAIN t : Calm(t[i])
  BY <1>1 DEF Accounted
<1>3. \A p : Claims(f, p) \/ Claimed(s, p) => Claimed(t, p)
  BY <1>1 DEF Claimed
<1> QED
  BY <1>2, <1>3 DEF Accounted, t

(* What the innermost frame and the ones below it wait for.                *)
LEMMA ClaimedByTop ==
  ASSUME NEW s \in Seq(Frames), s # <<>>, NEW ps, Accounted(s, ps)
  PROVE  /\ Tail(s) \in Seq(Frames) /\ Calm(Head(s))
         /\ \A i \in DOMAIN Tail(s) : Calm(Tail(s)[i])
         /\ \A p \in Pids : Stray(ps, p) => Claims(Head(s), p) \/ Claimed(Tail(s), p)
<1> DEFINE t == Tail(s)
<1>1. /\ t \in Seq(Frames) /\ 1 \in DOMAIN s /\ Head(s) = s[1]
      /\ \A i \in DOMAIN t : i + 1 \in DOMAIN s /\ t[i] = s[i + 1]
      /\ \A i \in DOMAIN s : i # 1 => i - 1 \in DOMAIN t /\ t[i - 1] = s[i]
  <2>1. Len(s) \in Nat /\ Len(s) # 0 /\ DOMAIN s = 1 .. Len(s)
    BY EmptySeq, LenProperties
  <2>2. t \in Seq(Frames) /\ Head(s) = s[1] /\ Len(t) = Len(s) - 1
        /\ \A i \in 1 .. Len(t) : t[i] = s[i + 1]
    BY HeadTailProperties
  <2> HIDE DEF t
  <2>3. DOMAIN t = 1 .. Len(t)
    BY <2>2, LenProperties
  <2> QED
    BY <2>1, <2>2, <2>3
<1> HIDE DEF t
<1>2. \A i \in DOMAIN t : Calm(t[i])
  BY <1>1 DEF Accounted
<1>3. \A p : Claimed(s, p) => Claims(s[1], p) \/ Claimed(t, p)
  BY <1>1 DEF Claimed
<1> QED
  BY <1>1, <1>2, <1>3 DEF Accounted, t

(* A frame popped once its children are collected.                         *)
LEMMA PopAccounted ==
  ASSUME NEW s \in Seq(Frames), s # <<>>, NEW ps, Accounted(s, ps), NEW qs,
         \A p \in Pids : Stray(qs, p) => Stray(ps, p) /\ ~Claims(Head(s), p)
  PROVE  Accounted(Tail(s), qs)
BY ClaimedByTop DEF Accounted

(* A frame goes on with the children it has left.                          *)
LEMMA SwapAccounted ==
  ASSUME NEW s \in Seq(Frames), s # <<>>, NEW ps, Accounted(s, ps), NEW f \in Frames, Calm(f),
         NEW qs,
         \A p \in Pids : Stray(qs, p) => Stray(ps, p) /\ (Claims(Head(s), p) => Claims(f, p))
  PROVE  Accounted(<<f>> \o Tail(s), qs)
<1> DEFINE t == Tail(s)
<1>1. /\ t \in Seq(Frames) /\ \A i \in DOMAIN t : Calm(t[i])
      /\ \A p \in Pids : Stray(ps, p) => Claims(Head(s), p) \/ Claimed(t, p)
  BY ClaimedByTop
<1> DEFINE r == <<f>> \o t
<1>2. /\ DOMAIN r = 1 .. Len(t) + 1 /\ r[1] = f
      /\ \A i \in DOMAIN r : i # 1 => i - 1 \in DOMAIN t /\ r[i] = t[i - 1]
      /\ \A i \in DOMAIN t : i + 1 \in DOMAIN r /\ r[i + 1] = t[i]
      /\ 1 \in DOMAIN r
  BY <1>1
<1> HIDE DEF r, t
<1>3. \A i \in DOMAIN r : Calm(r[i])
  BY <1>1, <1>2
<1>4. \A p : Claims(f, p) \/ Claimed(t, p) => Claimed(r, p)
  BY <1>2 DEF Claimed
<1>5. \A p \in Pids : Stray(qs, p) => Claimed(r, p)
  BY <1>1, <1>4
<1> QED
  BY <1>3, <1>5 DEF Accounted, r, t

(* The kernel's operations that leave no child without a frame.            *)
LEMMA NoNewStrays ==
  ASSUME NEW ps \in [Pids -> Child], NEW p \in Pids, NEW c \in Codes, NEW S, NEW q \in Pids
  PROVE  /\ Stray(Reaped(ps, S), q) => Stray(ps, q) /\ q \notin S
         /\ Stray(Drained(ps), q) => Stray(ps, q)
         /\ ~NoSuchChild(ps, p) /\ Stray(Exited(ps, p, c), q) => Stray(ps, q)
         /\ ~NoSuchChild(ps, p) /\ Stray(Stopped(ps, p), q) => Stray(ps, q)
         /\ Stray(Continued(ps, S), q) => Stray(ps, q)
         /\ ~Stray(NotMine(ps), q)
         /\ Stray(Forked(ps, S, NoJob), q) => Stray(ps, q) \/ q \in S
         /\ \A n \in 1 .. MaxJobs : Stray(Forked(ps, S, n), q) => Stray(ps, q)
<1>1. 0 \in 0 .. MaxJobs /\ NoJob = 0 /\ \A n \in 1 .. MaxJobs : n \in 0 .. MaxJobs /\ n # 0
  BY ChildrenAssumption DEF NoJob
<1>2. /\ Stray(Reaped(ps, S), q) => Stray(ps, q) /\ q \notin S
      /\ Stray(Drained(ps), q) => Stray(ps, q)
      /\ ~Stray(NotMine(ps), q)
      /\ Stray(Forked(ps, S, NoJob), q) => Stray(ps, q) \/ q \in S
  BY <1>1, ChildrenAfter DEF Stray, NoSuchChild
<1>3. \A n \in 1 .. MaxJobs : Stray(Forked(ps, S, n), q) => Stray(ps, q)
  BY <1>1, ChildrenAfter DEF Stray, NoSuchChild
<1>4. /\ ~NoSuchChild(ps, p) /\ Stray(Exited(ps, p, c), q) => Stray(ps, q)
      /\ ~NoSuchChild(ps, p) /\ Stray(Stopped(ps, p), q) => Stray(ps, q)
      /\ Stray(Continued(ps, S), q) => Stray(ps, q)
  BY <1>1, ChildAfter DEF Stray, NoSuchChild
<1> QED
  BY <1>2, <1>3, <1>4

(* A step that moves no frame and leaves no child without one.             *)
LEMMA StayAccounted ==
  ASSUME Accounted(stack, proc), stack' = stack,
         \A p \in Pids : Stray(proc', p) => Stray(proc, p)
  PROVE  Accounted(stack', proc')
BY DEF Accounted

(* The children end, are stopped and continued.                            *)
LEMMA ChildrenAccount ==
  ASSUME AInv, Accounted(stack, proc),
         \/ \E p \in Pids, c \in Codes : ChildExit(p, c)
         \/ \E p \in Pids : ChildStop(p) \/ ChildContinue(p)
  PROVE  Accounted(stack', proc')
<1>1. proc \in [Pids -> Child] /\ 0 \in Codes
  BY Known, ChildrenAssumption
<1>2. PICK p \in Pids, c \in Codes : ChildExit(p, c) \/ ChildStop(p) \/ ChildContinue(p)
  BY <1>1
<1>3. stack' = stack
  BY <1>2 DEF ChildExit, ChildStop, ChildContinue
<1>4. \/ ~NoSuchChild(proc, p) /\ proc' = Exited(proc, p, c)
      \/ ~NoSuchChild(proc, p) /\ proc' = Stopped(proc, p)
      \/ proc' = Continued(proc, {p})
  BY <1>2 DEF ChildExit, ChildStop, ChildContinue, NoSuchChild
<1>5. \A q \in Pids : Stray(proc', q) => Stray(proc, q)
  BY <1>1, <1>4, NoNewStrays
<1> QED
  BY <1>3, <1>5, StayAccounted

(* The commands that leave the stack alone: what they reap is gone, what   *)
(* they start is a job.                                                    *)
LEMMA UnmovedAccount ==
  ASSUME AInv, Accounted(stack, proc), JobsCommand \/ \E p \in Pids : Async(p)
  PROVE  Accounted(stack', proc')
<1>1. proc \in [Pids -> Child] /\ 0 \in Codes /\ allocs \in Nat /\ MaxJobs \in Nat
  BY Known, ChildrenAssumption
<1>2. stack' = stack
  BY DEF JobsCommand, Async
<1>3. \A q \in Pids : Stray(Drained(proc), q) => Stray(proc, q)
  <2> SUFFICES ASSUME NEW q \in Pids PROVE Stray(Drained(proc), q) => Stray(proc, q)
    OBVIOUS
  <2> QED
    BY <1>1, NoNewStrays
<1>4. CASE JobsCommand
  BY <1>2, <1>3, <1>4, StayAccounted DEF JobsCommand
<1>5. CASE \E p \in Pids : Async(p)
  <2>1. PICK p \in Pids : Async(p)
    BY <1>5
  <2>2. allocs' \in 1 .. MaxJobs /\ proc' = Forked(ProcBeforeAsync, {p}, allocs')
    BY <1>1, <2>1 DEF Async
  <2>3. ProcBeforeAsync \in [Pids -> Child]
    BY BeforeAsyncKeeps DEF AInv, ProcOK
  <2>4. ASSUME NEW q \in Pids PROVE Stray(proc', q) => Stray(ProcBeforeAsync, q)
    BY <1>1, <2>2, <2>3, NoNewStrays, ZenonT(40)
  <2>5. \A q \in Pids : Stray(proc', q) => Stray(proc, q)
    BY <1>3, <2>4 DEF ProcBeforeAsync
  <2> QED
    BY <1>2, <2>5, StayAccounted
<1> QED
  BY <1>4, <1>5

(* A wait starts: it collects no child that is not a job's.                *)
LEMMA WaitAccount ==
  ASSUME AInv, Accounted(stack, proc), WaitAll \/ \E p \in Pids : WaitPid(p)
  PROVE  Accounted(stack', proc')
<1>1. stack \in Seq(Frames) /\ JobsOK(jl, allocs) /\ allocs \in Nat
  BY Known
<1>2. proc' = proc
  BY DEF WaitAll, WaitPid
<1>3. \A p \in Pids : Stray(proc', p) => Stray(proc, p)
  BY <1>2
<1>4. CASE WaitAll
  <2> DEFINE n == First(Nodes(jl))
             f == [Frame("waitall") EXCEPT !.node = n, !.next = NextNode(jl, n)]
  <2>1. n \in 0 .. MaxJobs /\ NextNode(jl, n) \in 0 .. MaxJobs
    BY <1>1, Searches, Before, Numbers DEF AInv
  <2>2. f \in Frames /\ f.op = "waitall" /\ ~f.eintr
    BY <2>1, WaitAllFrame DEF Frame
  <2>3. stack' = stack \/ stack' = <<f>> \o stack
    BY <1>4 DEF WaitAll, Push
  <2> HIDE DEF f, n
  <2>4. Calm(f)
    BY <2>2 DEF Calm
  <2> QED
    BY <1>1, <1>3, <2>2, <2>3, <2>4, PushAccounted, StayAccounted
<1>5. CASE \E p \in Pids : WaitPid(p)
  <2>1. PICK p \in Pids : WaitPid(p)
    BY <1>5
  <2> DEFINE n == JobFindByPid(jl, p)
             f == [Frame("waitpid") EXCEPT !.node = n, !.pids = <<p>>]
  <2>2. n \in 0 .. MaxJobs
    BY <1>1, Searches, Before, Numbers DEF AInv
  <2>3. f \in Frames
    <3>1. <<p>> \in Seq(Pids) \ {<<>>} /\ "waitpid" \in Ops
      BY DEF Ops, Blocking
    <3> QED
      BY <2>2, <3>1, NewFrames
  <2>4. f.op = "waitpid" /\ ~f.eintr
    BY DEF Frame
  <2>5. stack' = stack \/ stack' = <<f>> \o stack
    BY <2>1 DEF WaitPid, Push
  <2> HIDE DEF f, n
  <2>6. Calm(f)
    BY <2>4 DEF Calm
  <2> QED
    BY <1>1, <1>3, <2>3, <2>5, <2>6, PushAccounted, StayAccounted
<1> QED
  BY <1>4, <1>5

(* A command or a pipeline forks its children.                             *)
LEMMA ForkAccount ==
  ASSUME AInv, Accounted(stack, proc),
         \/ \E p \in Pids : External(p) \/ Subshell(p)
         \/ \E s \in Stages : Pipeline(s)
  PROVE  Accounted(stack', proc')
<1>1. stack \in Seq(Frames) /\ proc \in [Pids -> Child] /\ 0 \in Codes
  BY Known, ChildrenAssumption
<1>2. PICK op \in {"external", "subshell", "body"}, s \in Seq(Pids) \ {<<>>} :
        LET f == [Frame(op) EXCEPT !.pids = s]
        IN  /\ proc' = Forked(proc, PidsOf(s), NoJob) /\ stack' = <<f>> \o stack
            /\ op # "body" => PidsOf(s) = {Head(s)}
  <2>1. CASE \E p \in Pids : External(p) \/ Subshell(p)
    <3>1. PICK p \in Pids, cmd \in {"external", "subshell"} : ForkAndWait(cmd, p)
      BY <2>1 DEF External, Subshell
    <3>2. <<p>> \in Seq(Pids) \ {<<>>} /\ PidsOf(<<p>>) = {p} /\ Head(<<p>>) = p
      BY DEF PidsOf
    <3> QED
      BY <3>1, <3>2 DEF ForkAndWait, Push
  <2>2. CASE \E s \in Stages : Pipeline(s)
    <3>1. PICK s \in Stages : Pipeline(s)
      BY <2>2
    <3>2. s \in Seq(Pids) \ {<<>>}
      BY JobControlAssumption, EmptySeq DEF Stages
    <3> QED
      BY <3>1, <3>2 DEF Pipeline, Push
  <2> QED
    BY <2>1, <2>2
<1> DEFINE f == [Frame(op) EXCEPT !.pids = s]
<1>3. f \in Frames /\ f.op = op /\ f.pids = s /\ ~f.eintr
  <2>1. op \in Ops
    BY DEF Ops, Issuing, Blocking
  <2> QED
    BY <2>1, NewFrames, Numbers DEF Frame
<1>4. proc' = Forked(proc, PidsOf(s), NoJob) /\ stack' = <<f>> \o stack
      /\ (op # "body" => PidsOf(s) = {Head(s)})
  BY <1>2
<1> HIDE DEF f
<1>5. Calm(f)
  BY <1>3, <1>4 DEF Calm
<1>6. \A p \in Pids : Stray(proc', p) => Stray(proc, p) \/ p \in PidsOf(s)
  BY <1>1, <1>4, NoNewStrays
<1>7. \A p \in PidsOf(s) : Claims(f, p)
  BY <1>3 DEF Claims, Collects
<1> QED
  BY <1>1, <1>3, <1>4, <1>5, <1>6, <1>7, PushAccounted

(* A wait for jobs goes on or ends, a trap action ends: no frame for       *)
(* children of its own is involved.                                        *)
LEMMA OtherAccount ==
  ASSUME AInv, Accounted(stack, proc), WaitAllStep \/ WaitPidReturn \/ TrapDone
  PROVE  Accounted(stack', proc')
<1>1. /\ stack \in Seq(Frames) /\ stack # <<>> /\ proc \in [Pids -> Child] /\ 0 \in Codes
      /\ Top = Head(stack)
  BY Known, ChildrenAssumption DEF Top
<1>2. Calm(Top) /\ Top.op \in {"waitall", "waitpid", "trap"}
  BY <1>1, ClaimedByTop DEF WaitAllStep, WaitPidReturn, TrapDone
<1>3. \A p : ~Claims(Head(stack), p)
  BY <1>1, <1>2 DEF Claims, Collects
<1>4. proc' = proc \/ \E p : proc' = Reaped(proc, {p})
  BY DEF WaitAllStep, WaitPidReturn, TrapDone, ProcAfterWait
<1>5. \A q \in Pids : Stray(proc', q) => Stray(proc, q)
  <2>1. ASSUME NEW q \in Pids, NEW p PROVE Stray(Reaped(proc, {p}), q) => Stray(proc, q)
    BY <1>1, NoNewStrays
  <2> QED
    BY <1>4, <2>1
<1>6. CASE stack' = Tail(stack)
  BY <1>1, <1>3, <1>5, <1>6, PopAccounted
<1>7. CASE stack' # Tail(stack)
  <2> DEFINE f == [Top EXCEPT !.node = Top.next, !.next = NextNode(jl', Top.next)]
  <2>1. WaitAllStep /\ Top.op = "waitall" /\ stack' = <<f>> \o Tail(stack)
    BY <1>7 DEF WaitAllStep, WaitPidReturn, TrapDone, Pop, Swap
  <2>2. f \in Frames /\ f.op = "waitall" /\ f.eintr = Top.eintr
    <3>1. Top \in Frames /\ Top \in FrameType /\ allocs' = allocs /\ allocs \in 0 .. MaxJobs
      BY <2>1, Known, Before DEF AInv, WaitAllStep
    <3>2. JobsOK(jl', allocs)
      BY <2>1, <3>1, WaitAllStepKeeps DEF AInv, IInv, TypeOK, JobNumbers, JobsOK
    <3>3. NextNode(jl', Top.next) \in 0 .. MaxJobs
      <4>1. allocs \in Nat /\ 0 .. allocs \subseteq 0 .. MaxJobs
        BY <3>1, ChildrenAssumption
      <4>2. NextNode(jl', Top.next) \in 0 .. allocs
        BY <3>2, <4>1, Searches
      <4> QED
        BY <4>1, <4>2
    <3>4. Top.next \in 0 .. MaxJobs
      BY <3>1 DEF FrameType
    <3>5. f \in Frames
      BY <2>1, <3>1, <3>3, <3>4, TopFrames, Numbers
    <3> QED
      BY <2>1, <3>1, <3>5 DEF FrameType
  <2> HIDE DEF f
  <2>3. Calm(f)
    BY <1>2, <2>2 DEF Calm
  <2> QED
    BY <1>1, <1>3, <1>5, <2>1, <2>2, <2>3, SwapAccounted
<1> QED
  BY <1>6, <1>7

(* An external command or a subshell ends, or is stopped and becomes a     *)
(* job.                                                                    *)
LEMMA ReturnAccount ==
  ASSUME AInv, Accounted(stack, proc), ChildReturn \/ ExternalStops
  PROVE  Accounted(stack', proc')
<1>1. /\ stack \in Seq(Frames) /\ stack # <<>> /\ proc \in [Pids -> Child] /\ 0 \in Codes
      /\ Top = Head(stack)
  BY Known, ChildrenAssumption DEF Top
<1>2. Top.op \in {"external", "subshell"} /\ stack' = Tail(stack)
  BY DEF ChildReturn, ExternalStops, Pop
<1>3. ~Top.eintr /\ PidsOf(Top.pids) = {Pid} /\ Pid \in Pids
  <2>1. Calm(Top)
    BY <1>1, ClaimedByTop
  <2>2. Pid \in Pids
    BY <1>2, OwnChild DEF Collects
  <2> QED
    BY <1>2, <2>1, <2>2 DEF Calm, Pid
<1>4. \A q \in Pids : Stray(proc', q) => Stray(proc, q) /\ q # Pid
  <2>1. CASE ChildReturn
    <3>1. proc' = Reaped(proc, {Pid})
      BY <1>3, <2>1 DEF ChildReturn, ProcCollected
    <3> QED
      BY <1>1, <3>1, NoNewStrays
  <2>2. CASE ExternalStops
    <3>1. proc' = ToldAsJob(proc, Pid, allocs + 1) /\ allocs + 1 \in 0 .. MaxJobs /\ allocs + 1 # 0
      BY <2>2, Before, Known DEF ExternalStops, AInv
    <3>2. ASSUME NEW q \in Pids PROVE Stray(proc', q) => Stray(proc, q) /\ q # Pid
      <4>1. proc[q] \in Child /\ proc[Pid] \in Child /\ DOMAIN proc = Pids
        BY <1>1, <1>3
      <4>2. /\ proc'[q].st = proc[q].st
            /\ proc'[q].job = IF q = Pid THEN allocs + 1 ELSE proc[q].job
        BY <1>3, <3>1, <4>1 DEF ToldAsJob, Child
      <4> QED
        BY <3>1, <4>2 DEF Stray, NoSuchChild, NoJob
    <3> QED
      BY <3>2
  <2> QED
    BY <2>1, <2>2
<1>5. \A q \in Pids : Stray(proc', q) => Stray(proc, q) /\ ~Claims(Head(stack), q)
  BY <1>1, <1>3, <1>4 DEF Claims
<1> QED
  BY <1>1, <1>2, <1>5, PopAccounted

(* The last stage has run: the pipeline collects the same children.        *)
LEMMA BodyAccount ==
  ASSUME AInv, Accounted(stack, proc), NEW c \in Codes \cup {Flow}, BodyDone(c)
  PROVE  Accounted(stack', proc')
<1>1. /\ stack \in Seq(Frames) /\ stack # <<>> /\ Top = Head(stack) /\ Top \in Frames
      /\ Top \in FrameType
  BY Known DEF Top
<1> DEFINE f == [Top EXCEPT !.op = "collect", !.rc = c]
<1>2. Top.op = "body" /\ stack' = <<f>> \o Tail(stack) /\ proc' = proc
  BY DEF BodyDone, Swap
<1>3. f \in Frames
  <2>1. c \in Statuses \cup {Flow}
    BY Numbers
  <2> QED
    BY <1>1, <1>2, <2>1, TopFrames, Numbers
<1>4. f.op = "collect" /\ f.pids = Top.pids /\ f.eintr = Top.eintr
  BY <1>1 DEF FrameType
<1> HIDE DEF f
<1>5. Calm(f)
  BY <1>1, <1>4, ClaimedByTop DEF Calm
<1>6. \A q \in Pids : Stray(proc', q) => Stray(proc, q) /\ (Claims(Head(stack), q) => Claims(f, q))
  BY <1>1, <1>2, <1>4 DEF Claims, Collects
<1> QED
  BY <1>1, <1>2, <1>3, <1>5, <1>6, SwapAccounted

(* A stage is collected, and nothing else.                                 *)
LEMMA StageAccount ==
  ASSUME AInv, Accounted(stack, proc), CollectStage
  PROVE  Accounted(stack', proc')
<1>1. /\ stack \in Seq(Frames) /\ stack # <<>> /\ proc \in [Pids -> Child] /\ 0 \in Codes
      /\ Top = Head(stack) /\ Top \in FrameType
  BY Known, ChildrenAssumption DEF Top
<1>2. /\ Top.op = "collect" /\ Top.pids \in Seq(Pids) \ {<<>>} /\ Pid = Head(Top.pids)
      /\ Pid \in Pids
  BY OwnChild DEF CollectStage, Collects, Pid
<1>3. \A q \in Pids : Stray(proc', q) => Stray(proc, q) /\ q # Pid
  <2>1. ~Top.eintr
    BY <1>1, ClaimedByTop DEF Calm
  <2>2. proc' = Reaped(proc, {Pid})
    BY <2>1 DEF CollectStage, ProcCollected
  <2> QED
    BY <1>1, <2>2, NoNewStrays
<1>4. PICK rc \in Statuses \cup {Flow} :
        LET f == [Top EXCEPT !.pids = Tail(@), !.rc = rc, !.eintr = FALSE]
        IN  \/ Len(Top.pids) = 1 /\ Pop
            \/ Len(Top.pids) # 1 /\ f \in Frames /\ Swap(f)
  BY NextStage DEF AInv
<1>5. \A q \in PidsOf(Top.pids) : q # Pid => Len(Top.pids) # 1 /\ q \in PidsOf(Tail(Top.pids))
  <2> DEFINE t == Top.pids
  <2>1. /\ Len(t) \in Nat /\ DOMAIN t = 1 .. Len(t) /\ Head(t) = t[1] /\ t # <<>>
        /\ Tail(t) \in Seq(Pids) /\ Len(Tail(t)) = Len(t) - 1 /\ DOMAIN Tail(t) = 1 .. Len(Tail(t))
        /\ \A i \in 1 .. Len(Tail(t)) : Tail(t)[i] = t[i + 1]
    BY <1>2, HeadTailProperties, LenProperties
  <2> HIDE DEF t
  <2>2. ASSUME NEW i \in DOMAIN t, t[i] # Head(t)
        PROVE  Len(t) # 1 /\ i - 1 \in DOMAIN Tail(t) /\ Tail(t)[i - 1] = t[i]
    BY <2>1, <2>2
  <2>3. \A q \in PidsOf(t) : q # Head(t) => Len(t) # 1 /\ q \in PidsOf(Tail(t))
    BY <2>2 DEF PidsOf
  <2> QED
    BY <1>2, <2>3 DEF t
<1>6. CASE Len(Top.pids) = 1 /\ Pop
  <2>1. \A q \in Pids : Stray(proc', q) => Stray(proc, q) /\ ~Claims(Head(stack), q)
    BY <1>1, <1>3, <1>5, <1>6 DEF Claims
  <2> QED
    BY <1>1, <1>6, <2>1, PopAccounted DEF Pop
<1>7. CASE ~(Len(Top.pids) = 1 /\ Pop)
  <2> DEFINE f == [Top EXCEPT !.pids = Tail(@), !.rc = rc, !.eintr = FALSE]
  <2>1. f \in Frames /\ stack' = <<f>> \o Tail(stack)
    BY <1>4, <1>7 DEF Swap
  <2>2. f.op = "collect" /\ f.pids = Tail(Top.pids) /\ ~f.eintr
    BY <1>1, <1>2 DEF FrameType
  <2> HIDE DEF f
  <2>3. Calm(f)
    BY <2>2 DEF Calm
  <2>4. \A q \in Pids : Stray(proc', q) => Stray(proc, q) /\ (Claims(Head(stack), q) => Claims(f, q))
    BY <1>1, <1>3, <1>5, <2>2 DEF Claims, Collects
  <2> QED
    BY <1>1, <2>1, <2>3, <2>4, SwapAccounted
<1> QED
  BY <1>6, <1>7

(* A shell forked from this one has no children.                           *)
LEMMA BaseAccount ==
  ASSUME AInv, EnterSubshell
  PROVE  Accounted(stack', proc')
<1>1. proc \in [Pids -> Child] /\ 0 \in Codes
  BY Known, ChildrenAssumption
<1>2. ASSUME NEW q \in Pids PROVE ~Stray(NotMine(proc), q)
  BY <1>1, NoNewStrays
<1>3. Calm(Frame("top"))
  BY DEF Frame, Calm
<1> QED
  BY <1>2, <1>3, BaseAccounted DEF EnterSubshell

(* Unless the shell has read memory it freed.                              *)
AccountedFor == Top.op # "undefined" => Accounted(stack, proc)

(* Every step leaves each child that is no job's to a frame.               *)
LEMMA NextAccounts ==
  ASSUME Undisturbed, AInv, AccountedFor, [Next]_vars
  PROVE  AccountedFor'
<1>1. CASE UNCHANGED vars \/ Undefined
  BY <1>1 DEF Undefined, vars, AccountedFor, Top
<1>2. CASE ReadFreedJob
  BY <1>2 DEF ReadFreedJob, AccountedFor, Top, Frame
<1>3. ~AsyncForkFails /\ ~Signal /\ \A s : ~PipelineForkFails(s)
  BY Before DEF Undisturbed, AsyncForkFails, Signal, PipelineForkFails, AInv, IInv, TypeOK, CountsOK
<1>4. Top.op # "fg" /\ \A cmd \in {"fg", "bg"} : ~Runs(cmd)
  BY Below DEF FrameHolds, Undisturbed, ReapsAtTopOnly, Runs
<1>5. CASE Top.op = "undefined"
  <2>1. ~Issue
    BY <1>5 DEF Issue, Runs, AsyncForkFails, JobsCommand, WaitAll, EnterSubshell, Async, WaitPid,
       External, Subshell, ForkAndWait, Foreground, Background, NoSuchJob, Pipeline,
       PipelineForkFails
  <2>2. ~Continue
    BY <1>5 DEF Continue, WaitAllStep, WaitPidReturn, ReadFreedJob, HoldsFreed, ForegroundReturn,
       ForegroundStops, ChildReturn, ExternalStops, CollectStage, BodyDone, TrapDone
  <2>3. stack' = stack
    BY <1>3, <2>1, <2>2 DEF Next, Environment, ChildExit, ChildStop, ChildContinue, Undefined, vars
  <2> QED
    BY <1>5, <2>3 DEF AccountedFor, Top
<1>6. CASE Top.op # "undefined"
  <2>1. Accounted(stack, proc)
    BY <1>6 DEF AccountedFor
  <2>2. CASE Continue
    <3>1. ~ForegroundReturn /\ ~ForegroundStops
      BY <1>4 DEF ForegroundReturn, ForegroundStops
    <3> QED
      BY <1>2, <2>1, <2>2, <3>1, OtherAccount, ReturnAccount, StageAccount, BodyAccount
         DEF Continue, AccountedFor
  <2>3. CASE Issue
    <3>1. /\ \A n \in 1 .. MaxJobs : ~Foreground(n) /\ ~Background(n)
          /\ \A cmd \in {"fg", "bg"} : ~NoSuchJob(cmd)
      BY <1>4 DEF Foreground, Background, NoSuchJob
    <3>2. CASE JobsCommand \/ \E p \in Pids : Async(p)
      BY <2>1, <3>2, UnmovedAccount DEF AccountedFor
    <3>3. CASE WaitAll \/ \E p \in Pids : WaitPid(p)
      BY <2>1, <3>3, WaitAccount DEF AccountedFor
    <3>4. CASE \/ \E p \in Pids : External(p) \/ Subshell(p)
               \/ \E s \in Stages : Pipeline(s)
      BY <2>1, <3>4, ForkAccount DEF AccountedFor
    <3>5. CASE EnterSubshell
      BY <3>5, BaseAccount DEF AccountedFor
    <3> QED
      BY <1>3, <2>3, <3>1, <3>2, <3>3, <3>4, <3>5 DEF Issue
  <2>4. CASE Environment
    BY <1>3, <2>1, <2>4, ChildrenAccount DEF Environment, AccountedFor
  <2> QED
    BY <1>1, <2>2, <2>3, <2>4 DEF Next
<1> QED
  BY <1>5, <1>6

(* Where nothing interrupts the waits, every fork succeeds and only the    *)
(* script's own commands reap, the shell answers for each of its children  *)
(* once: a stage stays a child until its pipeline collects it, no two jobs *)
(* have one process, and with no command under way every child is a job's. *)
THEOREM ChildrenAnsweredFor == Undisturbed => (Spec => []ChildrenAccounted)
<1> SUFFICES ASSUME Undisturbed PROVE Spec => []ChildrenAccounted
  OBVIOUS
<1>1. Spec => []AInv
  BY AccountsAgree DEF Undisturbed
<1>2. Init => AccountedFor
  <2>1. ASSUME Init PROVE Accounted(stack, proc)
    <3>1. Calm(Frame("top")) /\ \A p \in Pids : ~Stray(proc, p)
      BY <2>1 DEF Init, Calm, Frame, Stray, NoSuchChild, NotAChild, ChildIn
    <3> QED
      BY <2>1, <3>1, BaseAccounted DEF Init
  <2> QED
    BY <2>1 DEF AccountedFor
<1>3. AInv /\ AccountedFor /\ [Next]_vars => AccountedFor'
  BY NextAccounts
<1>4. AInv /\ AccountedFor => ChildrenAccounted
  <2> SUFFICES ASSUME AInv, AccountedFor PROVE ChildrenAccounted
    OBVIOUS
  <2>1. StagesStayChildren
    <3>1. ASSUME NEW i \in DOMAIN stack, stack[i].op \in {"body", "collect"},
                 NEW k \in DOMAIN stack[i].pids
          PROVE  ~NoSuchChild(proc, stack[i].pids[k])
      <4>1. Waits(stack[i], proc)
        BY Known DEF StackHolds, FrameHolds
      <4> QED
        BY <3>1, <4>1 DEF Waits, Collects, PidsOf
    <3> QED
      BY <3>1 DEF StagesStayChildren
  <2>2. PidsUnique
    BY Known DEF Linked, Unique, PidsUnique
  <2>3. NoStrayChildren
    <3>1. ASSUME Top.op = "top", NEW p \in Pids, ~NoSuchChild(proc, p)
          PROVE  \E n \in Nodes(jl) : jl.jobs[n].pid = p
      <4>1. ~Claimed(stack, p)
        BY <3>1, TopAlone DEF Claimed, Claims, Collects
      <4>2. proc[p].job # NoJob
        BY <3>1, <4>1 DEF AccountedFor, Accounted, Stray
      <4> QED
        BY <4>2, Known DEF Linked, ChildHasJob
    <3> QED
      BY <3>1 DEF NoStrayChildren
  <2> QED
    BY <2>1, <2>2, <2>3 DEF ChildrenAccounted
<1> QED
  BY <1>1, <1>2, <1>3, <1>4, PTL DEF Spec

-----------------------------------------------------------------------------
(* The life of a job.                                                      *)

(* Every command that runs anywhere.                                       *)
Used == TopRuns \cup BodyRuns \cup TrapRuns

(* No shell that inherited its jobs uses fg, which drops a job whose       *)
(* process is not its child; and while a foreground command may become a   *)
(* job, nothing on top of it reaps children.                               *)
JobsAreOwn ==
  /\ ~({"fg", "descend"} \subseteq Used)
  /\ Monitor => AboveWaits \cap {"jobs", "wait", "fg", "bg"} = {}

(* A job whose process has not ended is not Done, and that process is the  *)
(* child forked for it, or not one of this shell's.                        *)
Runner(ps, p, n) == \/ ps[p].st \in {"run", "stop"} /\ ps[p].job = n
                    \/ ps[p].st = "other"

Lively(l, ps, ft) ==
  \A n \in Nodes(l) : ft[n] = Alive =>
    l.jobs[n].state # "DONE" /\ Runner(ps, l.jobs[n].pid, n)

(* No job has had a fate before it was started.                            *)
Unborn(ft, k) == \A n \in 1 .. MaxJobs : n > k => ft[n] = Alive

(* The child of a foreground command is its own until it is collected.     *)
Watched(f, ps) ==
  /\ f.op = "fg" => "fg" \in Used
  /\ Monitor /\ f.op = "external" => Stray(ps, Head(f.pids))

Beside(f, g) ==
  Monitor /\ g.op = "external" =>
    f.op \in Over /\ (f.op \in Collects => Head(g.pids) \notin PidsOf(f.pids))

Watching(s, ps) ==
  /\ \A i \in DOMAIN s : Watched(s[i], ps)
  /\ \A i, j \in DOMAIN s : i < j => Beside(s[i], s[j])

NoOthers(ps) == "fg" \in Used => \A p \in Pids : ps[p].st # "other"

LifeInv ==
  /\ Lively(jl, proc, fate) /\ Unborn(fate, allocs)
  /\ Watching(stack, proc) /\ NoOthers(proc)

(* A frame pushed upon a stack.                                            *)
LEMMA Pushed ==
  ASSUME NEW S, NEW s \in Seq(S), NEW f
  PROVE  LET t == <<f>> \o s
         IN  /\ DOMAIN t = 1 .. Len(s) + 1 /\ t[1] = f
             /\ \A i \in DOMAIN t : i # 1 => i - 1 \in DOMAIN s /\ t[i] = s[i - 1]
OBVIOUS

-----------------------------------------------------------------------------
(* The table and its jobs' processes.                                      *)

(* What a later table r keeps of l: every job whose process has not ended, *)
(* and none of those becomes Done.                                         *)
Follows(l, r, ft) ==
  /\ Nodes(r) \subseteq Nodes(l)
  /\ \A n \in Nodes(l) : ft[n] = Alive =>
       /\ n \in Nodes(r) /\ r.jobs[n].pid = l.jobs[n].pid
       /\ r.jobs[n].state = "DONE" => l.jobs[n].state = "DONE"

RunnersStay(ps, qs) == \A p \in Pids, n \in 1 .. MaxJobs : Runner(ps, p, n) => Runner(qs, p, n)

LEMMA FollowsOn ==
  ASSUME NEW l, NEW r, NEW q, NEW ft, Follows(l, r, ft), Follows(r, q, ft)
  PROVE  Follows(l, q, ft)
BY DEF Follows

(* The jobs stay lively as long as their processes do.                     *)
LEMMA FollowsLively ==
  ASSUME NEW k \in 0 .. MaxJobs, NEW l, JobsOK(l, k), NEW r, NEW ps, NEW qs, NEW ft,
         Lively(l, ps, ft), Follows(l, r, ft), RunnersStay(ps, qs)
  PROVE  Lively(r, qs, ft)
<1>1. \A n \in Nodes(l) : n \in 1 .. MaxJobs /\ l.jobs[n].pid \in Pids
  BY PidsOfNodes, ChildrenAssumption
<1> QED
  BY <1>1 DEF Lively, Follows, RunnersStay

(* job_remove of jobs whose process has ended.                             *)
LEMMA RemoveFollows ==
  ASSUME NEW l, NEW gone, NEW ft, \A n \in gone : ft[n] # Alive
  PROVE  Follows(l, JobRemove(l, gone), ft)
<1>1. /\ Nodes(JobRemove(l, gone)) = Nodes(l) \ gone
      /\ \A n \in Nodes(l) \ gone : JobRemove(l, gone).jobs[n] = l.jobs[n]
  BY DEF JobRemove, Without, Nodes
<1> QED
  BY <1>1 DEF Follows

(* A status recorded: a stop, or the end of a process.                     *)
LEMMA StatusFollows ==
  ASSUME NEW k, NEW l, JobsOK(l, k), NEW n, NEW s, NEW ft, s = StopCode \/ ft[n] # Alive
  PROVE  Follows(l, JobSetStatus(l, n, s), ft)
<1> DEFINE r == JobSetStatus(l, n, s)
<1>1. /\ Nodes(r) = Nodes(l)
      /\ \A m \in Nodes(l) : r.jobs[m] = IF m = n THEN Recorded(l.jobs[m], s) ELSE l.jobs[m]
  BY DEF JobSetStatus, Nodes, JobsOK, IsJobList
<1>2. \A m \in Nodes(l) : /\ Recorded(l.jobs[m], s).pid = l.jobs[m].pid
                          /\ s = StopCode => Recorded(l.jobs[m], s).state = "STOPPED"
  BY DEF Recorded, Job, JobsOK, IsJobList, Nodes
<1> HIDE DEF r
<1>3. Follows(l, r, ft)
  BY <1>1, <1>2 DEF Follows
<1> QED
  BY <1>3 DEF r

(* fg and bg of a stopped job.                                             *)
LEMMA ResumedFollows ==
  ASSUME NEW k, NEW l, JobsOK(l, k), NEW n, NEW ft
  PROVE  Follows(l, Resumed(l, n), ft)
<1> DEFINE r == JobSetState(l, n, "RUNNING")
<1>1. /\ Nodes(r) = Nodes(l)
      /\ \A m \in Nodes(l) : r.jobs[m] = IF m = n THEN [l.jobs[m] EXCEPT !.state = "RUNNING"]
                                                  ELSE l.jobs[m]
  BY DEF JobSetState, Nodes, JobsOK, IsJobList
<1>2. \A m \in Nodes(l) : /\ [l.jobs[m] EXCEPT !.state = "RUNNING"].pid = l.jobs[m].pid
                          /\ [l.jobs[m] EXCEPT !.state = "RUNNING"].state = "RUNNING"
  BY DEF Job, JobsOK, IsJobList, Nodes
<1> HIDE DEF r
<1>3. Follows(l, r, ft) /\ Follows(l, l, ft)
  BY <1>1, <1>2 DEF Follows
<1> QED
  BY <1>3 DEF Resumed, r

(* job_reap: only the job of a zombie becomes Done.                        *)
LEMMA ReapFollows ==
  ASSUME NEW k \in Nat, NEW l, JobsOK(l, k), NEW ps \in [Pids -> Child], NEW ft,
         Lively(l, ps, ft)
  PROVE  Follows(l, JobReap(l, ps), ft)
<1> DEFINE r == JobReap(l, ps)
           waitable == Zombies(ps) \cup UntoldStops(ps)
<1>1. \A n \in Nodes(l) : l.jobs[n] \in Job /\ l.jobs[n].pid \in Pids
  BY PidsOfNodes
<1>2. /\ Nodes(r) = Nodes(l)
      /\ \A n \in Nodes(l) :
           \/ r.jobs[n] = l.jobs[n]
           \/ /\ l.jobs[n].pid \in waitable
              /\ r.jobs[n] = Recorded(l.jobs[n], StatusOf(ps, l.jobs[n].pid))
  BY DEF JobReap, Nodes, JobsOK, IsJobList
<1> HIDE DEF r
<1>3. ASSUME NEW n \in Nodes(l), ft[n] = Alive
      PROVE  r.jobs[n].pid = l.jobs[n].pid /\ r.jobs[n].state # "DONE"
  <2> DEFINE p == l.jobs[n].pid
  <2>1. l.jobs[n].state # "DONE" /\ p \in Pids /\ ps[p].st \in {"run", "stop", "other"}
    BY <1>1, <1>3 DEF Lively, Runner
  <2>2. p \in waitable => StatusOf(ps, p) = StopCode
    BY <2>1 DEF Zombies, UntoldStops, StatusOf
  <2>3. Recorded(l.jobs[n], StopCode).pid = p /\ Recorded(l.jobs[n], StopCode).state = "STOPPED"
    BY <1>1 DEF Recorded, Job
  <2> QED
    BY <1>2, <2>1, <2>2, <2>3
<1>4. Follows(l, r, ft)
  BY <1>2, <1>3 DEF Follows
<1> QED
  BY <1>4 DEF r

(* A Done job, and one whose process is a zombie or gone, has ended.       *)
LEMMA DoneFollows ==
  ASSUME NEW l, NEW ps, NEW ft, Lively(l, ps, ft), NEW n
  PROVE  /\ Follows(l, JobRemove(l, DoneNodes(l)), ft)
         /\ Follows(l, RemoveIfDone(l, n), ft)
<1>1. \A m \in DoneNodes(l) : ft[m] # Alive
  BY DEF DoneNodes, Lively
<1>2. Follows(l, l, ft)
  BY DEF Follows
<1> QED
  BY <1>1, <1>2, RemoveFollows DEF RemoveIfDone

(* `jobs`, and `&` in a script.                                            *)
LEMMA PruneFollows ==
  ASSUME NEW k \in 0 .. MaxJobs, NEW l, JobsOK(l, k), NEW ps \in [Pids -> Child], NEW ft,
         Lively(l, ps, ft)
  PROVE  Follows(l, JobReapAndPrune(l, ps), ft)
<1> DEFINE r == JobReap(l, ps)
<1>1. k \in Nat /\ MaxJobs \in Nat
  BY ChildrenAssumption
<1>2. Follows(l, r, ft)
  BY <1>1, ReapFollows
<1>3. Lively(r, ps, ft)
  BY <1>2, FollowsLively DEF RunnersStay
<1>4. Follows(r, JobRemove(r, DoneNodes(r)), ft)
  BY <1>3, DoneFollows
<1> QED
  BY <1>2, <1>4, FollowsOn DEF JobReapAndPrune

(* job_wait for p, which has ended or is no child of this shell.           *)
LEMMA WaitFollows ==
  ASSUME IInv, Lively(jl, proc, fate), NEW p \in Pids, WaitReturns(p), NEW n
  PROVE  /\ Follows(jl, RemoveIfDone(JobsAfterWait(p), n), fate)
         /\ RunnersStay(proc, ProcAfterWait(p))
<1>1. JobsOK(jl, allocs) /\ proc \in [Pids -> Child] /\ allocs \in 0 .. MaxJobs /\ allocs \in Nat
  BY Before
<1> DEFINE m == JobFindByPid(jl, p)
           r == JobsAfterWait(p)
<1>2. m \in Nodes(jl) => jl.jobs[m].pid = p
  <2>1. NodesByPid(jl, p) \in SUBSET Nat
    BY <1>1, PidsOfNodes DEF NodesByPid
  <2>2. m \in NodesByPid(jl, p) \cup {NoJob}
    BY <2>1, FirstInSet DEF JobFindByPid
  <2>3. NoJob \notin Nodes(jl)
    BY <1>1, PidsOfNodes DEF NoJob
  <2> QED
    BY <2>2, <2>3 DEF NodesByPid
<1>3. m \in Nodes(jl) \cup {NoJob}
  BY <1>1, Searches
<1>4. Follows(jl, r, fate)
  <2>1. CASE r = jl
    BY <2>1 DEF Follows
  <2>2. CASE r # jl
    <3>1. r = JobSetStatus(jl, m, proc[p].code) /\ m \in Nodes(jl) /\ proc[p].st = "zombie"
      BY <1>3, <2>2 DEF JobsAfterWait, WaitReturns
    <3>2. fate[m] # Alive
      BY <1>2, <3>1 DEF Lively, Runner
    <3> QED
      BY <1>1, <3>1, <3>2, StatusFollows
  <2> QED
    BY <2>1, <2>2
<1>5. Lively(r, proc, fate)
  BY <1>1, <1>4, FollowsLively DEF RunnersStay
<1>6. Follows(r, RemoveIfDone(r, n), fate)
  BY <1>5, DoneFollows
<1>7. Follows(jl, RemoveIfDone(r, n), fate)
  BY <1>4, <1>6, FollowsOn
<1>8. RunnersStay(proc, ProcAfterWait(p))
  <2>1. CASE Cached(p)
    BY <2>1 DEF ProcAfterWait, RunnersStay
  <2>2. CASE ~Cached(p)
    <3>1. proc[p].st \in {"zombie", "none", "other"}
      BY <2>2 DEF WaitReturns, NoSuchChild
    <3>2. \A q \in Pids : Reaped(proc, {p})[q] = proc[q] \/ (q = p /\ proc[q].st = "zombie")
      BY <3>1 DEF Reaped, NoSuchChild
    <3> QED
      BY <2>2, <3>2 DEF ProcAfterWait, RunnersStay, Runner
  <2> QED
    BY <2>1, <2>2
<1> QED
  BY <1>7, <1>8

(* What the kernel does to several children keeps the jobs' processes.     *)
LEMMA RunnersKept ==
  ASSUME NEW ps \in [Pids -> Child], NEW n, NEW S
  PROVE  /\ RunnersStay(ps, ps)
         /\ RunnersStay(ps, Drained(ps))
         /\ RunnersStay(ps, Continued(ps, S))
         /\ RunnersStay(ps, NotMine(ps))
         /\ S \subseteq Free(ps) => RunnersStay(ps, Forked(ps, S, n))
<1>1. RunnersStay(ps, Drained(ps))
  <2>1. \A q \in Pids : ps[q].st # "zombie" =>
          Drained(ps)[q].st = ps[q].st /\ Drained(ps)[q].job = ps[q].job
    BY DEF Drained, Child
  <2> QED
    BY <2>1 DEF RunnersStay, Runner
<1>2. RunnersStay(ps, Continued(ps, S))
  <2>1. \A q \in Pids : /\ Continued(ps, S)[q].job = ps[q].job
                        /\ \/ Continued(ps, S)[q].st = ps[q].st
                           \/ ps[q].st = "stop" /\ Continued(ps, S)[q].st = "run"
    BY DEF Continued, Child
  <2> QED
    BY <2>1 DEF RunnersStay, Runner
<1>3. RunnersStay(ps, ps) /\ RunnersStay(ps, NotMine(ps))
  BY DEF RunnersStay, Runner, NotMine, ChildIn
<1>4. S \subseteq Free(ps) => RunnersStay(ps, Forked(ps, S, n))
  BY DEF RunnersStay, Runner, Forked, Free
<1> QED
  BY <1>1, <1>2, <1>3, <1>4

(* So does what happens to one child, but for its end; a child that was no *)
(* job's may become one's.                                                 *)
LEMMA RunnerKept ==
  ASSUME NEW ps \in [Pids -> Child], NEW p \in Pids, NEW n \in 0 .. MaxJobs
  PROVE  /\ ps[p].st = "run" => RunnersStay(ps, Stopped(ps, p))
         /\ RunnersStay(ps, Told(ps, p))
         /\ ps[p].st \notin {"run", "stop"} => RunnersStay(ps, Reaped(ps, {p}))
         /\ ps[p].job = NoJob => RunnersStay(ps, ToldAsJob(ps, p, n))
<1>1. MaxJobs \in Nat
  BY ChildrenAssumption
<1>2. (ps[p].st = "run" => RunnersStay(ps, Stopped(ps, p))) /\ RunnersStay(ps, Told(ps, p))
  <2>1. \A q \in Pids : /\ Told(ps, p)[q].st = ps[q].st /\ Told(ps, p)[q].job = ps[q].job
                        /\ Stopped(ps, p)[q].job = ps[q].job
                        /\ Stopped(ps, p)[q].st = IF q = p THEN "stop" ELSE ps[q].st
    BY DEF Stopped, Told, Child
  <2> QED
    BY <2>1 DEF RunnersStay, Runner
<1>3. ps[p].st \notin {"run", "stop"} => RunnersStay(ps, Reaped(ps, {p}))
  BY DEF RunnersStay, Runner, Reaped, NoSuchChild
<1>4. ps[p].job = NoJob => RunnersStay(ps, ToldAsJob(ps, p, n))
  <2>1. \A q \in Pids : /\ ToldAsJob(ps, p, n)[q].st = ps[q].st
                        /\ q # p => ToldAsJob(ps, p, n)[q].job = ps[q].job
    BY DEF ToldAsJob, Child
  <2> QED
    BY <1>1, <2>1 DEF RunnersStay, Runner, NoJob
<1> QED
  BY <1>2, <1>3, <1>4

-----------------------------------------------------------------------------
(* The children of the foreground commands.                                *)

(* The child of a foreground command somewhere on the stack.               *)
Guarded(s, p) == Monitor /\ \E i \in DOMAIN s : s[i].op = "external" /\ Head(s[i].pids) = p

(* Those children remain, the others do not matter.                        *)
LEMMA WatchStays ==
  ASSUME NEW s \in Seq(Frames), NEW ps, Watching(s, ps), NEW qs,
         \A p \in Pids : Guarded(s, p) /\ Stray(ps, p) => Stray(qs, p)
  PROVE  Watching(s, qs)
<1>1. ASSUME NEW i \in DOMAIN s PROVE Watched(s[i], qs)
  <2>1. s[i] \in Frames /\ Watched(s[i], ps)
    BY DEF Watching
  <2>2. s[i].op = "external" => Head(s[i].pids) \in Pids
    <3>1. s[i].op = "external" => s[i].pids \in Seq(Pids) \ {<<>>}
      BY <2>1 DEF Frames, FrameType, Blocking
    <3> QED
      BY <3>1, HeadTailProperties
  <2> QED
    BY <2>1, <2>2 DEF Watched, Guarded
<1> QED
  BY <1>1 DEF Watching

(* A frame pushed.                                                         *)
LEMMA WatchPush ==
  ASSUME NEW s \in Seq(Frames), NEW ps, Watching(s, ps), NEW f, Watched(f, ps),
         \A i \in DOMAIN s : Beside(f, s[i])
  PROVE  Watching(<<f>> \o s, ps)
<1> DEFINE t == <<f>> \o s
<1>1. /\ DOMAIN t = 1 .. Len(s) + 1 /\ t[1] = f
      /\ \A i \in DOMAIN t : i # 1 => i - 1 \in DOMAIN s /\ t[i] = s[i - 1]
  BY Pushed
<1> HIDE DEF t
<1>2. \A i \in DOMAIN t : Watched(t[i], ps)
  BY <1>1 DEF Watching
<1>3. ASSUME NEW i \in DOMAIN t, NEW j \in DOMAIN t, i < j PROVE Beside(t[i], t[j])
  <2>1. j # 1 /\ j - 1 \in DOMAIN s /\ t[j] = s[j - 1]
    BY <1>1, <1>3
  <2>2. CASE i = 1
    BY <1>1, <2>1, <2>2
  <2>3. CASE i # 1
    BY <1>1, <1>3, <2>1, <2>3 DEF Watching
  <2> QED
    BY <2>2, <2>3
<1> QED
  BY <1>2, <1>3 DEF Watching, t

(* The innermost frame, and what is left without it.                       *)
LEMMA WatchPop ==
  ASSUME NEW s \in Seq(Frames), s # <<>>, NEW ps, Watching(s, ps)
  PROVE  /\ Tail(s) \in Seq(Frames) /\ Watching(Tail(s), ps) /\ Watched(Head(s), ps)
         /\ \A i \in DOMAIN Tail(s) : Beside(Head(s), Tail(s)[i])
         /\ \A p : Guarded(s, p) /\ Head(s).op # "external" => Guarded(Tail(s), p)
         /\ \A p : Guarded(Tail(s), p) => Head(s).op \in Over
         /\ \A p : Guarded(Tail(s), p) /\ Head(s).op \in Collects => p \notin PidsOf(Head(s).pids)
<1> DEFINE t == Tail(s)
<1>1. /\ t \in Seq(Frames) /\ 1 \in DOMAIN s /\ Head(s) = s[1]
      /\ \A i \in DOMAIN t : i \in Nat \ {0} /\ i + 1 \in DOMAIN s /\ t[i] = s[i + 1]
      /\ \A i \in DOMAIN s : i # 1 => i - 1 \in DOMAIN t /\ t[i - 1] = s[i]
  <2>1. Len(s) \in Nat /\ Len(s) # 0 /\ DOMAIN s = 1 .. Len(s)
    BY EmptySeq, LenProperties
  <2>2. t \in Seq(Frames) /\ Head(s) = s[1] /\ Len(t) = Len(s) - 1
        /\ \A i \in 1 .. Len(t) : t[i] = s[i + 1]
    BY HeadTailProperties
  <2> HIDE DEF t
  <2>3. DOMAIN t = 1 .. Len(t)
    BY <2>2, LenProperties
  <2> QED
    BY <2>1, <2>2, <2>3
<1> HIDE DEF t
<1>2. \A i \in DOMAIN t : Watched(t[i], ps)
  BY <1>1 DEF Watching
<1>3. \A i, j \in DOMAIN t : i < j => Beside(t[i], t[j])
  BY <1>1 DEF Watching
<1>4. \A i \in DOMAIN t : Beside(Head(s), t[i])
  BY <1>1 DEF Watching
<1>5. Watched(Head(s), ps)
  BY <1>1 DEF Watching
<1>6. \A p : Guarded(s, p) /\ Head(s).op # "external" => Guarded(t, p)
  BY <1>1 DEF Guarded
<1>7. \A p : Guarded(t, p) => Head(s).op \in Over
  BY <1>4 DEF Guarded, Beside
<1>8. \A p : Guarded(t, p) /\ Head(s).op \in Collects => p \notin PidsOf(Head(s).pids)
  BY <1>4 DEF Guarded, Beside
<1>9. Watching(t, ps)
  BY <1>2, <1>3 DEF Watching
<1> QED
  BY <1>1, <1>4, <1>5, <1>6, <1>7, <1>8, <1>9 DEF t

(* A frame that may lie on any foreground command, or has none below it.   *)
LEMMA WatchPushed ==
  ASSUME NEW s \in Seq(Frames), NEW ps, Watching(s, ps), NEW f, Watched(f, ps),
         (\E p : Guarded(s, p)) =>
            /\ f.op \in Over
            /\ f.op \in Collects => \A p \in PidsOf(f.pids) : ~Guarded(s, p)
  PROVE  Watching(<<f>> \o s, ps)
<1>1. ASSUME NEW i \in DOMAIN s, Monitor, s[i].op = "external"
      PROVE  Guarded(s, Head(s[i].pids))
  BY <1>1 DEF Guarded
<1>2. \A i \in DOMAIN s : Beside(f, s[i])
  BY <1>1 DEF Beside
<1> QED
  BY <1>2, WatchPush

-----------------------------------------------------------------------------
(* The steps.                                                              *)

(* What a step may use of the state it starts in.                          *)
LEMMA LifeKnown ==
  ASSUME IInv, LifeInv
  PROVE  /\ stack \in Seq(Frames) /\ stack # <<>> /\ Top = Head(stack) /\ Top \in Frames
         /\ Top \in FrameType /\ proc \in [Pids -> Child] /\ JobsOK(jl, allocs)
         /\ allocs \in 0 .. MaxJobs /\ allocs \in Nat /\ MaxJobs \in Nat /\ 0 \in Codes
         /\ NoJob = 0
         /\ Lively(jl, proc, fate) /\ Unborn(fate, allocs) /\ Watching(stack, proc)
         /\ NoOthers(proc)
         /\ Tail(stack) \in Seq(Frames) /\ Watching(Tail(stack), proc)
         /\ Watched(Top, proc)
<1>1. /\ stack \in Seq(Frames) /\ stack # <<>> /\ Top = Head(stack) /\ Top \in Frames
  BY Before DEF StackOK, Top
<1>2. Watching(stack, proc)
  BY DEF LifeInv
<1>3. Tail(stack) \in Seq(Frames) /\ Watching(Tail(stack), proc) /\ Watched(Top, proc)
  BY <1>1, <1>2, WatchPop
<1> QED
  BY <1>1, <1>3, Before, ChildrenAssumption DEF LifeInv, Frames, NoJob

(* Below a command that reaps there is no foreground command that may      *)
(* still become a job.                                                     *)
LEMMA ReapsUnguarded ==
  ASSUME IInv, LifeInv, JobsAreOwn, NEW cmd \in {"jobs", "wait", "fg", "bg"}, Runs(cmd)
  PROVE  \A p : ~Guarded(stack, p)
<1>1. SUFFICES ASSUME NEW p, Guarded(stack, p) PROVE FALSE
  OBVIOUS
<1>2. Monitor /\ cmd \notin AboveWaits
  BY <1>1 DEF Guarded, JobsAreOwn
<1>3. Top.op \in {"top", "body", "trap"}
  BY DEF Runs
<1>4. Guarded(Tail(stack), p)
  BY <1>1, <1>3, LifeKnown, WatchPop
<1>5. Top.op \in Over
  BY <1>4, LifeKnown, WatchPop
<1> QED
  BY <1>2, <1>3, <1>5 DEF Runs, Over, AboveWaits

(* The steps that start no job and end no child: the table follows, and    *)
(* the processes of its jobs stay.                                         *)
LEMMA TableGoesOn ==
  ASSUME IInv, LifeInv,
         \/ WaitAllStep \/ WaitPidReturn \/ ForegroundReturn \/ ForegroundStops
         \/ AsyncForkFails \/ JobsCommand
         \/ \E n \in 1 .. MaxJobs : Foreground(n) \/ Background(n)
         \/ \E cmd \in {"fg", "bg"} : NoSuchJob(cmd)
  PROVE  Follows(jl, jl', fate) /\ RunnersStay(proc, proc')
<1>1. /\ proc \in [Pids -> Child] /\ JobsOK(jl, allocs) /\ allocs \in 0 .. MaxJobs
      /\ allocs \in Nat /\ 0 \in 0 .. MaxJobs /\ Lively(jl, proc, fate)
  BY LifeKnown
<1>2. RunnersStay(proc, proc) /\ RunnersStay(proc, Drained(proc)) /\ Follows(jl, jl, fate)
  BY <1>1, RunnersKept DEF Follows
<1>3. CASE WaitAllStep
  <2> DEFINE p == jl.jobs[Top.node].pid
  <2>1. p \in Pids
    BY <1>1, <1>3, PidsOfNodes DEF WaitAllStep
  <2>2. \/ /\ jl' = RemoveIfDone(JobsAfterWait(p), Top.node) /\ proc' = ProcAfterWait(p)
           /\ WaitReturns(p)
        \/ jl' = RemoveIfDone(jl, Top.node) /\ proc' = proc
    BY <1>3 DEF WaitAllStep
  <2> HIDE DEF p
  <2> QED
    BY <1>1, <1>2, <2>1, <2>2, WaitFollows, DoneFollows
<1>4. CASE WaitPidReturn
  <2>1. Pid \in Pids
    BY <1>4, PidIsPid DEF WaitPidReturn, Blocking
  <2> QED
    BY <1>1, <1>4, <2>1, WaitFollows DEF WaitPidReturn
<1>5. CASE ForegroundReturn \/ ForegroundStops
  <2>1. Pid \in Pids /\ Top.op = "fg"
    BY <1>5, PidIsPid DEF ForegroundReturn, ForegroundStops, Blocking
  <2> DEFINE k == JobFindByPid(jl, Pid)
  <2>2. k \in Nodes(jl) => jl.jobs[k].pid = Pid
    <3>1. NodesByPid(jl, Pid) \in SUBSET Nat
      BY <1>1, PidsOfNodes DEF NodesByPid
    <3>2. k \in NodesByPid(jl, Pid) \cup {NoJob}
      BY <3>1, FirstInSet DEF JobFindByPid
    <3>3. NoJob \notin Nodes(jl)
      BY <1>1, PidsOfNodes DEF NoJob
    <3> QED
      BY <3>2, <3>3 DEF NodesByPid
  <2>3. k \in Nodes(jl) \cup {NoJob}
    BY <1>1, Searches
  <2>4. CASE ForegroundReturn
    <3>1. proc[Pid].st \notin {"run", "stop"}
      BY <2>4 DEF ForegroundReturn, Ended, NoSuchChild
    <3>2. proc[Pid].st # "other"
      BY <2>1, LifeKnown DEF NoOthers, Watched
    <3>3. \A n \in {k} : k # NoJob => fate[n] # Alive
      BY <2>2, <2>3, <3>1, <3>2, <1>1 DEF Lively, Runner
    <3>4. k # NoJob => Follows(jl, JobRemove(jl, {k}), fate)
      BY <3>3, RemoveFollows
    <3>5. RunnersStay(proc, Reaped(proc, {Pid}))
      BY <1>1, <2>1, <3>1, RunnerKept
    <3> QED
      BY <1>2, <2>4, <3>4, <3>5 DEF ForegroundReturn
  <2>5. CASE ForegroundStops
    <3>1. Follows(jl, JobSetStatus(jl, k, StopCode), fate)
      BY <1>1, StatusFollows
    <3>2. RunnersStay(proc, Told(proc, Pid))
      BY <1>1, <2>1, RunnerKept
    <3> QED
      BY <1>2, <2>5, <3>1, <3>2 DEF ForegroundStops
  <2> QED
    BY <1>5, <2>4, <2>5
<1>6. CASE AsyncForkFails \/ JobsCommand
  <2>1. Follows(jl, JobReapAndPrune(jl, proc), fate)
    BY <1>1, PruneFollows
  <2> QED
    BY <1>2, <1>6, <2>1 DEF AsyncForkFails, JobsCommand, JobsBeforeAsync, ProcBeforeAsync
<1>7. CASE \/ \E n \in 1 .. MaxJobs : Foreground(n) \/ Background(n)
           \/ \E cmd \in {"fg", "bg"} : NoSuchJob(cmd)
  <2> DEFINE l == JobReap(jl, proc)
  <2>1. Follows(jl, l, fate) /\ JobsOK(l, allocs)
    BY <1>1, ReapFollows, JobOps, Numbers
  <2>2. \/ jl' = l
        \/ \E n : jl' = Resumed(l, n)
    BY <1>7 DEF Foreground, Background, NoSuchJob
  <2>3. \A n : Follows(l, Resumed(l, n), fate)
    BY <2>1, ResumedFollows
  <2>4. Follows(jl, jl', fate)
    BY <2>1, <2>2, <2>3, FollowsOn
  <2>5. \/ proc' = Drained(proc)
        \/ \E p : proc' = Continued(Drained(proc), {p})
    BY <1>7 DEF Foreground, Background, NoSuchJob, ProcResumed
  <2>6. \A p : RunnersStay(Drained(proc), Continued(Drained(proc), {p}))
    <3>1. Drained(proc) \in [Pids -> Child]
      BY <1>1, ReapedKeeps, Before DEF ProcOK
    <3> QED
      BY <3>1, RunnersKept
  <2>7. RunnersStay(proc, proc')
    BY <1>2, <2>5, <2>6 DEF RunnersStay
  <2> QED
    BY <2>4, <2>7
<1> QED
  BY <1>3, <1>4, <1>5, <1>6, <1>7

(* The steps that leave the table alone, a child's end apart.              *)
LEMMA ProcessesGoOn ==
  ASSUME IInv, LifeInv,
         \/ ReadFreedJob \/ ChildReturn \/ CollectStage \/ TrapDone \/ Signal
         \/ \E c \in Codes \cup {Flow} : BodyDone(c)
         \/ WaitAll \/ EnterSubshell
         \/ \E p \in Pids : WaitPid(p) \/ External(p) \/ Subshell(p)
         \/ \E s \in Stages : Pipeline(s)
         \/ \E s \in Stages \cup {<<>>} : PipelineForkFails(s)
         \/ \E p \in Pids : ChildStop(p) \/ ChildContinue(p)
         \/ Undefined \/ UNCHANGED vars
  PROVE  jl' = jl /\ RunnersStay(proc, proc')
<1>1. proc \in [Pids -> Child] /\ 0 \in 0 .. MaxJobs
  BY LifeKnown
<1>2. RunnersStay(proc, proc)
  BY <1>1, RunnersKept
<1>3. CASE \/ ReadFreedJob \/ TrapDone \/ Signal \/ WaitAll \/ Undefined \/ UNCHANGED vars
           \/ \E c \in Codes \cup {Flow} : BodyDone(c)
           \/ \E p \in Pids : WaitPid(p)
  BY <1>2, <1>3 DEF ReadFreedJob, TrapDone, Signal, WaitAll, Undefined, vars, BodyDone, WaitPid
<1>4. CASE ChildReturn \/ CollectStage
  <2>1. jl' = jl /\ Returned(Top, Pid) /\ proc' = ProcCollected(Top, Pid)
    BY <1>4 DEF ChildReturn, CollectStage
  <2>2. Pid \in Pids
    BY <1>4, PidIsPid DEF ChildReturn, CollectStage, Blocking
  <2>3. CASE Top.eintr
    BY <1>2, <2>1, <2>3 DEF ProcCollected
  <2>4. CASE ~Top.eintr
    <3>1. proc' = Reaped(proc, {Pid}) /\ proc[Pid].st \notin {"run", "stop"}
      BY <2>1, <2>4 DEF ProcCollected, Returned, Ended, NoSuchChild
    <3> QED
      BY <1>1, <2>1, <2>2, <3>1, RunnerKept
  <2> QED
    BY <2>3, <2>4
<1>5. CASE EnterSubshell
  BY <1>1, <1>5, RunnersKept DEF EnterSubshell
<1>6. CASE \/ \E p \in Pids : External(p) \/ Subshell(p)
           \/ \E s \in Stages : Pipeline(s)
           \/ \E s \in Stages \cup {<<>>} : PipelineForkFails(s)
  <2>1. PICK S : S \subseteq Free(proc) /\ proc' = Forked(proc, S, NoJob) /\ jl' = jl
    <3>1. CASE \E p \in Pids : External(p) \/ Subshell(p)
      <4>1. PICK p \in Free(proc) : proc' = Forked(proc, {p}, NoJob) /\ jl' = jl
        BY <3>1 DEF External, Subshell, ForkAndWait
      <4>2. {p} \subseteq Free(proc)
        OBVIOUS
      <4> QED
        BY <4>1, <4>2
    <3>2. CASE \/ \E s \in Stages : Pipeline(s)
               \/ \E s \in Stages \cup {<<>>} : PipelineForkFails(s)
      <4>1. PICK s \in Stages \cup {<<>>} : Pipeline(s) \/ PipelineForkFails(s)
        BY <3>2
      <4> QED
        BY <4>1 DEF Pipeline, PipelineForkFails
    <3> QED
      BY <1>6, <3>1, <3>2
  <2> QED
    BY <1>1, <2>1, RunnersKept
<1>7. CASE \E p \in Pids : ChildStop(p) \/ ChildContinue(p)
  <2>1. PICK p \in Pids : ChildStop(p) \/ ChildContinue(p)
    BY <1>7
  <2>2. CASE ChildStop(p)
    BY <1>1, <2>2, RunnerKept DEF ChildStop
  <2>3. CASE ChildContinue(p)
    BY <1>1, <2>3, RunnersKept DEF ChildContinue
  <2> QED
    BY <2>1, <2>2, <2>3
<1> QED
  BY <1>3, <1>4, <1>5, <1>6, <1>7

(* A child ends, and with it the life of its job.                          *)
LEMMA EndGoesOn ==
  ASSUME IInv, LifeInv, NEW p \in Pids, NEW c \in Codes, ChildExit(p, c)
  PROVE  Lively(jl', proc', fate') /\ Unborn(fate', allocs')
<1>1. /\ proc \in [Pids -> Child] /\ JobsOK(jl, allocs) /\ allocs \in 0 .. MaxJobs
      /\ allocs \in Nat /\ MaxJobs \in Nat /\ Lively(jl, proc, fate) /\ Unborn(fate, allocs)
  BY LifeKnown
<1>2. /\ fate \in [1 .. MaxJobs -> Codes \cup {Alive}] /\ c # Alive
      /\ proc[p].job \in 0 .. allocs
  <2>1. proc[p] \in Child /\ proc[p].job <= allocs
    BY Before DEF ProcOK
  <2> QED
    BY <1>1, <2>1, ChildrenAssumption DEF IInv, TypeOK, Child, Alive
<1> DEFINE m == proc[p].job
<1>3. /\ jl' = jl /\ allocs' = allocs
      /\ \A q \in Pids : /\ proc'[q].job = proc[q].job
                         /\ q # p => proc'[q].st = proc[q].st
      /\ \A n \in 1 .. MaxJobs : fate'[n] = IF n = m THEN c ELSE fate[n]
  <2>1. /\ jl' = jl /\ allocs' = allocs /\ proc' = Exited(proc, p, c)
        /\ fate' = IF m = NoJob THEN fate ELSE [fate EXCEPT ![m] = c]
    BY DEF ChildExit
  <2>2. \A q \in Pids : /\ Exited(proc, p, c)[q].job = proc[q].job
                        /\ q # p => Exited(proc, p, c)[q].st = proc[q].st
    BY <1>1 DEF Exited, Child
  <2>3. \A n \in 1 .. MaxJobs : fate'[n] = IF n = m THEN c ELSE fate[n]
    BY <1>1, <1>2, <2>1 DEF NoJob
  <2> QED
    BY <2>1, <2>2, <2>3
<1>4. proc[p].st \in {"run", "stop"}
  BY DEF ChildExit
<1>5. \A n \in Nodes(jl) : n \in 1 .. MaxJobs /\ jl.jobs[n].pid \in Pids
  BY <1>1, PidsOfNodes
<1> HIDE DEF m
<1>6. \A n \in Nodes(jl) : fate'[n] = Alive => fate[n] = Alive /\ n # m
  BY <1>2, <1>3, <1>5
<1>7. ASSUME NEW n \in Nodes(jl), fate'[n] = Alive
      PROVE  jl.jobs[n].state # "DONE" /\ Runner(proc', jl.jobs[n].pid, n)
  <2>1. jl.jobs[n].state # "DONE" /\ Runner(proc, jl.jobs[n].pid, n) /\ n # m
    BY <1>1, <1>6, <1>7 DEF Lively
  <2>2. jl.jobs[n].pid # p
    BY <1>4, <2>1 DEF Runner, m
  <2> QED
    BY <1>3, <1>5, <2>1, <2>2 DEF Runner
<1>8. Unborn(fate', allocs)
  BY <1>1, <1>2, <1>3 DEF Unborn, m
<1> QED
  BY <1>3, <1>7, <1>8 DEF Lively

(* A job starts: the table follows, and its process is the job's.          *)
LEMMA StartLively ==
  ASSUME NEW k \in Nat, k + 1 \in 1 .. MaxJobs, NEW l, JobsOK(l, k), NEW ps, NEW qs, NEW ft,
         Lively(l, ps, ft), RunnersStay(ps, qs), NEW p,
         qs[p].st \in {"run", "stop"}, qs[p].job = k + 1
  PROVE  Lively(JobRegister(l, k + 1, p), qs, ft)
<1> DEFINE r == JobRegister(l, k + 1, p)
<1>1. /\ Nodes(r) = Nodes(l) \cup {k + 1}
      /\ r.jobs[k + 1].pid = p /\ r.jobs[k + 1].state = "RUNNING"
      /\ \A n \in Nodes(l) : r.jobs[n] = l.jobs[n]
  BY Registered
<1>2. \A n \in Nodes(l) : n \in 1 .. MaxJobs /\ l.jobs[n].pid \in Pids
  <2>1. MaxJobs \in Nat /\ 1 .. k \subseteq 1 .. MaxJobs
    BY ChildrenAssumption
  <2>2. Nodes(l) \subseteq 1 .. k /\ \A n \in Nodes(l) : l.jobs[n].pid \in Pids
    BY PidsOfNodes
  <2> QED
    BY <2>1, <2>2
<1> HIDE DEF r
<1>3. Lively(r, qs, ft)
  BY <1>1, <1>2 DEF Lively, RunnersStay, Runner
<1> QED
  BY <1>3 DEF r

(* `&`: what it reaps, and the job it starts.                              *)
LEMMA AsyncGoesOn ==
  ASSUME IInv, LifeInv, NEW p \in Pids, Async(p)
  PROVE  /\ Lively(jl', proc', fate') /\ Unborn(fate', allocs')
         /\ Follows(jl, JobsBeforeAsync, fate)
         /\ Nodes(jl') = Nodes(JobsBeforeAsync) \cup {allocs'}
<1>1. /\ proc \in [Pids -> Child] /\ JobsOK(jl, allocs) /\ allocs \in 0 .. MaxJobs
      /\ allocs \in Nat /\ MaxJobs \in Nat /\ Lively(jl, proc, fate) /\ Unborn(fate, allocs)
  BY LifeKnown
<1> DEFINE l == JobsBeforeAsync
           ps == ProcBeforeAsync
           k == allocs + 1
<1>2. /\ k \in 1 .. MaxJobs /\ allocs' = k /\ fate' = fate /\ p \in Free(ps)
      /\ proc' = Forked(ps, {p}, k) /\ jl' = JobRegister(l, k, p)
  BY <1>1 DEF Async
<1>3. Follows(jl, l, fate) /\ RunnersStay(proc, ps)
  <2>1. Follows(jl, JobReapAndPrune(jl, proc), fate) /\ Follows(jl, jl, fate)
    BY <1>1, PruneFollows DEF Follows
  <2>2. RunnersStay(proc, proc) /\ RunnersStay(proc, Drained(proc))
    BY <1>1, RunnersKept
  <2> QED
    BY <2>1, <2>2 DEF JobsBeforeAsync, ProcBeforeAsync
<1>4. JobsOK(l, allocs) /\ ps \in [Pids -> Child]
  BY BeforeAsyncKeeps DEF ProcOK
<1>5. Lively(l, ps, fate)
  BY <1>1, <1>3, FollowsLively
<1>6. {p} \subseteq Free(ps) => RunnersStay(ps, Forked(ps, {p}, k))
  BY <1>4, RunnersKept
<1>7. Forked(ps, {p}, k)[p].st = "run" /\ Forked(ps, {p}, k)[p].job = k
  BY DEF Forked, ChildIn
<1> HIDE DEF l, ps
<1>8. Lively(JobRegister(l, allocs + 1, p), proc', fate)
  BY <1>1, <1>2, <1>4, <1>5, <1>6, <1>7, StartLively
<1>9. Nodes(JobRegister(l, allocs + 1, p)) = Nodes(l) \cup {allocs + 1}
  BY <1>1, <1>4, Registered
<1> QED
  BY <1>1, <1>2, <1>3, <1>8, <1>9 DEF Unborn, l

(* A foreground command stopped under job control becomes a job.           *)
LEMMA StopGoesOn ==
  ASSUME IInv, LifeInv, ExternalStops
  PROVE  /\ Lively(jl', proc', fate') /\ Unborn(fate', allocs')
         /\ Nodes(jl') = Nodes(jl) \cup {allocs'}
<1>1. /\ proc \in [Pids -> Child] /\ JobsOK(jl, allocs) /\ allocs \in 0 .. MaxJobs
      /\ allocs \in Nat /\ MaxJobs \in Nat /\ Lively(jl, proc, fate) /\ Unborn(fate, allocs)
  BY LifeKnown
<1> DEFINE k == allocs + 1
           r == JobRegister(jl, k, Pid)
<1>2. /\ k \in 1 .. MaxJobs /\ allocs' = k /\ fate' = fate
      /\ proc' = ToldAsJob(proc, Pid, k) /\ jl' = JobSetStatus(r, k, StopCode)
      /\ Top.op = "external" /\ Monitor /\ proc[Pid].st = "stop"
  BY <1>1 DEF ExternalStops, StopReported, UntoldStops
<1>3. Pid \in Pids
  BY <1>2, PidIsPid DEF Blocking
<1>4. proc[Pid].job = NoJob
  BY <1>2, LifeKnown DEF Watched, Stray, Pid
<1>5. RunnersStay(proc, proc')
  <2>1. k \in 0 .. MaxJobs
    BY <1>1, <1>2
  <2> HIDE DEF k
  <2> QED
    BY <1>1, <1>2, <1>3, <1>4, <2>1, RunnerKept
<1>6. proc'[Pid].st = "stop" /\ proc'[Pid].job = k
  <2>1. proc[Pid] \in Child /\ DOMAIN proc = Pids
    BY <1>1, <1>3
  <2> QED
    BY <1>2, <1>3, <2>1 DEF ToldAsJob, Child
<1>7. Lively(r, proc', fate)
  BY <1>1, <1>2, <1>5, <1>6, StartLively
<1>8. JobsOK(r, k) /\ Nodes(r) = Nodes(jl) \cup {k}
  BY <1>1, <1>3, RegisteredOK, Registered
<1> HIDE DEF r
<1>9. Follows(r, jl', fate) /\ Nodes(jl') = Nodes(r)
  BY <1>2, <1>8, StatusFollows, StatusKeepsJobs
<1>10. Lively(jl', proc', fate)
  <2>1. RunnersStay(proc', proc') /\ k \in 0 .. MaxJobs
    BY <1>1, <1>2 DEF RunnersStay
  <2> HIDE DEF k
  <2> QED
    BY <1>7, <1>8, <1>9, <2>1, FollowsLively
<1> QED
  BY <1>1, <1>2, <1>8, <1>9, <1>10 DEF Unborn

-----------------------------------------------------------------------------
(* The stack goes on.                                                      *)

(* Where nothing below is guarded, any change of the children is allowed.  *)
LEMMA WatchFree ==
  ASSUME NEW s \in Seq(Frames), NEW ps, Watching(s, ps), \A p : ~Guarded(s, p), NEW qs
  PROVE  Watching(s, qs)
BY WatchStays

(* Steps that leave the stack alone.                                       *)
LEMMA UnmovedWatch ==
  ASSUME IInv, LifeInv, JobsAreOwn, stack' = stack,
         \/ \E p \in Pids, c \in Codes : ChildExit(p, c)
         \/ \E p \in Pids : ChildStop(p) \/ ChildContinue(p)
         \/ AsyncForkFails \/ JobsCommand
         \/ \E p \in Pids : Async(p)
         \/ \E n \in 1 .. MaxJobs : Background(n)
         \/ \E cmd \in {"fg", "bg"} : NoSuchJob(cmd)
         \/ \E s \in Stages \cup {<<>>} : PipelineForkFails(s)
  PROVE  Watching(stack', proc')
<1>1. /\ stack \in Seq(Frames) /\ Watching(stack, proc) /\ proc \in [Pids -> Child]
      /\ NoJob = 0
  BY LifeKnown
<1>2. CASE \/ JobsCommand \/ \E n \in 1 .. MaxJobs : Background(n)
           \/ \E cmd \in {"fg", "bg"} : NoSuchJob(cmd)
  <2>1. \A p : ~Guarded(stack, p)
    BY <1>2, ReapsUnguarded DEF JobsCommand, Background, NoSuchJob
  <2> QED
    BY <1>1, <2>1, WatchFree
<1>3. CASE AsyncForkFails \/ \E p \in Pids : Async(p)
  <2>1. CASE Monitor
    <3>1. ProcBeforeAsync = proc
      BY <2>1, JobControlAssumption DEF ProcBeforeAsync
    <3>2. \A q \in Pids : Stray(proc, q) => Stray(proc', q)
      BY <1>3, <3>1 DEF AsyncForkFails, Async, Forked, Free, Stray, NoSuchChild
    <3> QED
      BY <1>1, <3>2, WatchStays
  <2>2. CASE ~Monitor
    BY <1>1, <2>2, WatchFree DEF Guarded
  <2> QED
    BY <2>1, <2>2
<1>4. CASE \E s \in Stages \cup {<<>>} : PipelineForkFails(s)
  <2>1. \A q \in Pids : Stray(proc, q) => Stray(proc', q)
    BY <1>4 DEF PipelineForkFails, Forked, Free, Stray, NoSuchChild
  <2> QED
    BY <1>1, <2>1, WatchStays
<1>5. CASE \/ \E p \in Pids, c \in Codes : ChildExit(p, c)
           \/ \E p \in Pids : ChildStop(p) \/ ChildContinue(p)
  <2>1. PICK p \in Pids : \/ \E c \in Codes : proc' = Exited(proc, p, c)
                          \/ proc' = Stopped(proc, p) \/ proc' = Continued(proc, {p})
    BY <1>5 DEF ChildExit, ChildStop, ChildContinue
  <2>2. \A q \in Pids : proc'[q].job = proc[q].job
                        /\ (proc'[q].st = proc[q].st \/ proc'[q].st \in {"run", "stop", "zombie"})
    <3>1. CASE \E c \in Codes : proc' = Exited(proc, p, c)
      BY <1>1, <3>1 DEF Exited, Child
    <3>2. CASE proc' = Stopped(proc, p)
      BY <1>1, <3>2 DEF Stopped, Child
    <3>3. CASE proc' = Continued(proc, {p})
      BY <1>1, <3>3 DEF Continued, Child
    <3> QED
      BY <2>1, <3>1, <3>2, <3>3
  <2>3. \A q \in Pids : Stray(proc, q) => Stray(proc', q)
    BY <2>2 DEF Stray, NoSuchChild
  <2> QED
    BY <1>1, <2>3, WatchStays
<1> QED
  BY <1>2, <1>3, <1>4, <1>5

(* Steps that push a frame.                                                *)
LEMMA PushedWatch ==
  ASSUME IInv, LifeInv, JobsAreOwn,
         \/ WaitAll
         \/ \E p \in Pids : WaitPid(p) \/ External(p) \/ Subshell(p)
         \/ \E n \in 1 .. MaxJobs : Foreground(n)
         \/ \E s \in Stages : Pipeline(s)
  PROVE  Watching(stack', proc')
<1>1. /\ stack \in Seq(Frames) /\ Watching(stack, proc) /\ proc \in [Pids -> Child]
      /\ NoJob = 0
  BY LifeKnown
<1>2. CASE \/ WaitAll \/ \E p \in Pids : WaitPid(p)
           \/ \E n \in 1 .. MaxJobs : Foreground(n)
  <2>1. \A p : ~Guarded(stack, p)
    BY <1>2, ReapsUnguarded DEF WaitAll, WaitPid, Foreground
  <2>2. Watching(stack, proc')
    BY <1>1, <2>1, WatchFree
  <2>3. stack' = stack \/ \E f : stack' = <<f>> \o stack /\ Watched(f, proc')
    <3>1. CASE WaitAll
      <4> DEFINE f == [Frame("waitall") EXCEPT !.node = First(Nodes(jl)),
                                               !.next = NextNode(jl, First(Nodes(jl)))]
      <4>1. f.op = "waitall"
        BY DEF Frame
      <4>2. stack' = stack \/ stack' = <<f>> \o stack
        BY <3>1 DEF WaitAll, Push
      <4> HIDE DEF f
      <4> QED
        BY <4>1, <4>2 DEF Watched
    <3>2. CASE \E p \in Pids : WaitPid(p)
      <4>1. PICK p \in Pids : WaitPid(p)
        BY <3>2
      <4> DEFINE f == [Frame("waitpid") EXCEPT !.node = JobFindByPid(jl, p), !.pids = <<p>>]
      <4>2. f.op = "waitpid"
        BY DEF Frame
      <4>3. stack' = stack \/ stack' = <<f>> \o stack
        BY <4>1 DEF WaitPid, Push
      <4> HIDE DEF f
      <4> QED
        BY <4>2, <4>3 DEF Watched
    <3>3. CASE \E n \in 1 .. MaxJobs : Foreground(n)
      <4>1. PICK n \in 1 .. MaxJobs : Foreground(n)
        BY <3>3
      <4> DEFINE f == [Frame("fg") EXCEPT !.node = n, !.pids = <<JobReap(jl, proc).jobs[n].pid>>]
      <4>2. f.op = "fg"
        BY DEF Frame
      <4>3. stack' = <<f>> \o stack /\ "fg" \in Used
        BY <4>1 DEF Foreground, Push, Runs, Used
      <4> HIDE DEF f
      <4> QED
        BY <4>2, <4>3 DEF Watched
    <3> QED
      BY <1>2, <3>1, <3>2, <3>3
  <2> QED
    BY <1>1, <2>1, <2>2, <2>3, WatchPushed
<1>3. CASE \/ \E p \in Pids : External(p) \/ Subshell(p)
           \/ \E s \in Stages : Pipeline(s)
  <2>1. PICK op \in {"external", "subshell", "body"}, s \in Seq(Pids) \ {<<>>} :
          /\ proc' = Forked(proc, PidsOf(s), NoJob) /\ PidsOf(s) \subseteq Free(proc)
          /\ stack' = <<[Frame(op) EXCEPT !.pids = s]>> \o stack
          /\ Runs(IF op = "body" THEN "pipe" ELSE op)
    <3>1. CASE \E p \in Pids : External(p) \/ Subshell(p)
      <4>1. PICK p \in Pids, cmd \in {"external", "subshell"} : ForkAndWait(cmd, p)
        BY <3>1 DEF External, Subshell
      <4>2. <<p>> \in Seq(Pids) \ {<<>>} /\ PidsOf(<<p>>) = {p}
        BY DEF PidsOf
      <4> QED
        BY <4>1, <4>2 DEF ForkAndWait, Push
    <3>2. CASE \E s \in Stages : Pipeline(s)
      <4>1. PICK s \in Stages : Pipeline(s)
        BY <3>2
      <4>2. s \in Seq(Pids) \ {<<>>}
        BY JobControlAssumption, EmptySeq DEF Stages
      <4> QED
        BY <4>1, <4>2 DEF Pipeline, Push
    <3> QED
      BY <1>3, <3>1, <3>2
  <2> DEFINE f == [Frame(op) EXCEPT !.pids = s]
  <2>2. f.op = op /\ f.pids = s
    BY DEF Frame
  <2>3. \A q \in Pids : Stray(proc, q) => Stray(proc', q)
    BY <2>1 DEF Forked, Free, Stray, NoSuchChild
  <2>4. Watching(stack, proc')
    BY <1>1, <2>3, WatchStays
  <2>5. Head(s) \in PidsOf(s) /\ PidsOf(s) \subseteq Pids
    BY HeadTailProperties, LenProperties DEF PidsOf
  <2>6. \A q \in PidsOf(s) : Stray(proc', q) /\ ~Stray(proc, q)
    BY <1>1, <2>1, <2>5 DEF Forked, Free, Stray, NoSuchChild, ChildIn
  <2>7. stack' = <<f>> \o stack
    BY <2>1
  <2> HIDE DEF f
  <2>8. Watched(f, proc')
    BY <2>2, <2>5, <2>6 DEF Watched
  <2>9. ASSUME NEW p, Guarded(stack, p) PROVE f.op \in Over /\ Stray(proc, p)
    <3>1. Stray(proc, p)
      BY <1>1, <2>9 DEF Guarded, Watching, Watched
    <3>2. Top.op \in {"top", "body", "trap"}
      BY <2>1 DEF Runs
    <3>3. Top.op \in Over
      <4>1. Guarded(Tail(stack), p)
        BY <2>9, <3>2, LifeKnown, WatchPop
      <4> QED
        BY <4>1, LifeKnown, WatchPop
    <3> QED
      BY <2>1, <2>2, <3>1, <3>2, <3>3 DEF Over, Runs
  <2>10. \A p \in PidsOf(f.pids) : ~Guarded(stack, p)
    BY <2>2, <2>6, <2>9
  <2>11. (\E p : Guarded(stack, p)) => f.op \in Over
    BY <2>9
  <2> QED
    BY <1>1, <2>4, <2>7, <2>8, <2>10, <2>11, WatchPushed
<1> QED
  BY <1>2, <1>3

(* Steps that pop a frame: the child it waited for, if it was its own, is  *)
(* not one of those below.                                                 *)
LEMMA PoppedWatch ==
  ASSUME IInv, LifeInv,
         \/ (WaitAllStep /\ Pop)
         \/ WaitPidReturn \/ ForegroundReturn \/ ForegroundStops
         \/ ChildReturn \/ ExternalStops \/ (CollectStage /\ Pop)
         \/ TrapDone
  PROVE  Watching(stack', proc')
<1>1. /\ stack \in Seq(Frames) /\ stack # <<>> /\ Top = Head(stack) /\ Watching(stack, proc)
      /\ Tail(stack) \in Seq(Frames) /\ Watching(Tail(stack), proc) /\ proc \in [Pids -> Child]
  BY LifeKnown
<1>2. stack' = Tail(stack)
  BY DEF WaitPidReturn, ForegroundReturn, ForegroundStops, ChildReturn, ExternalStops,
         TrapDone, Pop
<1>3. CASE TrapDone
  BY <1>1, <1>2, <1>3 DEF TrapDone
<1>4. CASE WaitAllStep \/ WaitPidReturn \/ ForegroundReturn \/ ForegroundStops
  <2>1. Top.op \notin Over
    BY <1>4 DEF WaitAllStep, WaitPidReturn, ForegroundReturn, ForegroundStops, Over
  <2>2. \A p : ~Guarded(Tail(stack), p)
    BY <1>1, <2>1, WatchPop
  <2> QED
    BY <1>1, <1>2, <2>2, WatchFree
<1>5. CASE ChildReturn \/ ExternalStops \/ CollectStage
  <2>1. Top.op \in Collects /\ Top.op \in {"external", "subshell", "collect"}
    BY <1>5 DEF ChildReturn, ExternalStops, CollectStage, Collects
  <2>2. Pid \in PidsOf(Top.pids)
    <3>1. Top.pids \in Seq(Pids) \ {<<>>}
      BY <2>1, PidIsPid DEF Blocking
    <3>2. Pid = Top.pids[1] /\ 1 \in DOMAIN Top.pids
      BY <3>1, HeadTailProperties, LenProperties, EmptySeq DEF Pid
    <3> QED
      BY <3>2 DEF PidsOf
  <2>3. ~Guarded(Tail(stack), Pid)
    BY <1>1, <2>1, <2>2, WatchPop
  <2>4. \A q \in Pids : q # Pid => proc'[q] = proc[q]
    BY <1>1, <1>5 DEF ChildReturn, ExternalStops, CollectStage, ProcCollected, Reaped, ToldAsJob
  <2>5. \A q \in Pids : Guarded(Tail(stack), q) /\ Stray(proc, q) => Stray(proc', q)
    BY <2>3, <2>4 DEF Stray, NoSuchChild
  <2> QED
    BY <1>1, <1>2, <2>5, WatchStays
<1> QED
  BY <1>3, <1>4, <1>5

(* A frame replaced by one that waits for no more.                         *)
LEMMA SwapWatch ==
  ASSUME IInv, LifeInv, NEW ps, Watching(Tail(stack), ps), NEW f, Watched(f, ps),
         Top.op \in Over => f.op \in Over,
         f.op \in Collects => Top.op \in Collects /\ PidsOf(f.pids) \subseteq PidsOf(Top.pids)
  PROVE  Watching(<<f>> \o Tail(stack), ps)
<1>1. /\ stack \in Seq(Frames) /\ stack # <<>> /\ Top = Head(stack) /\ Watching(stack, proc)
      /\ Tail(stack) \in Seq(Frames)
  BY LifeKnown
<1>2. \A p : Guarded(Tail(stack), p) => Top.op \in Over
  BY <1>1, WatchPop
<1>3. \A p : Guarded(Tail(stack), p) /\ Top.op \in Collects => p \notin PidsOf(Top.pids)
  BY <1>1, WatchPop
<1> QED
  BY <1>1, <1>2, <1>3, WatchPushed

(* Steps that go on with the same frame.                                   *)
LEMMA SwappedWatch ==
  ASSUME IInv, LifeInv,
         \/ (WaitAllStep /\ ~Pop)
         \/ \E c \in Codes \cup {Flow} : BodyDone(c)
         \/ (CollectStage /\ ~Pop)
  PROVE  Watching(stack', proc')
<1>1. /\ stack \in Seq(Frames) /\ stack # <<>> /\ Top = Head(stack) /\ Watching(stack, proc)
      /\ Tail(stack) \in Seq(Frames) /\ Watching(Tail(stack), proc) /\ proc \in [Pids -> Child]
      /\ Top \in FrameType
  BY LifeKnown
<1>2. CASE WaitAllStep /\ ~Pop
  <2>1. PICK n, m : stack' = <<[Top EXCEPT !.node = n, !.next = m]>> \o Tail(stack)
    BY <1>2 DEF WaitAllStep, Swap
  <2>2. Top.op = "waitall"
    BY <1>2 DEF WaitAllStep
  <2> DEFINE f == [Top EXCEPT !.node = n, !.next = m]
  <2>3. f.op = "waitall" /\ stack' = <<f>> \o Tail(stack)
    BY <1>1, <2>1, <2>2 DEF FrameType
  <2> HIDE DEF f
  <2>4. Top.op \notin Over /\ f.op \notin Collects /\ Watched(f, proc')
    BY <2>2, <2>3 DEF Over, Collects, Watched
  <2>5. \A p : ~Guarded(Tail(stack), p)
    BY <1>1, <2>4, WatchPop
  <2>6. Watching(Tail(stack), proc')
    BY <1>1, <2>5, WatchFree
  <2> QED
    BY <2>3, <2>4, <2>6, SwapWatch
<1>3. CASE \E c \in Codes \cup {Flow} : BodyDone(c)
  <2>1. PICK c \in Codes \cup {Flow} : BodyDone(c)
    BY <1>3
  <2> DEFINE f == [Top EXCEPT !.op = "collect", !.rc = c]
  <2>2. Top.op = "body" /\ proc' = proc /\ stack' = <<f>> \o Tail(stack)
    BY <2>1 DEF BodyDone, Swap
  <2>3. f.op = "collect" /\ f.pids = Top.pids
    BY <1>1 DEF FrameType
  <2> HIDE DEF f
  <2>4. Watched(f, proc) /\ (Top.op \in Over => f.op \in Over)
    BY <2>2, <2>3 DEF Watched, Over
  <2>5. f.op \in Collects => Top.op \in Collects /\ PidsOf(f.pids) \subseteq PidsOf(Top.pids)
    BY <2>2, <2>3 DEF Collects
  <2> QED
    BY <1>1, <2>2, <2>4, <2>5, SwapWatch
<1>4. CASE CollectStage /\ ~Pop
  <2>1. PICK rc \in Statuses \cup {Flow} :
          LET f == [Top EXCEPT !.pids = Tail(@), !.rc = rc, !.eintr = FALSE]
          IN  \/ Len(Top.pids) = 1 /\ Pop /\ Report("pipe", NoJob, rc)
              \/ Len(Top.pids) # 1 /\ f \in Frames /\ Swap(f) /\ last' = last
    BY <1>4, NextStage
  <2> DEFINE f == [Top EXCEPT !.pids = Tail(@), !.rc = rc, !.eintr = FALSE]
  <2>2. Top.op = "collect" /\ stack' = <<f>> \o Tail(stack)
    BY <1>4, <2>1 DEF CollectStage, Swap
  <2>3. f.op = "collect" /\ f.pids = Tail(Top.pids)
    BY <1>1, <2>2 DEF FrameType
  <2> HIDE DEF f
  <2>4. Top.pids \in Seq(Pids) \ {<<>>}
    BY <2>2, PidIsPid DEF Blocking
  <2>5. Pid \in PidsOf(Top.pids) /\ PidsOf(Tail(Top.pids)) \subseteq PidsOf(Top.pids)
    <3> DEFINE t == Top.pids
    <3>1. /\ Len(t) \in Nat \ {0} /\ DOMAIN t = 1 .. Len(t) /\ Head(t) = t[1]
          /\ Tail(t) \in Seq(Pids) /\ Len(Tail(t)) = Len(t) - 1 /\ DOMAIN Tail(t) = 1 .. Len(Tail(t))
          /\ \A i \in 1 .. Len(Tail(t)) : Tail(t)[i] = t[i + 1]
      BY <2>4, HeadTailProperties, LenProperties, EmptySeq
    <3>2. Pid = Head(t)
      BY DEF Pid
    <3> HIDE DEF t
    <3>3. 1 \in DOMAIN t /\ \A i \in DOMAIN Tail(t) : i + 1 \in DOMAIN t /\ Tail(t)[i] = t[i + 1]
      BY <3>1
    <3>4. Pid \in PidsOf(t) /\ PidsOf(Tail(t)) \subseteq PidsOf(t)
      BY <3>1, <3>2, <3>3 DEF PidsOf
    <3> QED
      BY <3>4 DEF t
  <2>6. ~Guarded(Tail(stack), Pid)
    BY <1>1, <2>2, <2>5, WatchPop DEF Collects
  <2>7. \A q \in Pids : q # Pid => proc'[q] = proc[q]
    BY <1>1, <1>4 DEF CollectStage, ProcCollected, Reaped
  <2>8. Watching(Tail(stack), proc')
    <3>1. \A q \in Pids : Guarded(Tail(stack), q) /\ Stray(proc, q) => Stray(proc', q)
      BY <2>6, <2>7 DEF Stray, NoSuchChild
    <3> QED
      BY <1>1, <3>1, WatchStays
  <2>9. Watched(f, proc') /\ (Top.op \in Over => f.op \in Over)
    BY <2>2, <2>3 DEF Watched
  <2> QED
    BY <2>2, <2>3, <2>5, <2>8, <2>9, SwapWatch
<1> QED
  BY <1>2, <1>3, <1>4

(* A trapped signal: the action of the trap runs on top of the wait.       *)
LEMMA SignalWatch ==
  ASSUME IInv, LifeInv, Signal
  PROVE  Watching(stack', proc')
<1>1. PICK cut \in BOOLEAN :
        stack' = <<Frame("trap"), [Top EXCEPT !.eintr = cut]>> \o Tail(stack)
  BY DEF Signal
<1>2. /\ Tail(stack) \in Seq(Frames) /\ Watching(Tail(stack), proc) /\ Watched(Top, proc)
      /\ Top \in FrameType /\ Top \in Frames
  BY LifeKnown
<1> DEFINE f == [Top EXCEPT !.eintr = cut]
           s == <<f>> \o Tail(stack)
<1>3. f.op = Top.op /\ f.pids = Top.pids /\ f \in Frames
  <2>1. f \in Frames
    BY <1>2, TopFrames, Numbers
  <2> QED
    BY <1>2, <2>1 DEF FrameType
<1>4. s \in Seq(Frames) /\ stack' = <<Frame("trap")>> \o s
  <2>1. Frame("trap") \in Frames
    BY FrameIsFrame DEF Ops, Issuing
  <2>2. stack' = <<Frame("trap"), f>> \o Tail(stack)
    BY <1>1
  <2> HIDE DEF f
  <2>3. <<Frame("trap"), f>> = <<Frame("trap")>> \o <<f>>
    BY <1>3, <2>1
  <2>4. <<Frame("trap")>> \in Seq(Frames) /\ <<f>> \in Seq(Frames)
    BY <1>3, <2>1
  <2> QED
    BY <1>2, <2>2, <2>3, <2>4, ConcatAssociative
<1> HIDE DEF f
<1>5. Watching(s, proc)
  BY <1>2, <1>3, SwapWatch DEF Watched
<1> HIDE DEF s
<1>6. Frame("trap").op = "trap"
  BY DEF Frame
<1>7. "trap" \in Over
  BY JobControlAssumption DEF Signal, Over, IInv, TypeOK, CountsOK
<1>8. Watched(Frame("trap"), proc)
  BY <1>6 DEF Watched
<1>9. Watching(<<Frame("trap")>> \o s, proc)
  BY <1>4, <1>5, <1>6, <1>7, <1>8, WatchPushed DEF Collects
<1> QED
  BY <1>4, <1>9 DEF Signal

(* A stack of one frame.                                                   *)
LEMMA BaseWatch ==
  ASSUME ReadFreedJob \/ EnterSubshell
  PROVE  Watching(stack', proc')
<1>1. PICK op \in {"undefined", "top"} : stack' = <<Frame(op)>>
  BY DEF ReadFreedJob, EnterSubshell
<1>2. Frame(op).op = op
  BY DEF Frame
<1> QED
  BY <1>1, <1>2 DEF Watching, Watched

(* Processes that are not this shell's come only with an inherited table.  *)
AllOurs(ps) == \A p \in Pids : ps[p].st # "other"

LEMMA OursKept ==
  ASSUME NEW ps \in [Pids -> Child], AllOurs(ps), NEW S, NEW n
  PROVE  /\ AllOurs(Reaped(ps, S)) /\ AllOurs(Forked(ps, S, n))
         /\ AllOurs(Continued(ps, S)) /\ AllOurs(Drained(ps))
         /\ \A p \in Pids : /\ \A c \in Codes : AllOurs(Exited(ps, p, c))
                            /\ AllOurs(Stopped(ps, p)) /\ AllOurs(Told(ps, p))
                            /\ AllOurs(ToldAsJob(ps, p, n))
<1>1. AllOurs(Reaped(ps, S)) /\ AllOurs(Forked(ps, S, n))
  BY DEF AllOurs, Reaped, NotAChild, Forked, ChildIn
<1>2. AllOurs(Continued(ps, S)) /\ AllOurs(Drained(ps))
  BY DEF AllOurs, Continued, Drained, NotAChild, ChildIn, Child
<1>3. ASSUME NEW p \in Pids
      PROVE  /\ \A c \in Codes : AllOurs(Exited(ps, p, c))
             /\ AllOurs(Stopped(ps, p)) /\ AllOurs(Told(ps, p)) /\ AllOurs(ToldAsJob(ps, p, n))
  BY DEF AllOurs, Exited, Stopped, Told, ToldAsJob, Child
<1> QED
  BY <1>1, <1>2, <1>3

LEMMA OthersStay ==
  ASSUME IInv, LifeInv, JobsAreOwn, [Next]_vars
  PROVE  NoOthers(proc')
<1>1. SUFFICES ASSUME "fg" \in Used PROVE AllOurs(proc')
  BY DEF NoOthers, AllOurs
<1>2. proc \in [Pids -> Child] /\ AllOurs(proc)
  BY <1>1, LifeKnown DEF NoOthers, AllOurs
<1>3. ~EnterSubshell
  BY <1>1 DEF EnterSubshell, Runs, JobsAreOwn, Used
<1>4. Drained(proc) \in [Pids -> Child] /\ AllOurs(Drained(proc))
  BY <1>2, ReapedKeeps, Before, OursKept DEF ProcOK
<1>5. CASE proc' = proc
  BY <1>2, <1>5
<1>6. CASE WaitAllStep \/ WaitPidReturn \/ ForegroundReturn \/ ForegroundStops
           \/ ChildReturn \/ ExternalStops \/ CollectStage
  <2>1. Top.op \in Blocking \ {"waitall"} => Pid \in Pids
    BY PidIsPid
  <2>2. \/ proc' = proc \/ proc' = Drained(proc)
        \/ \E S : proc' = Reaped(proc, S)
        \/ Pid \in Pids /\ (proc' = Told(proc, Pid) \/ \E n : proc' = ToldAsJob(proc, Pid, n))
    BY <1>6, <2>1 DEF WaitAllStep, WaitPidReturn, ForegroundReturn, ForegroundStops, ChildReturn,
       ExternalStops, CollectStage, ProcAfterWait, ProcCollected, Blocking
  <2> QED
    BY <1>2, <1>4, <2>2, OursKept
<1>7. CASE \/ AsyncForkFails \/ JobsCommand
           \/ \E p \in Pids : Async(p) \/ External(p) \/ Subshell(p)
           \/ \E n \in 1 .. MaxJobs : Foreground(n) \/ Background(n)
           \/ \E cmd \in {"fg", "bg"} : NoSuchJob(cmd)
           \/ \E s \in Stages : Pipeline(s)
           \/ \E s \in Stages \cup {<<>>} : PipelineForkFails(s)
  <2>1. \/ proc' = proc \/ proc' = Drained(proc)
        \/ \E S, n : proc' = Forked(proc, S, n) \/ proc' = Forked(Drained(proc), S, n)
        \/ \E S : proc' = Continued(Drained(proc), S)
    BY <1>7 DEF AsyncForkFails, JobsCommand, Async, External, Subshell, ForkAndWait, Foreground,
       Background, NoSuchJob, Pipeline, PipelineForkFails, ProcBeforeAsync, ProcResumed
  <2>2. \A S, n : AllOurs(Forked(proc, S, n)) /\ AllOurs(Forked(Drained(proc), S, n))
    BY <1>2, <1>4, OursKept
  <2>3. \A S : AllOurs(Continued(Drained(proc), S))
    BY <1>4, OursKept
  <2> QED
    BY <1>2, <1>4, <2>1, <2>2, <2>3
<1>8. CASE \/ \E p \in Pids, c \in Codes : ChildExit(p, c)
           \/ \E p \in Pids : ChildStop(p) \/ ChildContinue(p)
  <2>1. \E p \in Pids : \/ \E c \in Codes : proc' = Exited(proc, p, c)
                        \/ proc' = Stopped(proc, p) \/ proc' = Continued(proc, {p})
    BY <1>8 DEF ChildExit, ChildStop, ChildContinue
  <2> QED
    BY <1>2, <2>1, OursKept
<1>9. CASE \/ ReadFreedJob \/ TrapDone \/ WaitAll \/ Signal \/ Undefined \/ UNCHANGED vars
           \/ \E c \in Codes \cup {Flow} : BodyDone(c)
           \/ \E p \in Pids : WaitPid(p)
  BY <1>5, <1>9 DEF ReadFreedJob, TrapDone, WaitAll, Signal, Undefined, vars, BodyDone, WaitPid
<1> QED
  BY <1>3, <1>6, <1>7, <1>8, <1>9 DEF Next, Continue, Issue, Environment

(* Every step keeps the jobs, and the children of foreground commands.     *)
LEMMA NextKeepsLife ==
  ASSUME IInv, LifeInv, JobsAreOwn, [Next]_vars
  PROVE  LifeInv'
<1>1. NoOthers(proc')
  BY OthersStay
<1>2. JobsOK(jl, allocs) /\ allocs \in 0 .. MaxJobs /\ Lively(jl, proc, fate)
      /\ Unborn(fate, allocs) /\ Watching(stack, proc)
  BY LifeKnown
<1>3. ASSUME Follows(jl, jl', fate), RunnersStay(proc, proc'), fate' = fate, allocs' = allocs
      PROVE  Lively(jl', proc', fate') /\ Unborn(fate', allocs')
  BY <1>2, <1>3, FollowsLively
<1>4. CASE WaitAllStep \/ WaitPidReturn \/ ForegroundReturn \/ ForegroundStops
  <2>1. fate' = fate /\ allocs' = allocs
    BY <1>4 DEF WaitAllStep, WaitPidReturn, ForegroundReturn, ForegroundStops
  <2>2. Lively(jl', proc', fate') /\ Unborn(fate', allocs')
    BY <1>3, <1>4, <2>1, TableGoesOn
  <2> QED
    BY <1>1, <1>4, <2>2, PoppedWatch, SwappedWatch DEF LifeInv
<1>5. CASE \/ AsyncForkFails \/ JobsCommand
           \/ \E n \in 1 .. MaxJobs : Foreground(n) \/ Background(n)
           \/ \E cmd \in {"fg", "bg"} : NoSuchJob(cmd)
  <2>1. fate' = fate /\ allocs' = allocs
    BY <1>5 DEF AsyncForkFails, JobsCommand, Foreground, Background, NoSuchJob
  <2>2. Lively(jl', proc', fate') /\ Unborn(fate', allocs')
    BY <1>3, <1>5, <2>1, TableGoesOn
  <2>3. CASE \E n \in 1 .. MaxJobs : Foreground(n)
    BY <1>1, <2>2, <2>3, PushedWatch DEF LifeInv
  <2>4. CASE \/ AsyncForkFails \/ JobsCommand
             \/ \E n \in 1 .. MaxJobs : Background(n)
             \/ \E cmd \in {"fg", "bg"} : NoSuchJob(cmd)
    <3>1. stack' = stack
      BY <2>4 DEF AsyncForkFails, JobsCommand, Background, NoSuchJob
    <3> QED
      BY <1>1, <2>2, <2>4, <3>1, UnmovedWatch DEF LifeInv
  <2> QED
    BY <1>5, <2>3, <2>4
<1>6. CASE \/ ReadFreedJob \/ ChildReturn \/ CollectStage \/ TrapDone \/ Signal
           \/ \E c \in Codes \cup {Flow} : BodyDone(c)
           \/ WaitAll \/ EnterSubshell
           \/ \E p \in Pids : WaitPid(p) \/ External(p) \/ Subshell(p)
           \/ \E s \in Stages : Pipeline(s)
           \/ \E s \in Stages \cup {<<>>} : PipelineForkFails(s)
           \/ \E p \in Pids : ChildStop(p) \/ ChildContinue(p)
           \/ Undefined \/ UNCHANGED vars
  <2>1. fate' = fate /\ allocs' = allocs
    BY <1>6 DEF ReadFreedJob, ChildReturn, CollectStage, TrapDone, Signal, BodyDone, WaitAll,
       EnterSubshell, WaitPid, External, Subshell, ForkAndWait, Pipeline, PipelineForkFails,
       ChildStop, ChildContinue, Undefined, vars
  <2>2. Follows(jl, jl', fate) /\ RunnersStay(proc, proc')
    BY <1>6, ProcessesGoOn DEF Follows
  <2>3. Lively(jl', proc', fate') /\ Unborn(fate', allocs')
    BY <1>3, <2>1, <2>2
  <2>4. CASE \/ \E s \in Stages \cup {<<>>} : PipelineForkFails(s)
             \/ \E p \in Pids : ChildStop(p) \/ ChildContinue(p)
    <3>1. stack' = stack
      BY <2>4 DEF PipelineForkFails, ChildStop, ChildContinue
    <3> QED
      BY <1>1, <2>3, <2>4, <3>1, UnmovedWatch DEF LifeInv
  <2>5. CASE Undefined \/ UNCHANGED vars
    BY <1>1, <1>2, <2>3, <2>5 DEF LifeInv, Undefined, vars
  <2>6. CASE \/ WaitAll
             \/ \E p \in Pids : WaitPid(p) \/ External(p) \/ Subshell(p)
             \/ \E s \in Stages : Pipeline(s)
    BY <1>1, <2>3, <2>6, PushedWatch DEF LifeInv
  <2>7. CASE \/ ReadFreedJob \/ ChildReturn \/ CollectStage \/ TrapDone \/ Signal
             \/ \E c \in Codes \cup {Flow} : BodyDone(c)
             \/ EnterSubshell
    BY <1>1, <2>3, <2>7, BaseWatch, PoppedWatch, SwappedWatch, SignalWatch DEF LifeInv
  <2> QED
    BY <1>6, <2>4, <2>5, <2>6, <2>7
<1>7. CASE \E p \in Pids : Async(p)
  <2>1. stack' = stack
    BY <1>7 DEF Async
  <2> QED
    BY <1>1, <1>7, <2>1, AsyncGoesOn, UnmovedWatch DEF LifeInv
<1>8. CASE ExternalStops
  BY <1>1, <1>8, StopGoesOn, PoppedWatch DEF LifeInv
<1>9. CASE \E p \in Pids, c \in Codes : ChildExit(p, c)
  <2>1. stack' = stack
    BY <1>9 DEF ChildExit
  <2> QED
    BY <1>1, <1>9, <2>1, EndGoesOn, UnmovedWatch DEF LifeInv
<1>10. CASE Continue
  BY <1>4, <1>6, <1>8, <1>10 DEF Continue
<1>11. CASE Issue
  BY <1>5, <1>6, <1>7, <1>11 DEF Issue
<1>12. CASE Environment
  BY <1>6, <1>9, <1>12 DEF Environment
<1> QED
  BY <1>6, <1>10, <1>11, <1>12 DEF Next

-----------------------------------------------------------------------------
(* The refinement: every step of the shell maps to a step of JobLife.      *)

(* Where a job stands in its life, before a step and after it.             *)
LEMMA LifeRead ==
  /\ DOMAIN Life = 1 .. MaxJobs /\ DOMAIN Life' = 1 .. MaxJobs
  /\ Life = [n \in 1 .. MaxJobs |-> Life[n]] /\ Life' = [n \in 1 .. MaxJobs |-> Life'[n]]
  /\ \A n \in 1 .. MaxJobs :
       /\ Life[n] = IF n > allocs THEN "unborn"
                    ELSE IF n \notin Nodes(jl) THEN "forgotten"
                    ELSE IF fate[n] = Alive THEN "running" ELSE "ended"
       /\ Life'[n] = IF n > allocs' THEN "unborn"
                     ELSE IF n \notin Nodes(jl') THEN "forgotten"
                     ELSE IF fate'[n] = Alive THEN "running" ELSE "ended"
BY DEF Life

(* A step that only takes jobs out of the table forgets ended jobs.        *)
LEMMA ForgetStep ==
  ASSUME IInv, Follows(jl, jl', fate), fate' = fate, allocs' = allocs
  PROVE  Lives!Next
<1> DEFINE ns == Nodes(jl) \ Nodes(jl')
<1>1. JobsOK(jl, allocs) /\ allocs \in 0 .. MaxJobs
  BY Before
<1>2. \A n \in Nodes(jl) : n \in 1 .. MaxJobs /\ n <= allocs
  BY <1>1, ChildrenAssumption DEF JobsOK, IsJobList, Nodes
<1>3. Nodes(jl') \subseteq Nodes(jl) /\ \A n \in ns : fate[n] # Alive
  BY DEF Follows
<1>4. \A n \in ns : n \in 1 .. MaxJobs /\ Life[n] = "ended"
  <2> SUFFICES ASSUME NEW n \in ns PROVE n \in 1 .. MaxJobs /\ Life[n] = "ended"
    OBVIOUS
  <2>1. n \in 1 .. MaxJobs /\ ~(n > allocs)
    BY <1>1, <1>2
  <2> QED
    BY <1>3, <2>1, LifeRead
<1>5. \A n \in 1 .. MaxJobs : Life'[n] = IF n \in ns THEN "forgotten" ELSE Life[n]
  <2> SUFFICES ASSUME NEW n \in 1 .. MaxJobs
               PROVE  Life'[n] = IF n \in ns THEN "forgotten" ELSE Life[n]
    OBVIOUS
  <2>1. n \in ns => ~(n > allocs)
    BY <1>1, <1>2
  <2> QED
    BY <1>3, <2>1, LifeRead
<1> HIDE DEF ns
<1>6. Life' = [n \in 1 .. MaxJobs |-> IF n \in ns THEN "forgotten" ELSE Life[n]]
  BY <1>5, LifeRead
<1>7. ns \in SUBSET (1 .. MaxJobs)
  BY <1>4
<1>8. Lives!Forget(ns)
  BY <1>4, <1>6 DEF Lives!Forget, Lives!Move, Lives!In
<1> QED
  BY <1>7, <1>8 DEF Lives!Next

(* The end of a job's process ends the job; the end of any other child     *)
(* changes no job's life.                                                  *)
LEMMA EndStep ==
  ASSUME IInv, NEW p \in Pids, NEW c \in Codes, ChildExit(p, c)
  PROVE  Lives!Next \/ UNCHANGED Life
<1> DEFINE m == proc[p].job
<1>1. /\ JobsOK(jl, allocs) /\ allocs \in 0 .. MaxJobs
      /\ proc[p] \in Child /\ fate \in [1 .. MaxJobs -> Codes \cup {Alive}] /\ c # Alive
  BY Before, ChildrenAssumption DEF ProcOK, IInv, TypeOK, Alive
<1>2. m \in 0 .. MaxJobs /\ NoJob = 0
  BY <1>1 DEF Child, NoJob
<1>3. /\ jl' = jl /\ allocs' = allocs
      /\ \A n \in 1 .. MaxJobs : fate'[n] = IF n = m THEN c ELSE fate[n]
  BY <1>1, <1>2 DEF ChildExit
<1> HIDE DEF m
<1>4. \A n \in 1 .. MaxJobs : n # m => Life'[n] = Life[n]
  BY <1>3, LifeRead
<1>5. CASE m \in 1 .. MaxJobs /\ Life[m] = "running"
  <2>1. Life'[m] = "ended"
    BY <1>1, <1>3, <1>5, LifeRead
  <2>2. Life' = [n \in 1 .. MaxJobs |-> IF n \in {m} THEN "ended" ELSE Life[n]]
    BY <1>4, <1>5, <2>1, LifeRead
  <2>3. Lives!End(m)
    BY <1>5, <2>2 DEF Lives!End, Lives!Move, Lives!In
  <2> QED
    BY <1>5, <2>3 DEF Lives!Next
<1>6. CASE ~(m \in 1 .. MaxJobs /\ Life[m] = "running")
  <2>1. \A n \in 1 .. MaxJobs : Life'[n] = Life[n]
    BY <1>1, <1>3, <1>4, <1>6, LifeRead
  <2>2. Life' = Life
    BY <2>1, LifeRead
  <2> QED
    BY <2>2
<1> QED
  BY <1>5, <1>6

(* A job put in the table after ended ones were taken out of it.           *)
LEMMA StartStep ==
  ASSUME IInv, LifeInv, NEW l, Follows(jl, l, fate), allocs + 1 \in 1 .. MaxJobs,
         allocs' = allocs + 1, fate' = fate, Nodes(jl') = Nodes(l) \cup {allocs'}
  PROVE  Lives!Next
<1> DEFINE ns == Nodes(jl) \ Nodes(l)
           k == allocs + 1
<1>1. JobsOK(jl, allocs) /\ allocs \in 0 .. MaxJobs /\ allocs \in Nat
      /\ Unborn(fate, allocs) /\ MaxJobs \in Nat
  BY LifeKnown
<1>2. \A n \in Nodes(jl) : n \in 1 .. MaxJobs /\ n <= allocs
  BY <1>1 DEF JobsOK, IsJobList, Nodes
<1>3. Nodes(l) \subseteq Nodes(jl) /\ \A n \in ns : fate[n] # Alive
  BY DEF Follows
<1>4. \A n \in ns : n \in 1 .. MaxJobs /\ Life[n] = "ended"
  <2> SUFFICES ASSUME NEW n \in ns PROVE n \in 1 .. MaxJobs /\ Life[n] = "ended"
    OBVIOUS
  <2>1. n \in 1 .. MaxJobs /\ ~(n > allocs)
    BY <1>1, <1>2
  <2> QED
    BY <1>3, <2>1, LifeRead
<1>5. \A n \in 1 .. MaxJobs :
        /\ n > allocs <=> Life[n] = "unborn"
        /\ n > allocs => k <= n
        /\ n > allocs' <=> n > allocs /\ n # k
  BY <1>1, LifeRead
<1>6. fate[k] = Alive /\ k > allocs /\ ~(k > allocs') /\ k \in Nodes(jl')
  BY <1>1 DEF Unborn
<1>7. \A n \in 1 .. MaxJobs :
        Life'[n] = IF n \in ns THEN "forgotten" ELSE IF n = k THEN "running" ELSE Life[n]
  <2> SUFFICES ASSUME NEW n \in 1 .. MaxJobs
               PROVE  Life'[n] = IF n \in ns THEN "forgotten"
                                 ELSE IF n = k THEN "running" ELSE Life[n]
    OBVIOUS
  <2>1. n \in Nodes(jl) => ~(n > allocs) /\ n # k
    BY <1>1, <1>2
  <2>2. CASE n = k
    BY <1>3, <1>6, <2>1, <2>2, LifeRead
  <2>3. CASE n # k
    <3>1. n > allocs' <=> n > allocs
      BY <1>5, <2>3
    <3>2. n \in Nodes(jl') <=> n \in Nodes(l)
      BY <2>3
    <3> QED
      BY <1>3, <2>1, <2>3, <3>1, <3>2, LifeRead
  <2> QED
    BY <2>2, <2>3
<1>8. k \in 1 .. MaxJobs /\ Life[k] = "unborn"
  BY <1>5, <1>6
<1> HIDE DEF ns, k
<1>9. Life' = [n \in 1 .. MaxJobs |->
                 IF n \in ns THEN "forgotten" ELSE IF n = k THEN "running" ELSE Life[n]]
  BY <1>7, LifeRead
<1>10. ns \in SUBSET (1 .. MaxJobs)
  BY <1>4
<1>11. Lives!Start(k, ns)
  BY <1>4, <1>5, <1>8, <1>9 DEF Lives!Start, Lives!In
<1> QED
  BY <1>8, <1>10, <1>11 DEF Lives!Next

(* Every step of the shell and of its children is one of JobLife, or one   *)
(* that it does not see.                                                   *)
LEMMA StepLives ==
  ASSUME IInv, LifeInv, [Next]_vars
  PROVE  Lives!Next \/ UNCHANGED Life
<1>1. JobsOK(jl, allocs) /\ allocs \in 0 .. MaxJobs /\ MaxJobs \in Nat /\ allocs \in Nat
  BY LifeKnown
<1>2. CASE \/ WaitAllStep \/ WaitPidReturn \/ ForegroundReturn \/ ForegroundStops
           \/ AsyncForkFails \/ JobsCommand
           \/ \E n \in 1 .. MaxJobs : Foreground(n) \/ Background(n)
           \/ \E cmd \in {"fg", "bg"} : NoSuchJob(cmd)
  <2>1. fate' = fate /\ allocs' = allocs
    BY <1>2 DEF WaitAllStep, WaitPidReturn, ForegroundReturn, ForegroundStops,
       AsyncForkFails, JobsCommand, Foreground, Background, NoSuchJob
  <2>2. Follows(jl, jl', fate)
    BY <1>2, TableGoesOn
  <2> QED
    BY <2>1, <2>2, ForgetStep
<1>3. CASE \/ ReadFreedJob \/ ChildReturn \/ CollectStage \/ TrapDone \/ Signal
           \/ \E c \in Codes \cup {Flow} : BodyDone(c)
           \/ WaitAll \/ EnterSubshell
           \/ \E p \in Pids : WaitPid(p) \/ External(p) \/ Subshell(p)
           \/ \E s \in Stages : Pipeline(s)
           \/ \E s \in Stages \cup {<<>>} : PipelineForkFails(s)
           \/ \E p \in Pids : ChildStop(p) \/ ChildContinue(p)
           \/ Undefined \/ UNCHANGED vars
  <2>1. fate' = fate /\ allocs' = allocs
    BY <1>3 DEF ReadFreedJob, ChildReturn, CollectStage, TrapDone, Signal, BodyDone, WaitAll,
       EnterSubshell, WaitPid, External, Subshell, ForkAndWait, Pipeline, PipelineForkFails,
       ChildStop, ChildContinue, Undefined, vars
  <2>2. Follows(jl, jl', fate)
    BY <1>3, ProcessesGoOn DEF Follows
  <2> QED
    BY <2>1, <2>2, ForgetStep
<1>4. CASE \E p \in Pids : Async(p)
  <2> PICK p \in Pids : Async(p)
    BY <1>4
  <2>1. allocs + 1 \in 1 .. MaxJobs /\ allocs' = allocs + 1 /\ fate' = fate
    BY <1>1 DEF Async
  <2>2. /\ Follows(jl, JobsBeforeAsync, fate)
        /\ Nodes(jl') = Nodes(JobsBeforeAsync) \cup {allocs'}
    BY AsyncGoesOn
  <2> QED
    BY <2>1, <2>2, StartStep
<1>5. CASE ExternalStops
  <2>1. allocs + 1 \in 1 .. MaxJobs /\ allocs' = allocs + 1 /\ fate' = fate
    BY <1>1, <1>5 DEF ExternalStops
  <2>2. Follows(jl, jl, fate) /\ Nodes(jl') = Nodes(jl) \cup {allocs'}
    BY <1>5, StopGoesOn DEF Follows
  <2> QED
    BY <2>1, <2>2, StartStep
<1>6. CASE \E p \in Pids, c \in Codes : ChildExit(p, c)
  BY <1>6, EndStep
<1>7. CASE Continue
  BY <1>2, <1>3, <1>5, <1>7 DEF Continue
<1>8. CASE Issue
  BY <1>2, <1>3, <1>4, <1>8 DEF Issue
<1>9. CASE Environment
  BY <1>3, <1>6, <1>9 DEF Environment
<1> QED
  BY <1>3, <1>7, <1>8, <1>9 DEF Next

(* A shell starts without jobs and without children.                       *)
LEMMA InitLife == Init => LifeInv /\ Lives!Init
<1> SUFFICES ASSUME Init PROVE LifeInv /\ Lives!Init
  OBVIOUS
<1>1. Nodes(jl) = {} /\ allocs = 0
  BY DEF Init, EmptyJobList, Nodes
<1>2. Lively(jl, proc, fate) /\ Unborn(fate, allocs)
  BY <1>1 DEF Init, Lively, Unborn
<1>3. Watching(stack, proc)
  <2>1. DOMAIN stack = {1} /\ stack[1].op = "top"
    BY DEF Init, Frame
  <2> QED
    BY <2>1 DEF Watching, Watched
<1>4. NoOthers(proc)
  BY DEF Init, NoOthers, NotAChild, ChildIn
<1>5. \A n \in 1 .. MaxJobs : Life[n] = "unborn"
  BY <1>1, LifeRead, ChildrenAssumption
<1>6. Lives!Init
  BY <1>5, LifeRead DEF Lives!Init
<1> QED
  BY <1>2, <1>3, <1>4, <1>6 DEF LifeInv

(* The detailed job control implements JobLife, the abstract promise to    *)
(* its background jobs (job_register, job_reap_silent, job_remove and      *)
(* every command that calls them): a job starts once, in order, runs until *)
(* its process ends, and only then is it forgotten, never to return.       *)
THEOREM JobsLiveTheirLives == JobsAreOwn => (Spec => JobsLiveAndEnd)
<1> SUFFICES ASSUME JobsAreOwn PROVE Spec => JobsLiveAndEnd
  OBVIOUS
<1>1. Spec => []IInv
  BY InitIInv, NextKeepsIInv, PTL DEF Spec
<1>2. Init => LifeInv /\ Lives!Init
  BY InitLife
<1>3. IInv /\ LifeInv /\ [Next]_vars => LifeInv'
  BY NextKeepsLife
<1>4. IInv /\ LifeInv /\ [Next]_vars => [Lives!Next]_Life
  BY StepLives
<1> QED
  BY <1>1, <1>2, <1>3, <1>4, PTL DEF Spec, JobsLiveAndEnd, Lives!Spec
=============================================================================
