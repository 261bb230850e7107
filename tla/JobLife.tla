------------------------------ MODULE JobLife -------------------------------
(***************************************************************************)
(* What a shell promises of its background jobs, whatever table it keeps   *)
(* them in: a job starts once, runs until its process ends, and only then  *)
(* may be forgotten, several at a time perhaps, and never to come back.    *)
(***************************************************************************)
EXTENDS Integers

CONSTANT MaxJobs    \* bound: jobs started

VARIABLE life

Phases == {"unborn", "running", "ended", "forgotten"}

Init == life = [n \in 1 .. MaxJobs |-> "unborn"]

In(phase) == {n \in 1 .. MaxJobs : life[n] = phase}

Move(ns, phase) == life' = [n \in 1 .. MaxJobs |-> IF n \in ns THEN phase ELSE life[n]]

(* Jobs start in the order in which they are numbered; the same `&` may    *)
(* forget jobs that have ended.                                            *)
Start(n, ns) ==
  /\ ns \subseteq In("ended")
  /\ n \in In("unborn") /\ \A m \in In("unborn") : n <= m
  /\ life' = [m \in 1 .. MaxJobs |->
                IF m \in ns THEN "forgotten" ELSE IF m = n THEN "running" ELSE life[m]]

End(n) == n \in In("running") /\ Move({n}, "ended")

Forget(ns) == ns \subseteq In("ended") /\ Move(ns, "forgotten")

Next == \/ \E n \in 1 .. MaxJobs : End(n)
        \/ \E ns \in SUBSET (1 .. MaxJobs) :
             Forget(ns) \/ \E n \in 1 .. MaxJobs : Start(n, ns)

Spec == Init /\ [][Next]_life
=============================================================================
