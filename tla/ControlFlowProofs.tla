--------------------------- MODULE ControlFlowProofs ---------------------------
(***************************************************************************)
(* exec_node for every script: any vocabulary, any depth, any number of    *)
(* signals.  The inductive invariant is Shell: whenever the shell stands   *)
(* between two nodes, the counters of its context are those of the frames  *)
(* on its stack (Matches), and what each frame keeps to put back later is  *)
(* true of the frames below it (Saved), so that whatever ends next finds   *)
(* its caller's counters.  Three refinements of it carry the properties of *)
(* steps: how a step changes the stack (Moves), where a `break n` on its   *)
(* way is going (Aimed), and what and_or_exempt says of the failure being  *)
(* handed on (Settled).                                                    *)
(***************************************************************************)
EXTENDS ControlFlow, SequenceTheorems, FiniteSetTheorems, FunctionTheorems,
        WellFoundedInduction, TLAPS

-----------------------------------------------------------------------------
(* What the shell is made of, in a script of the nodes v.                  *)

Status == 0 .. 255
Jumps  == {"break", "continue"}
Results(v) == Status \cup {RETURN} \cup
                (IF v \cap Jumps = {} THEN {} ELSE {BREAK, CONTINUE})
Traps(v)   == IF "trap" \in v THEN {Default, Armed, Inherited} ELSE {Default}
Options(v) == IF "set" \in v THEN BOOLEAN ELSE {FALSE}

Ctx(v) ==
  [last : Status, inCond : BOOLEAN, exempt : BOOLEAN, errexit : Options(v),
   loops : Int, level : Nat, calls : Int, command : BOOLEAN,
   inTrap : Int, entry : Status, fired : Options(v), parseError : BOOLEAN,
   exitTrap : Traps(v), usrTrap : Traps(v)]

Tests  == {"and", "or", "not", "if"}
LoopKinds == {"while", "until", "for"}

TestFrame == [k : Tests, inCond : BOOLEAN]
LoopFrame == [k : LoopKinds, phase : {"head", "cond", "body"},
              inCond : BOOLEAN, rc : Status, ign : BOOLEAN]
CallFrame == [k : {"call"}, loops : Int, level : Nat]
TextFrame == [k : {"text"}, for : {"script", "subst", "eval", "dot"},
              command : BOOLEAN]
ExitFrame == [k : {"text"}, for : {"exit"}, command : BOOLEAN,
              code : Status, keep : BOOLEAN]
SignalFrame(v) ==
  [k : {"text"}, for : {"signal"}, command : BOOLEAN, last : Status,
   at : {"run", "ret"}, rc : Results(v), ign : BOOLEAN, goal : Nat,
   was : Ctx(v)]

Node(f) == IF f.k \in {"stage", "last"} THEN "pipe" ELSE f.k

Frame(v) ==
  {f \in TestFrame \cup LoopFrame \cup CallFrame
           \cup [k : {"seq"}] \cup [k : Boundary, parent : Ctx(v)]
           \cup [k : {"last"}, status : Status]
           \cup [k : {"command"}, command : BOOLEAN] : Node(f) \in v}
  \cup TextFrame
  \cup (IF "trap" \in v THEN ExitFrame ELSE {})
  \cup (IF "trap" \in v /\ MaxSignals > 0 THEN SignalFrame(v) ELSE {})

-----------------------------------------------------------------------------
(* Counting frames.                                                        *)

(* The frames of M in the stack s, seen from the top down to the first of  *)
(* the frames S.                                                           *)
Seen(s, M, S) == {i \in 1 .. Len(s) : s[i] \in M /\ \A j \in 1 .. i : s[j] \notin S}
Counted(s, M, S) == Cardinality(Seen(s, M, S))

Drop(s, n) == SubSeq(s, n + 1, Len(s))

(* The least of a set of numbers.                                          *)
LEMMA LeastIn ==
  ASSUME NEW S \in SUBSET Nat, S # {}
  PROVE  LET k == CHOOSE i \in S : \A j \in S : i <= j
         IN  k \in S /\ \A j \in S : k <= j
<1>1. \E k \in S : \A m \in S : ~(<<m, k>> \in OpToRel(<, Nat))
  BY WFMin, NatLessThanWellFounded
<1>2. PICK k \in S : \A m \in S : ~(m < k)
  BY <1>1 DEF OpToRel
<1>3. \A m \in S : k <= m
  BY <1>2
<1> QED
  BY <1>3

(* A set of numbers, shifted.                                              *)
LEMMA ShiftCount ==
  ASSUME NEW n \in Nat, NEW d \in Nat, NEW S \in SUBSET (1 .. n)
  PROVE  LET T == {i + d : i \in S}
         IN  /\ IsFiniteSet(S) /\ IsFiniteSet(T)
             /\ Cardinality(S) \in Nat /\ Cardinality(T) = Cardinality(S)
<1> DEFINE T == {i + d : i \in S}
           f == [i \in S |-> i + d]
<1>1. IsFiniteSet(1 .. n)
  BY FS_Interval
<1>2. IsFiniteSet(S) /\ Cardinality(S) \in Nat
  BY <1>1, FS_Subset, FS_CardinalityType
<1>3. f \in Bijection(S, T)
  <2>1. f \in [S -> T]
    OBVIOUS
  <2>2. \A i, j \in S : f[i] = f[j] => i = j
    OBVIOUS
  <2>3. \A t \in T : \E i \in S : f[i] = t
    OBVIOUS
  <2> HIDE DEF f, T
  <2> QED
    BY <2>1, <2>2, <2>3, Fun_IsBij
<1>4. IsFiniteSet(T) /\ Cardinality(T) = Cardinality(S)
  BY <1>2, <1>3, FS_Bijection DEF ExistsBijection
<1> QED
  BY <1>2, <1>4

LEMMA CountedType ==
  ASSUME NEW F, NEW s \in Seq(F), NEW M, NEW S
  PROVE  /\ Seen(s, M, S) \in SUBSET (1 .. Len(s)) /\ IsFiniteSet(Seen(s, M, S))
         /\ Counted(s, M, S) \in Nat
<1>1. Seen(s, M, S) \in SUBSET (1 .. Len(s)) /\ Len(s) \in Nat
  BY LenProperties DEF Seen
<1>2. IsFiniteSet(1 .. Len(s))
  BY <1>1, FS_Interval
<1>3. IsFiniteSet(Seen(s, M, S))
  BY <1>1, <1>2, FS_Subset
<1> QED
  BY <1>1, <1>3, FS_CardinalityType DEF Counted

LEMMA DropType ==
  ASSUME NEW F, NEW s \in Seq(F), NEW n \in 0 .. Len(s)
  PROVE  /\ Drop(s, n) \in Seq(F) /\ Len(Drop(s, n)) = Len(s) - n
         /\ \A i \in 1 .. Len(s) - n : Drop(s, n)[i] = s[i + n]
<1>1. Len(s) \in Nat /\ \A i \in 1 .. Len(s) : s[i] \in F
  BY LenProperties, ElementOfSeq
<1>2. n + 1 \in Int /\ Len(s) \in Int /\ \A i \in n + 1 .. Len(s) : s[i] \in F
  BY <1>1
<1>3. /\ SubSeq(s, n + 1, Len(s)) \in Seq(F)
      /\ Len(SubSeq(s, n + 1, Len(s))) = IF n + 1 <= Len(s) THEN Len(s) - (n + 1) + 1 ELSE 0
      /\ \A i \in 1 .. Len(s) - (n + 1) + 1 : SubSeq(s, n + 1, Len(s))[i] = s[n + 1 + i - 1]
  BY <1>2, SubSeqProperties
<1> QED
  BY <1>1, <1>3 DEF Drop

(* What is counted is counted on top and below, if nothing hides it.       *)
LEMMA CountSplit ==
  ASSUME NEW F, NEW s \in Seq(F), NEW M, NEW S, NEW n \in 0 .. Len(s),
         \A j \in 1 .. n : s[j] \notin S
  PROVE  /\ Counted(s, M, S) =
              Cardinality({i \in 1 .. n : s[i] \in M}) + Counted(Drop(s, n), M, S)
         /\ Cardinality({i \in 1 .. n : s[i] \in M}) \in Nat
<1> DEFINE t == Drop(s, n)
           U == {i \in 1 .. n : s[i] \in M}
           T == Seen(t, M, S)
           V == {i + n : i \in T}
<1>1. /\ Len(s) \in Nat /\ n \in Nat /\ n <= Len(s)
      /\ t \in Seq(F) /\ Len(t) = Len(s) - n
      /\ \A i \in 1 .. Len(s) - n : t[i] = s[i + n]
  <2>1. /\ t \in Seq(F) /\ Len(t) = Len(s) - n
        /\ \A i \in 1 .. Len(s) - n : t[i] = s[i + n]
    BY DropType
  <2>2. Len(s) \in Nat /\ n \in Nat /\ n <= Len(s)
    BY LenProperties
  <2> QED
    BY <2>1, <2>2
<1>2. T \in SUBSET (1 .. Len(t)) /\ IsFiniteSet(T) /\ Cardinality(T) \in Nat
  <2>1. t \in Seq(F)
    BY <1>1
  <2> HIDE DEF t
  <2>2. /\ Seen(t, M, S) \in SUBSET (1 .. Len(t)) /\ IsFiniteSet(Seen(t, M, S))
        /\ Counted(t, M, S) \in Nat
    BY <2>1, CountedType
  <2> QED
    BY <2>2 DEF Counted
<1>3. IsFiniteSet(V) /\ Cardinality(V) = Cardinality(T)
  <2>1. Len(t) \in Nat /\ n \in Nat /\ T \in SUBSET (1 .. Len(t))
    BY <1>1, <1>2
  <2> HIDE DEF T, t
  <2> QED
    BY <2>1, ShiftCount
<1>4. IsFiniteSet(U) /\ Cardinality(U) \in Nat
  <2>1. IsFiniteSet(1 .. n) /\ U \in SUBSET (1 .. n)
    BY <1>1, FS_Interval
  <2> HIDE DEF U
  <2> QED
    BY <2>1, FS_Subset, FS_CardinalityType
<1> HIDE DEF t
<1>5. Seen(s, M, S) = U \cup V
  <2>1. ASSUME NEW i \in U PROVE i \in Seen(s, M, S)
    BY <1>1 DEF Seen
  <2>2. ASSUME NEW i \in T PROVE i + n \in Seen(s, M, S)
    <3>1. /\ i \in 1 .. Len(s) - n /\ t[i] \in M /\ \A j \in 1 .. i : t[j] \notin S
      BY <1>1 DEF Seen
    <3>2. i + n \in 1 .. Len(s) /\ s[i + n] \in M
      BY <1>1, <3>1
    <3>3. ASSUME NEW j \in 1 .. i + n, j > n PROVE s[j] \notin S
      <4>1. j - n \in 1 .. i /\ j - n \in 1 .. Len(s) - n /\ j = (j - n) + n
        BY <1>1, <3>1, <3>3
      <4> QED
        BY <1>1, <3>1, <4>1
    <3>4. \A j \in 1 .. i + n : s[j] \notin S
      BY <1>1, <3>3
    <3> QED
      BY <3>2, <3>4 DEF Seen
  <2>3. ASSUME NEW k \in Seen(s, M, S), k > n PROVE k - n \in T /\ k = (k - n) + n
    <3>1. k \in 1 .. Len(s) /\ s[k] \in M /\ \A j \in 1 .. k : s[j] \notin S
      BY DEF Seen
    <3>2. k - n \in 1 .. Len(s) - n /\ t[k - n] = s[k] /\ k = (k - n) + n
      BY <1>1, <2>3, <3>1
    <3>3. ASSUME NEW j \in 1 .. k - n PROVE t[j] \notin S
      <4>1. j \in 1 .. Len(s) - n /\ j + n \in 1 .. k
        BY <1>1, <3>1
      <4> QED
        BY <1>1, <3>1, <4>1
    <3> QED
      BY <1>1, <3>1, <3>2, <3>3 DEF Seen
  <2>4. ASSUME NEW k \in Seen(s, M, S), ~(k > n) PROVE k \in U
    BY <1>1, <2>4 DEF Seen
  <2> HIDE DEF U, T
  <2> QED
    BY <2>1, <2>2, <2>3, <2>4
<1>6. U \cap V = {}
  BY <1>1, <1>2
<1> HIDE DEF U, V, T
<1>7. Cardinality(U \cup V) = Cardinality(U) + Cardinality(V)
  <2>1. Cardinality(U \cup V) = Cardinality(U) + Cardinality(V) - Cardinality(U \cap V)
    BY <1>3, <1>4, FS_Union
  <2>2. Cardinality(U \cap V) = 0
    BY <1>6, FS_EmptySet
  <2> QED
    BY <1>2, <1>3, <1>4, <2>1, <2>2
<1> QED
  BY <1>2, <1>3, <1>4, <1>5, <1>7 DEF Counted, t, T, U

LEMMA CountCons ==
  ASSUME NEW F, NEW s \in Seq(F), NEW f \in F, NEW M, NEW S
  PROVE  Counted(<<f>> \o s, M, S) =
           IF f \in S THEN 0 ELSE Counted(s, M, S) + IF f \in M THEN 1 ELSE 0
<1> DEFINE u == <<f>> \o s
<1>1. /\ Len(s) \in Nat /\ u \in Seq(F) /\ Len(u) = Len(s) + 1 /\ u[1] = f
      /\ \A i \in 1 .. Len(s) : u[i + 1] = s[i]
  <2>1. <<f>> \in Seq(F) /\ Len(<<f>>) = 1 /\ Len(s) \in Nat /\ <<f>>[1] = f
    BY LenProperties
  <2>2. /\ u \in Seq(F) /\ Len(u) = Len(<<f>>) + Len(s)
        /\ \A i \in 1 .. Len(<<f>>) + Len(s) :
             u[i] = IF i <= Len(<<f>>) THEN <<f>>[i] ELSE s[i - Len(<<f>>)]
    BY <2>1, ConcatProperties
  <2> HIDE DEF u
  <2> QED
    BY <2>1, <2>2
<1> HIDE DEF u
<1>2. CASE f \in S
  <2>1. Seen(u, M, S) = {}
    BY <1>1, <1>2 DEF Seen
  <2> QED
    BY <1>2, <2>1, FS_EmptySet DEF Counted, u
<1>3. CASE f \notin S
  <2>1. 1 \in 0 .. Len(u) /\ \A j \in 1 .. 1 : u[j] \notin S
    BY <1>1, <1>3
  <2>2. Counted(u, M, S) =
           Cardinality({i \in 1 .. 1 : u[i] \in M}) + Counted(Drop(u, 1), M, S)
    BY <1>1, <2>1, CountSplit
  <2>3. Drop(u, 1) = s
    <3>1. /\ Drop(u, 1) \in Seq(F) /\ Len(Drop(u, 1)) = Len(u) - 1
          /\ \A i \in 1 .. Len(u) - 1 : Drop(u, 1)[i] = u[i + 1]
      BY <1>1, <2>1, DropType
    <3>2. Len(Drop(u, 1)) = Len(s) /\ \A i \in 1 .. Len(Drop(u, 1)) : Drop(u, 1)[i] = s[i]
      BY <1>1, <3>1
    <3> QED
      BY <3>1, <3>2, SeqEqual
  <2>4. CASE f \in M
    <3>1. {i \in 1 .. 1 : u[i] \in M} = {1}
      BY <1>1, <2>4
    <3>2. Cardinality({1}) = 1
      BY FS_Singleton
    <3>3. Counted(s, M, S) \in Nat
      BY CountedType
    <3>4. Counted(u, M, S) = 1 + Counted(s, M, S)
      BY <2>2, <2>3, <3>1, <3>2
    <3> QED
      BY <1>3, <2>4, <3>3, <3>4 DEF u
  <2>5. CASE f \notin M
    <3>1. {i \in 1 .. 1 : u[i] \in M} = {}
      BY <1>1, <2>5
    <3>2. Cardinality({}) = 0
      BY FS_EmptySet
    <3>3. Counted(s, M, S) \in Nat
      BY CountedType
    <3>4. Counted(u, M, S) = 0 + Counted(s, M, S)
      BY <2>2, <2>3, <3>1, <3>2
    <3> QED
      BY <1>3, <2>5, <3>3, <3>4 DEF u
  <2> QED
    BY <2>4, <2>5
<1> QED
  BY <1>2, <1>3

-----------------------------------------------------------------------------
(* Frames.                                                                 *)

(* What a frame holds.                                                     *)
LEMMA FrameRead ==
  ASSUME NEW v, NEW f \in Frame(v)
  PROVE  /\ f.k \in Tests \cup LoopKinds \cup Boundary
                       \cup {"seq", "last", "call", "command", "text"}
         /\ f.k # "text" => Node(f) \in v
         /\ f.k \in Tests => f.inCond \in BOOLEAN
         /\ f.k \in LoopKinds => f \in LoopFrame
         /\ f.k \in Boundary => f.parent \in Ctx(v)
         /\ f.k = "last" => f.status \in Status
         /\ f.k = "call" => f.loops \in Int /\ f.level \in Nat
         /\ f.k = "command" => f.command \in BOOLEAN
         /\ f.k = "text" =>
              /\ f.command \in BOOLEAN
              /\ f.for \in {"script", "subst", "eval", "dot", "exit", "signal"}
              /\ f.for = "exit" => "trap" \in v /\ f.code \in Status
              /\ f.for = "signal" =>
                   /\ "trap" \in v /\ MaxSignals > 0 /\ f.last \in Status
                   /\ f.at \in {"run", "ret"} /\ f.rc \in Results(v)
                   /\ f.ign \in BOOLEAN /\ f.goal \in Nat /\ f.was \in Ctx(v)
<1> USE DEF Tests, LoopKinds, Boundary, Node
<1>1. CASE f \in TestFrame
  BY <1>1 DEF TestFrame, Frame, LoopFrame, CallFrame, TextFrame, ExitFrame, SignalFrame
<1>2. CASE f \in LoopFrame
  BY <1>2 DEF Frame, TestFrame, LoopFrame, CallFrame, TextFrame, ExitFrame, SignalFrame
<1>3. CASE f \in CallFrame
  BY <1>3 DEF Frame, TestFrame, LoopFrame, CallFrame, TextFrame, ExitFrame, SignalFrame
<1>4. CASE f \in [k : {"seq"}]
  BY <1>4 DEF Frame, TestFrame, LoopFrame, CallFrame, TextFrame, ExitFrame, SignalFrame
<1>5. CASE f \in [k : Boundary, parent : Ctx(v)]
  BY <1>5 DEF Frame, TestFrame, LoopFrame, CallFrame, TextFrame, ExitFrame, SignalFrame
<1>6. CASE f \in [k : {"last"}, status : Status]
  BY <1>6 DEF Frame, TestFrame, LoopFrame, CallFrame, TextFrame, ExitFrame, SignalFrame
<1>7. CASE f \in [k : {"command"}, command : BOOLEAN]
  BY <1>7 DEF Frame, TestFrame, LoopFrame, CallFrame, TextFrame, ExitFrame, SignalFrame
<1>8. CASE f \in TextFrame
  BY <1>8 DEF TextFrame
<1>9. CASE f \in ExitFrame /\ "trap" \in v
  BY <1>9 DEF ExitFrame
<1>10. CASE f \in SignalFrame(v) /\ "trap" \in v /\ MaxSignals > 0
  BY <1>10 DEF SignalFrame
<1> QED
  BY <1>1, <1>2, <1>3, <1>4, <1>5, <1>6, <1>7, <1>8, <1>9, <1>10 DEF Frame

-----------------------------------------------------------------------------
(* A stack, and the context that matches it.                               *)

IsTest(f)   == f.k \in Tests \/ (IsLoop(f) /\ f.phase = "cond")
IsAction(f) == f.k = "text" /\ f.for \in {"signal", "exit"}

LoopsOf(v, s) ==
  Counted(s, {f \in Frame(v) : IsLoop(f)}, {f \in Frame(v) : Hides(f)})
CallsOf(v, s) ==
  Counted(s, {f \in Frame(v) : f.k = "call"}, {f \in Frame(v) : f.k = "subst"})
ActionsOf(v, s) ==
  Counted(s, {f \in Frame(v) : IsAction(f)}, {f \in Frame(v) : f.k \in Boundary})
TestedIn(v, s) ==
  Counted(s, {f \in Frame(v) : IsTest(f)}, {f \in Frame(v) : f.k = "subst"}) > 0

(* The counters of the context are those of the stack.                     *)
Matches(v, c, s) ==
  /\ c.loops = LoopsOf(v, s)
  /\ c.calls = CallsOf(v, s)
  /\ c.inTrap = ActionsOf(v, s)
  /\ c.inCond = TestedIn(v, s)

(* What a frame keeps for later is true of the frames below it.            *)
Saved(v, f, s) ==
  /\ f.k \in Tests \cup LoopKinds => f.inCond = TestedIn(v, s)
  /\ f.k \in Boundary => Matches(v, f.parent, s)
  /\ f.k = "call" /\ ~NonLexical => f.loops = LoopsOf(v, s)
  /\ f.k = "text" /\ f.for = "signal" =>
       Matches(v, f.was, s) /\ f.was.last = f.last /\ f.was.command = f.command

IsScript(f) == f.k = "text" /\ f.for = "script"

Stack(v, s) ==
  /\ s \in Seq(Frame(v)) /\ s # <<>> /\ IsScript(s[Len(s)])
  /\ \A i \in 1 .. Len(s) : Saved(v, s[i], Drop(s, i))

Good(v, c, s) == c \in Ctx(v) /\ Stack(v, s) /\ Matches(v, c, s)

(* A frame more.                                                           *)
LEMMA Counts ==
  ASSUME NEW v, NEW s \in Seq(Frame(v)), NEW f \in Frame(v)
  PROVE  /\ LoopsOf(v, s) \in Nat /\ CallsOf(v, s) \in Nat /\ ActionsOf(v, s) \in Nat
         /\ TestedIn(v, s) \in BOOLEAN
         /\ LoopsOf(v, <<f>> \o s) =
              IF Hides(f) THEN 0 ELSE LoopsOf(v, s) + IF IsLoop(f) THEN 1 ELSE 0
         /\ CallsOf(v, <<f>> \o s) =
              IF f.k = "subst" THEN 0 ELSE CallsOf(v, s) + IF f.k = "call" THEN 1 ELSE 0
         /\ ActionsOf(v, <<f>> \o s) =
              IF f.k \in Boundary THEN 0 ELSE ActionsOf(v, s) + IF IsAction(f) THEN 1 ELSE 0
         /\ TestedIn(v, <<f>> \o s) = (f.k # "subst" /\ (IsTest(f) \/ TestedIn(v, s)))
<1> DEFINE N(M, S) == /\ Counted(s, M, S) \in Nat
                      /\ Counted(<<f>> \o s, M, S) =
                           IF f \in S THEN 0 ELSE Counted(s, M, S) + IF f \in M THEN 1 ELSE 0
<1>0. ASSUME NEW M, NEW S PROVE N(M, S)
  BY CountCons, CountedType
<1> HIDE DEF N
<1>1. N({g \in Frame(v) : IsLoop(g)}, {g \in Frame(v) : Hides(g)})
  BY <1>0
<1>2. N({g \in Frame(v) : g.k = "call"}, {g \in Frame(v) : g.k = "subst"})
  BY <1>0
<1>3. N({g \in Frame(v) : IsAction(g)}, {g \in Frame(v) : g.k \in Boundary})
  BY <1>0
<1>4. N({g \in Frame(v) : IsTest(g)}, {g \in Frame(v) : g.k = "subst"})
  BY <1>0
<1>5. /\ LoopsOf(v, s) \in Nat
      /\ LoopsOf(v, <<f>> \o s) =
              IF Hides(f) THEN 0 ELSE LoopsOf(v, s) + IF IsLoop(f) THEN 1 ELSE 0
  BY <1>1 DEF LoopsOf, N
<1>6. /\ CallsOf(v, s) \in Nat
      /\ CallsOf(v, <<f>> \o s) =
              IF f.k = "subst" THEN 0 ELSE CallsOf(v, s) + IF f.k = "call" THEN 1 ELSE 0
  BY <1>2 DEF CallsOf, N
<1>7. /\ ActionsOf(v, s) \in Nat
      /\ ActionsOf(v, <<f>> \o s) =
              IF f.k \in Boundary THEN 0 ELSE ActionsOf(v, s) + IF IsAction(f) THEN 1 ELSE 0
  BY <1>3 DEF ActionsOf, N
<1>8. TestedIn(v, <<f>> \o s) = (f.k # "subst" /\ (IsTest(f) \/ TestedIn(v, s)))
  <2> DEFINE M == {g \in Frame(v) : IsTest(g)}
             S == {g \in Frame(v) : g.k = "subst"}
  <2>1. /\ Counted(s, M, S) \in Nat
        /\ Counted(<<f>> \o s, M, S) =
             IF f.k = "subst" THEN 0 ELSE Counted(s, M, S) + IF IsTest(f) THEN 1 ELSE 0
    BY <1>4 DEF N
  <2>2. (Counted(<<f>> \o s, M, S) > 0) = (f.k # "subst" /\ (IsTest(f) \/ Counted(s, M, S) > 0))
    <3> HIDE DEF M, S
    <3>1. CASE f.k = "subst"
      BY <2>1, <3>1
    <3>2. CASE f.k # "subst" /\ IsTest(f)
      BY <2>1, <3>2
    <3>3. CASE f.k # "subst" /\ ~IsTest(f)
      BY <2>1, <3>3
    <3> QED
      BY <3>1, <3>2, <3>3
  <2> QED
    BY <2>2 DEF TestedIn
<1>9. TestedIn(v, s) \in BOOLEAN
  BY DEF TestedIn
<1> QED
  BY <1>5, <1>6, <1>7, <1>8, <1>9

LEMMA Cons ==
  ASSUME NEW F, NEW s \in Seq(F), NEW f \in F
  PROVE  /\ <<f>> \o s \in Seq(F) /\ <<f>> \o s # <<>> /\ Len(<<f>> \o s) = Len(s) + 1
         /\ Head(<<f>> \o s) = f /\ Tail(<<f>> \o s) = s
         /\ (<<f>> \o s)[1] = f /\ \A i \in 1 .. Len(s) : (<<f>> \o s)[i + 1] = s[i]
         /\ \A i \in 0 .. Len(s) : Drop(<<f>> \o s, i + 1) = Drop(s, i)
<1> DEFINE u == <<f>> \o s
<1>1. /\ Len(s) \in Nat /\ u \in Seq(F) /\ Len(u) = Len(s) + 1 /\ u[1] = f
      /\ \A i \in 1 .. Len(s) : u[i + 1] = s[i]
  <2>1. <<f>> \in Seq(F) /\ Len(<<f>>) = 1 /\ Len(s) \in Nat /\ <<f>>[1] = f
    BY LenProperties
  <2>2. /\ u \in Seq(F) /\ Len(u) = Len(<<f>>) + Len(s)
        /\ \A i \in 1 .. Len(<<f>>) + Len(s) :
             u[i] = IF i <= Len(<<f>>) THEN <<f>>[i] ELSE s[i - Len(<<f>>)]
    BY <2>1, ConcatProperties
  <2> HIDE DEF u
  <2> QED
    BY <2>1, <2>2
<1>2. Head(u) = f /\ Tail(u) = s
  BY <1>1
<1> HIDE DEF u
<1>3. ASSUME NEW i \in 0 .. Len(s) PROVE Drop(u, i + 1) = Drop(s, i)
  <2>1. i + 1 \in 0 .. Len(u)
    BY <1>1
  <2>2. /\ Drop(u, i + 1) \in Seq(F) /\ Len(Drop(u, i + 1)) = Len(u) - (i + 1)
        /\ \A j \in 1 .. Len(u) - (i + 1) : Drop(u, i + 1)[j] = u[j + (i + 1)]
    BY <1>1, <2>1, DropType
  <2>3. /\ Drop(s, i) \in Seq(F) /\ Len(Drop(s, i)) = Len(s) - i
        /\ \A j \in 1 .. Len(s) - i : Drop(s, i)[j] = s[j + i]
    BY DropType
  <2>4. ASSUME NEW j \in 1 .. Len(s) - i PROVE u[j + (i + 1)] = s[j + i]
    <3>1. j + i \in 1 .. Len(s) /\ j + (i + 1) = (j + i) + 1
      BY <1>1
    <3> QED
      BY <1>1, <3>1
  <2>5. Len(Drop(u, i + 1)) = Len(Drop(s, i))
    BY <1>1, <2>2, <2>3
  <2>6. \A j \in 1 .. Len(Drop(u, i + 1)) : Drop(u, i + 1)[j] = Drop(s, i)[j]
    BY <1>1, <2>2, <2>3, <2>4
  <2> QED
    BY <2>2, <2>3, <2>5, <2>6, SeqEqual
<1>4. u # <<>>
  BY <1>1
<1> QED
  BY <1>1, <1>2, <1>3, <1>4 DEF u

LEMMA DropNone ==
  ASSUME NEW F, NEW s \in Seq(F)
  PROVE  Drop(s, 0) = s
BY SubSeqFull DEF Drop

LEMMA DropDrop ==
  ASSUME NEW F, NEW s \in Seq(F), NEW n \in 0 .. Len(s), NEW i \in 0 .. Len(s) - n
  PROVE  Drop(Drop(s, n), i) = Drop(s, i + n)
<1>0. Len(s) \in Nat
  BY LenProperties
<1>1. /\ Len(s) \in Nat /\ n \in Nat /\ i \in Nat /\ i + n \in 0 .. Len(s) /\ n <= Len(s)
  BY <1>0
<1>2. /\ Drop(s, n) \in Seq(F) /\ Len(Drop(s, n)) = Len(s) - n
      /\ \A j \in 1 .. Len(s) - n : Drop(s, n)[j] = s[j + n]
  BY DropType
<1>3. i \in 0 .. Len(Drop(s, n))
  BY <1>2
<1>4. /\ Drop(Drop(s, n), i) \in Seq(F) /\ Len(Drop(Drop(s, n), i)) = Len(Drop(s, n)) - i
      /\ \A j \in 1 .. Len(Drop(s, n)) - i : Drop(Drop(s, n), i)[j] = Drop(s, n)[j + i]
  BY <1>2, <1>3, DropType
<1>5. /\ Drop(s, i + n) \in Seq(F) /\ Len(Drop(s, i + n)) = Len(s) - (i + n)
      /\ \A j \in 1 .. Len(s) - (i + n) : Drop(s, i + n)[j] = s[j + (i + n)]
  BY <1>1, DropType
<1>6. Len(Drop(Drop(s, n), i)) = Len(Drop(s, i + n))
  <2>1. Len(Drop(Drop(s, n), i)) = (Len(s) - n) - i
    BY <1>2, <1>4
  <2>2. (Len(s) - n) - i = Len(s) - (i + n)
    BY <1>1
  <2> QED
    BY <1>5, <2>1, <2>2
<1>7. ASSUME NEW j \in 1 .. Len(Drop(Drop(s, n), i))
      PROVE  Drop(Drop(s, n), i)[j] = Drop(s, i + n)[j]
  <2>1. /\ j \in 1 .. Len(Drop(s, n)) - i /\ j + i \in 1 .. Len(s) - n
        /\ j \in 1 .. Len(s) - (i + n) /\ (j + i) + n = j + (i + n)
    BY <1>1, <1>2, <1>4
  <2> QED
    BY <1>2, <1>4, <1>5, <2>1
<1> QED
  BY <1>4, <1>5, <1>6, <1>7, SeqEqual

(* Frames off the top.                                                     *)
LEMMA StackDrop ==
  ASSUME NEW v, NEW s, Stack(v, s), NEW n \in 0 .. Len(s) - 1
  PROVE  Stack(v, Drop(s, n)) /\ Len(Drop(s, n)) = Len(s) - n
<1> DEFINE t == Drop(s, n)
<1>1. /\ s \in Seq(Frame(v)) /\ s # <<>> /\ IsScript(s[Len(s)])
      /\ \A i \in 1 .. Len(s) : Saved(v, s[i], Drop(s, i))
  BY DEF Stack
<1>2. Len(s) \in Nat /\ n \in 0 .. Len(s) /\ n <= Len(s) - 1
  BY <1>1, LenProperties
<1>3. /\ t \in Seq(Frame(v)) /\ Len(t) = Len(s) - n
      /\ \A i \in 1 .. Len(s) - n : t[i] = s[i + n]
  BY <1>1, <1>2, DropType
<1>4. ASSUME NEW i \in 1 .. Len(s) - n PROVE Saved(v, t[i], Drop(t, i))
  <2>1. i \in 0 .. Len(s) - n /\ i + n \in 1 .. Len(s)
    BY <1>2
  <2>2. Drop(t, i) = Drop(s, i + n)
    BY <1>1, <1>2, <2>1, DropDrop
  <2> QED
    BY <1>1, <1>3, <2>1, <2>2
<1> HIDE DEF t
<1>5. t # <<>> /\ IsScript(t[Len(t)])
  <2>1. Len(t) \in 1 .. Len(s) - n /\ Len(t) + n = Len(s)
    BY <1>2, <1>3
  <2>2. t[Len(t)] = s[Len(s)]
    BY <1>3, <2>1
  <2> QED
    BY <1>1, <1>3, <2>1, <2>2
<1> QED
  BY <1>3, <1>4, <1>5 DEF Stack, t

LEMMA StackRead ==
  ASSUME NEW v, NEW s, Stack(v, s)
  PROVE  /\ s \in Seq(Frame(v)) /\ s # <<>> /\ Len(s) \in Nat /\ Len(s) >= 1
         /\ \A i \in 1 .. Len(s) : s[i] \in Frame(v) /\ Saved(v, s[i], Drop(s, i))
         /\ Head(s) \in Frame(v) /\ Tail(s) \in Seq(Frame(v))
         /\ Head(s) = s[1] /\ Tail(s) = Drop(s, 1) /\ Len(Tail(s)) = Len(s) - 1
         /\ s = <<Head(s)>> \o Tail(s)
         /\ Saved(v, Head(s), Tail(s))
         /\ ~IsScript(Head(s)) => Stack(v, Tail(s))
<1>1. /\ s \in Seq(Frame(v)) /\ s # <<>> /\ IsScript(s[Len(s)])
      /\ \A i \in 1 .. Len(s) : Saved(v, s[i], Drop(s, i))
  BY DEF Stack
<1>2. Len(s) \in Nat /\ Len(s) >= 1 /\ \A i \in 1 .. Len(s) : s[i] \in Frame(v)
  BY <1>1, LenProperties, EmptySeq, ElementOfSeq
<1>3. Head(s) \in Frame(v) /\ Tail(s) \in Seq(Frame(v)) /\ Len(Tail(s)) = Len(s) - 1 /\ Head(s) = s[1]
  BY <1>1, HeadTailProperties
<1>4. Tail(s) = Drop(s, 1)
  BY <1>1, TailIsSubSeq DEF Drop
<1>5. s = <<Head(s)>> \o Tail(s)
  <2>1. SubSeq(s, 1, Len(s)) = <<s[1]>> \o SubSeq(s, 1 + 1, Len(s))
    BY <1>1, <1>2, SubSeqRecursiveFirst
  <2>2. SubSeq(s, 1, Len(s)) = s
    BY <1>1, SubSeqFull
  <2> QED
    BY <1>3, <1>4, <2>1, <2>2 DEF Drop
<1>6. Saved(v, Head(s), Tail(s))
  <2>1. 1 \in 1 .. Len(s)
    BY <1>2
  <2>2. Saved(v, s[1], Drop(s, 1))
    BY <1>1, <2>1
  <2> QED
    BY <1>3, <1>4, <2>2
<1>7. ASSUME ~IsScript(Head(s)) PROVE Stack(v, Tail(s))
  <2>1. Len(s) # 1
    BY <1>1, <1>3, <1>7
  <2>2. 1 \in 0 .. Len(s) - 1
    BY <1>2, <2>1
  <2> QED
    BY <1>4, <2>2, StackDrop
<1> QED
  BY <1>1, <1>2, <1>3, <1>4, <1>5, <1>6, <1>7

LEMMA StackCons ==
  ASSUME NEW v, NEW s, Stack(v, s), NEW f \in Frame(v), Saved(v, f, s)
  PROVE  Stack(v, <<f>> \o s)
<1> DEFINE u == <<f>> \o s
<1>1. /\ s \in Seq(Frame(v)) /\ s # <<>> /\ IsScript(s[Len(s)])
      /\ \A i \in 1 .. Len(s) : Saved(v, s[i], Drop(s, i))
      /\ Len(s) \in Nat /\ Len(s) >= 1
  BY StackRead DEF Stack
<1>2. /\ u \in Seq(Frame(v)) /\ u # <<>> /\ Len(u) = Len(s) + 1
      /\ u[1] = f /\ \A i \in 1 .. Len(s) : u[i + 1] = s[i]
      /\ \A i \in 0 .. Len(s) : Drop(u, i + 1) = Drop(s, i)
  BY <1>1, Cons
<1> HIDE DEF u
<1>3. IsScript(u[Len(u)])
  BY <1>1, <1>2
<1>4. Drop(s, 0) = s
  BY <1>1, DropNone
<1>5. Saved(v, u[1], Drop(u, 1))
  <2>1. 0 \in 0 .. Len(s) /\ Drop(u, 0 + 1) = Drop(s, 0)
    BY <1>1, <1>2
  <2> QED
    BY <1>2, <1>4, <2>1
<1>6. ASSUME NEW i \in 1 .. Len(u), i # 1 PROVE Saved(v, u[i], Drop(u, i))
  <2>1. i - 1 \in 1 .. Len(s) /\ i - 1 \in 0 .. Len(s) /\ i = (i - 1) + 1
    BY <1>1, <1>2, <1>6
  <2>2. u[i] = s[i - 1] /\ Drop(u, i) = Drop(s, i - 1)
    BY <1>2, <2>1
  <2> QED
    BY <1>1, <2>1, <2>2
<1> QED
  BY <1>2, <1>3, <1>5, <1>6 DEF Stack, u

-----------------------------------------------------------------------------
(* Steps between good states of context and stack.                         *)

Alike(c, d) ==
  d.loops = c.loops /\ d.calls = c.calls /\ d.inTrap = c.inTrap /\ d.inCond = c.inCond

(* The counters d with a frame f more than c.                              *)
Rises(f, c, d) ==
  /\ d.loops = IF Hides(f) THEN 0 ELSE c.loops + IF IsLoop(f) THEN 1 ELSE 0
  /\ d.calls = IF f.k = "subst" THEN 0 ELSE c.calls + IF f.k = "call" THEN 1 ELSE 0
  /\ d.inTrap = IF f.k \in Boundary THEN 0 ELSE c.inTrap + IF IsAction(f) THEN 1 ELSE 0
  /\ d.inCond = (f.k # "subst" /\ (IsTest(f) \/ c.inCond))

(* The counters d with a frame f less than c.                              *)
Falls(f, c, d) ==
  /\ d.loops = IF Hides(f) THEN f.loops ELSE c.loops - IF IsLoop(f) THEN 1 ELSE 0
  /\ d.calls = c.calls - IF f.k = "call" THEN 1 ELSE 0
  /\ d.inTrap = c.inTrap - IF IsAction(f) THEN 1 ELSE 0
  /\ d.inCond = IF f.k \in Tests \cup LoopKinds THEN f.inCond ELSE c.inCond

LEMMA GoodAlike ==
  ASSUME NEW v, NEW c, NEW s, Good(v, c, s), NEW d \in Ctx(v), Alike(c, d)
  PROVE  Good(v, d, s)
BY DEF Good, Alike, Matches

LEMMA GoodPush ==
  ASSUME NEW v, NEW c, NEW s, Good(v, c, s),
         NEW f \in Frame(v), Saved(v, f, s), NEW d \in Ctx(v), Rises(f, c, d)
  PROVE  Good(v, d, <<f>> \o s)
<1>1. Stack(v, <<f>> \o s) /\ s \in Seq(Frame(v))
  BY StackCons, StackRead DEF Good
<1>2. Matches(v, d, <<f>> \o s)
  BY <1>1, Counts DEF Good, Matches, Rises
<1> QED
  BY <1>1, <1>2 DEF Good

LEMMA GoodPop ==
  ASSUME NEW v, NEW c, NEW s, Good(v, c, s), Head(s).k \notin Boundary,
         ~IsScript(Head(s)), NEW d \in Ctx(v), Falls(Head(s), c, d)
  PROVE  Good(v, d, Tail(s))
<1> DEFINE f == Head(s)
           t == Tail(s)
<1>1. /\ Stack(v, t) /\ s = <<f>> \o t /\ f \in Frame(v) /\ t \in Seq(Frame(v))
      /\ Saved(v, f, t) /\ Matches(v, c, s)
  BY StackRead DEF Good
<1>2. /\ f.k \notin Boundary
      /\ d.loops = IF Hides(f) THEN f.loops ELSE c.loops - IF IsLoop(f) THEN 1 ELSE 0
      /\ d.calls = c.calls - IF f.k = "call" THEN 1 ELSE 0
      /\ d.inTrap = c.inTrap - IF IsAction(f) THEN 1 ELSE 0
      /\ d.inCond = IF f.k \in Tests \cup LoopKinds THEN f.inCond ELSE c.inCond
  BY DEF Falls
<1> HIDE DEF f, t
<1>3. /\ LoopsOf(v, t) \in Nat /\ CallsOf(v, t) \in Nat /\ ActionsOf(v, t) \in Nat
      /\ TestedIn(v, t) \in BOOLEAN
      /\ c.loops = IF Hides(f) THEN 0 ELSE LoopsOf(v, t) + IF IsLoop(f) THEN 1 ELSE 0
      /\ c.calls = IF f.k = "subst" THEN 0 ELSE CallsOf(v, t) + IF f.k = "call" THEN 1 ELSE 0
      /\ c.inTrap = IF f.k \in Boundary THEN 0 ELSE ActionsOf(v, t) + IF IsAction(f) THEN 1 ELSE 0
      /\ c.inCond = (f.k # "subst" /\ (IsTest(f) \/ TestedIn(v, t)))
  BY <1>1, Counts DEF Matches
<1>4. f.k # "subst"
  BY <1>2 DEF Boundary
<1>5. d.loops = LoopsOf(v, t)
  <2>1. CASE Hides(f)
    BY <1>1, <1>2, <2>1 DEF Hides, Saved
  <2>2. CASE ~Hides(f)
    BY <1>2, <1>3, <2>2
  <2> QED
    BY <2>1, <2>2
<1>6. d.calls = CallsOf(v, t)
  BY <1>2, <1>3, <1>4
<1>7. d.inTrap = ActionsOf(v, t)
  BY <1>2, <1>3
<1>8. d.inCond = TestedIn(v, t)
  <2>1. CASE f.k \in Tests \cup LoopKinds
    BY <1>1, <1>2, <2>1 DEF Saved
  <2>2. CASE f.k \notin Tests \cup LoopKinds
    BY <1>2, <1>3, <1>4, <2>2 DEF IsTest, IsLoop, LoopKinds
  <2> QED
    BY <2>1, <2>2
<1> QED
  BY <1>1, <1>5, <1>6, <1>7, <1>8 DEF Good, Matches, f, t

(* A loop turns to another phase.                                          *)
LEMMA GoodSwap ==
  ASSUME NEW v, NEW c, NEW s, Good(v, c, s), IsLoop(Head(s)),
         NEW g \in Frame(v), IsLoop(g), g.inCond = Head(s).inCond,
         NEW d \in Ctx(v), d.loops = c.loops, d.calls = c.calls, d.inTrap = c.inTrap,
         d.inCond = (g.phase = "cond" \/ g.inCond)
  PROVE  Good(v, d, <<g>> \o Tail(s))
<1> DEFINE f == Head(s)
           t == Tail(s)
<1>0. ~IsScript(f) /\ f.k \in LoopKinds /\ g.k \in LoopKinds
  BY DEF IsScript, IsLoop, LoopKinds
<1>1. /\ Stack(v, t) /\ s = <<f>> \o t /\ f \in Frame(v) /\ t \in Seq(Frame(v))
      /\ Saved(v, f, t) /\ Matches(v, c, s)
  BY <1>0, StackRead DEF Good
<1>2. /\ IsLoop(f) /\ g.inCond = f.inCond
  OBVIOUS
<1> HIDE DEF f, t
<1>3. /\ ~Hides(f) /\ f.k # "subst" /\ f.k # "call" /\ f.k \notin Boundary /\ ~IsAction(f)
      /\ ~Hides(g) /\ g.k # "subst" /\ g.k # "call" /\ g.k \notin Boundary /\ ~IsAction(g)
      /\ g.k \notin Tests /\ g.k # "text" /\ f.k # "text"
  BY <1>0 DEF LoopKinds, Hides, Boundary, IsAction, Tests
<1>4. c.loops = LoopsOf(v, t) + 1 /\ c.calls = CallsOf(v, t) + 0 /\ c.inTrap = ActionsOf(v, t) + 0
  BY <1>1, <1>2, <1>3, Counts DEF Matches
<1>5. g.inCond = TestedIn(v, t)
  BY <1>0, <1>1, <1>2 DEF Saved
<1>6. Saved(v, g, t)
  BY <1>3, <1>5 DEF Saved
<1>7. Stack(v, <<g>> \o t)
  BY <1>1, <1>6, StackCons
<1>8. /\ LoopsOf(v, <<g>> \o t) = LoopsOf(v, t) + 1 /\ CallsOf(v, <<g>> \o t) = CallsOf(v, t) + 0
      /\ ActionsOf(v, <<g>> \o t) = ActionsOf(v, t) + 0
      /\ TestedIn(v, <<g>> \o t) = (g.phase = "cond" \/ TestedIn(v, t))
  <2>1. IsTest(g) = (g.phase = "cond")
    BY <1>3 DEF IsTest
  <2> QED
    BY <1>1, <1>3, <2>1, Counts
<1>9. Matches(v, d, <<g>> \o t)
  BY <1>4, <1>5, <1>8 DEF Matches
<1> QED
  BY <1>7, <1>9 DEF Good, t

-----------------------------------------------------------------------------
(* Frames that are made.                                                   *)

LEMMA Results0 ==
  ASSUME NEW v
  PROVE  /\ Status \subseteq Results(v) /\ RETURN \in Results(v)
         /\ \A r \in Results(v) : Flow(r) <=> r \notin Status
         /\ \A r \in Results(v) : Byte(r) \in Status /\ (IF r % 256 = 0 THEN 1 ELSE r % 256) \in Status
         /\ \A r \in Results(v) : r \in {BREAK, CONTINUE} => v \cap Jumps # {}
<1>1. /\ Status \subseteq Results(v) /\ RETURN \in Results(v)
      /\ \A r \in Results(v) : r \in Status \/ r \in {BREAK, CONTINUE, RETURN}
      /\ \A r \in Results(v) : r \in {BREAK, CONTINUE} => v \cap Jumps # {}
  BY DEF Results, Status, BREAK, CONTINUE, RETURN
<1>2. ASSUME NEW r \in Results(v) PROVE Flow(r) <=> r \notin Status
  BY <1>1 DEF Status, BREAK, CONTINUE, RETURN, Flow
<1>3. ASSUME NEW r \in Results(v)
      PROVE  Byte(r) \in Status /\ (IF r % 256 = 0 THEN 1 ELSE r % 256) \in Status
  <2>1. r \in Nat
    BY <1>1 DEF Status, BREAK, CONTINUE, RETURN
  <2>2. r % 256 \in 0 .. 255
    BY <2>1
  <2> QED
    BY <2>1, <2>2 DEF Byte, Status
<1> QED
  BY <1>1, <1>2, <1>3

LEMMA MakeTest ==
  ASSUME NEW v, NEW k \in Tests, k \in v, NEW b \in BOOLEAN
  PROVE  [k |-> k, inCond |-> b] \in Frame(v)
<1> DEFINE f == [k |-> k, inCond |-> b]
<1>1. f \in TestFrame /\ Node(f) \in v
  BY DEF TestFrame, Node, Tests
<1> HIDE DEF f
<1>2. f \in Frame(v)
  BY <1>1 DEF Frame
<1> QED
  BY <1>2 DEF f

LEMMA MakeLoop ==
  ASSUME NEW v, NEW f \in LoopFrame, f.k \in v
  PROVE  f \in Frame(v)
<1>1. Node(f) \in v
  BY DEF LoopFrame, Node, LoopKinds
<1> QED
  BY <1>1 DEF Frame

LEMMA MakeFork ==
  ASSUME NEW v, NEW k \in Boundary, (IF k = "stage" THEN "pipe" ELSE k) \in v, NEW c \in Ctx(v)
  PROVE  [k |-> k, parent |-> c] \in Frame(v)
<1> DEFINE f == [k |-> k, parent |-> c]
<1>1. f \in [k : Boundary, parent : Ctx(v)] /\ Node(f) \in v
  BY DEF Node, Boundary
<1> HIDE DEF f
<1>2. f \in Frame(v)
  BY <1>1 DEF Frame
<1> QED
  BY <1>2 DEF f

LEMMA MakeOther ==
  ASSUME NEW v
  PROVE  /\ "seq" \in v => [k |-> "seq"] \in Frame(v)
         /\ "pipe" \in v => \A r \in Status : [k |-> "last", status |-> r] \in Frame(v)
         /\ "command" \in v => \A b \in BOOLEAN : [k |-> "command", command |-> b] \in Frame(v)
         /\ "call" \in v => \A l \in Int, n \in Nat : [k |-> "call", loops |-> l, level |-> n] \in Frame(v)
<1>1. ASSUME "seq" \in v PROVE [k |-> "seq"] \in Frame(v)
  <2> DEFINE f == [k |-> "seq"]
  <2>1. f \in [k : {"seq"}] /\ Node(f) \in v
    BY <1>1 DEF Node
  <2> HIDE DEF f
  <2>2. f \in Frame(v)
    BY <2>1 DEF Frame
  <2> QED
    BY <2>2 DEF f
<1>2. ASSUME "pipe" \in v, NEW r \in Status PROVE [k |-> "last", status |-> r] \in Frame(v)
  <2> DEFINE f == [k |-> "last", status |-> r]
  <2>1. f \in [k : {"last"}, status : Status] /\ Node(f) \in v
    BY <1>2 DEF Node
  <2> HIDE DEF f
  <2>2. f \in Frame(v)
    BY <2>1 DEF Frame
  <2> QED
    BY <2>2 DEF f
<1>3. ASSUME "command" \in v, NEW b \in BOOLEAN PROVE [k |-> "command", command |-> b] \in Frame(v)
  <2> DEFINE f == [k |-> "command", command |-> b]
  <2>1. f \in [k : {"command"}, command : BOOLEAN] /\ Node(f) \in v
    BY <1>3 DEF Node
  <2> HIDE DEF f
  <2>2. f \in Frame(v)
    BY <2>1 DEF Frame
  <2> QED
    BY <2>2 DEF f
<1>4. ASSUME "call" \in v, NEW l \in Int, NEW n \in Nat
      PROVE  [k |-> "call", loops |-> l, level |-> n] \in Frame(v)
  <2> DEFINE f == [k |-> "call", loops |-> l, level |-> n]
  <2>1. f \in CallFrame /\ Node(f) \in v
    BY <1>4 DEF Node, CallFrame
  <2> HIDE DEF f
  <2>2. f \in Frame(v)
    BY <2>1 DEF Frame
  <2> QED
    BY <2>2 DEF f
<1> QED
  BY <1>1, <1>2, <1>3, <1>4

LEMMA MakeText ==
  ASSUME NEW v, NEW w \in {"script", "subst", "eval", "dot"}, NEW b \in BOOLEAN
  PROVE  [k |-> "text", for |-> w, command |-> b] \in Frame(v)
<1>1. [k |-> "text", for |-> w, command |-> b] \in TextFrame
  BY DEF TextFrame
<1> QED
  BY <1>1 DEF Frame

LEMMA MakeExit ==
  ASSUME NEW v, "trap" \in v, NEW b \in BOOLEAN, NEW r \in Status, NEW x \in BOOLEAN
  PROVE  [k |-> "text", for |-> "exit", command |-> b, code |-> r, keep |-> x] \in Frame(v)
<1>1. [k |-> "text", for |-> "exit", command |-> b, code |-> r, keep |-> x] \in ExitFrame
  BY DEF ExitFrame
<1> QED
  BY <1>1 DEF Frame

LEMMA MakeSignal ==
  ASSUME NEW v, "trap" \in v, MaxSignals > 0, NEW f \in SignalFrame(v)
  PROVE  f \in Frame(v)
BY DEF Frame

-----------------------------------------------------------------------------
(* The pieces of the actions.                                              *)

(* Where a step may lead.                                                  *)
Lands(v) ==
  /\ at' \in {"run", "ret", "over"} /\ rc' \in Results(v) /\ ignored' \in BOOLEAN
  /\ at' # "over" => Good(v, ctx', stack')

LEMMA CtxRead ==
  ASSUME NEW v, NEW c \in Ctx(v)
  PROVE  /\ c.last \in Status /\ c.inCond \in BOOLEAN /\ c.exempt \in BOOLEAN
         /\ c.errexit \in Options(v) /\ c.loops \in Int /\ c.level \in Nat
         /\ c.calls \in Int /\ c.command \in BOOLEAN /\ c.inTrap \in Int
         /\ c.entry \in Status /\ c.fired \in Options(v) /\ c.parseError \in BOOLEAN
         /\ c.exitTrap \in Traps(v) /\ c.usrTrap \in Traps(v)
         /\ c.errexit \in BOOLEAN /\ c.fired \in BOOLEAN
         /\ c.errexit \/ c.fired => "set" \in v
         /\ c.exitTrap = Armed \/ c.usrTrap = Armed => "trap" \in v
BY DEF Ctx, Options, Traps, Default, Armed

LEMMA PublishedGood ==
  ASSUME NEW v, NEW c, NEW s, Good(v, c, s), NEW r \in Results(v)
  PROVE  Good(v, Published(c, r), s)
<1>1. CASE Flow(r)
  BY <1>1 DEF Published
<1>2. CASE ~Flow(r)
  <2>1. c \in Ctx(v) /\ r \in Status
    BY <1>2, Results0 DEF Good
  <2>2. Published(c, r) \in Ctx(v) /\ Alike(c, Published(c, r))
    BY <1>2, <2>1 DEF Published, Ctx, Alike
  <2> QED
    BY <2>2, GoodAlike
<1> QED
  BY <1>1, <1>2

LEMMA ResultLands ==
  ASSUME NEW v, NEW c, Good(v, c, stack'), NEW r \in Results(v), Result(c, r), ignored' \in BOOLEAN
  PROVE  Lands(v)
BY PublishedGood DEF Result, Lands

LEMMA RunsLands ==
  ASSUME NEW v, NEW c, Good(v, c, stack'), Runs(c), ignored' \in BOOLEAN
  PROVE  Lands(v)
BY Results0 DEF Runs, Lands, Status

LEMMA GoneLands ==
  ASSUME NEW v, Stack(v, stack), NEW code \in Status, Gone(code)
  PROVE  Lands(v)
<1>0. code \in Results(v)
  BY Results0
<1>1. CASE Boundaries = {}
  BY <1>0, <1>1 DEF Gone, Lands
<1>2. CASE Boundaries # {}
  <2> DEFINE n == Innermost
             f == stack[n]
             rest == SubSeq(stack, n + 1, Len(stack))
  <2>1. /\ stack \in Seq(Frame(v)) /\ Len(stack) \in Nat /\ IsScript(stack[Len(stack)])
        /\ \A i \in 1 .. Len(stack) : stack[i] \in Frame(v) /\ Saved(v, stack[i], Drop(stack, i))
    BY StackRead DEF Stack
  <2>2. Boundaries \in SUBSET Nat
    BY <2>1 DEF Boundaries
  <2>3. n \in Boundaries
    BY <1>2, <2>2, LeastIn DEF Innermost
  <2>4. n \in 1 .. Len(stack) /\ f.k \in Boundary
    BY <2>3 DEF Boundaries
  <2>5. n # Len(stack)
    BY <2>1, <2>4 DEF Boundary, IsScript
  <2>6. rest = Drop(stack, n) /\ n \in 0 .. Len(stack) - 1
    BY <2>1, <2>4, <2>5 DEF Drop
  <2>7. Stack(v, rest)
    BY <2>6, StackDrop
  <2>8. f \in Frame(v) /\ Saved(v, f, rest) /\ f.parent \in Ctx(v) /\ Node(f) \in v
    <3>1. f \in Frame(v) /\ Saved(v, f, rest)
      BY <2>1, <2>4, <2>6
    <3>2. f.k # "text"
      BY <2>4 DEF Boundary
    <3> HIDE DEF f, rest
    <3> QED
      BY <2>4, <3>1, <3>2, FrameRead
  <2>9. Good(v, f.parent, rest)
    BY <2>4, <2>7, <2>8 DEF Good, Saved
  <2>10. IF f.k = "stage"
         THEN /\ stack' = <<[k |-> "last", status |-> code]>> \o rest
              /\ Runs(f.parent) /\ ignored' = FALSE
         ELSE stack' = rest /\ Result(f.parent, code) /\ Fresh(code)
    BY <1>2 DEF Gone
  <2> HIDE DEF f, rest
  <2>11. CASE f.k = "stage"
    <3> DEFINE g == [k |-> "last", status |-> code]
    <3>1. g \in Frame(v)
      BY <2>8, <2>11, MakeOther DEF Node
    <3>2. g.k = "last"
      OBVIOUS
    <3> HIDE DEF g
    <3>3. Saved(v, g, rest) /\ Rises(g, f.parent, f.parent)
      <4>1. /\ f.parent.loops \in Int /\ f.parent.calls \in Int /\ f.parent.inTrap \in Int
            /\ f.parent.inCond \in BOOLEAN
        BY <2>8, CtxRead
      <4> QED
        BY <3>2, <4>1 DEF Saved, Rises, Hides, IsLoop, IsTest, IsAction, Boundary, Tests, LoopKinds
    <3>4. Good(v, f.parent, <<g>> \o rest)
      BY <2>8, <2>9, <3>1, <3>3, GoodPush
    <3> QED
      BY <2>10, <2>11, <3>4, RunsLands DEF g
  <2>12. CASE f.k # "stage"
    <3>1. stack' = rest /\ Result(f.parent, code) /\ ignored' \in BOOLEAN
      BY <2>10, <2>12 DEF Fresh
    <3> QED
      BY <1>0, <2>9, <3>1, ResultLands
  <2> QED
    BY <2>11, <2>12
<1> QED
  BY <1>1, <1>2

LEMMA ExitActionLands ==
  ASSUME NEW v, NEW c, Good(v, c, stack), c.exitTrap = Armed, NEW code \in Status,
         NEW keep \in BOOLEAN, ExitAction(c, code, keep), ignored \in BOOLEAN
  PROVE  Lands(v)
<1> DEFINE f == [k |-> "text", for |-> "exit", command |-> c.command, code |-> code, keep |-> keep]
           e == [c EXCEPT !.exitTrap = Default, !.last = code, !.inTrap = @ + 1, !.entry = code]
           d == RunString(e)
<1>1. c \in Ctx(v) /\ c.command \in BOOLEAN /\ "trap" \in v /\ c.inTrap \in Int
  BY CtxRead DEF Good
<1>2. f \in Frame(v)
  BY <1>1, MakeExit
<1>3. f.k = "text" /\ f.for = "exit"
  OBVIOUS
<1>4. d \in Ctx(v) /\ d.loops = c.loops /\ d.calls = c.calls /\ d.inTrap = c.inTrap + 1 /\ d.inCond = c.inCond
  <2>1. /\ e \in Ctx(v) /\ e.loops = c.loops /\ e.calls = c.calls
        /\ e.inTrap = c.inTrap + 1 /\ e.inCond = c.inCond
    <3>1. Default \in Traps(v) /\ c.inTrap + 1 \in Int
      BY <1>1 DEF Traps
    <3> QED
      BY <1>1, <3>1 DEF Ctx
  <2> HIDE DEF e
  <2> QED
    BY <2>1 DEF Ctx, RunString
<1>5. stack' = <<f>> \o stack /\ Runs(d) /\ ignored' = ignored
  BY DEF ExitAction, Push
<1> HIDE DEF f, d
<1>6. Saved(v, f, stack)
  BY <1>3 DEF Saved, Tests, LoopKinds, Boundary
<1>7. Rises(f, c, d)
  <2>1. c.loops \in Int /\ c.calls \in Int /\ c.inCond \in BOOLEAN
    BY <1>1, CtxRead
  <2> QED
    BY <1>1, <1>3, <1>4, <2>1 DEF Rises, Hides, IsLoop, IsTest, IsAction, Boundary, Tests, LoopKinds
<1>8. Good(v, d, stack')
  BY <1>2, <1>4, <1>5, <1>6, <1>7, GoodPush
<1> QED
  BY <1>5, <1>8, RunsLands

LEMMA ExitWithTrapLands ==
  ASSUME NEW v, NEW c, Good(v, c, stack), NEW code \in Status,
         ExitWithTrap(c, code), ignored \in BOOLEAN
  PROVE  Lands(v)
<1>1. CASE c.exitTrap = Armed
  BY <1>1, ExitActionLands DEF ExitWithTrap
<1>2. CASE c.exitTrap # Armed
  BY <1>2, GoneLands DEF ExitWithTrap, Good
<1> QED
  BY <1>1, <1>2

LEMMA EndsNormallyLands ==
  ASSUME NEW v, NEW c, Good(v, c, stack), NEW code \in Status,
         EndsNormally(c, code), ignored \in BOOLEAN
  PROVE  Lands(v)
<1>1. CASE c.exitTrap = Armed
  BY <1>1, ExitActionLands DEF EndsNormally
<1>2. CASE c.exitTrap # Armed
  BY <1>2, GoneLands DEF EndsNormally, Good
<1> QED
  BY <1>1, <1>2

LEMMA BuiltinLands ==
  ASSUME NEW v, NEW c, Good(v, c, Tail(stack)), NEW r \in Results(v),
         Builtin(c, r), ignored \in BOOLEAN
  PROVE  Lands(v)
<1>1. stack' = Tail(stack) /\ Result(c, r)
  BY DEF Builtin, Pop
<1>2. ignored' \in BOOLEAN
  BY DEF Builtin, Fresh
<1> QED
  BY <1>1, <1>2, ResultLands

LEMMA TextReturnsLands ==
  ASSUME NEW v, NEW c0, Good(v, c0, stack), Top.k = "text", NEW r \in Results(v),
         Top.for = "script" => r \in Status, TextReturns(c0, r), ignored \in BOOLEAN
  PROVE  Lands(v)
<1> DEFINE f == Top
           c == [c0 EXCEPT !.command = f.command]
           out == [c EXCEPT !.inTrap = @ - 1]
<1>1. /\ c0 \in Ctx(v) /\ c0.last \in Status /\ c0.loops \in Int /\ c0.calls \in Int
      /\ c0.inTrap \in Int /\ c0.inCond \in BOOLEAN
  BY CtxRead DEF Good
<1>2. /\ f \in Frame(v) /\ f.k = "text" /\ f.k \notin Boundary /\ IsScript(f) = (f.for = "script")
      /\ Saved(v, f, Tail(stack)) /\ f.command \in BOOLEAN
      /\ f.for \in {"script", "subst", "eval", "dot", "exit", "signal"}
      /\ f.for = "exit" => f.code \in Status
      /\ f.for = "signal" => /\ f.last \in Status /\ f.at \in {"run", "ret"}
                             /\ f.rc \in Results(v) /\ f.ign \in BOOLEAN
  <2>1. f \in Frame(v) /\ Saved(v, f, Tail(stack)) /\ f.k = "text"
    BY StackRead DEF Good, Top
  <2> HIDE DEF f
  <2> QED
    BY <2>1, FrameRead DEF Boundary, IsScript
<1>3. f = Head(stack)
  BY DEF Top
<1>4. (CASE Top.for = "script" -> EndsNormally(c, r)
        [] Top.for = "subst"  -> EndsNormally(c, c.last)
        [] Top.for = "eval"   -> EvalReturns(c, r)
        [] Top.for = "dot"    -> Builtin(c, IF r \in {BREAK, CONTINUE} THEN 0 ELSE r)
        [] Top.for = "signal" -> ActionReturns(out, r)
        [] Top.for = "exit"   -> Gone(IF Top.keep THEN Top.code ELSE Byte(r)))
  BY DEF TextReturns
<1>5. /\ f.for = "script" => r \in Status /\ EndsNormally(c, r)
      /\ f.for = "subst" => EndsNormally(c, c.last)
      /\ f.for = "eval" => EvalReturns(c, r)
      /\ f.for = "dot" => Builtin(c, IF r \in {BREAK, CONTINUE} THEN 0 ELSE r)
      /\ f.for = "signal" => ActionReturns(out, r)
      /\ f.for = "exit" => Gone(IF f.keep THEN f.code ELSE Byte(r))
  <2> HIDE DEF c, out
  <2> QED
    BY <1>4
<1> HIDE DEF f
<1>6. /\ c \in Ctx(v) /\ c.last \in Status /\ c.loops = c0.loops /\ c.calls = c0.calls
      /\ c.inTrap = c0.inTrap /\ c.inCond = c0.inCond /\ Good(v, c, stack)
  <2>1. /\ c \in Ctx(v) /\ c.last = c0.last /\ Alike(c0, c)
    BY <1>1, <1>2 DEF Ctx, Alike
  <2> HIDE DEF c
  <2> QED
    BY <1>1, <2>1, GoodAlike DEF Alike
<1>7. /\ out \in Ctx(v) /\ out.loops = c.loops /\ out.calls = c.calls
      /\ out.inTrap = c.inTrap - 1 /\ out.inCond = c.inCond
  <2> HIDE DEF c
  <2> QED
    BY <1>1, <1>6 DEF Ctx
<1> HIDE DEF c, out
<1>8. CASE f.for \in {"script", "subst"}
  BY <1>5, <1>6, <1>8, EndsNormallyLands
<1>9. CASE f.for \in {"eval", "dot"}
  <2> DEFINE e == [c EXCEPT !.parseError = FALSE]
  <2>1. e \in Ctx(v) /\ Alike(c, e)
    BY <1>6 DEF Ctx, Alike
  <2> HIDE DEF e
  <2>2. Good(v, e, stack)
    BY <1>6, <2>1, GoodAlike
  <2>3. ASSUME NEW d \in Ctx(v), Alike(c0, d) PROVE Good(v, d, Tail(stack))
    <3>1. Falls(f, c0, d)
      BY <1>1, <1>2, <1>9, <2>3 DEF Falls, Hides, IsLoop, IsAction, Alike, Tests, LoopKinds
    <3> QED
      BY <1>2, <1>3, <1>9, <3>1, GoodPop
  <2>4. Good(v, c, Tail(stack)) /\ Good(v, e, Tail(stack))
    BY <1>6, <2>1, <2>3 DEF Alike
  <2>5. CASE f.for = "dot"
    <3>1. (IF r \in {BREAK, CONTINUE} THEN 0 ELSE r) \in Results(v)
      BY Results0 DEF Status
    <3> QED
      BY <1>5, <2>4, <2>5, <3>1, BuiltinLands
  <2>6. CASE f.for = "eval"
    <3>1. ExitWithTrap(e, 2) \/ Builtin(e, r)
      BY <1>5, <2>6 DEF EvalReturns, e
    <3>2. 2 \in Status
      BY DEF Status
    <3> QED
      BY <2>2, <2>4, <3>1, <3>2, ExitWithTrapLands, BuiltinLands
  <2> QED
    BY <1>9, <2>5, <2>6
<1>10. CASE f.for = "exit"
  <2>1. (IF f.keep THEN f.code ELSE Byte(r)) \in Status
    BY <1>2, <1>10, Results0
  <2> QED
    BY <1>5, <1>10, <2>1, GoneLands DEF Good
<1>11. CASE f.for = "signal"
  <2>1. CASE out.fired
    <3>1. (IF r % 256 = 0 THEN 1 ELSE r % 256) \in Status
      BY Results0
    <3> QED
      BY <1>5, <1>11, <2>1, <3>1, GoneLands DEF ActionReturns, Good
  <2>2. CASE ~out.fired
    <3> DEFINE d == [out EXCEPT !.last = f.last]
    <3>1. d \in Ctx(v) /\ Alike(out, d)
      BY <1>2, <1>7, <1>11 DEF Ctx, Alike
    <3>2. stack' = Tail(stack) /\ at' = f.at /\ rc' = f.rc /\ ignored' = f.ign /\ ctx' = d
      BY <1>5, <1>11, <2>2 DEF ActionReturns, Pop, f
    <3> HIDE DEF d
    <3>3. Falls(f, c0, d)
      BY <1>1, <1>2, <1>6, <1>7, <1>11, <3>1 DEF Falls, Hides, IsLoop, IsAction, Alike, Tests, LoopKinds
    <3>4. Good(v, d, Tail(stack))
      BY <1>2, <1>3, <1>11, <3>1, <3>3, GoodPop
    <3> QED
      BY <1>2, <1>11, <3>2, <3>4 DEF Lands
  <2> QED
    BY <2>1, <2>2
<1> QED
  BY <1>2, <1>8, <1>9, <1>10, <1>11

-----------------------------------------------------------------------------
(* The actions.                                                            *)

(* The context matches the stack, and both are of the script's vocabulary. *)
Shell ==
  /\ vocab \in Vocabularies
  /\ at \in {"run", "ret", "over"} /\ rc \in Results(vocab)
  /\ ignored \in BOOLEAN /\ goal \in Nat /\ signals \in Nat
  /\ at # "over" => Good(vocab, ctx, stack)

LEMMA ShellRead ==
  ASSUME Shell, at # "over"
  PROVE  /\ Good(vocab, ctx, stack) /\ ctx \in Ctx(vocab) /\ Stack(vocab, stack)
         /\ rc \in Results(vocab) /\ ignored \in BOOLEAN
         /\ Top \in Frame(vocab) /\ Top = Head(stack) /\ Saved(vocab, Top, Tail(stack))
         /\ ctx.last \in Status /\ ctx.inCond \in BOOLEAN /\ ctx.loops \in Nat
         /\ ctx.level \in Nat /\ ctx.calls \in Nat /\ ctx.inTrap \in Nat
<1>1. Good(vocab, ctx, stack) /\ ctx \in Ctx(vocab) /\ Stack(vocab, stack)
  BY DEF Shell, Good
<1>2. /\ Top \in Frame(vocab) /\ Top = Head(stack) /\ Saved(vocab, Top, Tail(stack))
      /\ stack \in Seq(Frame(vocab))
  BY <1>1, StackRead DEF Top
<1>3. ctx.loops \in Nat /\ ctx.calls \in Nat /\ ctx.inTrap \in Nat
  BY <1>1, <1>2, Counts DEF Good, Matches
<1>4. ctx.last \in Status /\ ctx.inCond \in BOOLEAN /\ ctx.level \in Nat
  BY <1>1, CtxRead
<1> QED
  BY <1>1, <1>2, <1>3, <1>4 DEF Shell

LEMMA CompletesLands ==
  ASSUME NEW v, NEW c, Good(v, c, stack), NEW r \in Results(v), Completes(c, r)
  PROVE  Lands(v)
<1>1. Result(c, r) /\ stack' = stack /\ ignored' \in BOOLEAN
  BY DEF Completes, Fresh
<1> QED
  BY <1>1, ResultLands

LEMMA CommandLands == ASSUME Shell, Command PROVE Lands(vocab)
<1>1. at = "run" /\ \E r \in {0, 1} : Completes(ctx, r)
  BY DEF Command, Has
<1>2. 0 \in Results(vocab) /\ 1 \in Results(vocab)
  BY Results0 DEF Status
<1> QED
  BY <1>1, <1>2, ShellRead, CompletesLands

LEMMA SetErrexitLands == ASSUME Shell, SetErrexit PROVE Lands(vocab)
<1>1. at = "run" /\ "set" \in vocab
  BY DEF SetErrexit, Has
<1>2. PICK b \in BOOLEAN : Completes([ctx EXCEPT !.errexit = b], 0)
  BY DEF SetErrexit
<1> DEFINE d == [ctx EXCEPT !.errexit = b]
<1>3. d \in Ctx(vocab) /\ Alike(ctx, d)
  BY <1>1, ShellRead DEF Ctx, Options, Alike
<1> HIDE DEF d
<1>4. Good(vocab, d, stack) /\ 0 \in Results(vocab)
  BY <1>1, <1>3, ShellRead, GoodAlike, Results0 DEF Status
<1> QED
  BY <1>2, <1>4, CompletesLands DEF d

LEMMA TrapLands == ASSUME Shell, Trap PROVE Lands(vocab)
<1> DEFINE c == [ctx EXCEPT !.exitTrap = Wiped(@), !.usrTrap = Wiped(@)]
<1>1. at = "run" /\ "trap" \in vocab
  BY DEF Trap, Has
<1>2. PICK t \in {Armed, Default} : \/ Completes([c EXCEPT !.exitTrap = t], 0)
                                    \/ Completes([c EXCEPT !.usrTrap = t], 0)
  BY DEF Trap
<1>3. c \in Ctx(vocab) /\ Alike(ctx, c)
  <2>1. Wiped(ctx.exitTrap) \in Traps(vocab) /\ Wiped(ctx.usrTrap) \in Traps(vocab)
    BY <1>1, ShellRead, CtxRead DEF Traps, Wiped
  <2> QED
    BY <1>1, <2>1, ShellRead DEF Ctx, Alike
<1>4. t \in Traps(vocab)
  BY <1>1 DEF Traps
<1> HIDE DEF c
<1> DEFINE d == [c EXCEPT !.exitTrap = t]
           e == [c EXCEPT !.usrTrap = t]
<1>5. d \in Ctx(vocab) /\ Alike(ctx, d)
  BY <1>3, <1>4 DEF Ctx, Alike
<1>6. e \in Ctx(vocab) /\ Alike(ctx, e)
  BY <1>3, <1>4 DEF Ctx, Alike
<1> HIDE DEF d, e
<1>7. Good(vocab, d, stack) /\ Good(vocab, e, stack) /\ 0 \in Results(vocab)
  BY <1>1, <1>5, <1>6, ShellRead, GoodAlike, Results0 DEF Status
<1> QED
  BY <1>2, <1>7, CompletesLands DEF d, e

LEMMA ReturnLands == ASSUME Shell, Return PROVE Lands(vocab)
<1>1. at = "run" /\ stack' = stack /\ ignored' = ignored
  BY DEF Return, Has, Static
<1>2. PICK code \in Operand : at' = "ret" /\ rc' = RETURN /\ ctx' = [ctx EXCEPT !.last = code]
  BY DEF Return
<1>3. code \in Status
  BY <1>1, ShellRead, ControlFlowAssumption DEF Operand, Status
<1> DEFINE d == [ctx EXCEPT !.last = code]
<1>4. d \in Ctx(vocab) /\ Alike(ctx, d)
  BY <1>1, <1>3, ShellRead DEF Ctx, Alike
<1> HIDE DEF d
<1>5. Good(vocab, d, stack) /\ RETURN \in Results(vocab)
  BY <1>1, <1>4, ShellRead, GoodAlike, Results0
<1> QED
  BY <1>1, <1>2, <1>5, ShellRead DEF Lands, d

LEMMA ExitLands == ASSUME Shell, Exit PROVE Lands(vocab)
<1>1. at = "run"
  BY DEF Exit, Has
<1>2. PICK code \in Operands \cup {NakedExitCode} : ExitWithTrap(ctx, code)
  BY DEF Exit
<1>3. code \in Status
  <2>1. ctx.entry \in Status /\ ctx.last \in Status
    BY <1>1, ShellRead, CtxRead
  <2> QED
    BY <2>1, ControlFlowAssumption DEF NakedExitCode, Status
<1> QED
  BY <1>1, <1>2, <1>3, ShellRead, ExitWithTrapLands

LEMMA FatalLands == ASSUME Shell, Fatal PROVE Lands(vocab)
<1>1. at = "run"
  BY DEF Fatal, Has
<1>2. PICK code \in {1, 2} : \/ Result(ctx, 1) /\ UNCHANGED stack /\ Fresh(1)
                             \/ ExitWithTrap(ctx, code)
  BY DEF Fatal
<1>3. code \in Status /\ 1 \in Results(vocab)
  BY Results0 DEF Status
<1>4. ASSUME Result(ctx, 1) /\ UNCHANGED stack /\ Fresh(1) PROVE Lands(vocab)
  <2>1. stack' = stack /\ ignored' \in BOOLEAN
    BY <1>4 DEF Fresh
  <2> QED
    BY <1>1, <1>3, <1>4, <2>1, ShellRead, ResultLands
<1> QED
  BY <1>1, <1>2, <1>3, <1>4, ShellRead, ExitWithTrapLands

LEMMA DotMissingLands == ASSUME Shell, DotMissing PROVE Lands(vocab)
<1> DEFINE d == [ctx EXCEPT !.last = 1]
<1>1. at = "run" /\ ExitWithTrap(d, 1)
  BY DEF DotMissing, Has
<1>2. 1 \in Status
  BY DEF Status
<1>3. d \in Ctx(vocab) /\ Alike(ctx, d)
  BY <1>1, <1>2, ShellRead DEF Ctx, Alike
<1> HIDE DEF d
<1> QED
  BY <1>1, <1>2, <1>3, ShellRead, GoodAlike, ExitWithTrapLands

LEMMA BreakLands ==
  ASSUME Shell, NEW kind \in Jumps, NEW flow \in {BREAK, CONTINUE}, Break(kind, flow)
  PROVE  Lands(vocab)
<1>1. at = "run" /\ kind \in vocab
  BY DEF Break, Has
<1>2. flow \in Results(vocab) /\ 0 \in Results(vocab)
  BY <1>1 DEF Results, Status
<1>3. CASE ctx.loops = 0
  BY <1>1, <1>2, <1>3, ShellRead, CompletesLands DEF Break
<1>4. CASE ctx.loops # 0
  <2>1. PICK n \in 1 .. MaxLevel : ctx' = [ctx EXCEPT !.level = BreakLevel(n)]
    BY <1>4 DEF Break
  <2>2. at' = "ret" /\ rc' = flow /\ stack' = stack /\ ignored' = ignored
    BY <1>4 DEF Break
  <2>3. BreakLevel(n) \in Nat
    BY ControlFlowAssumption DEF BreakLevel
  <2> DEFINE d == [ctx EXCEPT !.level = BreakLevel(n)]
  <2>4. d \in Ctx(vocab) /\ Alike(ctx, d)
    BY <1>1, <2>3, ShellRead DEF Ctx, Alike
  <2> HIDE DEF d
  <2>5. Good(vocab, d, stack)
    BY <1>1, <2>4, ShellRead, GoodAlike
  <2> QED
    BY <1>1, <1>2, <2>1, <2>2, <2>5, ShellRead DEF Lands, d
<1> QED
  BY <1>3, <1>4

LEMMA PushLands ==
  ASSUME NEW v, NEW c, Good(v, c, stack), NEW f \in Frame(v), Saved(v, f, stack),
         NEW d \in Ctx(v), Rises(f, c, d), Push(f), Runs(d), ignored' = ignored,
         ignored \in BOOLEAN
  PROVE  Lands(v)
<1>1. Good(v, d, stack')
  BY GoodPush DEF Push
<1> QED
  BY <1>1, RunsLands

(* A frame that no counter counts.                                         *)
Plain(f) == f.k \in {"seq", "last", "command", "text"} /\ ~IsAction(f)

LEMMA PlainRises ==
  ASSUME NEW v, NEW c \in Ctx(v), NEW d, Alike(c, d), NEW f, Plain(f), NEW s
  PROVE  Rises(f, c, d) /\ Falls(f, c, d) /\ Saved(v, f, s)
<1>1. /\ c.loops \in Int /\ c.calls \in Int /\ c.inTrap \in Int /\ c.inCond \in BOOLEAN
      /\ d.loops = c.loops /\ d.calls = c.calls /\ d.inTrap = c.inTrap /\ d.inCond = c.inCond
  BY CtxRead DEF Alike
<1>2. /\ f.k \notin Tests /\ f.k \notin LoopKinds /\ f.k \notin Boundary /\ f.k # "call" /\ f.k # "subst"
      /\ ~IsAction(f) /\ ~IsLoop(f) /\ ~IsTest(f) /\ ~Hides(f)
  BY DEF Plain, Tests, LoopKinds, Boundary, IsLoop, IsTest, Hides
<1>3. ~(f.k = "text" /\ f.for = "signal")
  BY <1>2 DEF IsAction
<1> QED
  BY <1>1, <1>2, <1>3 DEF Rises, Falls, Saved

LEMMA TestingLands ==
  ASSUME Shell, NEW kind \in Tests, Testing(kind)
  PROVE  Lands(vocab)
<1> DEFINE f == [k |-> kind, inCond |-> ctx.inCond]
           d == [ctx EXCEPT !.inCond = TRUE]
<1>1. at = "run" /\ kind \in vocab /\ Push(f) /\ Runs(d) /\ ignored' = ignored
  BY DEF Testing, Pushes, Has, Static
<1>2. /\ d \in Ctx(vocab) /\ d.loops = ctx.loops /\ d.calls = ctx.calls /\ d.inTrap = ctx.inTrap
      /\ d.inCond = TRUE
  BY <1>1, ShellRead DEF Ctx
<1>3. f \in Frame(vocab) /\ f.k = kind /\ f.inCond = ctx.inCond
  BY <1>1, ShellRead, MakeTest
<1> HIDE DEF f, d
<1>4. /\ f.k \notin Boundary /\ f.k # "call" /\ f.k # "text" /\ f.k # "subst"
      /\ ~Hides(f) /\ IsLoop(f) = (kind \in LoopKinds) /\ ~IsAction(f)
  BY <1>3 DEF Tests, LoopKinds, Boundary, Hides, IsLoop, IsAction
<1>5. Saved(vocab, f, stack)
  BY <1>1, <1>3, <1>4, ShellRead DEF Saved, Good, Matches
<1>6. d.inCond = (f.k # "subst" /\ (IsTest(f) \/ ctx.inCond))
  BY <1>1, <1>2, <1>3, <1>4, ShellRead DEF IsTest
<1>7. Rises(f, ctx, d)
  <2>1. d.loops = IF Hides(f) THEN 0 ELSE ctx.loops + IF IsLoop(f) THEN 1 ELSE 0
    <3>1. ~IsLoop(f) /\ ~Hides(f)
      BY <1>4 DEF Tests, LoopKinds
    <3> QED
      BY <1>1, <1>2, <3>1, ShellRead
  <2>2. d.calls = IF f.k = "subst" THEN 0 ELSE ctx.calls + IF f.k = "call" THEN 1 ELSE 0
    BY <1>1, <1>2, <1>4, ShellRead
  <2>3. d.inTrap = IF f.k \in Boundary THEN 0 ELSE ctx.inTrap + IF IsAction(f) THEN 1 ELSE 0
    BY <1>1, <1>2, <1>4, ShellRead
  <2> QED
    BY <1>6, <2>1, <2>2, <2>3 DEF Rises
<1> QED
  BY <1>1, <1>2, <1>3, <1>5, <1>7, ShellRead, PushLands

LEMMA LoopLands ==
  ASSUME Shell, NEW kind \in LoopKinds, Loop(kind)
  PROVE  Lands(vocab)
<1> DEFINE f == [k |-> kind, phase |-> IF kind = "for" THEN "head" ELSE "cond",
                 inCond |-> ctx.inCond, rc |-> 0, ign |-> FALSE]
           d == [ctx EXCEPT !.loops = @ + 1, !.inCond = @ \/ kind # "for"]
<1>1. at = "run" /\ kind \in vocab /\ Push(f) /\ Runs(d) /\ ignored' = ignored
  BY DEF Loop, Pushes, Has, Static
<1>2. /\ d \in Ctx(vocab) /\ d.loops = ctx.loops + 1 /\ d.calls = ctx.calls /\ d.inTrap = ctx.inTrap
      /\ d.inCond = (ctx.inCond \/ kind # "for")
  <2>1. (ctx.inCond \/ kind # "for") \in BOOLEAN
    OBVIOUS
  <2> DEFINE b == (ctx.inCond \/ kind # "for")
  <2>2. d = [ctx EXCEPT !.loops = ctx.loops + 1, !.inCond = b]
    OBVIOUS
  <2> HIDE DEF b, d
  <2>3. b \in BOOLEAN
    BY <2>1 DEF b
  <2>4. ctx \in Ctx(vocab) /\ ctx.loops + 1 \in Int
    BY <1>1, ShellRead
  <2>5. /\ d \in Ctx(vocab) /\ d.loops = ctx.loops + 1 /\ d.calls = ctx.calls /\ d.inTrap = ctx.inTrap
        /\ d.inCond = b
    BY <2>2, <2>3, <2>4 DEF Ctx
  <2> QED
    BY <2>5 DEF b
<1>3. f \in Frame(vocab) /\ f.k = kind /\ f.inCond = ctx.inCond /\ (f.phase = "cond") = (kind # "for")
  <2>1. f \in LoopFrame
    BY <1>1, ShellRead DEF LoopFrame, Status
  <2> QED
    BY <1>1, <2>1, MakeLoop
<1> HIDE DEF f, d
<1>4. /\ f.k \notin Boundary /\ f.k # "call" /\ f.k # "text" /\ f.k # "subst"
      /\ ~Hides(f) /\ IsLoop(f) = (kind \in LoopKinds) /\ ~IsAction(f)
  BY <1>3 DEF Tests, LoopKinds, Boundary, Hides, IsLoop, IsAction
<1>5. Saved(vocab, f, stack)
  BY <1>1, <1>3, <1>4, ShellRead DEF Saved, Good, Matches
<1>6. d.inCond = (f.k # "subst" /\ (IsTest(f) \/ ctx.inCond))
  <2>1. IsTest(f) = (kind # "for")
    BY <1>3, <1>4 DEF IsTest, Tests, LoopKinds
  <2> QED
    BY <1>1, <1>2, <1>4, <2>1, ShellRead
<1>7. Rises(f, ctx, d)
  <2>1. d.loops = IF Hides(f) THEN 0 ELSE ctx.loops + IF IsLoop(f) THEN 1 ELSE 0
    <3>1. IsLoop(f) /\ ~Hides(f)
      BY <1>4
    <3> QED
      BY <1>1, <1>2, <3>1, ShellRead
  <2>2. d.calls = IF f.k = "subst" THEN 0 ELSE ctx.calls + IF f.k = "call" THEN 1 ELSE 0
    BY <1>1, <1>2, <1>4, ShellRead
  <2>3. d.inTrap = IF f.k \in Boundary THEN 0 ELSE ctx.inTrap + IF IsAction(f) THEN 1 ELSE 0
    BY <1>1, <1>2, <1>4, ShellRead
  <2> QED
    BY <1>6, <2>1, <2>2, <2>3 DEF Rises
<1> QED
  BY <1>1, <1>2, <1>3, <1>5, <1>7, ShellRead, PushLands

LEMMA FalseOption == ASSUME NEW v PROVE FALSE \in Options(v)
BY Zenon DEF Options

LEMMA StartType == ASSUME NEW v PROVE Start \in Ctx(v)
<1> DEFINE b == FALSE
           z == 0
           t == Default
<1>1. b \in Options(v)
  BY FalseOption
<1>2. t \in Traps(v)
  BY DEF Traps
<1>3. z \in Status /\ z \in Int /\ z \in Nat
  BY DEF Status
<1>4. Start = [last |-> z, inCond |-> FALSE, exempt |-> FALSE, errexit |-> b,
               loops |-> z, level |-> z, calls |-> z, command |-> FALSE,
               inTrap |-> z, entry |-> z, fired |-> b, parseError |-> FALSE,
               exitTrap |-> t, usrTrap |-> t]
  BY DEF Start
<1> HIDE DEF b, z, t
<1> QED
  BY <1>1, <1>2, <1>3, <1>4 DEF Ctx

LEMMA ChildType ==
  ASSUME NEW v, NEW c \in Ctx(v)
  PROVE  /\ Child(c) \in Ctx(v) /\ Child(c).loops = 0 /\ Child(c).calls = c.calls
         /\ Child(c).inTrap = 0 /\ Child(c).inCond = c.inCond /\ Child(c).exempt = c.exempt
         /\ Child(c).errexit = c.errexit /\ Child(c).parseError = c.parseError
         /\ SubstChild(c) \in Ctx(v) /\ SubstChild(c).loops = 0 /\ SubstChild(c).calls = 0
         /\ SubstChild(c).inTrap = 0 /\ SubstChild(c).inCond = FALSE
<1>1. /\ (IF c.exitTrap = Armed THEN Inherited ELSE c.exitTrap) \in Traps(v)
      /\ (IF c.usrTrap = Armed THEN Inherited ELSE c.usrTrap) \in Traps(v)
  BY CtxRead DEF Traps, Default, Armed, Inherited
<1>2. /\ Child(c) \in Ctx(v) /\ Child(c).loops = 0 /\ Child(c).calls = c.calls
      /\ Child(c).inTrap = 0 /\ Child(c).inCond = c.inCond /\ Child(c).exempt = c.exempt
      /\ Child(c).errexit = c.errexit /\ Child(c).parseError = c.parseError
      /\ Child(c).exitTrap \in Traps(v) /\ Child(c).usrTrap \in Traps(v)
  <2> DEFINE e == IF c.exitTrap = Armed THEN Inherited ELSE c.exitTrap
             u == IF c.usrTrap = Armed THEN Inherited ELSE c.usrTrap
             z == 0
  <2>1. Child(c) = [c EXCEPT !.inTrap = z, !.loops = z, !.level = z, !.exitTrap = e, !.usrTrap = u]
    BY DEF Child
  <2>2. e \in Traps(v) /\ u \in Traps(v) /\ z \in Nat /\ z \in Int /\ z = 0
    BY <1>1
  <2> HIDE DEF e, u, z
  <2> QED
    BY <2>1, <2>2 DEF Ctx
<1>3. /\ SubstChild(c) \in Ctx(v) /\ SubstChild(c).loops = 0 /\ SubstChild(c).calls = 0
      /\ SubstChild(c).inTrap = 0 /\ SubstChild(c).inCond = FALSE
  <2> DEFINE e == Child(c).exitTrap
             u == Child(c).usrTrap
  <2>1. SubstChild(c) = [Start EXCEPT !.last = c.last, !.errexit = c.errexit, !.exitTrap = e, !.usrTrap = u]
    BY DEF SubstChild
  <2>2. e \in Traps(v) /\ u \in Traps(v) /\ c.last \in Status /\ c.errexit \in Options(v)
    BY <1>2, CtxRead
  <2>3. Start \in Ctx(v) /\ Start.loops = 0 /\ Start.calls = 0 /\ Start.inTrap = 0 /\ Start.inCond = FALSE
    BY StartType DEF Start
  <2> HIDE DEF e, u
  <2> QED
    BY <2>1, <2>2, <2>3 DEF Ctx
<1> QED
  BY <1>2, <1>3

LEMMA SequenceLands == ASSUME Shell, Sequence PROVE Lands(vocab)
<1> DEFINE f == [k |-> "seq"]
<1>1. at = "run" /\ "seq" \in vocab /\ Push(f) /\ Runs(ctx) /\ ignored' = ignored
  BY DEF Sequence, Pushes, Has, Static
<1>2. f \in Frame(vocab) /\ f.k = "seq"
  BY <1>1, MakeOther
<1> HIDE DEF f
<1>3. Saved(vocab, f, stack) /\ Rises(f, ctx, ctx)
  BY <1>1, <1>2, ShellRead, PlainRises DEF Plain, IsAction, Alike
<1> QED
  BY <1>1, <1>2, <1>3, ShellRead, PushLands

LEMMA ForkLands ==
  ASSUME Shell, at = "run", NEW k \in {"sub", "stage"}, (IF k = "stage" THEN "pipe" ELSE k) \in vocab,
         Push([k |-> k, parent |-> ctx]), Runs(Child(ctx)), Static
  PROVE  Lands(vocab)
<1> DEFINE f == [k |-> k, parent |-> ctx]
<1>1. f \in Frame(vocab) /\ f.k = k /\ f.parent = ctx
  BY ShellRead, MakeFork DEF Boundary
<1>2. /\ Child(ctx) \in Ctx(vocab) /\ Child(ctx).loops = 0 /\ Child(ctx).calls = ctx.calls
      /\ Child(ctx).inTrap = 0 /\ Child(ctx).inCond = ctx.inCond
  BY ShellRead, ChildType
<1>3. Push(f) /\ ignored' = ignored
  BY DEF Static
<1> HIDE DEF f
<1>4. Saved(vocab, f, stack) /\ Rises(f, ctx, Child(ctx))
  BY <1>1, <1>2, ShellRead
     DEF Saved, Rises, Good, Hides, IsLoop, IsTest, IsAction, Boundary, Tests, LoopKinds
<1> QED
  BY <1>1, <1>2, <1>3, <1>4, ShellRead, PushLands

LEMMA SubshellLands == ASSUME Shell, Subshell PROVE Lands(vocab)
BY ForkLands DEF Subshell, Pushes, Has

LEMMA PipelineLands == ASSUME Shell, Pipeline PROVE Lands(vocab)
BY ForkLands DEF Pipeline, Pushes, Has

LEMMA PairCons ==
  ASSUME NEW S, NEW g \in S, NEW f \in S, NEW s \in Seq(S)
  PROVE  <<g, f>> \o s = <<g>> \o (<<f>> \o s)
<1> DEFINE u == <<f>> \o s
           w == <<g>> \o u
           p == <<g, f>>
           z == p \o s
<1>1. u \in Seq(S) /\ Len(u) = Len(s) + 1 /\ u[1] = f /\ \A i \in 1 .. Len(s) : u[i + 1] = s[i]
  BY Cons
<1> HIDE DEF u
<1>2. w \in Seq(S) /\ Len(w) = Len(u) + 1 /\ w[1] = g /\ \A i \in 1 .. Len(u) : w[i + 1] = u[i]
  BY <1>1, Cons
<1>3. p \in Seq(S) /\ Len(p) = 2 /\ p[1] = g /\ p[2] = f
  OBVIOUS
<1> HIDE DEF p, w
<1>4. /\ z \in Seq(S) /\ Len(z) = Len(p) + Len(s)
      /\ \A i \in 1 .. Len(p) + Len(s) : z[i] = IF i <= Len(p) THEN p[i] ELSE s[i - Len(p)]
  BY <1>3, ConcatProperties
<1> HIDE DEF z
<1>5. Len(s) \in Nat
  BY LenProperties
<1>6. ASSUME NEW i \in 1 .. Len(z) PROVE z[i] = w[i]
  <2>1. CASE i = 1
    BY <1>2, <1>3, <1>4, <1>5, <2>1
  <2>2. CASE i = 2
    <3>1. 1 \in 1 .. Len(u) /\ w[1 + 1] = u[1]
      BY <1>1, <1>2, <1>5
    <3> QED
      BY <1>1, <1>3, <1>4, <1>5, <2>2, <3>1
  <2>3. CASE i > 2
    <3>1. /\ i - 2 \in 1 .. Len(s) /\ i - 1 \in 1 .. Len(u) /\ i = (i - 1) + 1 /\ i - 1 = (i - 2) + 1
      BY <1>1, <1>3, <1>4, <1>5, <2>3
    <3>2. w[i] = u[i - 1] /\ u[i - 1] = s[i - 2]
      BY <1>1, <1>2, <3>1
    <3> QED
      BY <1>3, <1>4, <1>5, <2>3, <3>2
  <2> QED
    BY <1>5, <1>4, <1>3, <2>1, <2>2, <2>3
<1>7. Len(z) = Len(w)
  BY <1>1, <1>2, <1>3, <1>4, <1>5
<1>8. z = w
  BY <1>2, <1>4, <1>6, <1>7, SeqEqual
<1> QED
  BY <1>8 DEF z, w, p, u

LEMMA SubstitutionLands == ASSUME Shell, Substitution PROVE Lands(vocab)
<1> DEFINE f == [k |-> "subst", parent |-> ctx]
           g == [k |-> "text", for |-> "subst", command |-> FALSE]
           d == SubstChild(ctx)
<1>1. at = "run" /\ "subst" \in vocab /\ stack' = <<g, f>> \o stack /\ Runs(d) /\ ignored' = ignored
  BY DEF Substitution, Pushes, Has, Static
<1>2. f \in Frame(vocab) /\ f.k = "subst" /\ f.parent = ctx
  BY <1>1, ShellRead, MakeFork DEF Boundary
<1>3. g \in Frame(vocab) /\ g.k = "text" /\ g.for = "subst"
  BY MakeText
<1>4. d \in Ctx(vocab) /\ d.loops = 0 /\ d.calls = 0 /\ d.inTrap = 0 /\ d.inCond = FALSE
  BY <1>1, ShellRead, ChildType
<1> HIDE DEF f, g, d
<1>5. Saved(vocab, f, stack) /\ Rises(f, ctx, d)
  BY <1>1, <1>2, <1>4, ShellRead
     DEF Saved, Rises, Good, Hides, IsLoop, IsTest, IsAction, Boundary, Tests, LoopKinds
<1>6. Good(vocab, d, <<f>> \o stack)
  BY <1>1, <1>2, <1>4, <1>5, ShellRead, GoodPush
<1>7. Saved(vocab, g, <<f>> \o stack) /\ Rises(g, d, d)
  BY <1>3, <1>4, PlainRises DEF Plain, IsAction, Alike
<1>8. Good(vocab, d, <<g>> \o (<<f>> \o stack))
  BY <1>3, <1>4, <1>6, <1>7, GoodPush
<1>9. <<g, f>> \o stack = <<g>> \o (<<f>> \o stack)
  <2>1. stack \in Seq(Frame(vocab))
    BY <1>1, ShellRead, StackRead
  <2> QED
    BY <1>2, <1>3, <2>1, PairCons
<1> QED
  BY <1>1, <1>8, <1>9, ShellRead, RunsLands

LEMMA CallFunctionLands == ASSUME Shell, CallFunction PROVE Lands(vocab)
<1>1. at = "run" /\ "call" \in vocab
  BY DEF CallFunction, Has
<1>2. CASE ctx.calls >= MaxCallDepth
  BY <1>1, <1>2, ShellRead, CompletesLands, Results0 DEF CallFunction, Status
<1>3. CASE ~(ctx.calls >= MaxCallDepth)
  <2> DEFINE f == [k |-> "call", loops |-> ctx.loops, level |-> ctx.level]
             d == [ctx EXCEPT !.calls = @ + 1,
                     !.loops = IF NonLexical THEN @ ELSE 0,
                     !.level = IF NonLexical THEN @ ELSE 0]
  <2>1. Push(f) /\ Runs(d) /\ ignored' = ignored
    BY <1>3 DEF CallFunction, Static
  <2>2. f \in Frame(vocab) /\ f.k = "call" /\ f.loops = ctx.loops
    BY <1>1, ShellRead, MakeOther
  <2>3. /\ d \in Ctx(vocab) /\ d.calls = ctx.calls + 1 /\ d.inTrap = ctx.inTrap /\ d.inCond = ctx.inCond
        /\ d.loops = IF NonLexical THEN ctx.loops ELSE 0
    <3> DEFINE l == IF NonLexical THEN ctx.loops ELSE 0
               n == IF NonLexical THEN ctx.level ELSE 0
    <3>1. d = [ctx EXCEPT !.calls = ctx.calls + 1, !.loops = l, !.level = n]
      OBVIOUS
    <3>2. l \in Int /\ n \in Nat /\ ctx.calls + 1 \in Int /\ ctx \in Ctx(vocab)
      BY <1>1, ShellRead
    <3> HIDE DEF l, n, d
    <3>3. /\ d \in Ctx(vocab) /\ d.calls = ctx.calls + 1 /\ d.inTrap = ctx.inTrap
          /\ d.inCond = ctx.inCond /\ d.loops = l
      BY <3>1, <3>2 DEF Ctx
    <3> QED
      BY <3>3 DEF l
  <2> HIDE DEF f, d
  <2>4. Saved(vocab, f, stack)
    BY <1>1, <2>2, ShellRead DEF Saved, Good, Matches, Boundary, Tests, LoopKinds
  <2>5. Rises(f, ctx, d)
    BY <1>1, <2>2, <2>3, ShellRead DEF Rises, Hides, IsLoop, IsTest, IsAction, Boundary, Tests, LoopKinds
  <2> QED
    BY <1>1, <2>1, <2>2, <2>3, <2>4, <2>5, ShellRead, PushLands
<1> QED
  BY <1>2, <1>3

LEMMA CommandPrefixLands == ASSUME Shell, CommandPrefix PROVE Lands(vocab)
<1> DEFINE f == [k |-> "command", command |-> ctx.command]
           d == [ctx EXCEPT !.command = TRUE]
<1>1. at = "run" /\ "command" \in vocab /\ Push(f) /\ Runs(d) /\ ignored' = ignored
  BY DEF CommandPrefix, Pushes, Has, Static
<1>2. f \in Frame(vocab) /\ f.k = "command"
  BY <1>1, ShellRead, CtxRead, MakeOther
<1>3. d \in Ctx(vocab) /\ Alike(ctx, d)
  BY <1>1, ShellRead DEF Ctx, Alike
<1> HIDE DEF f, d
<1>4. Saved(vocab, f, stack) /\ Rises(f, ctx, d)
  BY <1>1, <1>2, <1>3, ShellRead, PlainRises DEF Plain, IsAction
<1> QED
  BY <1>1, <1>2, <1>3, <1>4, ShellRead, PushLands

LEMMA TextLands ==
  ASSUME Shell, at = "run", NEW w \in {"eval", "dot"}, NEW d \in Ctx(vocab), Alike(ctx, d),
         Push([k |-> "text", for |-> w, command |-> ctx.command]), Runs(d), Static
  PROVE  Lands(vocab)
<1> DEFINE f == [k |-> "text", for |-> w, command |-> ctx.command]
<1>1. f \in Frame(vocab) /\ f.k = "text" /\ f.for = w
  BY ShellRead, CtxRead, MakeText
<1>2. Push(f) /\ ignored' = ignored
  BY DEF Static
<1> HIDE DEF f
<1>3. Saved(vocab, f, stack) /\ Rises(f, ctx, d)
  BY <1>1, ShellRead, PlainRises DEF Plain, IsAction
<1> QED
  BY <1>1, <1>2, <1>3, ShellRead, PushLands

LEMMA EvalLands == ASSUME Shell, Eval PROVE Lands(vocab)
<1>1. RunString(ctx) \in Ctx(vocab) /\ Alike(ctx, RunString(ctx)) /\ at = "run"
  BY ShellRead DEF Ctx, RunString, Alike, Eval, Pushes, Has
<1> QED
  BY <1>1, TextLands DEF Eval

LEMMA DotLands == ASSUME Shell, Dot PROVE Lands(vocab)
<1> DEFINE d == [ctx EXCEPT !.command = FALSE]
<1>1. d \in Ctx(vocab) /\ Alike(ctx, d) /\ at = "run"
  BY ShellRead DEF Ctx, Alike, Dot, Pushes, Has
<1> HIDE DEF d
<1> QED
  BY <1>1, TextLands DEF Dot, d

LEMMA SignalLands == ASSUME Shell, Signal PROVE Lands(vocab)
<1> DEFINE f == [k |-> "text", for |-> "signal", command |-> ctx.command,
                 last |-> ctx.last, at |-> at, rc |-> rc, ign |-> ignored,
                 goal |-> goal, was |-> ctx]
           e == [ctx EXCEPT !.inTrap = @ + 1, !.entry = ctx.last, !.fired = FALSE]
           d == RunString(e)
<1>1. /\ at \in {"run", "ret"} /\ signals < MaxSignals /\ ctx.usrTrap = Armed
      /\ Push(f) /\ Runs(d) /\ ignored' = ignored
  BY DEF Signal
<1>2. f \in Frame(vocab)
  <2>1. f \in SignalFrame(vocab)
    BY <1>1, ShellRead, CtxRead DEF SignalFrame, Shell
  <2>2. "trap" \in vocab
    BY <1>1, ShellRead, CtxRead
  <2>3. MaxSignals > 0
    BY <1>1, ControlFlowAssumption DEF Shell
  <2> HIDE DEF f
  <2> QED
    BY <2>1, <2>2, <2>3, MakeSignal
<1>3. f.k = "text" /\ f.for = "signal" /\ f.was = ctx /\ f.last = ctx.last /\ f.command = ctx.command
  OBVIOUS
<1>4. /\ d \in Ctx(vocab) /\ d.loops = ctx.loops /\ d.calls = ctx.calls
      /\ d.inTrap = ctx.inTrap + 1 /\ d.inCond = ctx.inCond
  <2>1. /\ e \in Ctx(vocab) /\ e.loops = ctx.loops /\ e.calls = ctx.calls
        /\ e.inTrap = ctx.inTrap + 1 /\ e.inCond = ctx.inCond
    <3> DEFINE o == FALSE
    <3>1. ctx \in Ctx(vocab) /\ ctx.inTrap + 1 \in Int /\ ctx.last \in Status
      BY <1>1, ShellRead
    <3>2. o \in Options(vocab)
      BY FalseOption
    <3>3. e = [ctx EXCEPT !.inTrap = ctx.inTrap + 1, !.entry = ctx.last, !.fired = o]
      OBVIOUS
    <3> HIDE DEF o, e
    <3> QED
      BY <3>1, <3>2, <3>3 DEF Ctx
  <2> HIDE DEF e
  <2> QED
    BY <2>1 DEF Ctx, RunString
<1> HIDE DEF f, d
<1>5. Saved(vocab, f, stack) /\ Rises(f, ctx, d)
  BY <1>1, <1>3, <1>4, ShellRead
     DEF Saved, Rises, Good, Hides, IsLoop, IsTest, IsAction, Boundary, Tests, LoopKinds
<1> QED
  BY <1>1, <1>2, <1>4, <1>5, ShellRead, PushLands

(* A result, or a new start, with one frame less.                          *)
LEMMA PopLands ==
  ASSUME NEW v, NEW c, NEW d, Good(v, d, Tail(stack)), Pop, ignored' \in BOOLEAN,
         Alike(d, c), c \in Ctx(v), (\E r \in Results(v) : Result(c, r)) \/ Runs(c)
  PROVE  Lands(v)
<1>1. Good(v, c, stack')
  BY GoodAlike DEF Pop
<1> QED
  BY <1>1, ResultLands, RunsLands

LEMMA TestPop ==
  ASSUME Shell, at = "ret", Top.k \in Tests
  PROVE  /\ [ctx EXCEPT !.inCond = Top.inCond] \in Ctx(vocab)
         /\ Good(vocab, [ctx EXCEPT !.inCond = Top.inCond], Tail(stack))
<1> DEFINE f == Top
           c == [ctx EXCEPT !.inCond = f.inCond]
<1>1. /\ f \in Frame(vocab) /\ f.inCond \in BOOLEAN /\ f = Head(stack) /\ f.k \in Tests
  BY ShellRead, FrameRead
<1> HIDE DEF f
<1>2. /\ f.k \notin Boundary /\ ~IsScript(f) /\ ~Hides(f) /\ ~IsLoop(f)
      /\ ~IsAction(f) /\ f.k # "call"
  BY <1>1 DEF Boundary, IsScript, Hides, IsLoop, IsAction, Tests
<1>3. /\ c \in Ctx(vocab) /\ c.loops = ctx.loops /\ c.calls = ctx.calls
      /\ c.inTrap = ctx.inTrap /\ c.inCond = f.inCond
  BY <1>1, ShellRead DEF Ctx
<1> HIDE DEF c
<1>4. Falls(f, ctx, c)
  BY <1>1, <1>2, <1>3, ShellRead DEF Falls
<1>5. Good(vocab, c, Tail(stack))
  BY <1>1, <1>2, <1>3, <1>4, ShellRead, GoodPop
<1> QED
  BY <1>3, <1>5 DEF c, f

LEMMA AfterAndOrLands == ASSUME Shell, AfterAndOr PROVE Lands(vocab)
<1> DEFINE c == [ctx EXCEPT !.inCond = Top.inCond]
           b == (Top.k = "and")
           d == [c EXCEPT !.exempt = FALSE]
           e == [c EXCEPT !.exempt = b]
<1>1. at = "ret" /\ Top.k \in Tests /\ Pop
  BY DEF AfterAndOr, Passes, Tests
<1>2. Result(c, rc) \/ Runs(d) \/ Result(e, rc)
  BY DEF AfterAndOr, Passes
<1>3. ignored' \in BOOLEAN
  BY <1>1, ShellRead DEF AfterAndOr, Passes, Static
<1>4. c \in Ctx(vocab) /\ Good(vocab, c, Tail(stack))
  BY <1>1, TestPop
<1>5. b \in BOOLEAN
  OBVIOUS
<1> HIDE DEF c, b
<1>6. Alike(c, c) /\ Alike(c, d) /\ Alike(c, e) /\ d \in Ctx(vocab) /\ e \in Ctx(vocab)
  BY <1>4, <1>5 DEF Ctx, Alike
<1> HIDE DEF d, e
<1> QED
  BY <1>1, <1>2, <1>3, <1>4, <1>6, ShellRead, PopLands

LEMMA AfterNotLands == ASSUME Shell, AfterNot PROVE Lands(vocab)
<1> DEFINE c == [ctx EXCEPT !.inCond = Top.inCond]
           d == [c EXCEPT !.exempt = TRUE]
<1>1. at = "ret" /\ Top.k \in Tests /\ Pop
  BY DEF AfterNot, Returned, Passes, Tests
<1>2. Result(c, rc) \/ Result(d, 0) \/ Result(d, 1)
  BY DEF AfterNot, Passes
<1>3. ignored' \in BOOLEAN
  BY <1>1, ShellRead DEF AfterNot, Passes, Static
<1>4. c \in Ctx(vocab) /\ Good(vocab, c, Tail(stack))
  BY <1>1, TestPop
<1>5. 0 \in Results(vocab) /\ 1 \in Results(vocab)
  BY Results0 DEF Status
<1> HIDE DEF c
<1>6. Alike(c, c) /\ Alike(c, d) /\ d \in Ctx(vocab)
  BY <1>4 DEF Ctx, Alike
<1> HIDE DEF d
<1> QED
  BY <1>1, <1>2, <1>3, <1>4, <1>5, <1>6, ShellRead, PopLands

LEMMA AfterIfLands == ASSUME Shell, AfterIf PROVE Lands(vocab)
<1> DEFINE c == [ctx EXCEPT !.inCond = Top.inCond]
<1>1. at = "ret" /\ Top.k \in Tests /\ Pop
  BY DEF AfterIf, Returned, Tests
<1>2. Result(c, rc) \/ Result(c, 0) \/ Runs(c)
  BY DEF AfterIf
<1>3. ignored' \in BOOLEAN
  BY <1>1, ShellRead DEF AfterIf
<1>4. c \in Ctx(vocab) /\ Good(vocab, c, Tail(stack))
  BY <1>1, TestPop
<1>5. 0 \in Results(vocab)
  BY Results0 DEF Status
<1> HIDE DEF c
<1>6. Alike(c, c)
  BY DEF Alike
<1> QED
  BY <1>1, <1>2, <1>3, <1>4, <1>5, <1>6, ShellRead, PopLands

(* A frame that no counter counts is popped.                               *)
LEMMA PlainPop ==
  ASSUME Shell, at # "over", Plain(Top), ~IsScript(Top), NEW c \in Ctx(vocab), Alike(ctx, c)
  PROVE  Good(vocab, c, Tail(stack))
<1>1. Top.k \notin Boundary
  BY DEF Plain, Boundary
<1> QED
  BY <1>1, ShellRead, PlainRises, GoodPop

LEMMA AfterLeftLands == ASSUME Shell, AfterLeft PROVE Lands(vocab)
<1> DEFINE c == Looked(Published(ctx, rc))
<1>1. at = "ret" /\ Top.k = "seq" /\ Pop /\ ignored' = ignored
  BY DEF AfterLeft, Returned, Static
<1>2. Result(ctx, rc) \/ Result(c, rc) \/ Runs(c)
  BY DEF AfterLeft
<1>3. c \in Ctx(vocab) /\ Alike(ctx, c)
  <2>1. Good(vocab, Published(ctx, rc), stack) /\ Alike(ctx, Published(ctx, rc))
    BY <1>1, ShellRead, PublishedGood DEF Good, Matches, Alike
  <2>2. Published(ctx, rc) \in Ctx(vocab)
    BY <2>1 DEF Good
  <2> QED
    BY <2>1, <2>2 DEF Ctx, Alike, Looked
<1> HIDE DEF c
<1>4. Good(vocab, c, Tail(stack)) /\ Good(vocab, ctx, Tail(stack)) /\ Alike(ctx, ctx) /\ Alike(c, c)
  BY <1>1, <1>3, ShellRead, PlainPop DEF Plain, IsAction, IsScript, Alike
<1> QED
  BY <1>1, <1>2, <1>3, <1>4, ShellRead, PopLands

LEMMA AfterCommandPrefixLands == ASSUME Shell, AfterCommandPrefix PROVE Lands(vocab)
<1> DEFINE c == [ctx EXCEPT !.command = Top.command]
<1>1. at = "ret" /\ Top.k = "command" /\ Pop /\ ignored' = ignored /\ Result(c, rc)
  BY DEF AfterCommandPrefix, Returned, Passes, Static
<1>2. Top.command \in BOOLEAN
  BY <1>1, ShellRead, FrameRead
<1>3. c \in Ctx(vocab) /\ Alike(ctx, c)
  BY <1>1, <1>2, ShellRead DEF Ctx, Alike
<1> HIDE DEF c
<1>4. Good(vocab, c, Tail(stack)) /\ Alike(c, c)
  BY <1>1, <1>3, ShellRead, PlainPop DEF Plain, IsAction, IsScript, Alike
<1> QED
  BY <1>1, <1>3, <1>4, ShellRead, PopLands

LEMMA AfterLastLands == ASSUME Shell, AfterLast PROVE Lands(vocab)
<1>1. at = "ret" /\ Top.k = "last" /\ Pop
  BY DEF AfterLast, Returned
<1>2. Result(ctx, rc) \/ Result(ctx, Top.status)
  BY DEF AfterLast
<1>3. ignored' \in BOOLEAN
  BY <1>1, ShellRead DEF AfterLast, Fresh
<1>4. Top.status \in Results(vocab)
  BY <1>1, ShellRead, FrameRead, Results0
<1>5. Good(vocab, ctx, Tail(stack)) /\ Alike(ctx, ctx)
  BY <1>1, ShellRead, PlainPop DEF Plain, IsAction, IsScript, Alike
<1> QED
  BY <1>1, <1>2, <1>3, <1>4, <1>5, ShellRead, PopLands

LEMMA AfterCallLands == ASSUME Shell, AfterCall PROVE Lands(vocab)
<1> DEFINE f == Top
           c == Outside(f, ctx)
<1>1. at = "ret" /\ f.k = "call" /\ Pop
  BY DEF AfterCall, Returned
<1>2. \/ Result(c, ctx.last)
      \/ Result(c, IF Flow(rc) /\ ~NonLexical THEN 0 ELSE rc)
  BY DEF AfterCall
<1>3. ignored' \in BOOLEAN
  BY <1>1, ShellRead DEF AfterCall, Fresh
<1>4. /\ f \in Frame(vocab) /\ f = Head(stack) /\ f.loops \in Int /\ f.level \in Nat
      /\ f.k \notin Boundary /\ ~IsScript(f) /\ ~IsLoop(f) /\ ~IsAction(f)
      /\ f.k \notin Tests /\ f.k \notin LoopKinds /\ (Hides(f) <=> ~NonLexical)
  <2>1. f \in Frame(vocab) /\ f = Head(stack)
    BY <1>1, ShellRead
  <2> HIDE DEF f
  <2> QED
    BY <1>1, <2>1, FrameRead DEF Boundary, IsScript, IsLoop, IsAction, Tests, LoopKinds, Hides
<1> HIDE DEF f
<1>5. /\ c \in Ctx(vocab) /\ c.calls = ctx.calls - 1 /\ c.inTrap = ctx.inTrap /\ c.inCond = ctx.inCond
      /\ c.loops = IF NonLexical THEN ctx.loops ELSE f.loops
  <2> DEFINE l == IF NonLexical THEN ctx.loops ELSE f.loops
             n == IF NonLexical THEN ctx.level ELSE f.level
  <2>1. c = [ctx EXCEPT !.calls = ctx.calls - 1, !.loops = l, !.level = n]
    BY DEF Outside
  <2>2. l \in Int /\ n \in Nat /\ ctx.calls - 1 \in Int /\ ctx \in Ctx(vocab)
    BY <1>1, <1>4, ShellRead
  <2> HIDE DEF l, n, c
  <2>3. /\ c \in Ctx(vocab) /\ c.calls = ctx.calls - 1 /\ c.inTrap = ctx.inTrap
        /\ c.inCond = ctx.inCond /\ c.loops = l
    BY <2>1, <2>2 DEF Ctx
  <2> QED
    BY <2>3 DEF l
<1> HIDE DEF c
<1>6. Falls(f, ctx, c)
  BY <1>1, <1>4, <1>5, ShellRead DEF Falls
<1>7. Good(vocab, c, Tail(stack)) /\ Alike(c, c)
  BY <1>1, <1>4, <1>5, <1>6, ShellRead, GoodPop DEF Alike
<1>8. ctx.last \in Results(vocab) /\ (IF Flow(rc) /\ ~NonLexical THEN 0 ELSE rc) \in Results(vocab)
  BY <1>1, ShellRead, Results0 DEF Status
<1> QED
  BY <1>1, <1>2, <1>3, <1>5, <1>7, <1>8, PopLands

LEMMA NormalisedType == ASSUME Shell, at = "ret" PROVE Normalised(rc) \in Status
BY ShellRead, Results0 DEF Normalised, Status

LEMMA AfterSubshellLands == ASSUME Shell, AfterSubshell PROVE Lands(vocab)
<1> DEFINE r == Normalised(rc)
           c == [ctx EXCEPT !.last = r]
<1>1. at = "ret" /\ EndsNormally(c, r)
  BY DEF AfterSubshell, Returned
<1>2. r \in Status
  BY <1>1, NormalisedType
<1> HIDE DEF r
<1>3. c \in Ctx(vocab) /\ Alike(ctx, c)
  BY <1>1, <1>2, ShellRead DEF Ctx, Alike
<1> HIDE DEF c
<1> QED
  BY <1>1, <1>2, <1>3, ShellRead, GoodAlike, EndsNormallyLands

LEMMA AfterStageLands == ASSUME Shell, AfterStage PROVE Lands(vocab)
<1>1. at = "ret" /\ Gone(Normalised(rc))
  BY DEF AfterStage, Returned
<1> QED
  BY <1>1, ShellRead, NormalisedType, GoneLands

(* Whether the loop on top runs its condition.                             *)
LEMMA LoopRead ==
  ASSUME Shell, at # "over", IsLoop(Top)
  PROVE  /\ Top \in LoopFrame /\ Top.k \in LoopKinds /\ Top.k \in vocab
         /\ Top.phase \in {"head", "cond", "body"} /\ Top.inCond \in BOOLEAN
         /\ Top.rc \in Status /\ Top.ign \in BOOLEAN
         /\ Top.k \notin Boundary /\ ~IsScript(Top) /\ ~Hides(Top) /\ ~IsAction(Top) /\ Top.k # "call"
         /\ Top.phase # "cond" => ctx.inCond = Top.inCond
<1> DEFINE f == Top
<1>1. f \in Frame(vocab) /\ f.k \in LoopKinds /\ f = Head(stack) /\ Saved(vocab, f, Tail(stack)) /\ IsLoop(f)
  BY ShellRead DEF IsLoop, LoopKinds
<1> HIDE DEF f
<1>2. f \in LoopFrame /\ f.k # "text" /\ Node(f) \in vocab
  BY <1>1, FrameRead DEF LoopKinds
<1>3. /\ f.k \notin Boundary /\ ~IsScript(f) /\ ~Hides(f) /\ ~IsAction(f) /\ f.k # "call"
      /\ f.k \notin Tests /\ f.k # "subst" /\ Node(f) = f.k
  BY <1>1 DEF Boundary, IsScript, Hides, IsAction, LoopKinds, Tests, Node
<1>4. /\ f.phase \in {"head", "cond", "body"} /\ f.inCond \in BOOLEAN
      /\ f.rc \in Status /\ f.ign \in BOOLEAN
  BY <1>2 DEF LoopFrame
<1>5. ASSUME f.phase # "cond" PROVE ctx.inCond = f.inCond
  <2>1. /\ stack = <<f>> \o Tail(stack) /\ Tail(stack) \in Seq(Frame(vocab))
        /\ ctx.inCond = TestedIn(vocab, stack) /\ ctx.inCond \in BOOLEAN
    BY <1>1, ShellRead, StackRead DEF Good, Matches
  <2>2. TestedIn(vocab, <<f>> \o Tail(stack)) = (f.k # "subst" /\ (IsTest(f) \/ TestedIn(vocab, Tail(stack))))
    BY <1>1, <2>1, Counts
  <2>3. ~IsTest(f) /\ f.inCond = TestedIn(vocab, Tail(stack)) /\ TestedIn(vocab, Tail(stack)) \in BOOLEAN
    BY <1>1, <1>3, <1>4, <1>5, <2>1, Counts DEF IsTest, Saved
  <2> QED
    BY <1>3, <2>1, <2>2, <2>3
<1> QED
  BY <1>1, <1>2, <1>3, <1>4, <1>5 DEF f

(* The context d is ctx with the condition of the loop on top behind it.   *)
Around(c) == /\ c \in Ctx(vocab) /\ c.loops = ctx.loops /\ c.calls = ctx.calls
             /\ c.inTrap = ctx.inTrap /\ c.inCond = Top.inCond

LEMMA LeaveLands ==
  ASSUME Shell, at # "over", IsLoop(Top), NEW c, Around(c), NEW r \in Results(vocab),
         NEW i \in BOOLEAN, LeaveWith(c, r, i)
  PROVE  Lands(vocab)
<1> DEFINE d == [c EXCEPT !.loops = @ - 1]
<1>1. Pop /\ Result(d, r) /\ ignored' = i
  BY DEF LeaveWith
<1>2. /\ d \in Ctx(vocab) /\ d.loops = ctx.loops - 1 /\ d.calls = ctx.calls
      /\ d.inTrap = ctx.inTrap /\ d.inCond = Top.inCond
  BY ShellRead DEF Around, Ctx
<1> HIDE DEF d
<1>3. Falls(Top, ctx, d)
  BY <1>2, LoopRead, ShellRead DEF Falls
<1>4. Good(vocab, d, Tail(stack)) /\ Alike(d, d)
  BY <1>2, <1>3, LoopRead, ShellRead, GoodPop DEF Alike
<1> QED
  BY <1>1, <1>2, <1>4, PopLands

(* The loop on top goes on with the frame g.                               *)
LEMMA SwapLands ==
  ASSUME Shell, at # "over", IsLoop(Top), NEW c, Around(c), NEW g \in LoopFrame,
         g.k = Top.k, g.inCond = Top.inCond, NEW d \in Ctx(vocab),
         d.loops = c.loops, d.calls = c.calls, d.inTrap = c.inTrap,
         d.inCond = (g.phase = "cond" \/ g.inCond),
         Swap(g), Runs(d), ignored' = ignored
  PROVE  Lands(vocab)
<1>1. g \in Frame(vocab)
  BY LoopRead, MakeLoop
<1>2. IsLoop(g)
  BY DEF IsLoop
<1>3. Good(vocab, d, <<g>> \o Tail(stack))
  BY <1>1, <1>2, ShellRead, GoodSwap DEF Around
<1> QED
  BY <1>3, ShellRead, RunsLands DEF Swap

LEMMA TurnLands ==
  ASSUME Shell, at # "over", IsLoop(Top), NEW c, Around(c), NEW r \in Status,
         NEW i \in BOOLEAN, Turn(c, r, i)
  PROVE  Lands(vocab)
<1> DEFINE p == IF Top.k = "for" THEN "head" ELSE "cond"
           g == [Top EXCEPT !.phase = p, !.rc = r, !.ign = i, !.inCond = c.inCond]
           b == c.inCond \/ Top.k # "for"
           d == [c EXCEPT !.inCond = b]
<1>1. Swap(g) /\ Runs(d) /\ ignored' = ignored
  BY DEF Turn
<1>2. p \in {"head", "cond", "body"} /\ (p = "cond") = (Top.k # "for") /\ b \in BOOLEAN
  OBVIOUS
<1>3. c.inCond = Top.inCond /\ Top \in LoopFrame /\ Top.inCond \in BOOLEAN
  BY LoopRead DEF Around
<1>4. b = (p = "cond" \/ Top.inCond)
  BY <1>2, <1>3
<1> HIDE DEF p, b
<1>5. g \in LoopFrame /\ g.k = Top.k /\ g.inCond = Top.inCond /\ g.phase = p
  BY <1>2, <1>3 DEF LoopFrame
<1>6. /\ d \in Ctx(vocab) /\ d.loops = c.loops /\ d.calls = c.calls /\ d.inTrap = c.inTrap
      /\ d.inCond = b
  BY <1>2 DEF Around, Ctx
<1> HIDE DEF g, d
<1> QED
  BY <1>1, <1>4, <1>5, <1>6, SwapLands

LEMMA LoopFlowLands ==
  ASSUME Shell, at # "over", IsLoop(Top), NEW c, Around(c), NEW r \in Status, LoopFlow(c, r)
  PROVE  Lands(vocab)
<1> DEFINE d == [c EXCEPT !.level = @ - 1]
           e == [c EXCEPT !.level = 0]
<1>1. e \in Ctx(vocab) /\ Around(e)
  BY DEF Ctx, Around
<1>2. ASSUME c.level > 0 PROVE d \in Ctx(vocab) /\ Around(d)
  <2>1. c \in Ctx(vocab) /\ c.level \in Nat
    BY CtxRead DEF Around
  <2>2. c.level - 1 \in Nat
    BY <1>2, <2>1
  <2> QED
    BY <2>1, <2>2 DEF Ctx, Around
<1>3. \/ LeaveWith(c, rc, FALSE)
      \/ c.level > 0 /\ LeaveWith(d, rc, FALSE)
      \/ LeaveWith(e, 0, FALSE)
      \/ Turn(e, r, FALSE)
  BY DEF LoopFlow, Leave
<1> HIDE DEF d, e
<1>4. rc \in Results(vocab) /\ 0 \in Results(vocab)
  BY ShellRead, Results0 DEF Status
<1> QED
  BY <1>1, <1>2, <1>3, <1>4, LeaveLands, TurnLands

LEMMA AfterConditionLands == ASSUME Shell, AfterCondition PROVE Lands(vocab)
<1> DEFINE c == [ctx EXCEPT !.inCond = Top.inCond]
           g == [Top EXCEPT !.phase = "body"]
<1>1. at = "ret" /\ IsLoop(Top) /\ Top.phase = "cond"
  BY DEF AfterCondition, IsLoop
<1>2. \/ LoopFlow(c, Top.rc)
      \/ Swap(g) /\ Runs(c) /\ ignored' = ignored
      \/ LeaveWith(c, Top.rc, Top.ign)
  BY DEF AfterCondition
<1>3. Top \in LoopFrame /\ Top.inCond \in BOOLEAN /\ Top.rc \in Status /\ Top.ign \in BOOLEAN
  BY <1>1, LoopRead
<1>4. Around(c)
  BY <1>1, <1>3, ShellRead DEF Around, Ctx
<1>5. g \in LoopFrame /\ g.k = Top.k /\ g.inCond = Top.inCond /\ g.phase = "body"
  BY <1>3 DEF LoopFrame
<1> HIDE DEF c, g
<1>6. Top.rc \in Results(vocab)
  BY <1>3, Results0
<1>7. ASSUME Swap(g), Runs(c), ignored' = ignored PROVE Lands(vocab)
  <2>1. c.inCond = (g.phase = "cond" \/ g.inCond) /\ c \in Ctx(vocab)
    BY <1>3, <1>4, <1>5 DEF Around
  <2> QED
    BY <1>1, <1>4, <1>5, <1>7, <2>1, SwapLands
<1> QED
  BY <1>1, <1>2, <1>3, <1>4, <1>6, <1>7, LoopFlowLands, LeaveLands

LEMMA AfterBodyLands == ASSUME Shell, AfterBody PROVE Lands(vocab)
<1> DEFINE c == Looked(ctx)
<1>1. at = "ret" /\ IsLoop(Top) /\ Top.phase = "body"
  BY DEF AfterBody
<1>2. \/ LoopFlow(ctx, 0)
      \/ LeaveWith(c, rc, ignored)
      \/ ~Flow(rc) /\ Turn(c, rc, ignored)
  BY DEF AfterBody
<1>3. ctx.inCond = Top.inCond
  BY <1>1, LoopRead
<1>4. Around(ctx) /\ Around(c)
  BY <1>1, <1>3, ShellRead DEF Around, Ctx, Looked
<1> HIDE DEF c
<1>5. ignored \in BOOLEAN /\ 0 \in Status /\ rc \in Results(vocab)
  BY <1>1, ShellRead DEF Status
<1>6. ~Flow(rc) => rc \in Status
  BY <1>5, Results0
<1> QED
  BY <1>1, <1>2, <1>4, <1>5, <1>6, LoopFlowLands, LeaveLands, TurnLands

LEMMA NextWordLands == ASSUME Shell, NextWord PROVE Lands(vocab)
<1> DEFINE g == [Top EXCEPT !.phase = "body"]
           i == TestedBy(Tail(stack))
<1>1. at = "run" /\ IsLoop(Top) /\ Top.phase = "head"
  BY DEF NextWord, IsLoop
<1>2. \/ Swap(g) /\ Runs(ctx) /\ ignored' = ignored
      \/ LeaveWith(ctx, Top.rc, Top.ign)
      \/ LeaveWith(ctx, 1, i)
  BY DEF NextWord
<1>3. Top \in LoopFrame /\ Top.inCond \in BOOLEAN /\ Top.rc \in Status /\ Top.ign \in BOOLEAN
  BY <1>1, LoopRead
<1>4. Around(ctx)
  BY <1>1, <1>3, ShellRead, LoopRead DEF Around
<1>5. g \in LoopFrame /\ g.k = Top.k /\ g.inCond = Top.inCond /\ g.phase = "body"
  BY <1>3 DEF LoopFrame
<1>6. Top.rc \in Results(vocab) /\ 1 \in Results(vocab) /\ i \in BOOLEAN
  BY <1>3, Results0 DEF TestedBy, Status
<1> HIDE DEF g, i
<1>7. ASSUME Swap(g), Runs(ctx), ignored' = ignored PROVE Lands(vocab)
  <2>1. ctx.inCond = (g.phase = "cond" \/ g.inCond) /\ ctx \in Ctx(vocab)
    BY <1>3, <1>4, <1>5 DEF Around
  <2> QED
    BY <1>1, <1>4, <1>5, <1>7, <2>1, SwapLands
<1> QED
  BY <1>1, <1>2, <1>3, <1>4, <1>6, <1>7, LeaveLands

LEMMA UnitReturnsLands ==
  ASSUME Shell, at = "ret", Top.k = "text", NEW r \in Status, UnitReturns(r)
  PROVE  Lands(vocab)
<1> DEFINE c == [Looked(ctx) EXCEPT !.last = r]
           d == [c EXCEPT !.fired = TRUE]
<1>1. \/ Stops(ctx, r) /\ TextReturns(d, r)
      \/ Runs(c) /\ UNCHANGED <<stack, ignored>>
  BY DEF UnitReturns
<1>2. c \in Ctx(vocab) /\ Alike(ctx, c)
  BY ShellRead DEF Ctx, Alike, Looked
<1> HIDE DEF c
<1>3. ASSUME Stops(ctx, r) PROVE d \in Ctx(vocab) /\ Alike(ctx, d)
  <2>1. TRUE \in Options(vocab)
    BY <1>3, ShellRead, CtxRead DEF Stops, Options
  <2> QED
    BY <1>2, <2>1 DEF Ctx, Alike
<1> HIDE DEF d
<1>4. ASSUME Stops(ctx, r), TextReturns(d, r) PROVE Lands(vocab)
  <2>1. Good(vocab, d, stack) /\ r \in Results(vocab)
    BY <1>3, <1>4, ShellRead, GoodAlike, Results0
  <2> QED
    BY <1>4, <2>1, ShellRead, TextReturnsLands
<1>5. ASSUME Runs(c), stack' = stack, ignored' = ignored PROVE Lands(vocab)
  <2>1. Good(vocab, c, stack')
    BY <1>2, <1>5, ShellRead, GoodAlike
  <2> QED
    BY <1>5, <2>1, ShellRead, RunsLands
<1> QED
  BY <1>1, <1>4, <1>5

LEMMA AfterUnitLands == ASSUME Shell, AfterUnit PROVE Lands(vocab)
<1>1. at = "ret" /\ Top.k = "text"
  BY DEF AfterUnit, Returned
<1>2. \/ ~Flow(rc) /\ UnitReturns(rc)
      \/ TextReturns(ctx, ctx.last)
      \/ UnitReturns(ctx.last)
      \/ Top.for # "script" /\ TextReturns(ctx, rc)
  BY DEF AfterUnit
<1>3. ctx.last \in Status /\ ctx.last \in Results(vocab) /\ (~Flow(rc) => rc \in Status)
  BY <1>1, ShellRead, Results0
<1> QED
  BY <1>1, <1>2, <1>3, ShellRead, UnitReturnsLands, TextReturnsLands

LEMMA EndOfTextLands == ASSUME Shell, EndOfText PROVE Lands(vocab)
<1>1. at = "run" /\ Top.k = "text" /\ TextReturns(ctx, ctx.last)
  BY DEF EndOfText
<1>2. ctx.last \in Status /\ ctx.last \in Results(vocab)
  BY <1>1, ShellRead, Results0
<1> QED
  BY <1>1, <1>2, ShellRead, TextReturnsLands

LEMMA ParseErrorLands == ASSUME Shell, ParseError PROVE Lands(vocab)
<1> DEFINE b == ctx.parseError \/ Top.for # "dot"
           c == [ctx EXCEPT !.last = 2, !.parseError = b]
<1>1. at = "run" /\ Top.k = "text" /\ TextReturns(c, 2)
  BY DEF ParseError
<1>2. 2 \in Status /\ b \in BOOLEAN /\ 2 \in Results(vocab)
  BY Results0 DEF Status
<1> HIDE DEF b
<1>3. c \in Ctx(vocab) /\ Alike(ctx, c)
  BY <1>1, <1>2, ShellRead DEF Ctx, Alike
<1> HIDE DEF c
<1> QED
  BY <1>1, <1>2, <1>3, ShellRead, GoodAlike, TextReturnsLands

-----------------------------------------------------------------------------
(* The loop that `break n` names.                                          *)

Ranked(L, m) == \E i \in L : Cardinality({j \in L : j <= i}) = m

(* Every number up to its size is the rank of an element of a set.         *)
LEMMA RankExists ==
  ASSUME NEW n \in Nat, NEW L \in SUBSET (1 .. n), NEW m \in 1 .. Cardinality(L)
  PROVE  Ranked(L, m)
<1> DEFINE U(i) == {j \in L : j <= i}
           B == {i \in 0 .. n : Cardinality(U(i)) >= m}
           k == CHOOSE i \in B : \A j \in B : i <= j
<1>0. IsFiniteSet(L) /\ Cardinality(L) \in Nat /\ m \in Nat /\ m >= 1
  <2>1. IsFiniteSet(1 .. n)
    BY FS_Interval
  <2>2. IsFiniteSet(L)
    BY <2>1, FS_Subset
  <2> QED
    BY <2>2, FS_CardinalityType
<1>a. \A j \in L : j \in Nat /\ 1 <= j /\ j <= n
  OBVIOUS
<1>1. ASSUME NEW i \in 0 .. n PROVE IsFiniteSet(U(i)) /\ Cardinality(U(i)) \in Nat
  <2>1. U(i) \in SUBSET L
    OBVIOUS
  <2> HIDE DEF U
  <2> QED
    BY <1>0, <2>1, FS_Subset, FS_CardinalityType
<1>2. n \in B
  <2>1. U(n) = L
    BY <1>a
  <2> HIDE DEF U
  <2> QED
    BY <1>0, <2>1
<1>3. U(0) = {} /\ Cardinality(U(0)) = 0
  <2>1. \A j \in L : ~(j <= 0)
    BY <1>a
  <2>2. U(0) = {}
    BY <2>1
  <2> HIDE DEF U
  <2> QED
    BY <2>2, FS_EmptySet
<1>4. B \in SUBSET Nat
  OBVIOUS
<1> HIDE DEF U
<1>5. k \in B /\ \A j \in B : k <= j
  <2> HIDE DEF B
  <2> QED
    BY <1>2, <1>4, LeastIn
<1> HIDE DEF k
<1>6. k \in 1 .. n /\ Cardinality(U(k)) >= m
  BY <1>0, <1>3, <1>5
<1>7. k - 1 \in 0 .. n /\ k - 1 < k /\ k \in 0 .. n
  BY <1>6
<1>8. ~(Cardinality(U(k - 1)) >= m) /\ Cardinality(U(k - 1)) \in Nat /\ Cardinality(U(k)) \in Nat
  <2>1. k - 1 \notin B
    BY <1>5, <1>6, <1>7
  <2> QED
    BY <1>1, <1>7, <2>1
<1>9. CASE k \notin L
  <2>0. \A j \in L : j <= k <=> j <= k - 1
    BY <1>a, <1>6, <1>9
  <2>1. U(k) = U(k - 1)
    BY <2>0 DEF U
  <2> QED
    BY <1>6, <1>8, <2>1
<1>10. CASE k \in L
  <2>0. /\ \A j \in L : j <= k <=> (j <= k - 1 \/ j = k)
        /\ ~(k <= k - 1) /\ k <= k
    BY <1>a, <1>6, <1>10
  <2>1. U(k) = U(k - 1) \cup {k} /\ k \notin U(k - 1)
    BY <1>10, <2>0 DEF U
  <2>2. Cardinality(U(k)) = Cardinality(U(k - 1)) + 1
    BY <1>1, <1>7, <2>1, FS_AddElement
  <2>3. Cardinality(U(k)) = m
    BY <1>0, <1>6, <1>8, <2>2
  <2> QED
    BY <1>10, <2>3 DEF U, Ranked
<1> QED
  BY <1>9, <1>10

(* How many loops are around the one a `break` in the context c names.     *)
Outer(c) == IF c.level + 1 < c.loops THEN c.loops - (c.level + 1) ELSE 0

(* The loop at height g of the stack s is the one, and in sight.           *)
Aims(v, c, s, g) ==
  /\ g \in 1 .. Len(s) /\ c.loops > 0
  /\ \A j \in 1 .. Len(s) - g : ~Hides(s[j])
  /\ IsLoop(s[Len(s) - g + 1])
  /\ LoopsOf(v, Drop(s, Len(s) - g)) = Outer(c) + 1

LEMMA LoopsSeen ==
  ASSUME NEW v, NEW s, Stack(v, s)
  PROVE  /\ LoopsIn(s) = Seen(s, {f \in Frame(v) : IsLoop(f)}, {f \in Frame(v) : Hides(f)})
         /\ LoopsOf(v, s) = Cardinality(LoopsIn(s))
<1>1. \A i \in 1 .. Len(s) : s[i] \in Frame(v)
  BY StackRead
<1>2. Len(s) \in Nat
  BY StackRead
<1>3. LoopsIn(s) = Seen(s, {f \in Frame(v) : IsLoop(f)}, {f \in Frame(v) : Hides(f)})
  BY <1>1, <1>2 DEF LoopsIn, Seen
<1> QED
  BY <1>3 DEF LoopsOf, Counted

(* break n aims at the n-th loop around it, or the outermost.              *)
LEMMA GoalAims ==
  ASSUME NEW v, NEW c, NEW s, Good(v, c, s), NEW d, d.loops = c.loops, c.loops > 0,
         NEW n \in Nat \ {0}, d.level = BreakLevel(n), s = stack
  PROVE  Aims(v, d, s, Goal(n))
<1> DEFINE ls == LoopsIn(stack)
           m == IF n < Cardinality(ls) THEN n ELSE Cardinality(ls)
           i == CHOOSE x \in ls : Cardinality({j \in ls : j <= x}) = m
           g == Len(stack) - i + 1
           M == {f \in Frame(v) : IsLoop(f)}
           S == {f \in Frame(v) : Hides(f)}
           W == {j \in 1 .. i - 1 : s[j] \in M}
<1>1. /\ Stack(v, s) /\ s \in Seq(Frame(v)) /\ Len(s) \in Nat
      /\ \A j \in 1 .. Len(s) : s[j] \in Frame(v)
  BY StackRead DEF Good
<1>2. ls = Seen(s, M, S) /\ Cardinality(ls) = LoopsOf(v, s) /\ c.loops = LoopsOf(v, s)
  BY <1>1, LoopsSeen DEF Good, Matches
<1>3. ls \in SUBSET (1 .. Len(s)) /\ IsFiniteSet(ls) /\ Cardinality(ls) \in Nat /\ Cardinality(ls) > 0
  BY <1>1, <1>2, CountedType DEF Counted
<1>4. m \in 1 .. Cardinality(ls)
  BY <1>3
<1>5. i \in ls /\ Cardinality({j \in ls : j <= i}) = m
  <2> HIDE DEF m, ls
  <2>1. \E x \in ls : Cardinality({j \in ls : j <= x}) = m
    <3>1. Len(s) \in Nat /\ ls \in SUBSET (1 .. Len(s)) /\ m \in 1 .. Cardinality(ls)
      BY <1>1, <1>3, <1>4
    <3>2. Ranked(ls, m)
      BY <3>1, RankExists
    <3> QED
      BY <3>2 DEF Ranked
  <2> QED
    BY <2>1
<1>6. ls # {}
  BY <1>5
<1>7. Goal(n) = g
  BY <1>6 DEF Goal
<1> HIDE DEF i
<1>8. /\ i \in 1 .. Len(s) /\ s[i] \in M /\ \A j \in 1 .. i : s[j] \notin S
      /\ i - 1 \in 0 .. Len(s) /\ i - 1 \in Nat
  BY <1>1, <1>2, <1>5 DEF Seen
<1>9. LoopsOf(v, s) = Cardinality(W) + LoopsOf(v, Drop(s, i - 1)) /\ Cardinality(W) \in Nat
  <2>1. \A j \in 1 .. i - 1 : s[j] \notin S
    BY <1>8
  <2> HIDE DEF M, S
  <2>2. /\ Counted(s, M, S) =
             Cardinality({j \in 1 .. i - 1 : s[j] \in M}) + Counted(Drop(s, i - 1), M, S)
        /\ Cardinality({j \in 1 .. i - 1 : s[j] \in M}) \in Nat
    BY <1>1, <1>8, <2>1, CountSplit
  <2> QED
    BY <2>2 DEF LoopsOf, M, S
<1>10. Cardinality({j \in ls : j <= i}) = Cardinality(W) + 1
  <2>1. {j \in ls : j <= i} = W \cup {i} /\ i \notin W
    <3> HIDE DEF M, S
    <3> QED
      BY <1>2, <1>8 DEF Seen
  <2>2. IsFiniteSet(W)
    <3>1. W \in SUBSET (1 .. i - 1)
      OBVIOUS
    <3>2. IsFiniteSet(1 .. i - 1)
      BY <1>8, FS_Interval
    <3> HIDE DEF W
    <3> QED
      BY <3>1, <3>2, FS_Subset
  <2> HIDE DEF W
  <2> QED
    BY <2>1, <2>2, FS_AddElement
<1> HIDE DEF W
<1>11. LoopsOf(v, Drop(s, i - 1)) = c.loops - m + 1
  <2>1. Cardinality(W) + 1 = m
    BY <1>5, <1>10
  <2>2. LoopsOf(v, Drop(s, i - 1)) \in Nat
    <3>1. Drop(s, i - 1) \in Seq(Frame(v))
      BY <1>1, <1>8, DropType
    <3> QED
      BY <3>1, CountedType DEF LoopsOf
  <2> HIDE DEF m
  <2> QED
    BY <1>2, <1>4, <1>9, <2>1, <2>2
<1>12. c.loops - m = Outer(d)
  <2>1. d.level + 1 = n
    BY DEF BreakLevel
  <2> QED
    BY <1>2, <1>3, <2>1 DEF Outer
<1>13. Len(s) - g = i - 1 /\ Len(s) - g + 1 = i /\ g \in 1 .. Len(s)
  BY <1>1, <1>8
<1> HIDE DEF g, m, ls
<1>14. IsLoop(s[i]) /\ \A j \in 1 .. i - 1 : ~Hides(s[j])
  BY <1>1, <1>8
<1> QED
  BY <1>7, <1>11, <1>12, <1>13, <1>14 DEF Aims

LEMMA BreakGoal ==
  ASSUME Shell, NEW kind, NEW flow, Break(kind, flow), ctx.loops # 0
  PROVE  /\ Good(vocab, ctx, stack) /\ at' = "ret" /\ rc' = flow /\ stack' = stack
         /\ UNCHANGED <<vocab, signals, ignored>>
         /\ ctx'.loops = ctx.loops
         /\ Aims(vocab, ctx', stack, goal') /\ goal' \in Nat
<1>1. at = "run"
  BY DEF Break, Has
<1>2. PICK n \in 1 .. MaxLevel : /\ ctx' = [ctx EXCEPT !.level = BreakLevel(n)]
                                 /\ goal' = Goal(n)
  BY DEF Break
<1>3. at' = "ret" /\ rc' = flow /\ stack' = stack /\ UNCHANGED <<vocab, signals, ignored>>
  BY DEF Break
<1>4. /\ Good(vocab, ctx, stack) /\ ctx \in Ctx(vocab) /\ ctx.loops > 0 /\ n \in Nat \ {0}
      /\ Len(stack) \in Nat
  BY <1>1, ShellRead, StackRead, ControlFlowAssumption
<1>5. ctx'.loops = ctx.loops /\ ctx'.level = BreakLevel(n)
  BY <1>2, <1>4 DEF Ctx
<1>6. Aims(vocab, ctx', stack, Goal(n))
  BY <1>4, <1>5, GoalAims
<1> QED
  BY <1>2, <1>3, <1>4, <1>5, <1>6 DEF Aims

LEMMA GoalAfterType ==
  ASSUME Shell, at # "over", Top.k = "text"
  PROVE  GoalAfter \in Nat
<1>1. Top.for = "signal" => Top.goal \in Nat
  BY ShellRead, FrameRead
<1> QED
  BY <1>1 DEF GoalAfter, Shell

(* Every action but Break and the end of a text leaves the ghost alone.    *)
LEMMA EnterLands ==
  ASSUME Shell, Enter
  PROVE  /\ Lands(vocab) /\ at # "over" /\ UNCHANGED <<vocab, signals>>
         /\ goal' \in Nat
<1> USE DEF Has, Pushes, Static, Completes
<1>0. goal \in Nat
  BY DEF Shell
<1>1. CASE Command
  BY <1>0, <1>1, CommandLands DEF Command
<1>2. CASE SetErrexit
  BY <1>0, <1>2, SetErrexitLands DEF SetErrexit
<1>3. CASE Trap
  BY <1>0, <1>3, TrapLands DEF Trap
<1>4. CASE Return
  BY <1>0, <1>4, ReturnLands DEF Return
<1>5. CASE Exit
  BY <1>0, <1>5, ExitLands DEF Exit
<1>6. CASE Fatal
  BY <1>0, <1>6, FatalLands DEF Fatal
<1>7. CASE DotMissing
  BY <1>0, <1>7, DotMissingLands DEF DotMissing
<1>8. ASSUME NEW kind \in Jumps, NEW flow \in {BREAK, CONTINUE}, Break(kind, flow)
      PROVE  Lands(vocab) /\ at # "over" /\ UNCHANGED <<vocab, signals>> /\ goal' \in Nat
  <2>1. Lands(vocab) /\ at # "over"
    BY <1>8, BreakLands DEF Break
  <2>2. CASE ctx.loops = 0
    BY <1>0, <1>8, <2>1, <2>2 DEF Break
  <2>3. CASE ctx.loops # 0
    BY <1>8, <2>1, <2>3, BreakGoal
  <2> QED
    BY <2>2, <2>3
<1>9. CASE Break("break", BREAK) \/ Break("continue", CONTINUE)
  BY <1>8, <1>9 DEF Jumps
<1>10. CASE \E kind \in {"and", "or", "not", "if"} : Testing(kind)
  BY <1>0, <1>10, TestingLands DEF Testing, Tests
<1>11. CASE \E kind \in {"while", "until", "for"} : Loop(kind)
  BY <1>0, <1>11, LoopLands DEF Loop, LoopKinds
<1>12. CASE Sequence
  BY <1>0, <1>12, SequenceLands DEF Sequence
<1>13. CASE Subshell
  BY <1>0, <1>13, SubshellLands DEF Subshell
<1>14. CASE Pipeline
  BY <1>0, <1>14, PipelineLands DEF Pipeline
<1>15. CASE Substitution
  BY <1>0, <1>15, SubstitutionLands DEF Substitution
<1>16. CASE CallFunction
  BY <1>0, <1>16, CallFunctionLands DEF CallFunction
<1>17. CASE CommandPrefix
  BY <1>0, <1>17, CommandPrefixLands DEF CommandPrefix
<1>18. CASE Eval
  BY <1>0, <1>18, EvalLands DEF Eval
<1>19. CASE Dot
  BY <1>0, <1>19, DotLands DEF Dot
<1> QED
  BY <1>1, <1>2, <1>3, <1>4, <1>5, <1>6, <1>7, <1>9, <1>10, <1>11, <1>12, <1>13, <1>14,
     <1>15, <1>16, <1>17, <1>18, <1>19 DEF Enter

LEMMA AfterLands ==
  ASSUME Shell, After
  PROVE  /\ Lands(vocab) /\ at # "over" /\ UNCHANGED <<vocab, signals>>
         /\ goal' \in Nat
<1> USE DEF Returned, Static, Passes
<1>0. goal \in Nat
  BY DEF Shell
<1>1. CASE AfterAndOr
  BY <1>0, <1>1, AfterAndOrLands DEF AfterAndOr
<1>2. CASE AfterNot
  BY <1>0, <1>2, AfterNotLands DEF AfterNot
<1>3. CASE AfterLeft
  BY <1>0, <1>3, AfterLeftLands DEF AfterLeft
<1>4. CASE AfterIf
  BY <1>0, <1>4, AfterIfLands DEF AfterIf
<1>5. CASE AfterCondition
  BY <1>0, <1>5, AfterConditionLands DEF AfterCondition
<1>6. CASE AfterBody
  BY <1>0, <1>6, AfterBodyLands DEF AfterBody
<1>7. CASE NextWord
  BY <1>0, <1>7, NextWordLands DEF NextWord
<1>8. CASE AfterSubshell
  BY <1>0, <1>8, AfterSubshellLands DEF AfterSubshell
<1>9. CASE AfterStage
  BY <1>0, <1>9, AfterStageLands DEF AfterStage
<1>10. CASE AfterLast
  BY <1>0, <1>10, AfterLastLands DEF AfterLast
<1>11. CASE AfterCall
  BY <1>0, <1>11, AfterCallLands DEF AfterCall
<1>12. CASE AfterCommandPrefix
  BY <1>0, <1>12, AfterCommandPrefixLands DEF AfterCommandPrefix
<1>13. CASE AfterUnit
  BY <1>13, AfterUnitLands, GoalAfterType DEF AfterUnit
<1>14. CASE EndOfText
  BY <1>14, EndOfTextLands, GoalAfterType DEF EndOfText
<1>15. CASE ParseError
  BY <1>15, ParseErrorLands, GoalAfterType DEF ParseError
<1> QED
  BY <1>1, <1>2, <1>3, <1>4, <1>5, <1>6, <1>7, <1>8, <1>9, <1>10, <1>11, <1>12, <1>13, <1>14,
     <1>15 DEF After

LEMMA NextLands ==
  ASSUME Shell, Next, at # "over"
  PROVE  /\ Lands(vocab) /\ vocab' = vocab /\ signals' \in Nat /\ goal' \in Nat
<1>1. signals \in Nat /\ goal \in Nat
  BY DEF Shell
<1>2. CASE Enter
  BY <1>1, <1>2, EnterLands
<1>3. CASE After
  BY <1>1, <1>3, AfterLands
<1>4. CASE Signal
  BY <1>1, <1>4, SignalLands DEF Signal
<1> QED
  BY <1>2, <1>3, <1>4 DEF Next, Ended

LEMMA InitShell == Init => Shell
<1> SUFFICES ASSUME Init PROVE Shell
  OBVIOUS
<1> DEFINE f == [k |-> "text", for |-> "script", command |-> FALSE]
<1>1. /\ vocab \in Vocabularies /\ ctx = Start /\ stack = <<f>>
      /\ at = "run" /\ rc = 0 /\ signals = 0 /\ ignored = FALSE /\ goal = 0
  BY DEF Init
<1>2. f \in Frame(vocab) /\ f.k = "text" /\ f.for = "script"
  BY MakeText
<1> HIDE DEF f
<1>3. stack \in Seq(Frame(vocab)) /\ Len(stack) = 1 /\ stack[1] = f /\ stack # <<>>
  BY <1>1, <1>2
<1>4. Plain(f) /\ IsScript(f) /\ ~IsLoop(f) /\ ~Hides(f) /\ ~IsTest(f) /\ f.k \notin Boundary
      /\ f.k # "call" /\ f.k # "subst" /\ ~IsAction(f)
  BY <1>2 DEF Plain, IsScript, IsAction, IsLoop, Hides, IsTest, Boundary, Tests
<1>5. Start \in Ctx(vocab) /\ Alike(Start, Start)
  BY StartType DEF Alike
<1>6. Stack(vocab, stack)
  <2>1. \A i \in 1 .. Len(stack) : Saved(vocab, stack[i], Drop(stack, i))
    BY <1>3, <1>4, <1>5, PlainRises
  <2> QED
    BY <1>3, <1>4, <2>1 DEF Stack
<1>7. Matches(vocab, Start, stack)
  <2> DEFINE e == <<>>
  <2>1. e \in Seq(Frame(vocab)) /\ stack = <<f>> \o e
    BY <1>1, <1>2, ConcatEmptySeq
  <2>2. Len(e) = 0
    OBVIOUS
  <2> HIDE DEF e
  <2>3. ASSUME NEW M, NEW S PROVE Counted(e, M, S) = 0
    <3>1. Seen(e, M, S) = {}
      BY <2>2 DEF Seen
    <3> QED
      BY <3>1, FS_EmptySet DEF Counted
  <2>4. LoopsOf(vocab, e) = 0 /\ CallsOf(vocab, e) = 0 /\ ActionsOf(vocab, e) = 0 /\ TestedIn(vocab, e) = FALSE
    BY <2>3 DEF LoopsOf, CallsOf, ActionsOf, TestedIn
  <2>5. /\ LoopsOf(vocab, stack) = 0 /\ CallsOf(vocab, stack) = 0 /\ ActionsOf(vocab, stack) = 0
        /\ TestedIn(vocab, stack) = FALSE
    <3>1. /\ LoopsOf(vocab, <<f>> \o e) = LoopsOf(vocab, e) + 0
          /\ CallsOf(vocab, <<f>> \o e) = CallsOf(vocab, e) + 0
          /\ ActionsOf(vocab, <<f>> \o e) = ActionsOf(vocab, e) + 0
          /\ TestedIn(vocab, <<f>> \o e) = (f.k # "subst" /\ (IsTest(f) \/ TestedIn(vocab, e)))
      BY <1>2, <1>4, <2>1, Counts
    <3>2. ~(f.k # "subst" /\ (IsTest(f) \/ TestedIn(vocab, e)))
      BY <1>4, <2>4
    <3>3. ~TestedIn(vocab, <<f>> \o e)
      BY <3>1, <3>2
    <3>4. TestedIn(vocab, <<f>> \o e) = FALSE
      BY <3>3 DEF TestedIn
    <3> QED
      BY <2>1, <2>4, <3>1, <3>4
  <2> QED
    BY <2>5 DEF Matches, Start
<1>8. rc \in Results(vocab)
  BY <1>1, Results0 DEF Status
<1> QED
  BY <1>1, <1>5, <1>6, <1>7, <1>8 DEF Shell, Good

LEMMA NextShell == Shell /\ [Next]_vars => Shell'
<1> SUFFICES ASSUME Shell, [Next]_vars PROVE Shell'
  OBVIOUS
<1>1. CASE UNCHANGED vars
  BY <1>1 DEF vars, Shell
<1>2. CASE Next /\ at = "over"
  <2>1. UNCHANGED vars
    BY <1>2, EnterLands, AfterLands DEF Next, Ended, Signal
  <2> QED
    BY <2>1 DEF vars, Shell
<1>3. CASE Next /\ at # "over"
  <2>1. Lands(vocab) /\ vocab' = vocab /\ signals' \in Nat /\ goal' \in Nat
    BY <1>3, NextLands
  <2> QED
    BY <2>1 DEF Lands, Shell
<1> QED
  BY <1>1, <1>2, <1>3

LEMMA SpecShell == Spec => []Shell
BY InitShell, NextShell, PTL DEF Spec

-----------------------------------------------------------------------------
(* The counters are those of the stack.                                    *)

(* The frames above the first of S, as the property cuts the stack.        *)
Cut(s, T) == IF T = {} THEN s
             ELSE SubSeq(s, 1, (CHOOSE i \in T : \A j \in T : i <= j) - 1)

Marks(s, S) == {i \in 1 .. Len(s) : s[i] \in S}

LEMMA CutCount ==
  ASSUME NEW F, NEW s \in Seq(F), NEW M, NEW S
  PROVE  Cut(s, Marks(s, S)) \in Seq(F) /\ Marks(Cut(s, Marks(s, S)), M) = Seen(s, M, S)
<1> DEFINE T == Marks(s, S)
<1> USE DEF Marks
<1>0. Len(s) \in Nat /\ \A i \in 1 .. Len(s) : s[i] \in F
  BY LenProperties, ElementOfSeq
<1>1. CASE T = {}
  <2>1. Cut(s, T) = s /\ \A i \in 1 .. Len(s) : s[i] \notin S
    BY <1>1 DEF Cut
  <2>2. Seen(s, M, S) = {i \in 1 .. Len(s) : s[i] \in M}
    BY <1>0, <2>1 DEF Seen
  <2> QED
    BY <2>1, <2>2
<1>2. CASE T # {}
  <2> DEFINE k == CHOOSE i \in T : \A j \in T : i <= j
             a == SubSeq(s, 1, k - 1)
  <2>1. T \in SUBSET Nat
    BY <1>0
  <2>2. k \in T /\ \A j \in T : k <= j
    BY <1>2, <2>1, LeastIn
  <2> HIDE DEF k
  <2>3. k \in 1 .. Len(s) /\ s[k] \in S /\ \A j \in 1 .. k - 1 : s[j] \notin S
    BY <1>0, <2>2
  <2>4. 1 \in Int /\ k - 1 \in Int /\ \A i \in 1 .. k - 1 : s[i] \in F
    BY <1>0, <2>3
  <2>5. /\ a \in Seq(F) /\ Len(a) = IF 1 <= k - 1 THEN k - 1 - 1 + 1 ELSE 0
        /\ \A i \in 1 .. k - 1 - 1 + 1 : a[i] = s[1 + i - 1]
    BY <2>4, SubSeqProperties
  <2> HIDE DEF a
  <2>6. Len(a) = k - 1 /\ \A i \in 1 .. k - 1 : a[i] = s[i]
    BY <2>3, <2>5
  <2>7. Cut(s, T) = a
    BY <1>2 DEF Cut, a, k
  <2>8. ASSUME NEW i \in Seen(s, M, S) PROVE i \in 1 .. k - 1 /\ s[i] \in M
    BY <1>0, <2>3 DEF Seen
  <2>9. ASSUME NEW i \in 1 .. k - 1, s[i] \in M PROVE i \in Seen(s, M, S)
    BY <1>0, <2>3, <2>9 DEF Seen
  <2> QED
    BY <2>5, <2>6, <2>7, <2>8, <2>9
<1> QED
  BY <1>1, <1>2

LEMMA NestingOfShell == Shell => ContextMatchesNesting
<1> SUFFICES ASSUME Shell, at # "over" PROVE ContextMatchesNesting
  BY DEF ContextMatchesNesting
<1> DEFINE v == vocab
           Fr == Frame(v)
           Tscope == {i \in 1 .. Len(stack) : stack[i].k \in Boundary \/ (stack[i].k = "call" /\ ~NonLexical)}
           Tfresh == {i \in 1 .. Len(stack) : stack[i].k = "subst"}
           Tfork == {i \in 1 .. Len(stack) : stack[i].k \in Boundary}
<1>1. /\ Good(v, ctx, stack) /\ stack \in Seq(Fr) /\ Len(stack) \in Nat
      /\ \A i \in 1 .. Len(stack) : stack[i] \in Fr
  BY ShellRead, StackRead
<1>2. /\ Tscope = {i \in 1 .. Len(stack) : stack[i] \in {f \in Fr : Hides(f)}}
      /\ Tfresh = {i \in 1 .. Len(stack) : stack[i] \in {f \in Fr : f.k = "subst"}}
      /\ Tfork = {i \in 1 .. Len(stack) : stack[i] \in {f \in Fr : f.k \in Boundary}}
  BY <1>1 DEF Hides
<1>3. ASSUME NEW T, NEW M, NEW S, M \in SUBSET Fr, T = {i \in 1 .. Len(stack) : stack[i] \in S}
      PROVE  /\ \A i \in 1 .. Len(Cut(stack, T)) : Cut(stack, T)[i] \in Fr
             /\ {i \in 1 .. Len(Cut(stack, T)) : Cut(stack, T)[i] \in M} = Seen(stack, M, S)
  <2>1. T = Marks(stack, S)
    BY <1>3 DEF Marks
  <2>2. Cut(stack, T) \in Seq(Fr) /\ Marks(Cut(stack, T), M) = Seen(stack, M, S)
    BY <1>1, <2>1, CutCount
  <2>3. \A i \in 1 .. Len(Cut(stack, T)) : Cut(stack, T)[i] \in Fr
    BY <2>2, ElementOfSeq
  <2> QED
    BY <2>2, <2>3 DEF Marks
<1> HIDE DEF Tscope, Tfresh, Tfork
<1>a. ctx.loops = Cardinality({i \in 1 .. Len(Cut(stack, Tscope)) : IsLoop(Cut(stack, Tscope)[i])})
  <2> DEFINE M == {f \in Fr : IsLoop(f)}
             S == {f \in Fr : Hides(f)}
             C == Cut(stack, Tscope)
  <2>1. M \in SUBSET Fr /\ Tscope = {i \in 1 .. Len(stack) : stack[i] \in S}
    BY <1>2
  <2>2. /\ \A i \in 1 .. Len(C) : C[i] \in Fr
        /\ {i \in 1 .. Len(C) : C[i] \in M} = Seen(stack, M, S)
    <3> HIDE DEF M, S
    <3> QED
      BY <1>3, <2>1
  <2>3. {i \in 1 .. Len(C) : C[i] \in M} = {i \in 1 .. Len(C) : IsLoop(C[i])}
    BY <2>2
  <2> QED
    BY <1>1, <2>2, <2>3 DEF Good, Matches, LoopsOf, Counted
<1>b. ctx.calls = Cardinality({i \in 1 .. Len(Cut(stack, Tfresh)) : Cut(stack, Tfresh)[i].k = "call"})
  <2> DEFINE M == {f \in Fr : f.k = "call"}
             S == {f \in Fr : f.k = "subst"}
             C == Cut(stack, Tfresh)
  <2>1. M \in SUBSET Fr /\ Tfresh = {i \in 1 .. Len(stack) : stack[i] \in S}
    BY <1>2
  <2>2. /\ \A i \in 1 .. Len(C) : C[i] \in Fr
        /\ {i \in 1 .. Len(C) : C[i] \in M} = Seen(stack, M, S)
    <3> HIDE DEF M, S
    <3> QED
      BY <1>3, <2>1
  <2>3. {i \in 1 .. Len(C) : C[i] \in M} = {i \in 1 .. Len(C) : C[i].k = "call"}
    BY <2>2
  <2> QED
    BY <1>1, <2>2, <2>3 DEF Good, Matches, CallsOf, Counted
<1>c. ctx.inTrap = Cardinality({i \in 1 .. Len(Cut(stack, Tfork)) : IsAction(Cut(stack, Tfork)[i])})
  <2> DEFINE M == {f \in Fr : IsAction(f)}
             S == {f \in Fr : f.k \in Boundary}
             C == Cut(stack, Tfork)
  <2>1. M \in SUBSET Fr /\ Tfork = {i \in 1 .. Len(stack) : stack[i] \in S}
    BY <1>2
  <2>2. /\ \A i \in 1 .. Len(C) : C[i] \in Fr
        /\ {i \in 1 .. Len(C) : C[i] \in M} = Seen(stack, M, S)
    <3> HIDE DEF M, S
    <3> QED
      BY <1>3, <2>1
  <2>3. {i \in 1 .. Len(C) : C[i] \in M} = {i \in 1 .. Len(C) : IsAction(C[i])}
    BY <2>2
  <2> QED
    BY <1>1, <2>2, <2>3 DEF Good, Matches, ActionsOf, Counted
<1>d. ctx.inCond = TestedBy(Cut(stack, Tfresh))
  <2> DEFINE M == {f \in Fr : IsTest(f)}
             S == {f \in Fr : f.k = "subst"}
             C == Cut(stack, Tfresh)
             Z == Seen(stack, M, S)
  <2>1. M \in SUBSET Fr /\ Tfresh = {i \in 1 .. Len(stack) : stack[i] \in S}
    BY <1>2
  <2>2. /\ \A i \in 1 .. Len(C) : C[i] \in Fr
        /\ {i \in 1 .. Len(C) : C[i] \in M} = Z
    <3> HIDE DEF M, S
    <3> QED
      BY <1>3, <2>1
  <2>3. TestedBy(C) <=> Z # {}
    <3>1. TestedBy(C) <=> \E i \in 1 .. Len(C) : IsTest(C[i])
      BY DEF TestedBy, IsTest, Tests
    <3> QED
      BY <2>2, <3>1
  <2>4. ctx.inCond = (Cardinality(Z) > 0)
    BY <1>1 DEF Good, Matches, TestedIn, Counted
  <2>5. IsFiniteSet(Z) /\ Cardinality(Z) \in Nat
    <3> HIDE DEF M, S
    <3> QED
      BY <1>1, CountedType DEF Counted
  <2>6. Cardinality(Z) = 0 <=> Z = {}
    <3> HIDE DEF Z
    <3> QED
      BY <2>5, FS_EmptySet
  <2> HIDE DEF Z
  <2>7. (Cardinality(Z) > 0) <=> Z # {}
    BY <2>5, <2>6
  <2>8. TestedBy(C) \in BOOLEAN /\ ctx.inCond \in BOOLEAN
    BY ShellRead DEF TestedBy
  <2>9. ctx.inCond <=> Cardinality(Z) > 0
    BY <2>4
  <2> QED
    BY <2>3, <2>7, <2>8, <2>9
<1>4. ctx.loops = Cardinality({i \in 1 .. Len(Cut(stack, Tscope)) : IsLoop(Cut(stack, Tscope)[i])})
      /\ ctx.calls = Cardinality({i \in 1 .. Len(Cut(stack, Tfresh)) : Cut(stack, Tfresh)[i].k = "call"})
      /\ ctx.inTrap = Cardinality({i \in 1 .. Len(Cut(stack, Tfork)) : IsAction(Cut(stack, Tfork)[i])})
      /\ ctx.inCond = TestedBy(Cut(stack, Tfresh))
   => ContextMatchesNesting
  BY DEF ContextMatchesNesting, Count, Above, Cut, IsAction, Tscope, Tfresh, Tfork
<1> QED
  BY <1>4, <1>a, <1>b, <1>c, <1>d

(* In every script the counters of the context say what exec_node is in    *)
(* the middle of: loop_depth the loops of this function and process,       *)
(* call_depth the calls, in_trap the trap actions, in_cond the conditions, *)
(* whatever was left by break, return, exit or a failure on the way, and   *)
(* whatever ran in a subshell, a substitution or a trap action.            *)
THEOREM NestingFollowed == Spec => []ContextMatchesNesting
BY SpecShell, NestingOfShell, PTL

-----------------------------------------------------------------------------
(* How a step changes the stack.                                           *)

Keeps == at' # "over" /\ stack' = stack
Grows == at' # "over" /\ \E t \in Seq(Frame(vocab)) : t # <<>> /\ stack' = t \o stack
Turns == /\ at' # "over" /\ IsLoop(Top)
         /\ \E g \in Frame(vocab) : IsLoop(g) /\ stack' = <<g>> \o Tail(stack)
Pops  == /\ at' # "over" /\ stack' = Tail(stack)
         /\ Top.k \notin Boundary /\ ~IsScript(Top)
Dies  == \E code \in Status : Gone(code)

(* What lets a process end although its EXIT trap is armed.                *)
Untimely == \/ Top.k = "stage"
            \/ Top.k = "text" /\ Top.for = "exit"
            \/ "set" \in vocab

Ends == Dies /\ (ctx.exitTrap = Armed => Untimely)

Moves == Keeps \/ Grows \/ Turns \/ Pops \/ Ends

LEMMA PushGrows ==
  ASSUME NEW f \in Frame(vocab), Push(f), at' # "over"
  PROVE  Grows
<1>1. <<f>> \in Seq(Frame(vocab)) /\ <<f>> # <<>> /\ stack' = <<f>> \o stack
  BY DEF Push
<1> QED
  BY <1>1 DEF Grows

LEMMA CompletesKeeps == ASSUME NEW c, NEW r, Completes(c, r) PROVE Keeps
BY DEF Completes, Result, Keeps

LEMMA ExitActionGrows ==
  ASSUME NEW c, c \in Ctx(vocab), c.exitTrap = Armed, NEW code \in Status, NEW keep \in BOOLEAN,
         ExitAction(c, code, keep)
  PROVE  Grows
<1> DEFINE f == [k |-> "text", for |-> "exit", command |-> c.command, code |-> code, keep |-> keep]
<1>1. f \in Frame(vocab)
  BY CtxRead, MakeExit
<1>2. Push(f) /\ at' # "over"
  BY DEF ExitAction, Runs
<1> HIDE DEF f
<1> QED
  BY <1>1, <1>2, PushGrows

LEMMA ExitMoves ==
  ASSUME NEW c \in Ctx(vocab), c.exitTrap = ctx.exitTrap, NEW code \in Status,
         ExitWithTrap(c, code) \/ EndsNormally(c, code)
  PROVE  Grows \/ Ends
<1>1. CASE c.exitTrap = Armed
  BY <1>1, ExitActionGrows DEF ExitWithTrap, EndsNormally
<1>2. CASE c.exitTrap # Armed
  BY <1>2 DEF ExitWithTrap, EndsNormally, Ends, Dies
<1> QED
  BY <1>1, <1>2

LEMMA MakesFrames ==
  ASSUME Shell, at = "run", NEW k
  PROVE  /\ k \in Tests /\ k \in vocab => [k |-> k, inCond |-> ctx.inCond] \in Frame(vocab)
         /\ k \in LoopKinds /\ k \in vocab =>
              [k |-> k, phase |-> IF k = "for" THEN "head" ELSE "cond",
               inCond |-> ctx.inCond, rc |-> 0, ign |-> FALSE] \in Frame(vocab)
         /\ "sub" \in vocab => [k |-> "sub", parent |-> ctx] \in Frame(vocab)
         /\ "pipe" \in vocab => [k |-> "stage", parent |-> ctx] \in Frame(vocab)
         /\ "subst" \in vocab => [k |-> "subst", parent |-> ctx] \in Frame(vocab)
         /\ [k |-> "text", for |-> "subst", command |-> FALSE] \in Frame(vocab)
         /\ "seq" \in vocab => [k |-> "seq"] \in Frame(vocab)
         /\ "command" \in vocab => [k |-> "command", command |-> ctx.command] \in Frame(vocab)
         /\ "call" \in vocab => [k |-> "call", loops |-> ctx.loops, level |-> ctx.level] \in Frame(vocab)
         /\ \A w \in {"eval", "dot"} : [k |-> "text", for |-> w, command |-> ctx.command] \in Frame(vocab)
<1>1. /\ ctx \in Ctx(vocab) /\ ctx.inCond \in BOOLEAN /\ ctx.command \in BOOLEAN
      /\ ctx.loops \in Int /\ ctx.level \in Nat
  BY ShellRead, CtxRead
<1>2. k \in Tests /\ k \in vocab => [k |-> k, inCond |-> ctx.inCond] \in Frame(vocab)
  BY <1>1, MakeTest
<1>3. ASSUME k \in LoopKinds /\ k \in vocab
      PROVE  [k |-> k, phase |-> IF k = "for" THEN "head" ELSE "cond",
               inCond |-> ctx.inCond, rc |-> 0, ign |-> FALSE] \in Frame(vocab)
  <2> DEFINE f == [k |-> k, phase |-> IF k = "for" THEN "head" ELSE "cond",
                   inCond |-> ctx.inCond, rc |-> 0, ign |-> FALSE]
  <2>1. f \in LoopFrame /\ f.k = k
    BY <1>1, <1>3 DEF LoopFrame, Status
  <2> HIDE DEF f
  <2>2. f \in Frame(vocab)
    BY <1>3, <2>1, MakeLoop
  <2> QED
    BY <2>2 DEF f
<1>4. "sub" \in vocab => [k |-> "sub", parent |-> ctx] \in Frame(vocab)
  BY <1>1, MakeFork DEF Boundary
<1>5. "pipe" \in vocab => [k |-> "stage", parent |-> ctx] \in Frame(vocab)
  BY <1>1, MakeFork DEF Boundary
<1>6. "subst" \in vocab => [k |-> "subst", parent |-> ctx] \in Frame(vocab)
  BY <1>1, MakeFork DEF Boundary
<1>7. [k |-> "text", for |-> "subst", command |-> FALSE] \in Frame(vocab)
  BY MakeText
<1>8. /\ "seq" \in vocab => [k |-> "seq"] \in Frame(vocab)
      /\ "command" \in vocab => [k |-> "command", command |-> ctx.command] \in Frame(vocab)
      /\ "call" \in vocab => [k |-> "call", loops |-> ctx.loops, level |-> ctx.level] \in Frame(vocab)
  BY <1>1, MakeOther
<1>9. \A w \in {"eval", "dot"} : [k |-> "text", for |-> w, command |-> ctx.command] \in Frame(vocab)
  BY <1>1, MakeText
<1> QED
  BY <1>2, <1>3, <1>4, <1>5, <1>6, <1>7, <1>8, <1>9

LEMMA EnterMoves ==
  ASSUME Shell, Enter
  PROVE  at = "run" /\ (Keeps \/ Grows \/ Ends)
<1> USE DEF Has, Pushes
<1>1. CASE Command \/ SetErrexit \/ Trap
  BY <1>1, CompletesKeeps DEF Command, SetErrexit, Trap
<1>2. CASE Return
  BY <1>2 DEF Return, Keeps
<1>3. CASE Exit
  <2>1. at = "run"
    BY <1>3 DEF Exit
  <2>2. PICK code \in Operands \cup {NakedExitCode} : ExitWithTrap(ctx, code)
    BY <1>3 DEF Exit
  <2>3. code \in Status
    <3>1. ctx.entry \in Status /\ ctx.last \in Status
      BY <2>1, ShellRead, CtxRead
    <3> QED
      BY <3>1, ControlFlowAssumption DEF NakedExitCode, Status
  <2> QED
    BY <2>1, <2>2, <2>3, ShellRead, ExitMoves
<1>4. CASE Fatal
  <2>1. at = "run"
    BY <1>4 DEF Fatal
  <2>2. PICK code \in {1, 2} : \/ Result(ctx, 1) /\ UNCHANGED stack
                               \/ ExitWithTrap(ctx, code)
    BY <1>4 DEF Fatal
  <2>3. code \in Status
    BY DEF Status
  <2> QED
    BY <2>1, <2>2, <2>3, ShellRead, ExitMoves DEF Keeps, Result
<1>5. CASE DotMissing
  <2> DEFINE d == [ctx EXCEPT !.last = 1]
  <2>1. at = "run" /\ ExitWithTrap(d, 1)
    BY <1>5 DEF DotMissing
  <2>2. 1 \in Status
    BY DEF Status
  <2>3. d \in Ctx(vocab) /\ d.exitTrap = ctx.exitTrap
    BY <2>1, <2>2, ShellRead DEF Ctx
  <2> HIDE DEF d
  <2> QED
    BY <2>1, <2>2, <2>3, ExitMoves
<1>6. ASSUME NEW kind, NEW flow, Break(kind, flow)
      PROVE  at = "run" /\ Keeps
  BY <1>6, CompletesKeeps DEF Break, Keeps
<1>7. CASE \E kind \in {"and", "or", "not", "if"} : Testing(kind)
  <2>1. PICK kind \in Tests : Testing(kind)
    BY <1>7 DEF Tests
  <2>2. at = "run" /\ kind \in vocab /\ Push([k |-> kind, inCond |-> ctx.inCond]) /\ at' # "over"
    BY <2>1 DEF Testing, Runs
  <2> QED
    BY <2>2, MakesFrames, PushGrows
<1>8. CASE \E kind \in {"while", "until", "for"} : Loop(kind)
  <2>1. PICK kind \in LoopKinds : Loop(kind)
    BY <1>8 DEF LoopKinds
  <2>2. /\ at = "run" /\ kind \in vocab /\ at' # "over"
        /\ Push([k |-> kind, phase |-> IF kind = "for" THEN "head" ELSE "cond",
                 inCond |-> ctx.inCond, rc |-> 0, ign |-> FALSE])
    BY <2>1 DEF Loop, Runs
  <2> QED
    BY <2>2, MakesFrames, PushGrows
<1>9. CASE Sequence
  <2>1. at = "run" /\ "seq" \in vocab /\ Push([k |-> "seq"]) /\ at' # "over"
    BY <1>9 DEF Sequence, Runs
  <2> QED
    BY <2>1, MakesFrames, PushGrows
<1>10. CASE Subshell
  <2>1. at = "run" /\ "sub" \in vocab /\ Push([k |-> "sub", parent |-> ctx]) /\ at' # "over"
    BY <1>10 DEF Subshell, Runs
  <2> QED
    BY <2>1, MakesFrames, PushGrows
<1>11. CASE Pipeline
  <2>1. at = "run" /\ "pipe" \in vocab /\ Push([k |-> "stage", parent |-> ctx]) /\ at' # "over"
    BY <1>11 DEF Pipeline, Runs
  <2> QED
    BY <2>1, MakesFrames, PushGrows
<1>12. CASE Substitution
  <2> DEFINE g == [k |-> "text", for |-> "subst", command |-> FALSE]
             f == [k |-> "subst", parent |-> ctx]
  <2>1. at = "run" /\ "subst" \in vocab /\ stack' = <<g, f>> \o stack /\ at' # "over"
    BY <1>12 DEF Substitution, Runs
  <2>2. f \in Frame(vocab) /\ g \in Frame(vocab)
    BY <2>1, MakesFrames
  <2> HIDE DEF f, g
  <2>3. <<g, f>> \in Seq(Frame(vocab)) /\ <<g, f>> # <<>>
    BY <2>2
  <2> QED
    BY <2>1, <2>3 DEF Grows
<1>13. CASE CallFunction
  <2>1. CASE ctx.calls >= MaxCallDepth
    BY <1>13, <2>1, CompletesKeeps DEF CallFunction
  <2>2. CASE ~(ctx.calls >= MaxCallDepth)
    <3>1. /\ at = "run" /\ "call" \in vocab /\ at' # "over"
          /\ Push([k |-> "call", loops |-> ctx.loops, level |-> ctx.level])
      BY <1>13, <2>2 DEF CallFunction, Runs
    <3> QED
      BY <3>1, MakesFrames, PushGrows
  <2> QED
    BY <2>1, <2>2
<1>14. CASE CommandPrefix
  <2>1. at = "run" /\ "command" \in vocab /\ Push([k |-> "command", command |-> ctx.command]) /\ at' # "over"
    BY <1>14 DEF CommandPrefix, Runs
  <2> QED
    BY <2>1, MakesFrames, PushGrows
<1>15. CASE Eval
  <2>1. at = "run" /\ Push([k |-> "text", for |-> "eval", command |-> ctx.command]) /\ at' # "over"
    BY <1>15 DEF Eval, Runs
  <2> QED
    BY <2>1, MakesFrames, PushGrows
<1>16. CASE Dot
  <2>1. at = "run" /\ Push([k |-> "text", for |-> "dot", command |-> ctx.command]) /\ at' # "over"
    BY <1>16 DEF Dot, Runs
  <2> QED
    BY <2>1, MakesFrames, PushGrows
<1> QED
  BY <1>1, <1>2, <1>3, <1>4, <1>5, <1>6, <1>7, <1>8, <1>9, <1>10, <1>11, <1>12, <1>13,
     <1>14, <1>15, <1>16 DEF Enter

LEMMA TextMoves ==
  ASSUME Shell, at # "over", Top.k = "text", NEW c0 \in Ctx(vocab), c0.exitTrap = ctx.exitTrap,
         NEW r \in Results(vocab), Top.for = "script" => r \in Status, TextReturns(c0, r)
  PROVE  Pops \/ Grows \/ Ends
<1> DEFINE c == [c0 EXCEPT !.command = Top.command]
           e == [c EXCEPT !.parseError = FALSE]
           out == [c EXCEPT !.inTrap = @ - 1]
<1>1. /\ Top.command \in BOOLEAN
      /\ Top.for \in {"script", "subst", "eval", "dot", "exit", "signal"}
      /\ Top.for = "exit" => Top.code \in Status
      /\ Top.for = "signal" => Top.at \in {"run", "ret"}
  BY ShellRead, FrameRead
<1>2. /\ c \in Ctx(vocab) /\ c.exitTrap = ctx.exitTrap /\ c.inTrap \in Int
  BY <1>1 DEF Ctx
<1>3. (CASE Top.for = "script" -> EndsNormally(c, r)
        [] Top.for = "subst"  -> EndsNormally(c, c.last)
        [] Top.for = "eval"   -> EvalReturns(c, r)
        [] Top.for = "dot"    -> Builtin(c, IF r \in {BREAK, CONTINUE} THEN 0 ELSE r)
        [] Top.for = "signal" -> ActionReturns(out, r)
        [] Top.for = "exit"   -> Gone(IF Top.keep THEN Top.code ELSE Byte(r)))
  BY DEF TextReturns
<1>4. /\ Top.for = "script" => r \in Status /\ EndsNormally(c, r)
      /\ Top.for = "subst" => EndsNormally(c, c.last)
      /\ Top.for = "eval" => EvalReturns(c, r)
      /\ Top.for = "dot" => Builtin(c, IF r \in {BREAK, CONTINUE} THEN 0 ELSE r)
      /\ Top.for = "signal" => ActionReturns(out, r)
      /\ Top.for = "exit" => Gone(IF Top.keep THEN Top.code ELSE Byte(r))
  <2> HIDE DEF c, out
  <2> QED
    BY <1>3
<1>5. e \in Ctx(vocab) /\ e.exitTrap = ctx.exitTrap /\ out \in Ctx(vocab)
  <2> DEFINE b == FALSE
  <2>1. b \in BOOLEAN
    OBVIOUS
  <2>2. e = [c EXCEPT !.parseError = b]
    OBVIOUS
  <2> HIDE DEF c, e, b
  <2>3. e \in Ctx(vocab) /\ e.exitTrap = ctx.exitTrap
    BY <1>2, <2>1, <2>2 DEF Ctx
  <2> QED
    BY <1>2, <2>3 DEF Ctx
<1>6. Top.k \notin Boundary
  BY DEF Boundary
<1>7. CASE Top.for \in {"script", "subst"}
  <2> HIDE DEF c
  <2>1. c.last \in Status
    BY <1>2, CtxRead
  <2> QED
    BY <1>2, <1>4, <1>7, <2>1, ExitMoves
<1>8. CASE Top.for = "eval"
  <2>1. ExitWithTrap(e, 2) \/ Builtin(e, r)
    BY <1>4, <1>8 DEF EvalReturns
  <2>2. 2 \in Status
    BY DEF Status
  <2> HIDE DEF e
  <2>3. CASE ExitWithTrap(e, 2)
    BY <1>5, <2>2, <2>3, ExitMoves
  <2>4. CASE Builtin(e, r)
    BY <1>6, <1>8, <2>4 DEF Builtin, Pops, Pop, Result, IsScript
  <2> QED
    BY <2>1, <2>3, <2>4
<1>9. CASE Top.for = "dot"
  BY <1>4, <1>6, <1>9 DEF Builtin, Pops, Pop, Result, IsScript
<1>10. CASE Top.for = "exit"
  <2>1. (IF Top.keep THEN Top.code ELSE Byte(r)) \in Status
    BY <1>1, <1>10, Results0
  <2> QED
    BY <1>4, <1>10, <2>1 DEF Ends, Dies, Untimely
<1>11. CASE Top.for = "signal"
  <2> HIDE DEF out, c
  <2>1. CASE out.fired
    <3>1. "set" \in vocab
      BY <1>5, <2>1, CtxRead
    <3>2. (IF r % 256 = 0 THEN 1 ELSE r % 256) \in Status
      BY Results0
    <3> QED
      BY <1>4, <1>11, <2>1, <3>1, <3>2 DEF ActionReturns, Ends, Dies, Untimely
  <2>2. CASE ~out.fired
    BY <1>1, <1>4, <1>6, <1>11, <2>2 DEF ActionReturns, Pops, Pop, IsScript
  <2> QED
    BY <2>1, <2>2
<1> QED
  BY <1>1, <1>7, <1>8, <1>9, <1>10, <1>11

LEMMA UnitMoves ==
  ASSUME Shell, at = "ret", Top.k = "text", NEW r \in Status, UnitReturns(r)
  PROVE  Keeps \/ Pops \/ Grows \/ Ends
<1> DEFINE c == [Looked(ctx) EXCEPT !.last = r]
           d == [c EXCEPT !.fired = TRUE]
<1>1. \/ Stops(ctx, r) /\ TextReturns(d, r)
      \/ Runs(c) /\ UNCHANGED <<stack, ignored>>
  BY DEF UnitReturns
<1>2. CASE Runs(c) /\ UNCHANGED <<stack, ignored>>
  BY <1>2 DEF Runs, Keeps
<1>3. CASE Stops(ctx, r) /\ TextReturns(d, r)
  <2>1. c \in Ctx(vocab) /\ c.exitTrap = ctx.exitTrap
    BY ShellRead DEF Ctx, Looked
  <2> HIDE DEF c
  <2>2. TRUE \in Options(vocab)
    BY <1>3, ShellRead, CtxRead DEF Stops, Options
  <2>3. d \in Ctx(vocab) /\ d.exitTrap = ctx.exitTrap
    BY <2>1, <2>2 DEF Ctx
  <2> HIDE DEF d
  <2> QED
    BY <1>3, <2>3, TextMoves, Results0
<1> QED
  BY <1>1, <1>2, <1>3

LEMMA LeavePops ==
  ASSUME Shell, at # "over", IsLoop(Top), NEW c, NEW r, NEW i \in BOOLEAN, LeaveWith(c, r, i)
  PROVE  Pops
BY LoopRead DEF LeaveWith, Pop, Result, Pops

LEMMA SwapTurns ==
  ASSUME Shell, at # "over", IsLoop(Top), NEW g \in LoopFrame, g.k = Top.k, Swap(g), at' # "over"
  PROVE  Turns
<1>1. g \in Frame(vocab) /\ IsLoop(g)
  BY LoopRead, MakeLoop DEF IsLoop
<1> QED
  BY <1>1 DEF Turns, Swap

LEMMA TurnTurns ==
  ASSUME Shell, at # "over", IsLoop(Top), NEW c, Around(c), NEW r \in Status, NEW i \in BOOLEAN,
         Turn(c, r, i)
  PROVE  Turns
<1> DEFINE p == IF Top.k = "for" THEN "head" ELSE "cond"
           g == [Top EXCEPT !.phase = p, !.rc = r, !.ign = i, !.inCond = c.inCond]
<1>1. Swap(g) /\ at' # "over"
  BY DEF Turn, Runs
<1>2. p \in {"head", "cond", "body"} /\ Top \in LoopFrame /\ c.inCond \in BOOLEAN
  BY LoopRead DEF Around
<1> HIDE DEF p
<1>3. g \in LoopFrame /\ g.k = Top.k
  BY <1>2 DEF LoopFrame
<1> HIDE DEF g
<1> QED
  BY <1>1, <1>3, SwapTurns

LEMMA LoopFlowMoves ==
  ASSUME Shell, at # "over", IsLoop(Top), NEW c, Around(c), NEW r \in Status, LoopFlow(c, r)
  PROVE  Pops \/ Turns
<1> DEFINE d == [c EXCEPT !.level = @ - 1]
           e == [c EXCEPT !.level = 0]
<1>1. \/ LeaveWith(c, rc, FALSE) \/ LeaveWith(d, rc, FALSE)
      \/ LeaveWith(e, 0, FALSE) \/ Turn(e, r, FALSE)
  BY DEF LoopFlow, Leave
<1>2. Around(e)
  BY DEF Around, Ctx
<1> HIDE DEF d, e
<1>3. ASSUME NEW x, NEW y, LeaveWith(x, y, FALSE) PROVE Pops
  BY <1>3, LeavePops
<1>4. ASSUME Turn(e, r, FALSE) PROVE Turns
  BY <1>2, <1>4, TurnTurns
<1> QED
  BY <1>1, <1>3, <1>4

LEMMA AfterMoves ==
  ASSUME Shell, After
  PROVE  at # "over" /\ (Keeps \/ Turns \/ Pops \/ Grows \/ Ends)
<1> USE DEF Returned
<1>1. ASSUME at = "ret", Top.k \in {"and", "or", "not", "seq", "if", "last", "call", "command"}, Pop, at' # "over"
      PROVE  at # "over" /\ Pops
  BY <1>1 DEF Pops, Pop, Boundary, IsScript
<1>2. CASE AfterAndOr
  BY <1>1, <1>2 DEF AfterAndOr, Passes, Result, Runs
<1>3. CASE AfterNot
  BY <1>1, <1>3 DEF AfterNot, Passes, Result
<1>4. CASE AfterLeft
  BY <1>1, <1>4 DEF AfterLeft, Result, Runs
<1>5. CASE AfterIf
  BY <1>1, <1>5 DEF AfterIf, Result, Runs
<1>6. CASE AfterCondition
  <2> DEFINE c == [ctx EXCEPT !.inCond = Top.inCond]
             g == [Top EXCEPT !.phase = "body"]
  <2>1. at = "ret" /\ IsLoop(Top)
    BY <1>6 DEF AfterCondition, IsLoop
  <2>2. \/ LoopFlow(c, Top.rc)
        \/ Swap(g) /\ Runs(c)
        \/ LeaveWith(c, Top.rc, Top.ign)
    BY <1>6 DEF AfterCondition
  <2>3. Top \in LoopFrame /\ Top.inCond \in BOOLEAN /\ Top.rc \in Status /\ Top.ign \in BOOLEAN
    BY <2>1, LoopRead
  <2>4. Around(c) /\ g \in LoopFrame /\ g.k = Top.k
    BY <2>1, <2>3, ShellRead DEF Around, Ctx, LoopFrame
  <2> HIDE DEF c, g
  <2> QED
    BY <2>1, <2>2, <2>3, <2>4, LoopFlowMoves, SwapTurns, LeavePops DEF Runs
<1>7. CASE AfterBody
  <2> DEFINE c == Looked(ctx)
  <2>1. at = "ret" /\ IsLoop(Top) /\ Top.phase = "body"
    BY <1>7 DEF AfterBody
  <2>2. LoopFlow(ctx, 0) \/ LeaveWith(c, rc, ignored) \/ (~Flow(rc) /\ Turn(c, rc, ignored))
    BY <1>7 DEF AfterBody
  <2>5. ctx.inCond = Top.inCond
    BY <2>1, LoopRead
  <2>6. Around(ctx) /\ Around(c)
    BY <2>1, <2>5, ShellRead DEF Around, Ctx, Looked
  <2>3. ignored \in BOOLEAN /\ 0 \in Status
    BY <2>1, ShellRead DEF Status
  <2>4. ~Flow(rc) => rc \in Status
    BY <2>1, ShellRead, Results0
  <2> HIDE DEF c
  <2> QED
    BY <2>1, <2>2, <2>3, <2>4, <2>6, LoopFlowMoves, TurnTurns, LeavePops
<1>8. CASE NextWord
  <2> DEFINE g == [Top EXCEPT !.phase = "body"]
             i == TestedBy(Tail(stack))
  <2>1. at = "run" /\ IsLoop(Top)
    BY <1>8 DEF NextWord, IsLoop
  <2>2. (Swap(g) /\ Runs(ctx)) \/ LeaveWith(ctx, Top.rc, Top.ign) \/ LeaveWith(ctx, 1, i)
    BY <1>8 DEF NextWord
  <2>3. g \in LoopFrame /\ g.k = Top.k /\ i \in BOOLEAN /\ Top.ign \in BOOLEAN
    BY <2>1, LoopRead DEF LoopFrame, TestedBy
  <2> HIDE DEF g, i
  <2> QED
    BY <2>1, <2>2, <2>3, SwapTurns, LeavePops DEF Runs
<1>9. CASE AfterSubshell
  <2> DEFINE r == Normalised(rc)
             c == [ctx EXCEPT !.last = r]
  <2>1. at = "ret" /\ EndsNormally(c, r)
    BY <1>9 DEF AfterSubshell
  <2>2. r \in Status
    BY <2>1, NormalisedType
  <2> HIDE DEF r
  <2>3. c \in Ctx(vocab) /\ c.exitTrap = ctx.exitTrap
    BY <2>1, <2>2, ShellRead DEF Ctx
  <2> HIDE DEF c
  <2> QED
    BY <2>1, <2>2, <2>3, ExitMoves
<1>10. CASE AfterStage
  <2>1. at = "ret" /\ Top.k = "stage" /\ Gone(Normalised(rc))
    BY <1>10 DEF AfterStage
  <2> QED
    BY <2>1, NormalisedType DEF Ends, Dies, Untimely
<1>11. CASE AfterLast
  BY <1>1, <1>11 DEF AfterLast, Result
<1>12. CASE AfterCall
  BY <1>1, <1>12 DEF AfterCall, Result
<1>13. CASE AfterCommandPrefix
  BY <1>1, <1>13 DEF AfterCommandPrefix, Passes, Result
<1>14. CASE AfterUnit
  <2>1. at = "ret" /\ Top.k = "text"
    BY <1>14 DEF AfterUnit
  <2>2. \/ ~Flow(rc) /\ UnitReturns(rc)
        \/ TextReturns(ctx, ctx.last)
        \/ UnitReturns(ctx.last)
        \/ Top.for # "script" /\ TextReturns(ctx, rc)
    BY <1>14 DEF AfterUnit
  <2>3. /\ ctx.last \in Status /\ ctx.last \in Results(vocab) /\ (~Flow(rc) => rc \in Status)
        /\ rc \in Results(vocab) /\ ctx \in Ctx(vocab)
    BY <2>1, ShellRead, Results0
  <2> QED
    BY <2>1, <2>2, <2>3, UnitMoves, TextMoves
<1>15. CASE EndOfText
  <2>1. at = "run" /\ Top.k = "text" /\ TextReturns(ctx, ctx.last)
    BY <1>15 DEF EndOfText
  <2>2. ctx.last \in Status /\ ctx.last \in Results(vocab) /\ ctx \in Ctx(vocab)
    BY <2>1, ShellRead, Results0
  <2> QED
    BY <2>1, <2>2, TextMoves
<1>16. CASE ParseError
  <2> DEFINE b == ctx.parseError \/ Top.for # "dot"
             c == [ctx EXCEPT !.last = 2, !.parseError = b]
  <2>1. at = "run" /\ Top.k = "text" /\ TextReturns(c, 2)
    BY <1>16 DEF ParseError
  <2>2. 2 \in Status /\ b \in BOOLEAN /\ 2 \in Results(vocab)
    BY Results0 DEF Status
  <2> HIDE DEF b
  <2>3. c \in Ctx(vocab) /\ c.exitTrap = ctx.exitTrap
    BY <2>1, <2>2, ShellRead DEF Ctx
  <2> HIDE DEF c
  <2> QED
    BY <2>1, <2>2, <2>3, TextMoves
<1> QED
  BY <1>2, <1>3, <1>4, <1>5, <1>6, <1>7, <1>8, <1>9, <1>10, <1>11, <1>12, <1>13, <1>14,
     <1>15, <1>16 DEF After

LEMMA SignalGrows ==
  ASSUME Shell, Signal
  PROVE  Grows
<1> DEFINE f == [k |-> "text", for |-> "signal", command |-> ctx.command,
                 last |-> ctx.last, at |-> at, rc |-> rc, ign |-> ignored,
                 goal |-> goal, was |-> ctx]
<1>1. /\ at \in {"run", "ret"} /\ signals < MaxSignals /\ ctx.usrTrap = Armed /\ Push(f) /\ at' # "over"
  BY DEF Signal, Runs
<1>2. /\ ctx \in Ctx(vocab) /\ ctx.command \in BOOLEAN /\ ctx.last \in Status
      /\ rc \in Results(vocab) /\ ignored \in BOOLEAN /\ goal \in Nat /\ "trap" \in vocab
  BY <1>1, ShellRead, CtxRead DEF Shell
<1>3. MaxSignals > 0
  BY <1>1, ControlFlowAssumption DEF Shell
<1>4. f \in SignalFrame(vocab)
  BY <1>1, <1>2 DEF SignalFrame
<1> HIDE DEF f
<1> QED
  BY <1>1, <1>2, <1>3, <1>4, MakeSignal, PushGrows

(* Every step keeps the stack, pushes frames, turns the loop on top, pops  *)
(* the frame on top, or ends the innermost process.                        *)
LEMMA NextMoves ==
  ASSUME Shell, Next, at # "over"
  PROVE  Moves
BY EnterMoves, AfterMoves, SignalGrows DEF Next, Ended, Moves

-----------------------------------------------------------------------------
(* The end of a trap action.                                               *)

LEMMA TailShorter ==
  ASSUME Shell, at # "over"
  PROVE  Len(stack) \in Nat /\ Len(Tail(stack)) = Len(stack) - 1 /\ stack # Tail(stack)
<1>1. Len(stack) \in Nat /\ Len(Tail(stack)) = Len(stack) - 1
  BY ShellRead, StackRead
<1>2. Len(stack) # Len(stack) - 1
  BY <1>1
<1>3. Len(stack) # Len(Tail(stack))
  BY <1>1, <1>2
<1>4. ASSUME stack = Tail(stack) PROVE Len(stack) = Len(Tail(stack))
  BY <1>4
<1> QED
  BY <1>1, <1>3, <1>4

(* A process that ends does not end just the text on top.                  *)
LEMMA GoneCuts ==
  ASSUME Shell, at # "over", Top.k = "text", NEW code, Gone(code)
  PROVE  stack' # Tail(stack)
<1>1. /\ stack \in Seq(Frame(vocab)) /\ Len(stack) \in Nat /\ Len(stack) >= 1
      /\ IsScript(stack[Len(stack)]) /\ Top = stack[1] /\ Tail(stack) = Drop(stack, 1)
      /\ Len(Tail(stack)) = Len(stack) - 1 /\ Tail(stack) \in Seq(Frame(vocab))
  BY ShellRead, StackRead DEF Stack, Top
<1>2. CASE Boundaries = {}
  <2>1. stack' = stack
    BY <1>2 DEF Gone
  <2> QED
    BY <2>1, TailShorter
<1>3. CASE Boundaries # {}
  <2> DEFINE n == Innermost
             rest == SubSeq(stack, n + 1, Len(stack))
             g == [k |-> "last", status |-> code]
  <2>1. Boundaries \in SUBSET Nat
    BY <1>1 DEF Boundaries
  <2>2. n \in Boundaries
    BY <1>3, <2>1, LeastIn DEF Innermost
  <2>3. n \in 1 .. Len(stack) /\ stack[n].k \in Boundary
    BY <2>2 DEF Boundaries
  <2>4. stack' = IF stack[n].k = "stage" THEN <<g>> \o rest ELSE rest
    BY <1>3 DEF Gone
  <2>5. g.k = "last"
    OBVIOUS
  <2> HIDE DEF n, g
  <2>6. n # 1 /\ n # Len(stack)
    BY <1>1, <2>3 DEF Boundary, IsScript
  <2>7. n \in 2 .. Len(stack) - 1
    <3>1. Len(stack) \in Nat /\ n \in 1 .. Len(stack)
      BY <1>1, <2>3
    <3> QED
      BY <2>6, <3>1
  <2>8. rest \in Seq(Frame(vocab)) /\ Len(rest) = Len(stack) - n
    BY <1>1, <2>7, DropType DEF Drop
  <2> HIDE DEF rest
  <2>9. CASE stack[n].k # "stage"
    BY <1>1, <2>4, <2>7, <2>8, <2>9
  <2>10. CASE stack[n].k = "stage"
    <3>1. Len(<<g>> \o rest) = Len(stack) - n + 1 /\ (<<g>> \o rest)[1] = g
      <4> DEFINE F == Frame(vocab) \cup {g}
      <4>1. rest \in Seq(F) /\ g \in F
        <5>1. \A i \in 1 .. Len(rest) : rest[i] \in F
          BY <2>8, ElementOfSeq
        <5> QED
          BY <2>8, <5>1
      <4> HIDE DEF F
      <4> QED
        BY <2>8, <4>1, Cons
    <3>2. CASE n # 2
      <4>1. Len(stack') = Len(stack) - n + 1
        BY <2>4, <2>10, <3>1
      <4>2. Len(stack) - n + 1 # Len(stack) - 1
        <5>1. Len(stack) \in Nat /\ n \in 1 .. Len(stack)
          BY <1>1, <2>3
        <5> QED
          BY <3>2, <5>1
      <4>3. Len(stack') # Len(Tail(stack))
        BY <1>1, <4>1, <4>2
      <4> QED
        BY <4>3
    <3>3. CASE n = 2
      <4>1. Tail(stack)[1] = stack[2]
        BY <1>1, <2>7, <3>3, DropType
      <4>2. stack' = <<g>> \o rest
        BY <2>4, <2>10
      <4> QED
        BY <2>5, <2>10, <3>1, <3>3, <4>1, <4>2
    <3> QED
      BY <3>2, <3>3
  <2> QED
    BY <2>9, <2>10
<1> QED
  BY <1>2, <1>3

(* A trap action that is done puts back what it found.                     *)
Resumes == /\ at' = Top.at /\ rc' = Top.rc
           /\ ctx'.last = Top.last /\ ctx'.command = Top.command

LEMMA TextResumes ==
  ASSUME Shell, at # "over", Top.k = "text", Top.for = "signal", stack' = Tail(stack),
         NEW c0 \in Ctx(vocab), NEW r \in Results(vocab), TextReturns(c0, r)
  PROVE  Resumes
<1> DEFINE c == [c0 EXCEPT !.command = Top.command]
           out == [c EXCEPT !.inTrap = @ - 1]
<1>1. ActionReturns(out, r)
  BY DEF TextReturns
<1>2. Top.command \in BOOLEAN /\ Top.last \in Status
  BY ShellRead, FrameRead
<1>3. c \in Ctx(vocab) /\ c.command = Top.command /\ c.inTrap \in Int
  BY <1>2 DEF Ctx
<1> HIDE DEF c
<1>4. out \in Ctx(vocab) /\ out.command = Top.command
  BY <1>3 DEF Ctx
<1> HIDE DEF out
<1>5. ~out.fired
  BY <1>1, GoneCuts DEF ActionReturns
<1>6. at' = Top.at /\ rc' = Top.rc /\ ctx' = [out EXCEPT !.last = Top.last]
  BY <1>1, <1>5 DEF ActionReturns
<1>7. ctx'.last = Top.last /\ ctx'.command = Top.command
  BY <1>4, <1>6 DEF Ctx
<1> QED
  BY <1>6, <1>7 DEF Resumes

LEMMA UnitResumes ==
  ASSUME Shell, at = "ret", Top.k = "text", Top.for = "signal", stack' = Tail(stack),
         NEW r \in Status, UnitReturns(r)
  PROVE  Resumes
<1> DEFINE c == [Looked(ctx) EXCEPT !.last = r]
           d == [c EXCEPT !.fired = TRUE]
<1>0. stack' # stack
  BY TailShorter
<1>1. Stops(ctx, r) /\ TextReturns(d, r)
  BY <1>0 DEF UnitReturns
<1>2. c \in Ctx(vocab)
  BY ShellRead DEF Ctx, Looked
<1> HIDE DEF c
<1>3. TRUE \in Options(vocab)
  BY <1>1, ShellRead, CtxRead DEF Stops, Options
<1>4. d \in Ctx(vocab)
  BY <1>2, <1>3 DEF Ctx
<1> HIDE DEF d
<1> QED
  BY <1>1, <1>4, TextResumes, Results0

LEMMA ActionResumes ==
  ASSUME Shell, Next, at # "over", Top.k = "text", Top.for = "signal", stack' = Tail(stack)
  PROVE  Resumes
<1>0. /\ stack \in Seq(Frame(vocab)) /\ Len(stack) \in Nat /\ Len(stack) >= 1
      /\ Len(stack') = Len(stack) - 1
  BY ShellRead, StackRead
<1>1. ~Keeps /\ ~Grows
  <2>1. ~Keeps
    BY <1>0 DEF Keeps
  <2>2. ASSUME NEW t \in Seq(Frame(vocab)), stack' = t \o stack PROVE FALSE
    <3>1. Len(t \o stack) = Len(t) + Len(stack) /\ Len(t) \in Nat
      BY <1>0, ConcatProperties, LenProperties
    <3> QED
      BY <1>0, <2>2, <3>1
  <2> QED
    BY <2>1, <2>2 DEF Grows
<1>2. ~Ends
  BY GoneCuts DEF Ends, Dies
<1>3. After
  BY <1>1, <1>2, EnterMoves, SignalGrows DEF Next, Ended
<1>4. AfterUnit \/ EndOfText \/ ParseError
  BY <1>3 DEF After, AfterAndOr, AfterNot, AfterLeft, AfterIf, AfterCondition, AfterBody, NextWord,
     AfterSubshell, AfterStage, AfterLast, AfterCall, AfterCommandPrefix, Returned, IsLoop
<1>5. /\ ctx.last \in Status /\ ctx.last \in Results(vocab) /\ (~Flow(rc) => rc \in Status)
      /\ rc \in Results(vocab) /\ ctx \in Ctx(vocab)
  BY ShellRead, Results0
<1>6. CASE AfterUnit
  <2>1. /\ at = "ret"
        /\ \/ ~Flow(rc) /\ UnitReturns(rc)
           \/ TextReturns(ctx, ctx.last)
           \/ UnitReturns(ctx.last)
           \/ TextReturns(ctx, rc)
    BY <1>6 DEF AfterUnit, Returned
  <2> QED
    BY <1>5, <2>1, UnitResumes, TextResumes
<1>7. CASE EndOfText
  BY <1>5, <1>7, TextResumes DEF EndOfText
<1>8. CASE ParseError
  <2> DEFINE b == ctx.parseError \/ Top.for # "dot"
             c == [ctx EXCEPT !.last = 2, !.parseError = b]
  <2>1. TextReturns(c, 2)
    BY <1>8 DEF ParseError
  <2>2. 2 \in Status /\ b \in BOOLEAN /\ 2 \in Results(vocab)
    BY Results0 DEF Status
  <2> HIDE DEF b
  <2>3. c \in Ctx(vocab)
    BY <1>5, <2>2 DEF Ctx
  <2> HIDE DEF c
  <2> QED
    BY <2>1, <2>2, <2>3, TextResumes
<1> QED
  BY <1>4, <1>6, <1>7, <1>8

Transparent ==
  (at # "over" /\ Top.k = "text" /\ Top.for = "signal" /\ stack' = Tail(stack))
   => /\ at' = Top.at /\ rc' = Top.rc
      /\ \A f \in {"last", "loops", "calls", "inTrap", "inCond", "command"} :
            ctx'[f] = Top.was[f]

LEMMA NextTransparent == Shell /\ [Next]_vars => Transparent
<1> SUFFICES ASSUME Shell, [Next]_vars, at # "over", Top.k = "text", Top.for = "signal",
                    stack' = Tail(stack)
             PROVE  /\ at' = Top.at /\ rc' = Top.rc
                    /\ \A f \in {"last", "loops", "calls", "inTrap", "inCond", "command"} :
                          ctx'[f] = Top.was[f]
  BY DEF Transparent
<1>1. stack' # stack
  BY TailShorter
<1>2. Next
  BY <1>1 DEF vars
<1>3. Resumes /\ Lands(vocab)
  BY <1>2, ActionResumes, NextLands
<1>4. /\ Matches(vocab, Top.was, Tail(stack)) /\ Top.was.last = Top.last
      /\ Top.was.command = Top.command /\ Top.at # "over"
  BY ShellRead, FrameRead DEF Saved
<1>5. Matches(vocab, ctx', Tail(stack))
  BY <1>3, <1>4 DEF Resumes, Lands, Good
<1>6. /\ ctx'.last = Top.was.last /\ ctx'.command = Top.was.command
      /\ ctx'.loops = Top.was.loops /\ ctx'.calls = Top.was.calls
      /\ ctx'.inTrap = Top.was.inTrap /\ ctx'.inCond = Top.was.inCond
  BY <1>3, <1>4, <1>5 DEF Matches, Resumes
<1> QED
  BY <1>3, <1>6 DEF Resumes

(* Whatever a trap action runs, and whichever two steps it came between,   *)
(* when shell_signal_handler returns $?, the counters and in_cond are      *)
(* those it found, and exec_node goes on with what it was doing.           *)
THEOREM ActionsAreTransparent == Spec => SignalsAreTransparent
<1>1. [][Shell /\ [Next]_vars => Transparent]_vars
  BY NextTransparent, PTL
<1>2. [][Transparent]_vars => SignalsAreTransparent
  BY PTL DEF SignalsAreTransparent, Transparent
<1> QED
  BY NextTransparent, <1>2, SpecShell, PTL DEF Spec

-----------------------------------------------------------------------------
(* The EXIT trap.                                                          *)

(* The processes below the top of the stack.                               *)
Forks(v, s) == Counted(s, {f \in Frame(v) : f.k \in Boundary}, {})

LEMMA ForksCounted ==
  ASSUME NEW v, NEW s \in Seq(Frame(v))
  PROVE  /\ Forks(v, s) = Cardinality({i \in 1 .. Len(s) : s[i].k \in Boundary})
         /\ Forks(v, s) \in Nat
<1>1. \A i \in 1 .. Len(s) : s[i] \in Frame(v)
  BY ElementOfSeq
<1>2. Seen(s, {f \in Frame(v) : f.k \in Boundary}, {}) = {i \in 1 .. Len(s) : s[i].k \in Boundary}
  BY <1>1 DEF Seen
<1>3. Forks(v, s) = Cardinality({i \in 1 .. Len(s) : s[i].k \in Boundary})
  BY <1>2 DEF Forks, Counted
<1>4. Forks(v, s) \in Nat
  BY CountedType DEF Forks
<1> QED
  BY <1>3, <1>4

LEMMA ForksCons ==
  ASSUME NEW v, NEW s \in Seq(Frame(v)), NEW f \in Frame(v), f.k \notin Boundary
  PROVE  Forks(v, <<f>> \o s) = Forks(v, s)
<1> DEFINE M == {g \in Frame(v) : g.k \in Boundary}
<1>1. f \notin M
  OBVIOUS
<1> HIDE DEF M
<1>2. Counted(<<f>> \o s, M, {}) = Counted(s, M, {}) + 0 /\ Counted(s, M, {}) \in Nat
  BY <1>1, CountCons, CountedType
<1>3. Counted(<<f>> \o s, M, {}) = Counted(s, M, {})
  BY <1>2
<1> QED
  BY <1>3 DEF Forks, M

(* What is below a concatenation's first part.                             *)
LEMMA DropConcat ==
  ASSUME NEW F, NEW s \in Seq(F), NEW t \in Seq(F)
  PROVE  /\ t \o s \in Seq(F) /\ Len(t) \in 0 .. Len(t \o s)
         /\ Drop(t \o s, Len(t)) = s
<1> DEFINE u == t \o s
<1>1. Len(s) \in Nat /\ Len(t) \in Nat
  BY LenProperties
<1>2. /\ u \in Seq(F) /\ Len(u) = Len(t) + Len(s)
      /\ \A i \in 1 .. Len(t) + Len(s) : u[i] = IF i <= Len(t) THEN t[i] ELSE s[i - Len(t)]
  BY ConcatProperties
<1> HIDE DEF u
<1>3. Len(t) \in 0 .. Len(u)
  BY <1>1, <1>2
<1>4. /\ Drop(u, Len(t)) \in Seq(F) /\ Len(Drop(u, Len(t))) = Len(u) - Len(t)
      /\ \A i \in 1 .. Len(u) - Len(t) : Drop(u, Len(t))[i] = u[i + Len(t)]
  BY <1>2, <1>3, DropType
<1>5. Len(Drop(u, Len(t))) = Len(s)
  BY <1>1, <1>2, <1>4
<1>6. ASSUME NEW i \in 1 .. Len(Drop(u, Len(t))) PROVE Drop(u, Len(t))[i] = s[i]
  <2> DEFINE j == i + Len(t)
  <2>1. /\ i \in 1 .. Len(u) - Len(t) /\ j \in 1 .. Len(t) + Len(s)
        /\ ~(j <= Len(t)) /\ j - Len(t) = i
    BY <1>1, <1>2, <1>5
  <2>2. Drop(u, Len(t))[i] = u[j]
    BY <1>4, <2>1
  <2> HIDE DEF j
  <2>3. u[j] = s[j - Len(t)]
    BY <1>2, <2>1
  <2> QED
    BY <2>1, <2>2, <2>3
<1>7. Drop(u, Len(t)) = s
  BY <1>4, <1>5, <1>6, SeqEqual
<1> QED
  BY <1>2, <1>3, <1>7 DEF u

LEMMA ForksConcat ==
  ASSUME NEW v, NEW s \in Seq(Frame(v)), NEW t \in Seq(Frame(v))
  PROVE  Forks(v, t \o s) >= Forks(v, s)
<1> DEFINE M == {g \in Frame(v) : g.k \in Boundary}
           u == t \o s
           n == Len(t)
           D == {i \in 1 .. n : u[i] \in M}
<1>1. u \in Seq(Frame(v)) /\ n \in 0 .. Len(u) /\ Drop(u, n) = s
  BY DropConcat
<1> HIDE DEF M, u, n
<1>2. Counted(u, M, {}) = Cardinality(D) + Counted(Drop(u, n), M, {}) /\ Cardinality(D) \in Nat
  <2> DEFINE S == {}
  <2>1. \A j \in 1 .. n : u[j] \notin S
    OBVIOUS
  <2> HIDE DEF S
  <2>2. /\ Counted(u, M, S) =
              Cardinality({i \in 1 .. n : u[i] \in M}) + Counted(Drop(u, n), M, S)
        /\ Cardinality({i \in 1 .. n : u[i] \in M}) \in Nat
    BY <1>1, <2>1, CountSplit
  <2> QED
    BY <2>2 DEF S
<1>3. Counted(s, M, {}) \in Nat
  BY CountedType
<1> HIDE DEF D
<1>4. Counted(u, M, {}) >= Counted(s, M, {})
  BY <1>1, <1>2, <1>3
<1> QED
  BY <1>4 DEF Forks, M, u

(* Only the end of a process takes a process off the stack.                *)
LEMMA OnlyEndsEnd ==
  ASSUME Shell, at # "over", Keeps \/ Grows \/ Turns \/ Pops
  PROVE  ~ProcessEnds
<1>1. /\ stack \in Seq(Frame(vocab)) /\ Top \in Frame(vocab) /\ Tail(stack) \in Seq(Frame(vocab))
      /\ stack = <<Top>> \o Tail(stack)
  BY ShellRead, StackRead
<1>2. Forks(vocab, stack) = Cardinality(Boundaries) /\ Forks(vocab, stack) \in Nat
  BY <1>1, ForksCounted DEF Boundaries
<1>3. ASSUME stack' \in Seq(Frame(vocab)), Forks(vocab, stack') >= Forks(vocab, stack), at' # "over"
      PROVE  ~ProcessEnds
  <2>1. Forks(vocab, stack') = Count(stack', LAMBDA f : f.k \in Boundary) /\ Forks(vocab, stack') \in Nat
    BY <1>3, ForksCounted DEF Count
  <2> QED
    BY <1>2, <1>3, <2>1 DEF ProcessEnds
<1>4. CASE Keeps
  BY <1>1, <1>2, <1>3, <1>4 DEF Keeps
<1>5. CASE Grows
  <2>1. PICK t \in Seq(Frame(vocab)) : stack' = t \o stack
    BY <1>5 DEF Grows
  <2>2. stack' \in Seq(Frame(vocab)) /\ Forks(vocab, stack') >= Forks(vocab, stack)
    BY <1>1, <2>1, ForksConcat, DropConcat
  <2> QED
    BY <1>3, <1>5, <2>2 DEF Grows
<1>6. CASE Turns
  <2>1. PICK g \in Frame(vocab) : IsLoop(g) /\ stack' = <<g>> \o Tail(stack)
    BY <1>6 DEF Turns
  <2>2. g.k \notin Boundary /\ Top.k \notin Boundary
    BY <1>6, <2>1 DEF Turns, IsLoop, Boundary
  <2>3. stack' \in Seq(Frame(vocab)) /\ Forks(vocab, stack') = Forks(vocab, stack)
    BY <1>1, <2>1, <2>2, ForksCons, Cons
  <2> QED
    BY <1>2, <1>3, <1>6, <2>3 DEF Turns
<1>7. CASE Pops
  <2>1. Forks(vocab, stack') = Forks(vocab, stack)
    BY <1>1, <1>7, ForksCons DEF Pops
  <2> QED
    BY <1>1, <1>2, <1>3, <1>7, <2>1 DEF Pops
<1> QED
  BY <1>4, <1>5, <1>6, <1>7

(* An exit text on top is an EXIT action of the process that ends.         *)
LEMMA TopIsAction ==
  ASSUME Shell, at # "over", Top.k = "text", Top.for = "exit"
  PROVE  InExitAction
<1> DEFINE T == {i \in 1 .. Len(stack) : stack[i].k \in Boundary}
           M == {f \in Frame(vocab) : f.k = "text" /\ f.for = "exit"}
           S == {f \in Frame(vocab) : f.k \in Boundary}
           C == Cut(stack, T)
           Z == Seen(stack, M, S)
<1>1. /\ stack \in Seq(Frame(vocab)) /\ Len(stack) \in Nat /\ Len(stack) >= 1
      /\ Top = stack[1] /\ Top \in Frame(vocab)
      /\ \A i \in 1 .. Len(stack) : stack[i] \in Frame(vocab)
  BY ShellRead, StackRead DEF Top
<1>2. 1 \in Z
  <2>1. stack[1] \in M /\ stack[1] \notin S
    BY <1>1 DEF Boundary
  <2> HIDE DEF M, S
  <2> QED
    BY <1>1, <2>1 DEF Seen
<1>3. T = {i \in 1 .. Len(stack) : stack[i] \in S}
  BY <1>1
<1>4. C \in Seq(Frame(vocab)) /\ {i \in 1 .. Len(C) : C[i] \in M} = Z
  <2>1. T = Marks(stack, S)
    BY <1>3 DEF Marks
  <2>2. Cut(stack, T) \in Seq(Frame(vocab)) /\ Marks(Cut(stack, T), M) = Seen(stack, M, S)
    <3> HIDE DEF T, M, S
    <3> QED
      BY <1>1, <2>1, CutCount
  <2> QED
    BY <2>2 DEF Marks
<1>5. {i \in 1 .. Len(C) : C[i] \in M} = {i \in 1 .. Len(C) : C[i].k = "text" /\ C[i].for = "exit"}
  <2>1. \A i \in 1 .. Len(C) : C[i] \in Frame(vocab)
    <3> HIDE DEF C
    <3> QED
      BY <1>4, ElementOfSeq
  <2> HIDE DEF C
  <2> QED
    BY <2>1
<1>6. Cardinality(Z) > 0
  <2>1. IsFiniteSet(Z) /\ Cardinality(Z) \in Nat
    <3> HIDE DEF M, S
    <3> QED
      BY <1>1, CountedType DEF Counted
  <2> HIDE DEF Z
  <2>2. Cardinality(Z) # 0
    BY <1>2, <2>1, FS_EmptySet
  <2> QED
    BY <2>1, <2>2
<1>7. Cardinality({i \in 1 .. Len(C) : C[i].k = "text" /\ C[i].for = "exit"}) > 0
  BY <1>4, <1>5, <1>6
<1> QED
  BY <1>7 DEF InExitAction, Count, Above, Cut

(* No script both sets traps and has pipelines, whose stages end without   *)
(* theirs, or -e, which ends the shell in the middle of a trap action.     *)
TrapsAlone == \A v \in Vocabularies : "trap" \notin v \/ v \cap {"pipe", "set"} = {}

TrapRuns == ProcessEnds => ctx.exitTrap # Armed \/ InExitAction

LEMMA NextTrapRuns == TrapsAlone => (Shell /\ [Next]_vars => TrapRuns)
<1> SUFFICES ASSUME TrapsAlone, Shell, [Next]_vars, ProcessEnds, ctx.exitTrap = Armed
             PROVE  InExitAction
  BY DEF TrapRuns
<1>1. at # "over"
  BY DEF ProcessEnds
<1>2. CASE UNCHANGED vars
  <2>1. Keeps
    BY <1>1, <1>2 DEF vars, Keeps
  <2> QED
    BY <1>1, <2>1, OnlyEndsEnd
<1>3. CASE Next
  <2>1. Ends
    BY <1>1, <1>3, NextMoves, OnlyEndsEnd DEF Moves
  <2>2. "trap" \in vocab /\ vocab \in Vocabularies
    BY <1>1, ShellRead, CtxRead DEF Shell
  <2>3. "set" \notin vocab /\ "pipe" \notin vocab
    BY <2>2 DEF TrapsAlone
  <2>4. Top.k # "stage"
    BY <1>1, <2>3, ShellRead, FrameRead DEF Node
  <2>5. Top.k = "text" /\ Top.for = "exit"
    BY <2>1, <2>3, <2>4 DEF Ends, Untimely
  <2> QED
    BY <1>1, <2>5, TopIsAction
<1> QED
  BY <1>2, <1>3

(* No process ends with its EXIT trap armed and not run, whether it comes  *)
(* to the end of its text, exits or is ended by a failing special builtin  *)
(* (sh_exit_with_trap).  A stage of a pipeline, and a trap action that     *)
(* fails under -e, end their process without it: scripts that set traps    *)
(* are taken to have neither.                                              *)
THEOREM ExitTrapIsRun == TrapsAlone => (Spec => ExitTrapRuns)
<1>1. ASSUME TrapsAlone PROVE Spec => ExitTrapRuns
  <2>1. Shell /\ [Next]_vars => TrapRuns
    BY <1>1, NextTrapRuns
  <2>2. [][TrapRuns]_vars => ExitTrapRuns
    BY PTL DEF ExitTrapRuns, TrapRuns
  <2> QED
    BY <2>1, <2>2, SpecShell, PTL DEF Spec
<1> QED
  BY <1>1

-----------------------------------------------------------------------------
(* break and continue on their way.                                        *)

Jump == {BREAK, CONTINUE}
Jumping == at = "ret" /\ rc \in Jump

(* Nothing is being left after the step.                                   *)
Hushed == ~(at' = "ret" /\ rc' \in Jump)

(* What is being left goes one frame out.                                  *)
Travels ==
  /\ Jumping /\ rc' = rc /\ stack' = Tail(stack) /\ goal' = goal
  /\ ~Hides(Top) /\ ~IsScript(Top)
  /\ IF IsLoop(Top) THEN ctx.level > 0 /\ ctx.loops > 1 /\ ctx'.level = ctx.level - 1
                    ELSE ctx'.level = ctx.level

(* No trap action comes in between.                                        *)
Quiet(v) == MaxSignals = 0 \/ "trap" \notin v

LEMMA JumpRead == /\ \A r \in Jump : Flow(r) /\ r \notin Status /\ r # RETURN /\ r # 0 /\ r # 1
                  /\ \A r \in Status : ~Flow(r)
BY DEF Jump, Flow, Status, BREAK, CONTINUE, RETURN

LEMMA StatusHushed == ASSUME NEW c, NEW r, ~Flow(r), Result(c, r) PROVE Hushed
BY JumpRead DEF Result, Hushed

LEMMA RunsHushed == ASSUME NEW c, Runs(c) PROVE Hushed
BY DEF Runs, Hushed

LEMMA GoneHushed ==
  ASSUME NEW code \in Status, Gone(code)
  PROVE  Hushed
<1>1. CASE Boundaries = {}
  BY <1>1 DEF Gone, Hushed
<1>2. CASE Boundaries # {}
  <2>1. (\E c : Runs(c)) \/ (\E c : Result(c, code))
    BY <1>2 DEF Gone
  <2> QED
    BY <2>1, JumpRead, StatusHushed, RunsHushed
<1> QED
  BY <1>1, <1>2

LEMMA ExitHushed ==
  ASSUME NEW c, NEW code \in Status, ExitWithTrap(c, code) \/ EndsNormally(c, code)
  PROVE  Hushed
<1>1. CASE \E keep \in BOOLEAN : ExitAction(c, code, keep)
  BY <1>1, RunsHushed DEF ExitAction
<1>2. CASE Gone(code)
  BY <1>2, GoneHushed
<1> QED
  BY <1>1, <1>2 DEF ExitWithTrap, EndsNormally

(* A frame that is neither a loop nor hides one passes the result on.      *)
LEMMA PassTravels ==
  ASSUME Shell, at = "ret", ~IsLoop(Top), ~Hides(Top), ~IsScript(Top), Pop, goal' = goal,
         NEW c, c.level = ctx.level, Result(c, rc)
  PROVE  Hushed \/ Travels
<1>1. CASE Flow(rc) /\ rc \in Jump
  <2>1. ctx' = c /\ rc' = rc
    BY <1>1 DEF Result, Published
  <2> QED
    BY <1>1, <2>1 DEF Travels, Jumping, Pop
<1>2. CASE rc \notin Jump
  BY <1>2 DEF Result, Hushed
<1> QED
  BY <1>1, <1>2, JumpRead

LEMMA LoopFlowTravels ==
  ASSUME Shell, at = "ret", IsLoop(Top), NEW c, c.level = ctx.level, c.loops = ctx.loops,
         c \in Ctx(vocab), NEW r \in Status, LoopFlow(c, r), goal' = goal
  PROVE  Hushed \/ Travels
<1>1. CASE rc = RETURN
  BY <1>1, JumpRead DEF LoopFlow, Leave, LeaveWith, Result, Hushed
<1>2. CASE rc # RETURN /\ c.level > 0 /\ c.loops > 1
  <2> DEFINE d == [c EXCEPT !.level = @ - 1]
             e == [d EXCEPT !.loops = @ - 1]
  <2>1. Pop /\ Result(e, rc)
    BY <1>2 DEF LoopFlow, Leave, LeaveWith
  <2>2. e.level = ctx.level - 1
    BY DEF Ctx
  <2> HIDE DEF d, e
  <2>3. ~Hides(Top) /\ ~IsScript(Top)
    BY LoopRead
  <2>4. CASE rc \in Jump
    <3>1. ctx' = e /\ rc' = rc
      BY <2>1, <2>4, JumpRead DEF Result, Published
    <3> QED
      BY <1>2, <2>1, <2>2, <2>3, <2>4, <3>1 DEF Travels, Jumping, Pop
  <2>5. CASE rc \notin Jump
    BY <2>1, <2>5 DEF Result, Hushed
  <2> QED
    BY <2>4, <2>5
<1>3. CASE rc # RETURN /\ ~(c.level > 0 /\ c.loops > 1)
  <2>1. \/ Leave([c EXCEPT !.level = 0], 0)
        \/ Turn([c EXCEPT !.level = 0], r, FALSE)
    BY <1>3 DEF LoopFlow
  <2> QED
    BY <2>1, JumpRead DEF Leave, LeaveWith, Turn, Result, Runs, Hushed
<1> QED
  BY <1>1, <1>2, <1>3

LEMMA TextTravels ==
  ASSUME Shell, at # "over", Top.k = "text", Quiet(vocab), NEW c0 \in Ctx(vocab), c0.level = ctx.level,
         NEW r \in Results(vocab), Top.for = "script" => r \in Status, TextReturns(c0, r),
         goal' = GoalAfter, r \in Jump => at = "ret" /\ rc = r
  PROVE  Hushed \/ Travels
<1> DEFINE c == [c0 EXCEPT !.command = Top.command]
           e == [c EXCEPT !.parseError = FALSE]
           out == [c EXCEPT !.inTrap = @ - 1]
<1>1. /\ Top.for \in {"script", "subst", "eval", "dot", "exit"} /\ Top.for # "signal"
      /\ Top.for = "exit" => Top.code \in Status
      /\ Top.command \in BOOLEAN
  BY ShellRead, FrameRead DEF Quiet
<1>2. goal' = goal
  BY <1>1 DEF GoalAfter
<1>3. (CASE Top.for = "script" -> EndsNormally(c, r)
        [] Top.for = "subst"  -> EndsNormally(c, c.last)
        [] Top.for = "eval"   -> EvalReturns(c, r)
        [] Top.for = "dot"    -> Builtin(c, IF r \in {BREAK, CONTINUE} THEN 0 ELSE r)
        [] Top.for = "signal" -> ActionReturns(out, r)
        [] Top.for = "exit"   -> Gone(IF Top.keep THEN Top.code ELSE Byte(r)))
  BY DEF TextReturns
<1>4. /\ Top.for = "script" => r \in Status /\ EndsNormally(c, r)
      /\ Top.for = "subst" => EndsNormally(c, c.last)
      /\ Top.for = "eval" => EvalReturns(c, r)
      /\ Top.for = "dot" => Builtin(c, IF r \in {BREAK, CONTINUE} THEN 0 ELSE r)
      /\ Top.for = "exit" => Gone(IF Top.keep THEN Top.code ELSE Byte(r))
  <2> HIDE DEF c, out
  <2> QED
    BY <1>3
<1>5. c \in Ctx(vocab) /\ c.level = ctx.level /\ c.last \in Status
  BY <1>1 DEF Ctx
<1>6. e.level = ctx.level
  <2> HIDE DEF c
  <2> QED
    BY <1>5 DEF Ctx
<1> HIDE DEF c, e, out
<1>7. CASE Top.for \in {"script", "subst"}
  BY <1>4, <1>5, <1>7, ExitHushed
<1>8. CASE Top.for = "eval"
  <2>1. ExitWithTrap(e, 2) \/ Builtin(e, r)
    BY <1>4, <1>8 DEF EvalReturns, e
  <2>2. 2 \in Status
    BY DEF Status
  <2>3. CASE ExitWithTrap(e, 2)
    BY <2>2, <2>3, ExitHushed
  <2>4. CASE Builtin(e, r) /\ r \in Jump
    <3>1. ~IsLoop(Top) /\ ~Hides(Top) /\ ~IsScript(Top)
      BY <1>8 DEF IsLoop, Hides, IsScript, Boundary
    <3>2. Pop /\ Result(e, rc) /\ at = "ret"
      BY <2>4 DEF Builtin
    <3> QED
      BY <1>2, <1>6, <3>1, <3>2, PassTravels
  <2>5. CASE Builtin(e, r) /\ r \notin Jump
    BY <2>5 DEF Builtin, Result, Hushed
  <2> QED
    BY <2>1, <2>3, <2>4, <2>5
<1>9. CASE Top.for = "dot"
  <2>1. (IF r \in {BREAK, CONTINUE} THEN 0 ELSE r) \notin Jump
    BY JumpRead DEF Jump
  <2> QED
    BY <1>4, <1>9, <2>1 DEF Builtin, Result, Hushed
<1>10. CASE Top.for = "exit"
  <2>1. (IF Top.keep THEN Top.code ELSE Byte(r)) \in Status
    BY <1>1, <1>10, Results0
  <2> QED
    BY <1>4, <1>10, <2>1, GoneHushed
<1> QED
  BY <1>1, <1>7, <1>8, <1>9, <1>10

LEMMA UnitTravels ==
  ASSUME Shell, at = "ret", Top.k = "text", Quiet(vocab), NEW r \in Status, UnitReturns(r),
         goal' = GoalAfter
  PROVE  Hushed \/ Travels
<1> DEFINE c == [Looked(ctx) EXCEPT !.last = r]
           d == [c EXCEPT !.fired = TRUE]
<1>1. Runs(c) \/ (Stops(ctx, r) /\ TextReturns(d, r))
  BY DEF UnitReturns
<1>2. c \in Ctx(vocab) /\ c.level = ctx.level
  BY ShellRead DEF Ctx, Looked
<1> HIDE DEF c
<1>3. ASSUME Stops(ctx, r), TextReturns(d, r) PROVE Hushed \/ Travels
  <2>1. TRUE \in Options(vocab)
    BY <1>3, ShellRead, CtxRead DEF Stops, Options
  <2>2. d \in Ctx(vocab) /\ d.level = ctx.level
    BY <1>2, <2>1 DEF Ctx
  <2> HIDE DEF d
  <2>3. r \in Results(vocab) /\ r \notin Jump
    BY Results0, JumpRead
  <2> QED
    BY <1>3, <2>2, <2>3, TextTravels
<1> QED
  BY <1>1, <1>3, RunsHushed

LEMMA AfterTravels ==
  ASSUME Shell, After, Quiet(vocab)
  PROVE  Hushed \/ Travels
<1> USE DEF Returned, Static
<1> DEFINE c == [ctx EXCEPT !.inCond = Top.inCond]
<1>0. at # "over" => c.level = ctx.level /\ c.loops = ctx.loops
  BY ShellRead DEF Ctx
<1> HIDE DEF c
<1>1. ASSUME at = "ret", Top.k \in {"and", "or", "not", "seq", "if", "last", "command"}
      PROVE  ~IsLoop(Top) /\ ~Hides(Top) /\ ~IsScript(Top)
  BY <1>1 DEF IsLoop, Hides, IsScript, Boundary
<1>2. CASE AfterAndOr
  <2>1. \/ Result(c, rc) /\ Pop /\ goal' = goal
        \/ \E d : Runs(d)
        \/ ~Flow(rc) /\ \E d : Result(d, rc)
    BY <1>2 DEF AfterAndOr, Passes, c
  <2>2. at = "ret" /\ Top.k \in {"and", "or"}
    BY <1>2 DEF AfterAndOr
  <2> QED
    BY <1>0, <1>1, <2>1, <2>2, PassTravels, RunsHushed, StatusHushed
<1>3. CASE AfterNot
  <2>1. \/ Result(c, rc) /\ Pop /\ goal' = goal
        \/ \E d : Result(d, 0) \/ Result(d, 1)
    BY <1>3 DEF AfterNot, Passes, c
  <2>2. at = "ret" /\ Top.k = "not"
    BY <1>3 DEF AfterNot
  <2>3. ~Flow(0) /\ ~Flow(1)
    BY DEF Flow, BREAK
  <2> QED
    BY <1>0, <1>1, <2>1, <2>2, <2>3, PassTravels, StatusHushed
<1>4. CASE AfterLeft
  <2>1. \/ Result(ctx, rc) /\ Pop /\ goal' = goal
        \/ \E d : Runs(d)
        \/ ~Flow(rc) /\ \E d : Result(d, rc)
    BY <1>4 DEF AfterLeft
  <2>2. at = "ret" /\ Top.k = "seq"
    BY <1>4 DEF AfterLeft
  <2> QED
    BY <1>1, <2>1, <2>2, PassTravels, RunsHushed, StatusHushed
<1>5. CASE AfterIf
  <2>1. \/ Result(c, rc) /\ Pop /\ goal' = goal
        \/ \E d : Runs(d)
        \/ \E d : Result(d, 0)
    BY <1>5 DEF AfterIf, c
  <2>2. at = "ret" /\ Top.k = "if" /\ ~Flow(0)
    BY <1>5 DEF AfterIf, Flow, BREAK
  <2> QED
    BY <1>0, <1>1, <2>1, <2>2, PassTravels, RunsHushed, StatusHushed
<1>6. CASE AfterCondition
  <2>1. at = "ret" /\ IsLoop(Top) /\ goal' = goal
    BY <1>6 DEF AfterCondition, IsLoop
  <2>2. \/ LoopFlow(c, Top.rc)
        \/ \E d : Runs(d)
        \/ \E d : Result(d, Top.rc)
    BY <1>6 DEF AfterCondition, LeaveWith, c
  <2>3. Top.rc \in Status /\ ~Flow(Top.rc) /\ Top.inCond \in BOOLEAN
    BY <2>1, LoopRead, JumpRead
  <2>4. c \in Ctx(vocab)
    BY <2>1, <2>3, ShellRead DEF Ctx, c
  <2> QED
    BY <1>0, <2>1, <2>2, <2>3, <2>4, LoopFlowTravels, RunsHushed, StatusHushed
<1>7. CASE AfterBody
  <2>1. at = "ret" /\ IsLoop(Top) /\ goal' = goal
    BY <1>7 DEF AfterBody
  <2>2. \/ LoopFlow(ctx, 0)
        \/ \E d : Runs(d)
        \/ ~Flow(rc) /\ \E d : Result(d, rc)
    BY <1>7 DEF AfterBody, LeaveWith, Turn
  <2>3. 0 \in Status /\ ctx \in Ctx(vocab)
    BY <2>1, ShellRead DEF Status
  <2> QED
    BY <2>1, <2>2, <2>3, LoopFlowTravels, RunsHushed, StatusHushed
<1>8. CASE NextWord
  <2>1. at = "run" /\ IsLoop(Top)
    BY <1>8 DEF NextWord, IsLoop
  <2>2. (\E d : Runs(d)) \/ (\E d : Result(d, Top.rc) \/ Result(d, 1))
    BY <1>8 DEF NextWord, LeaveWith
  <2>3. ~Flow(Top.rc) /\ ~Flow(1)
    BY <2>1, LoopRead, JumpRead DEF Flow, BREAK
  <2> QED
    BY <2>2, <2>3, RunsHushed, StatusHushed
<1>9. CASE AfterSubshell
  <2>1. at = "ret" /\ \E d : EndsNormally(d, Normalised(rc))
    BY <1>9 DEF AfterSubshell
  <2> QED
    BY <2>1, NormalisedType, ExitHushed
<1>10. CASE AfterStage
  <2>1. at = "ret" /\ Gone(Normalised(rc))
    BY <1>10 DEF AfterStage
  <2> QED
    BY <2>1, NormalisedType, GoneHushed
<1>11. CASE AfterLast
  <2>1. \/ Result(ctx, rc) /\ Pop /\ goal' = goal
        \/ Result(ctx, Top.status)
    BY <1>11 DEF AfterLast
  <2>2. at = "ret" /\ Top.k = "last"
    BY <1>11 DEF AfterLast
  <2>3. ~Flow(Top.status)
    BY <2>2, ShellRead, FrameRead, JumpRead
  <2> QED
    BY <1>1, <2>1, <2>2, <2>3, PassTravels, StatusHushed
<1>12. CASE AfterCall
  <2> DEFINE d == Outside(Top, ctx)
  <2>1. at = "ret" /\ Top.k = "call" /\ Pop /\ goal' = goal
    BY <1>12 DEF AfterCall
  <2>2. Result(d, ctx.last) \/ Result(d, IF Flow(rc) /\ ~NonLexical THEN 0 ELSE rc)
    BY <1>12 DEF AfterCall
  <2>3. ~Flow(ctx.last) /\ ~Flow(0)
    BY <2>1, ShellRead, JumpRead DEF Status
  <2>4. ASSUME NonLexical PROVE d.level = ctx.level
    BY <2>1, <2>4, ShellRead DEF Outside, Ctx
  <2> HIDE DEF d
  <2>5. ASSUME NonLexical PROVE ~IsLoop(Top) /\ ~Hides(Top) /\ ~IsScript(Top)
    BY <2>1, <2>5 DEF IsLoop, Hides, IsScript, Boundary
  <2>6. CASE Result(d, ctx.last)
    BY <2>3, <2>6, StatusHushed
  <2>7. CASE Result(d, IF Flow(rc) /\ ~NonLexical THEN 0 ELSE rc)
    <3>1. CASE ~Flow(rc)
      BY <2>7, <3>1, StatusHushed
    <3>2. CASE Flow(rc) /\ ~NonLexical
      BY <2>3, <2>7, <3>2, StatusHushed
    <3>3. CASE Flow(rc) /\ NonLexical
      BY <2>1, <2>4, <2>5, <2>7, <3>3, PassTravels
    <3> QED
      BY <3>1, <3>2, <3>3
  <2> QED
    BY <2>2, <2>6, <2>7
<1>13. CASE AfterCommandPrefix
  <2> DEFINE d == [ctx EXCEPT !.command = Top.command]
  <2>1. at = "ret" /\ Top.k = "command" /\ Pop /\ goal' = goal /\ Result(d, rc)
    BY <1>13 DEF AfterCommandPrefix, Passes
  <2>2. d.level = ctx.level
    BY <2>1, ShellRead DEF Ctx
  <2> HIDE DEF d
  <2> QED
    BY <1>1, <2>1, <2>2, PassTravels
<1>14. CASE AfterUnit
  <2>1. at = "ret" /\ Top.k = "text" /\ goal' = GoalAfter
    BY <1>14 DEF AfterUnit
  <2>2. \/ ~Flow(rc) /\ UnitReturns(rc)
        \/ TextReturns(ctx, ctx.last)
        \/ UnitReturns(ctx.last)
        \/ Top.for # "script" /\ TextReturns(ctx, rc)
    BY <1>14 DEF AfterUnit
  <2>3. /\ ctx.last \in Status /\ ctx.last \in Results(vocab) /\ (~Flow(rc) => rc \in Status)
        /\ rc \in Results(vocab) /\ ctx \in Ctx(vocab) /\ ctx.last \notin Jump
    BY <2>1, ShellRead, Results0, JumpRead
  <2> QED
    BY <2>1, <2>2, <2>3, UnitTravels, TextTravels
<1>15. CASE EndOfText
  <2>1. at = "run" /\ Top.k = "text" /\ TextReturns(ctx, ctx.last) /\ goal' = GoalAfter
    BY <1>15 DEF EndOfText
  <2>2. ctx.last \in Status /\ ctx.last \in Results(vocab) /\ ctx \in Ctx(vocab) /\ ctx.last \notin Jump
    BY <2>1, ShellRead, Results0, JumpRead
  <2> QED
    BY <2>1, <2>2, TextTravels
<1>16. CASE ParseError
  <2> DEFINE b == ctx.parseError \/ Top.for # "dot"
             d == [ctx EXCEPT !.last = 2, !.parseError = b]
  <2>1. at = "run" /\ Top.k = "text" /\ TextReturns(d, 2) /\ goal' = GoalAfter
    BY <1>16 DEF ParseError
  <2>2. 2 \in Status /\ b \in BOOLEAN /\ 2 \in Results(vocab) /\ 2 \notin Jump
    BY Results0, JumpRead DEF Status
  <2> HIDE DEF b
  <2>3. d \in Ctx(vocab) /\ d.level = ctx.level
    BY <2>1, <2>2, ShellRead DEF Ctx
  <2> HIDE DEF d
  <2> QED
    BY <2>1, <2>2, <2>3, TextTravels
<1> QED
  BY <1>2, <1>3, <1>4, <1>5, <1>6, <1>7, <1>8, <1>9, <1>10, <1>11, <1>12, <1>13, <1>14,
     <1>15, <1>16 DEF After

(* The only command after which something is being left.                   *)
LEMMA EnterAims ==
  ASSUME Shell, Enter
  PROVE  Hushed \/ (Aims(vocab, ctx', stack', goal') /\ vocab' = vocab)
<1> USE DEF Has, Pushes
<1>0. at = "run" => ctx.last \in Status /\ ctx.entry \in Status
  BY ShellRead, CtxRead
<1>1. ASSUME NEW c, NEW r \in {0, 1}, Completes(c, r) PROVE Hushed
  <2>1. ~Flow(r)
    BY DEF Flow, BREAK
  <2> QED
    BY <1>1, <2>1, StatusHushed DEF Completes
<1>2. CASE Command \/ SetErrexit \/ Trap
  BY <1>1, <1>2 DEF Command, SetErrexit, Trap
<1>3. CASE Return
  BY <1>3, JumpRead DEF Return, Hushed
<1>4. CASE Exit
  <2>1. at = "run" /\ \E code \in Operands \cup {NakedExitCode} : ExitWithTrap(ctx, code)
    BY <1>4 DEF Exit
  <2>2. \A code \in Operands \cup {NakedExitCode} : code \in Status
    BY <1>0, <2>1, ControlFlowAssumption DEF NakedExitCode, Status
  <2> QED
    BY <2>1, <2>2, ExitHushed
<1>5. CASE Fatal
  <2>1. \E code \in {1, 2} : Result(ctx, 1) \/ ExitWithTrap(ctx, code)
    BY <1>5 DEF Fatal
  <2>2. \A code \in {1, 2} : code \in Status /\ ~Flow(1)
    BY DEF Status, Flow, BREAK
  <2> QED
    BY <2>1, <2>2, ExitHushed, StatusHushed
<1>6. CASE DotMissing
  <2>1. \E d : ExitWithTrap(d, 1)
    BY <1>6 DEF DotMissing
  <2>2. 1 \in Status
    BY DEF Status
  <2> QED
    BY <2>1, <2>2, ExitHushed
<1>7. CASE \E kind, flow : Break(kind, flow)
  <2>1. PICK kind, flow : Break(kind, flow)
    BY <1>7
  <2>2. CASE ctx.loops = 0
    BY <1>1, <2>1, <2>2 DEF Break
  <2>3. CASE ctx.loops # 0
    BY <2>1, <2>3, BreakGoal
  <2> QED
    BY <2>2, <2>3
<1>8. CASE \E c : Runs(c)
  BY <1>8, RunsHushed
<1>9. CASE \/ \E kind \in {"and", "or", "not", "if"} : Testing(kind)
           \/ \E kind \in {"while", "until", "for"} : Loop(kind)
           \/ Sequence \/ Subshell \/ Pipeline \/ Substitution
           \/ CommandPrefix \/ Eval \/ Dot
  BY <1>8, <1>9 DEF Testing, Loop, Sequence, Subshell, Pipeline, Substitution, CommandPrefix, Eval, Dot
<1>10. CASE CallFunction
  BY <1>1, <1>8, <1>10 DEF CallFunction
<1> QED
  BY <1>2, <1>3, <1>4, <1>5, <1>6, <1>7, <1>9, <1>10 DEF Enter

(* What is being left, seen from one frame further out.                    *)
LEMMA AimsPop ==
  ASSUME NEW v, NEW c, NEW s, Stack(v, s), c.loops = LoopsOf(v, s), c.level \in Nat,
         NEW g \in Nat, Aims(v, c, s, g), NEW d, d.loops = LoopsOf(v, Tail(s)),
         ~Hides(Head(s)),
         IF IsLoop(Head(s)) THEN c.level > 0 /\ c.loops > 1 /\ d.level = c.level - 1
                            ELSE d.level = c.level
  PROVE  Aims(v, d, Tail(s), g) /\ g # Len(s)
<1> DEFINE f == Head(s)
           t == Tail(s)
           n == Len(s)
           k == n - g
<1>1. /\ s \in Seq(Frame(v)) /\ n \in Nat /\ n >= 1 /\ f = s[1] /\ t = Drop(s, 1)
      /\ t \in Seq(Frame(v)) /\ Len(t) = n - 1 /\ f \in Frame(v) /\ s = <<f>> \o t
  BY StackRead
<1>2. LoopsOf(v, s) = LoopsOf(v, t) + (IF IsLoop(f) THEN 1 ELSE 0) /\ LoopsOf(v, t) \in Nat
  <2> HIDE DEF f, t
  <2> QED
    BY <1>1, Counts DEF f
<1>3. /\ g \in 1 .. n /\ c.loops > 0 /\ \A j \in 1 .. k : ~Hides(s[j])
      /\ IsLoop(s[k + 1]) /\ LoopsOf(v, Drop(s, k)) = Outer(c) + 1
  BY DEF Aims
<1>4. d.loops \in Nat /\ c.loops \in Nat /\ c.level \in Nat
      /\ c.loops = d.loops + (IF IsLoop(f) THEN 1 ELSE 0)
  BY <1>2
<1>5. IF IsLoop(f) THEN c.level > 0 /\ c.loops > 1 /\ d.level = c.level - 1
                   ELSE d.level = c.level
  OBVIOUS
<1> HIDE DEF f
<1>6. Outer(d) = Outer(c) /\ d.loops > 0
  <2>1. CASE IsLoop(f)
    <3>1. c.level > 0 /\ c.loops > 1 /\ d.level = c.level - 1
      BY <1>5, <2>1
    <3>2. c.loops = d.loops + 1
      BY <1>4, <2>1
    <3> QED
      BY <1>4, <3>1, <3>2 DEF Outer
  <2>2. CASE ~IsLoop(f)
    <3>1. d.level = c.level
      BY <1>5, <2>2
    <3>2. c.loops = d.loops
      BY <1>4, <2>2
    <3> QED
      BY <1>3, <1>4, <3>1, <3>2 DEF Outer
  <2> QED
    BY <2>1, <2>2
<1> HIDE DEF t, n
<1>7. g # n
  <2> SUFFICES ASSUME g = n PROVE FALSE
    OBVIOUS
  <2>1. k = 0 /\ k + 1 = 1
    BY <1>1
  <2>2. IsLoop(f)
    BY <1>1, <1>3, <2>1
  <2>3. LoopsOf(v, s) = Outer(c) + 1
    BY <1>1, <1>3, <2>1, DropNone
  <2> QED
    BY <1>4, <1>5, <2>2, <2>3 DEF Outer
<1>8. g \in 1 .. Len(t) /\ Len(t) - g = k - 1 /\ k \in 1 .. n /\ k - 1 \in 0 .. n - 1 /\ 1 \in 0 .. n
  BY <1>1, <1>3, <1>7
<1>9. \A j \in 1 .. n - 1 : t[j] = s[j + 1]
  <2>1. 1 \in 0 .. Len(s) /\ s \in Seq(Frame(v)) /\ n = Len(s)
    BY <1>1, <1>8 DEF n
  <2> QED
    BY <1>1, <2>1, DropType
<1>10. Drop(t, k - 1) = Drop(s, k)
  <2>1. 1 \in 0 .. Len(s) /\ k - 1 \in 0 .. Len(s) - 1
    BY <1>8 DEF n
  <2>2. Drop(Drop(s, 1), k - 1) = Drop(s, (k - 1) + 1)
    BY <1>1, <2>1, DropDrop
  <2>3. (k - 1) + 1 = k
    BY <1>8
  <2> QED
    BY <1>1, <2>2, <2>3
<1>11. \A j \in 1 .. Len(t) - g : ~Hides(t[j])
  <2>0. n \in Nat /\ k \in 1 .. n
    BY <1>1, <1>8
  <2>1. ASSUME NEW j \in 1 .. k - 1 PROVE ~Hides(t[j])
    <3> HIDE DEF k
    <3>1. j \in 1 .. n - 1 /\ j + 1 \in 1 .. k
      BY <2>0
    <3> QED
      BY <1>3, <1>9, <3>1
  <2> HIDE DEF k
  <2> QED
    BY <1>8, <2>1
<1>12. IsLoop(t[Len(t) - g + 1])
  <2>1. Len(t) - g + 1 = k /\ k \in 1 .. n - 1
    BY <1>1, <1>3, <1>8
  <2> QED
    BY <1>3, <1>9, <2>1
<1>13. LoopsOf(v, Drop(t, Len(t) - g)) = Outer(d) + 1
  BY <1>3, <1>6, <1>8, <1>10
<1> HIDE DEF k
<1>14. Aims(v, d, t, g)
  BY <1>6, <1>8, <1>11, <1>12, <1>13 DEF Aims
<1> QED
  BY <1>7, <1>14 DEF t, n

(* The last loop to be left is the one.                                    *)
LEMMA AimsHere ==
  ASSUME NEW v, NEW c, NEW s, Stack(v, s), c.loops = LoopsOf(v, s), c.level \in Nat,
         NEW g \in Nat, Aims(v, c, s, g), IsLoop(Head(s)), ~(c.level > 0 /\ c.loops > 1)
  PROVE  g = Len(s)
<1> DEFINE k == Len(s) - g
           M == {f \in Frame(v) : IsLoop(f)}
           S == {f \in Frame(v) : Hides(f)}
           D == {i \in 1 .. k : s[i] \in M}
<1>1. /\ s \in Seq(Frame(v)) /\ Len(s) \in Nat /\ Len(s) >= 1 /\ Head(s) = s[1]
      /\ \A i \in 1 .. Len(s) : s[i] \in Frame(v)
  BY StackRead
<1>2. /\ g \in 1 .. Len(s) /\ c.loops > 0 /\ \A j \in 1 .. k : ~Hides(s[j])
      /\ LoopsOf(v, Drop(s, k)) = Outer(c) + 1
  BY DEF Aims
<1>3. k \in 0 .. Len(s) /\ \A j \in 1 .. k : s[j] \notin S
  BY <1>1, <1>2
<1>4. LoopsOf(v, s) = Cardinality(D) + LoopsOf(v, Drop(s, k)) /\ Cardinality(D) \in Nat
  <2> HIDE DEF M, S, k
  <2>1. /\ Counted(s, M, S) = Cardinality({i \in 1 .. k : s[i] \in M}) + Counted(Drop(s, k), M, S)
        /\ Cardinality({i \in 1 .. k : s[i] \in M}) \in Nat
    BY <1>1, <1>3, CountSplit
  <2> QED
    BY <2>1 DEF LoopsOf, M, S
<1>5. LoopsOf(v, s) \in Nat
  BY <1>1, CountedType DEF LoopsOf
<1>6. Outer(c) + 1 = c.loops
  BY <1>2, <1>5 DEF Outer
<1>7. Cardinality(D) = 0
  <2> HIDE DEF D, k
  <2> QED
    BY <1>2, <1>4, <1>5, <1>6
<1>8. ASSUME k > 0 PROVE FALSE
  <2>1. 1 \in D
    BY <1>1, <1>3, <1>8
  <2>2. IsFiniteSet(D)
    <3>1. D \in SUBSET (1 .. k)
      OBVIOUS
    <3>2. k \in Int
      BY <1>3
    <3> HIDE DEF D, k
    <3>3. IsFiniteSet(1 .. k)
      BY <3>2, FS_Interval
    <3> QED
      BY <3>1, <3>3, FS_Subset
  <2> HIDE DEF D
  <2> QED
    BY <1>7, <2>1, <2>2, FS_EmptySet
<1> QED
  BY <1>1, <1>2, <1>3, <1>8

(* What is being left is aimed at its loop.                                *)
Aimed == Jumping /\ Quiet(vocab) => Aims(vocab, ctx, stack, goal)

LEMMA JumpShell ==
  ASSUME Shell, Jumping
  PROVE  /\ Stack(vocab, stack) /\ ctx.loops = LoopsOf(vocab, stack) /\ ctx.level \in Nat
         /\ goal \in Nat /\ Top = Head(stack) /\ at = "ret"
BY ShellRead DEF Jumping, Good, Matches, Shell

LEMMA NextAimed == Shell /\ Aimed /\ [Next]_vars => Aimed'
<1> SUFFICES ASSUME Shell, Aimed, [Next]_vars, Jumping', Quiet(vocab)'
             PROVE  Aims(vocab', ctx', stack', goal')
  BY DEF Aimed, Jump
<1>1. CASE UNCHANGED vars
  BY <1>1 DEF vars, Aimed, Jumping, Quiet
<1>2. CASE Next
  <2>0. at # "over" /\ ~Hushed
    BY <1>2, EnterLands, AfterLands DEF Next, Ended, Signal, Jumping, Hushed, vars
  <2>1. vocab' = vocab /\ Lands(vocab) /\ at' # "over"
    BY <1>2, <2>0, NextLands DEF Jumping
  <2>2. CASE Enter
    BY <2>0, <2>1, <2>2, EnterAims
  <2>3. CASE After
    <3>1. Quiet(vocab)
      BY <2>1 DEF Quiet
    <3>2. Travels
      BY <2>0, <2>3, <3>1, AfterTravels
    <3>3. Aims(vocab, ctx, stack, goal) /\ Jumping
      BY <3>1, <3>2 DEF Aimed, Travels
    <3>4. ctx'.loops = LoopsOf(vocab, Tail(stack))
      BY <2>1, <3>2 DEF Lands, Good, Matches, Travels
    <3>5. Aims(vocab, ctx', Tail(stack), goal)
      BY <3>2, <3>3, <3>4, JumpShell, AimsPop DEF Travels
    <3> QED
      BY <2>1, <3>2, <3>5 DEF Travels
  <2>4. CASE Signal
    BY <2>0, <2>4, RunsHushed DEF Signal
  <2>5. CASE Ended
    BY <2>0, <2>5 DEF Ended
  <2> QED
    BY <1>2, <2>2, <2>3, <2>4, <2>5 DEF Next
<1> QED
  BY <1>1, <1>2

LEMMA InitAimed == Init => Aimed
BY DEF Init, Aimed, Jumping

LEMMA SpecAimed == Spec => []Aimed
<1>1. Spec => []Shell
  BY SpecShell
<1> QED
  BY <1>1, InitAimed, NextAimed, PTL DEF Spec

(* No trap action comes between a break and its loop: no signal is trapped *)
(* at all, or a script that sets traps leaves no loop with break.          *)
BreaksUntrapped ==
  MaxSignals = 0 \/ \A v \in Vocabularies : "trap" \notin v \/ v \cap Jumps = {}

LeavesTheirs ==
  (at = "ret" /\ rc \in {BREAK, CONTINUE} /\ IsLoop(Top) /\ Len(stack') <= Len(stack))
   => ((at' = "run" \/ rc' = 0) <=> Len(stack) = goal)

LEMMA LoopFlowLeaves ==
  ASSUME Shell, Jumping, IsLoop(Top), Aims(vocab, ctx, stack, goal),
         NEW c, c.level = ctx.level, c.loops = ctx.loops, NEW r, LoopFlow(c, r)
  PROVE  (at' = "run" \/ rc' = 0) <=> Len(stack) = goal
<1>1. rc # RETURN /\ rc # 0
  BY JumpRead DEF Jumping
<1>2. CASE ctx.level > 0 /\ ctx.loops > 1
  <2>1. at' = "ret" /\ rc' = rc
    BY <1>1, <1>2 DEF LoopFlow, Leave, LeaveWith, Result
  <2> DEFINE d == [loops |-> LoopsOf(vocab, Tail(stack)), level |-> ctx.level - 1]
  <2>2. d.loops = LoopsOf(vocab, Tail(stack)) /\ d.level = ctx.level - 1
    OBVIOUS
  <2> HIDE DEF d
  <2>3. ~Hides(Top)
    BY LoopRead DEF Jumping
  <2>4. goal # Len(stack)
    BY <1>2, <2>2, <2>3, JumpShell, AimsPop
  <2> QED
    BY <1>1, <2>1, <2>4
<1>3. CASE ~(ctx.level > 0 /\ ctx.loops > 1)
  <2>1. goal = Len(stack)
    BY <1>3, JumpShell, AimsHere
  <2>2. (\E d : Result(d, 0)) \/ (\E d : Runs(d))
    BY <1>1, <1>3 DEF LoopFlow, Leave, LeaveWith, Turn
  <2> QED
    BY <2>1, <2>2 DEF Result, Runs
<1> QED
  BY <1>2, <1>3

LEMMA NextLeaves == BreaksUntrapped => (Shell /\ Aimed /\ [Next]_vars => [LeavesTheirs]_vars)
<1> SUFFICES ASSUME BreaksUntrapped, Shell, Aimed, Next,
                    Jumping, IsLoop(Top), Len(stack') <= Len(stack)
             PROVE  (at' = "run" \/ rc' = 0) <=> Len(stack) = goal
  BY DEF LeavesTheirs, Jumping, Jump
<1>1. at = "ret" /\ rc \in Results(vocab) /\ vocab \in Vocabularies /\ Len(stack) \in Nat
      /\ Stack(vocab, stack) /\ stack \in Seq(Frame(vocab))
  BY JumpShell, StackRead DEF Shell
<1>2. vocab \cap Jumps # {}
  BY <1>1, Results0 DEF Jumping, Jump
<1>3. Quiet(vocab)
  BY <1>1, <1>2 DEF BreaksUntrapped, Quiet
<1>4. Aims(vocab, ctx, stack, goal)
  BY <1>3 DEF Aimed
<1>5. ~Signal
  <2> SUFFICES ASSUME Signal PROVE FALSE
    OBVIOUS
  <2>1. PICK f : stack' = <<f>> \o stack
    BY DEF Signal, Push
  <2> DEFINE F == Frame(vocab) \cup {f}
  <2>2. stack \in Seq(F) /\ f \in F
    <3>1. \A i \in 1 .. Len(stack) : stack[i] \in F
      BY <1>1, ElementOfSeq
    <3> QED
      BY <1>1, <3>1
  <2> HIDE DEF F
  <2>3. Len(stack') = Len(stack) + 1
    BY <2>1, <2>2, Cons
  <2> QED
    BY <1>1, <2>3
<1>6. AfterCondition \/ AfterBody
  BY <1>1, <1>5, EnterMoves DEF Next, Ended, After, AfterAndOr, AfterNot, AfterLeft, AfterIf,
     NextWord, AfterSubshell, AfterStage, AfterLast, AfterCall, AfterCommandPrefix, AfterUnit,
     EndOfText, ParseError, Returned, IsLoop
<1>7. Flow(rc)
  BY JumpRead DEF Jumping
<1>8. CASE AfterCondition
  <2> DEFINE c == [ctx EXCEPT !.inCond = Top.inCond]
  <2>1. LoopFlow(c, Top.rc)
    BY <1>7, <1>8 DEF AfterCondition
  <2>2. c.level = ctx.level /\ c.loops = ctx.loops
    BY <1>1, ShellRead DEF Ctx
  <2> HIDE DEF c
  <2> QED
    BY <1>4, <2>1, <2>2, LoopFlowLeaves
<1>9. CASE AfterBody
  <2>1. LoopFlow(ctx, 0)
    BY <1>7, <1>9 DEF AfterBody
  <2> QED
    BY <1>4, <2>1, LoopFlowLeaves
<1> QED
  BY <1>6, <1>8, <1>9

(* break n and continue n, through lists, functions, eval, sourced files   *)
(* and the loops between (break_level), take effect at the n-th loop       *)
(* around them and at no other; and the counters keep to the nesting.  A   *)
(* trap action is taken not to interrupt a break on its way to its loop.   *)
THEOREM CountersAreFollowed == BreaksUntrapped => (Spec => CountersFollowNesting)
<1>1. ASSUME BreaksUntrapped PROVE Spec => CountersFollowNesting
  <2>1. Shell /\ Aimed /\ [Next]_vars => [LeavesTheirs]_vars
    BY <1>1, NextLeaves
  <2>2. [][LeavesTheirs]_vars => BreaksLeaveTheirLoop
    BY PTL DEF BreaksLeaveTheirLoop, LeavesTheirs
  <2>3. Spec => []ContextMatchesNesting
    BY SpecShell, NestingOfShell, PTL
  <2>4. Spec => BreaksLeaveTheirLoop
    BY <2>1, <2>2, SpecShell, SpecAimed, PTL DEF Spec
  <2> QED
    BY <2>3, <2>4 DEF CountersFollowNesting
<1> QED
  BY <1>1

-----------------------------------------------------------------------------
(* set -e.                                                                 *)

(* Scripts in which and_or_exempt is never left over from an earlier list: *)
(* no loops, tests or trap actions, whose contexts outlive a list, no      *)
(* substitutions, and no status but that of a pipeline's last command.     *)
Careful(v) == /\ v \cap {"if", "while", "until", "for", "trap", "subst"} = {}
              /\ ~Pipefail \/ "pipe" \notin v

Calm(c) == ~c.exempt /\ ~c.parseError

Sound(f) == /\ f.k = "text" => f.for \in {"eval", "dot"}
            /\ f.k \in Boundary => Calm(f.parent)

Frames(s) == \A i \in 1 .. Len(s) - 1 : Sound(s[i])

(* Between two steps, and after one.                                       *)
Settled ==
  /\ Frames(stack) /\ ~ctx.parseError
  /\ at = "run" \/ Flow(rc) => ~ctx.exempt
  /\ at = "ret" /\ rc \in Status \ {0} => (ignored <=> ctx.inCond \/ ctx.exempt)

Settles == at' # "over" => Settled'

(* in_cond holds where -e is ignored.                                      *)
LEMMA TestedHere ==
  ASSUME NEW v, NEW s, Stack(v, s), "subst" \notin v
  PROVE  TestedBy(s) <=> TestedIn(v, s)
<1> DEFINE M == {f \in Frame(v) : IsTest(f)}
           S == {f \in Frame(v) : f.k = "subst"}
           Z == Seen(s, M, S)
<1>1. s \in Seq(Frame(v)) /\ \A i \in 1 .. Len(s) : s[i] \in Frame(v)
  BY StackRead
<1>2. \A i \in 1 .. Len(s) : s[i] \notin S
  <2> TAKE i \in 1 .. Len(s)
  <2>1. s[i].k = "subst" => Node(s[i]) \in v
    BY <1>1, FrameRead
  <2> QED
    BY <2>1 DEF Node
<1>3. TestedBy(s) <=> Z # {}
  <2>1. TestedBy(s) <=> \E i \in 1 .. Len(s) : IsTest(s[i])
    BY DEF TestedBy, IsTest, Tests
  <2>2. Len(s) \in Nat
    BY StackRead
  <2>3. \A i \in 1 .. Len(s) : IsTest(s[i]) <=> i \in Z
    <3>1. \A i \in 1 .. Len(s) : s[i] \in M <=> IsTest(s[i])
      BY <1>1
    <3> HIDE DEF M, S
    <3> QED
      BY <1>2, <2>2, <3>1 DEF Seen
  <2>4. \A i \in Z : i \in 1 .. Len(s)
    BY DEF Seen
  <2> HIDE DEF Z
  <2> QED
    BY <2>1, <2>3, <2>4
<1>4. IsFiniteSet(Z) /\ Cardinality(Z) \in Nat
  <2> HIDE DEF M, S
  <2> QED
    BY <1>1, CountedType DEF Counted
<1>5. Cardinality(Z) = 0 <=> Z = {}
  <2> HIDE DEF Z
  <2> QED
    BY <1>4, FS_EmptySet
<1>6. TestedIn(v, s) <=> Cardinality(Z) > 0
  BY DEF TestedIn, Counted
<1> HIDE DEF Z
<1> QED
  BY <1>3, <1>4, <1>5, <1>6

LEMMA RunsSettles ==
  ASSUME NEW c, Frames(stack'), Calm(c), Runs(c)
  PROVE  Settles
BY DEF Settles, Settled, Calm, Runs

LEMMA ResultRead ==
  ASSUME NEW c \in Ctx(vocab), NEW r, Result(c, r)
  PROVE  /\ at' = "ret" /\ rc' = r
         /\ ctx'.exempt = c.exempt /\ ctx'.parseError = c.parseError /\ ctx'.inCond = c.inCond
BY DEF Result, Published, Ctx

LEMMA FlowSettles ==
  ASSUME NEW c \in Ctx(vocab), NEW r, Result(c, r), Flow(r), Frames(stack'), Calm(c)
  PROVE  Settles
BY ResultRead, JumpRead DEF Settles, Settled, Calm

(* A failure of a command in its own right.                                *)
LEMMA FreshSettles ==
  ASSUME NEW c \in Ctx(vocab), NEW r, ~Flow(r), Result(c, r), Fresh(r), Frames(stack'), Calm(c),
         Lands(vocab), Careful(vocab)
  PROVE  Settles
<1>1. /\ at' = "ret" /\ rc' = r /\ ~ctx'.exempt /\ ~ctx'.parseError
  BY ResultRead DEF Calm
<1>2. Good(vocab, ctx', stack')
  BY <1>1 DEF Lands
<1>3. ctx'.inCond = TestedIn(vocab, stack') /\ ctx'.inCond \in BOOLEAN
  BY <1>2, CtxRead DEF Good, Matches
<1>4. TestedBy(stack') <=> TestedIn(vocab, stack')
  BY <1>2, TestedHere DEF Careful, Good
<1>5. r # 0 => (ignored' <=> ctx'.inCond)
  BY <1>3, <1>4 DEF Fresh
<1> QED
  BY <1>1, <1>5 DEF Settles, Settled

(* A result that is handed on.                                             *)
LEMMA PassSettles ==
  ASSUME Settled, at = "ret", Frames(stack'), NEW c \in Ctx(vocab), Result(c, rc), ignored' = ignored,
         ~c.parseError, c.exempt = ctx.exempt, Flow(rc) \/ c.inCond = ctx.inCond
  PROVE  Settles
BY ResultRead, JumpRead DEF Settles, Settled

(* The frames.                                                             *)
LEMMA FramesRead ==
  ASSUME Shell, at # "over", Settled
  PROVE  /\ Top.k # "text" => Sound(Top) /\ Frames(Tail(stack))
         /\ Top.k = "text" => \/ Top.for \in {"eval", "dot"} /\ Frames(Tail(stack))
                              \/ Boundaries = {} /\ IsScript(Top)
<1>1. /\ stack \in Seq(Frame(vocab)) /\ Len(stack) \in Nat /\ Len(stack) >= 1
      /\ IsScript(stack[Len(stack)]) /\ Top = stack[1]
      /\ Tail(stack) = Drop(stack, 1) /\ Len(Tail(stack)) = Len(stack) - 1
  BY ShellRead, StackRead DEF Stack, Top
<1>2. \A i \in 1 .. Len(stack) - 1 : Sound(stack[i])
  BY DEF Settled, Frames
<1>3. Frames(Tail(stack))
  <2>1. \A i \in 1 .. Len(stack) - 1 : Tail(stack)[i] = stack[i + 1]
    <3>1. 1 \in 0 .. Len(stack)
      BY <1>1
    <3> QED
      BY <1>1, <3>1, DropType
  <2> SUFFICES ASSUME NEW i \in 1 .. Len(Tail(stack)) - 1 PROVE Sound(Tail(stack)[i])
    BY DEF Frames
  <2>2. i \in 1 .. Len(stack) - 1 /\ i + 1 \in 1 .. Len(stack) - 1
    BY <1>1
  <2> QED
    BY <1>2, <2>1, <2>2
<1>4. CASE Len(stack) = 1
  <2>1. IsScript(Top) /\ Top.k \notin Boundary
    BY <1>1, <1>4 DEF IsScript, Boundary
  <2>2. Boundaries = {}
    BY <1>1, <1>4, <2>1 DEF Boundaries
  <2> QED
    BY <2>1, <2>2 DEF IsScript
<1>5. CASE Len(stack) # 1
  <2>0. Len(stack) \in Nat /\ Len(stack) >= 1
    BY <1>1
  <2>1. 1 \in 1 .. Len(stack) - 1
    BY <2>0, <1>5
  <2>2. Sound(Top)
    BY <1>1, <1>2, <2>1
  <2> QED
    BY <1>3, <2>2 DEF Sound
<1> QED
  BY <1>4, <1>5

LEMMA PushFrames ==
  ASSUME Shell, at # "over", Settled, NEW f \in Frame(vocab), Sound(f), Push(f)
  PROVE  Frames(stack')
<1>1. stack \in Seq(Frame(vocab)) /\ Len(stack) \in Nat /\ stack' = <<f>> \o stack
  BY ShellRead, StackRead DEF Push
<1>2. /\ Len(stack') = Len(stack) + 1 /\ stack'[1] = f
      /\ \A i \in 1 .. Len(stack) : stack'[i + 1] = stack[i]
  BY <1>1, Cons
<1> SUFFICES ASSUME NEW i \in 1 .. Len(stack') - 1 PROVE Sound(stack'[i])
  BY DEF Frames
<1>3. CASE i = 1
  BY <1>2, <1>3
<1>4. CASE i # 1
  <2> DEFINE j == i - 1
  <2>1. j \in 1 .. Len(stack) - 1 /\ j \in 1 .. Len(stack) /\ i = j + 1
    BY <1>1, <1>2, <1>4
  <2> HIDE DEF j
  <2>2. stack'[i] = stack[j]
    BY <1>2, <2>1
  <2> QED
    BY <2>1, <2>2 DEF Settled, Frames
<1> QED
  BY <1>3, <1>4

(* The end of a process.                                                   *)
LEMMA GoneSettles ==
  ASSUME Shell, at # "over", Settled, Careful(vocab), NEW code \in Status, Gone(code), Lands(vocab)
  PROVE  Settles
<1>1. CASE Boundaries = {}
  BY <1>1 DEF Gone, Settles
<1>2. CASE Boundaries # {}
  <2> DEFINE n == Innermost
             f == stack[n]
             rest == SubSeq(stack, n + 1, Len(stack))
             g == [k |-> "last", status |-> code]
  <2>1. /\ stack \in Seq(Frame(vocab)) /\ Len(stack) \in Nat /\ IsScript(stack[Len(stack)])
        /\ \A i \in 1 .. Len(stack) : stack[i] \in Frame(vocab)
    BY ShellRead, StackRead DEF Stack
  <2>2. Boundaries \in SUBSET Nat
    BY <2>1 DEF Boundaries
  <2>3. n \in Boundaries
    BY <1>2, <2>2, LeastIn DEF Innermost
  <2>4. n \in 1 .. Len(stack) /\ f.k \in Boundary
    BY <2>3 DEF Boundaries
  <2>5. n # Len(stack)
    BY <2>1, <2>4 DEF Boundary, IsScript
  <2> HIDE DEF n
  <2>6. n \in 1 .. Len(stack) - 1 /\ n \in 0 .. Len(stack)
    BY <2>1, <2>4, <2>5
  <2>7. /\ rest \in Seq(Frame(vocab)) /\ Len(rest) = Len(stack) - n
        /\ \A i \in 1 .. Len(stack) - n : rest[i] = stack[i + n]
    BY <2>1, <2>6, DropType DEF Drop
  <2>8. Calm(f.parent) /\ f.parent \in Ctx(vocab)
    <3>1. Sound(f)
      BY <2>6 DEF Settled, Frames
    <3>2. f \in Frame(vocab)
      BY <2>1, <2>4
    <3> HIDE DEF f
    <3> QED
      BY <2>4, <3>1, <3>2, FrameRead DEF Sound
  <2>9. Frames(rest)
    <3> SUFFICES ASSUME NEW i \in 1 .. Len(rest) - 1 PROVE Sound(rest[i])
      BY DEF Frames
    <3>1. i \in 1 .. Len(stack) - n /\ i + n \in 1 .. Len(stack) - 1
      BY <2>1, <2>6, <2>7
    <3>2. rest[i] = stack[i + n]
      BY <2>7, <3>1
    <3> QED
      BY <3>1, <3>2 DEF Settled, Frames
  <2>10. IF f.k = "stage"
         THEN stack' = <<g>> \o rest /\ Runs(f.parent)
         ELSE stack' = rest /\ Result(f.parent, code) /\ Fresh(code)
    BY <1>2 DEF Gone, n
  <2>11. Sound(g)
    BY DEF Sound, Boundary
  <2>12. Node(f) \in vocab
    <3>1. f \in Frame(vocab) /\ f.k # "text"
      BY <2>1, <2>4 DEF Boundary
    <3> HIDE DEF f
    <3> QED
      BY <3>1, FrameRead
  <2> HIDE DEF f, rest, g
  <2>13. CASE f.k = "stage"
    <3>1. g \in Frame(vocab)
      BY <2>12, <2>13, MakeOther DEF Node, g
    <3>2. /\ Len(stack') = Len(rest) + 1 /\ stack'[1] = g
          /\ \A i \in 1 .. Len(rest) : stack'[i + 1] = rest[i]
      BY <2>7, <2>10, <2>13, <3>1, Cons
    <3>3. Frames(stack')
      <4> SUFFICES ASSUME NEW i \in 1 .. Len(stack') - 1 PROVE Sound(stack'[i])
        BY DEF Frames
      <4>0. Len(rest) \in Nat
        BY <2>7, LenProperties
      <4>1. CASE i = 1
        BY <2>11, <3>2, <4>1
      <4>2. CASE i # 1
        <5> DEFINE j == i - 1
        <5>1. j \in 1 .. Len(rest) - 1 /\ j \in 1 .. Len(rest) /\ i = j + 1
          BY <3>2, <4>0, <4>2
        <5> HIDE DEF j
        <5>2. stack'[i] = rest[j]
          BY <3>2, <5>1
        <5> QED
          BY <2>9, <5>1, <5>2 DEF Frames
      <4> QED
        BY <4>1, <4>2
    <3> QED
      BY <2>8, <2>10, <2>13, <3>3, RunsSettles
  <2>14. CASE f.k # "stage"
    <3>1. ~Flow(code)
      BY JumpRead
    <3> QED
      BY <2>8, <2>9, <2>10, <2>14, <3>1, FreshSettles
  <2> QED
    BY <2>13, <2>14
<1> QED
  BY <1>1, <1>2

-----------------------------------------------------------------------------
(* A step keeps and_or_exempt settled.                                     *)

Tidy == Shell /\ at # "over" /\ Settled /\ Careful(vocab)

LEMMA TidyRead ==
  ASSUME Tidy
  PROVE  /\ Frames(stack) /\ ctx \in Ctx(vocab) /\ ~ctx.parseError
         /\ at = "run" => Calm(ctx)
         /\ ctx.exitTrap # Armed /\ ctx.usrTrap # Armed
         /\ vocab \cap {"if", "while", "until", "for", "trap", "subst"} = {}
<1>1. ctx \in Ctx(vocab)
  BY ShellRead DEF Tidy
<1>2. vocab \cap {"if", "while", "until", "for", "trap", "subst"} = {}
  BY DEF Tidy, Careful
<1>3. "trap" \notin vocab
  BY <1>2
<1>4. ctx.exitTrap # Armed /\ ctx.usrTrap # Armed
  BY <1>1, <1>3, CtxRead
<1>5. Frames(stack) /\ ~ctx.parseError /\ (at = "run" => Calm(ctx))
  BY DEF Tidy, Settled, Calm
<1> QED
  BY <1>1, <1>2, <1>4, <1>5

LEMMA ExitSettles ==
  ASSUME Tidy, NEW c, c.exitTrap # Armed, NEW code \in Status,
         ExitWithTrap(c, code) \/ EndsNormally(c, code), Lands(vocab)
  PROVE  Settles
<1>1. Gone(code)
  BY DEF ExitWithTrap, EndsNormally
<1> QED
  BY <1>1, GoneSettles DEF Tidy

LEMMA CompletesSettles ==
  ASSUME Tidy, NEW c \in Ctx(vocab), Calm(c), NEW r \in Status, Completes(c, r), Lands(vocab)
  PROVE  Settles
<1>1. Result(c, r) /\ stack' = stack /\ Fresh(r)
  BY DEF Completes
<1>2. Frames(stack') /\ ~Flow(r)
  BY <1>1, TidyRead, JumpRead DEF Frames
<1> QED
  BY <1>1, <1>2, FreshSettles DEF Tidy

LEMMA SentinelSettles ==
  ASSUME Tidy, at = "run", at' = "ret", Flow(rc'), stack' = stack,
         ctx'.exempt = ctx.exempt, ctx'.parseError = ctx.parseError
  PROVE  Settles
<1>1. Frames(stack') /\ Calm(ctx) /\ rc' \notin Status
  BY TidyRead, JumpRead DEF Frames
<1> QED
  BY <1>1 DEF Settles, Settled, Calm

LEMMA PushSettles ==
  ASSUME Tidy, NEW f \in Frame(vocab), Sound(f), Push(f), NEW c, Calm(c), Runs(c)
  PROVE  Settles
<1>1. Frames(stack')
  BY PushFrames DEF Tidy
<1> QED
  BY <1>1, RunsSettles

LEMMA EnterSettles ==
  ASSUME Tidy, Enter
  PROVE  Settles
<1>1. Lands(vocab) /\ at = "run"
  BY EnterLands, EnterMoves DEF Tidy
<1>2. /\ Calm(ctx) /\ ctx \in Ctx(vocab) /\ ctx.exitTrap # Armed
      /\ vocab \cap {"if", "while", "until", "for", "trap", "subst"} = {}
  BY <1>1, TidyRead
<1>3. 0 \in Status /\ 1 \in Status /\ 2 \in Status
  BY DEF Status
<1>4. CASE Command
  <2>1. PICK r \in {0, 1} : Completes(ctx, r)
    BY <1>4 DEF Command
  <2> QED
    BY <1>1, <1>2, <1>3, <2>1, CompletesSettles
<1>5. CASE SetErrexit
  <2>1. PICK b \in BOOLEAN : Completes([ctx EXCEPT !.errexit = b], 0)
    BY <1>5 DEF SetErrexit
  <2> DEFINE c == [ctx EXCEPT !.errexit = b]
  <2>2. "set" \in vocab
    BY <1>5 DEF SetErrexit, Has
  <2>3. c \in Ctx(vocab) /\ Calm(c)
    BY <1>2, <2>2 DEF Ctx, Options, Calm
  <2> HIDE DEF c
  <2>4. Completes(c, 0)
    BY <2>1 DEF c
  <2> QED
    BY <1>1, <1>3, <2>3, <2>4, CompletesSettles
<1>6. CASE Trap
  BY <1>2, <1>6 DEF Trap, Has
<1>7. CASE Return
  <2>1. at' = "ret" /\ rc' = RETURN /\ stack' = stack
        /\ \E code \in Operand : ctx' = [ctx EXCEPT !.last = code]
    BY <1>7 DEF Return
  <2>2. ctx'.exempt = ctx.exempt /\ ctx'.parseError = ctx.parseError
    BY <1>2, <2>1 DEF Ctx
  <2>3. Flow(RETURN)
    BY DEF Flow, RETURN, BREAK
  <2> QED
    BY <1>1, <2>1, <2>2, <2>3, SentinelSettles
<1>8. CASE Exit
  <2>1. PICK code \in Operands \cup {NakedExitCode} : ExitWithTrap(ctx, code)
    BY <1>8 DEF Exit
  <2>2. code \in Status
    BY <1>2, <2>1, ControlFlowAssumption, CtxRead DEF NakedExitCode, Status
  <2> QED
    BY <1>1, <1>2, <2>1, <2>2, ExitSettles
<1>9. CASE Fatal
  <2>1. PICK code \in {1, 2} : \/ Result(ctx, 1) /\ UNCHANGED stack /\ Fresh(1)
                               \/ ExitWithTrap(ctx, code)
    BY <1>9 DEF Fatal
  <2>2. code \in Status
    BY <1>3
  <2>3. CASE Result(ctx, 1) /\ UNCHANGED stack /\ Fresh(1)
    <3>1. Frames(stack') /\ ~Flow(1)
      BY <1>3, <2>3, TidyRead, JumpRead DEF Frames
    <3> QED
      BY <1>1, <1>2, <2>3, <3>1, FreshSettles DEF Tidy
  <2> QED
    BY <1>1, <1>2, <2>1, <2>2, <2>3, ExitSettles
<1>10. CASE DotMissing
  <2> DEFINE c == [ctx EXCEPT !.last = 1]
  <2>1. ExitWithTrap(c, 1)
    BY <1>10 DEF DotMissing
  <2>2. c.exitTrap # Armed
    BY <1>2 DEF Ctx
  <2> HIDE DEF c
  <2> QED
    BY <1>1, <1>3, <2>1, <2>2, ExitSettles
<1>11. ASSUME NEW kind, NEW flow \in {BREAK, CONTINUE}, Break(kind, flow) PROVE Settles
  <2>1. CASE Completes(ctx, 0)
    BY <1>1, <1>2, <1>3, <2>1, CompletesSettles
  <2>2. CASE ~Completes(ctx, 0)
    <3>1. /\ at' = "ret" /\ rc' = flow /\ stack' = stack
          /\ \E n \in 1 .. MaxLevel : ctx' = [ctx EXCEPT !.level = BreakLevel(n)]
      BY <1>11, <2>2 DEF Break
    <3>2. ctx'.exempt = ctx.exempt /\ ctx'.parseError = ctx.parseError
      BY <1>2, <3>1 DEF Ctx
    <3>3. Flow(flow)
      BY DEF Flow, BREAK, CONTINUE
    <3> QED
      BY <1>1, <3>1, <3>2, <3>3, SentinelSettles
  <2> QED
    BY <2>1, <2>2
<1>12. ASSUME NEW kind \in {"and", "or", "not", "if"}, Testing(kind) PROVE Settles
  <2> DEFINE f == [k |-> kind, inCond |-> ctx.inCond]
             c == [ctx EXCEPT !.inCond = TRUE]
  <2>1. Push(f) /\ Runs(c) /\ kind \in vocab
    BY <1>12 DEF Testing, Pushes, Has
  <2>2. f \in Frame(vocab)
    BY <1>1, <2>1, MakesFrames DEF Tidy, Tests
  <2>3. Sound(f) /\ Calm(c)
    BY <1>2 DEF Sound, Boundary, Ctx, Calm
  <2> HIDE DEF f, c
  <2> QED
    BY <2>1, <2>2, <2>3, PushSettles
<1>13. ASSUME NEW kind \in {"while", "until", "for"}, Loop(kind) PROVE FALSE
  BY <1>2, <1>13 DEF Loop, Pushes, Has
<1>14. CASE Sequence
  <2> DEFINE f == [k |-> "seq"]
  <2>1. Push(f) /\ Runs(ctx) /\ "seq" \in vocab
    BY <1>14 DEF Sequence, Pushes, Has
  <2>2. f \in Frame(vocab)
    BY <1>1, <2>1, MakesFrames DEF Tidy
  <2>3. Sound(f)
    BY DEF Sound, Boundary
  <2> HIDE DEF f
  <2> QED
    BY <1>2, <2>1, <2>2, <2>3, PushSettles
<1>15. Calm(Child(ctx))
  <2>1. ctx \in Ctx(vocab) /\ Calm(ctx)
    BY <1>2
  <2>2. Child(ctx).exempt = ctx.exempt /\ Child(ctx).parseError = ctx.parseError
    BY <2>1, ChildType
  <2> QED
    BY <2>1, <2>2 DEF Calm
<1>16. ASSUME NEW k \in {"sub", "stage"}, [k |-> k, parent |-> ctx] \in Frame(vocab),
              Push([k |-> k, parent |-> ctx]), Runs(Child(ctx))
       PROVE  Settles
  <2> DEFINE f == [k |-> k, parent |-> ctx]
  <2>1. f \in Frame(vocab) /\ Push(f)
    BY <1>16
  <2>2. Sound(f)
    BY <1>2, <1>16 DEF Sound, Boundary
  <2> HIDE DEF f
  <2> QED
    BY <1>15, <1>16, <2>1, <2>2, PushSettles
<1>17. CASE Subshell
  <2>1. [k |-> "sub", parent |-> ctx] \in Frame(vocab)
    BY <1>1, <1>17, MakesFrames DEF Tidy, Subshell, Pushes, Has
  <2> QED
    BY <1>16, <1>17, <2>1 DEF Subshell
<1>18. CASE Pipeline
  <2>1. [k |-> "stage", parent |-> ctx] \in Frame(vocab)
    BY <1>1, <1>18, MakesFrames DEF Tidy, Pipeline, Pushes, Has
  <2> QED
    BY <1>16, <1>18, <2>1 DEF Pipeline
<1>19. CASE Substitution
  BY <1>2, <1>19 DEF Substitution, Pushes, Has
<1>20. CASE CallFunction
  <2>1. CASE ctx.calls >= MaxCallDepth
    BY <1>1, <1>2, <1>3, <1>20, <2>1, CompletesSettles DEF CallFunction
  <2>2. CASE ~(ctx.calls >= MaxCallDepth)
    <3> DEFINE f == [k |-> "call", loops |-> ctx.loops, level |-> ctx.level]
               c == [ctx EXCEPT !.calls = @ + 1,
                     !.loops = IF NonLexical THEN @ ELSE 0,
                     !.level = IF NonLexical THEN @ ELSE 0]
    <3>1. Push(f) /\ Runs(c) /\ "call" \in vocab
      BY <1>20, <2>2 DEF CallFunction, Has
    <3>2. f \in Frame(vocab)
      BY <1>1, <3>1, MakesFrames DEF Tidy
    <3>3. Sound(f)
      BY DEF Sound, Boundary
    <3>4. Calm(c)
      BY <1>2 DEF Ctx, Calm
    <3> HIDE DEF f, c
    <3> QED
      BY <3>1, <3>2, <3>3, <3>4, PushSettles
  <2> QED
    BY <2>1, <2>2
<1>21. CASE CommandPrefix
  <2> DEFINE f == [k |-> "command", command |-> ctx.command]
             c == [ctx EXCEPT !.command = TRUE]
  <2>1. Push(f) /\ Runs(c) /\ "command" \in vocab
    BY <1>21 DEF CommandPrefix, Pushes, Has
  <2>2. f \in Frame(vocab)
    BY <1>1, <2>1, MakesFrames DEF Tidy
  <2>3. Sound(f) /\ Calm(c)
    BY <1>2 DEF Sound, Boundary, Ctx, Calm
  <2> HIDE DEF f, c
  <2> QED
    BY <2>1, <2>2, <2>3, PushSettles
<1>22. ASSUME NEW w \in {"eval", "dot"}, NEW c, Calm(c),
              Push([k |-> "text", for |-> w, command |-> ctx.command]), Runs(c)
       PROVE  Settles
  <2> DEFINE f == [k |-> "text", for |-> w, command |-> ctx.command]
  <2>1. f \in Frame(vocab) /\ Push(f)
    BY <1>1, <1>22, MakesFrames DEF Tidy
  <2>2. Sound(f)
    BY DEF Sound, Boundary
  <2> HIDE DEF f
  <2> QED
    BY <1>22, <2>1, <2>2, PushSettles
<1>23. CASE Eval
  <2> DEFINE c == RunString(ctx)
  <2>1. Calm(c)
    BY <1>2 DEF RunString, Ctx, Calm
  <2> HIDE DEF c
  <2> QED
    BY <1>22, <1>23, <2>1 DEF Eval, c
<1>24. CASE Dot
  <2> DEFINE c == [ctx EXCEPT !.command = FALSE]
  <2>1. Calm(c)
    BY <1>2 DEF Ctx, Calm
  <2> HIDE DEF c
  <2>2. Push([k |-> "text", for |-> "dot", command |-> ctx.command]) /\ Runs(c)
    BY <1>24 DEF Dot, c
  <2> QED
    BY <1>22, <2>1, <2>2
<1> QED
  BY <1>4, <1>5, <1>6, <1>7, <1>8, <1>9, <1>10, <1>11, <1>12, <1>13, <1>14, <1>17, <1>18,
     <1>19, <1>20, <1>21, <1>23, <1>24 DEF Enter

LEMMA BuiltinSettles ==
  ASSUME Tidy, NEW c \in Ctx(vocab), Calm(c), NEW r, Builtin(c, r), Frames(Tail(stack)), Lands(vocab)
  PROVE  Settles
<1>1. Result(c, r) /\ stack' = Tail(stack) /\ (~Flow(r) => Fresh(r))
  BY DEF Builtin, Pop
<1>2. Frames(stack')
  BY <1>1
<1> QED
  BY <1>1, <1>2, FlowSettles, FreshSettles DEF Tidy

LEMMA TextSettles ==
  ASSUME Tidy, Top.k = "text", NEW c0 \in Ctx(vocab), ~c0.exempt, c0.exitTrap # Armed,
         Top.for = "dot" => ~c0.parseError, NEW r, Top.for = "script" => r \in Status,
         TextReturns(c0, r), Lands(vocab)
  PROVE  Settles
<1> DEFINE f == Top
           c == [c0 EXCEPT !.command = f.command]
           d == [c EXCEPT !.parseError = FALSE]
<1>1. f \in Frame(vocab) /\ f.k = "text"
  BY ShellRead DEF Tidy
<1>2. \/ f.for \in {"eval", "dot"} /\ Frames(Tail(stack))
      \/ f.for = "script"
  BY FramesRead DEF Tidy, IsScript
<1>3. /\ f.for = "script" => EndsNormally(c, r)
      /\ f.for = "eval" => EvalReturns(c, r)
      /\ f.for = "dot" => Builtin(c, IF r \in {BREAK, CONTINUE} THEN 0 ELSE r)
  BY DEF TextReturns
<1> HIDE DEF f
<1>4. f.command \in BOOLEAN
  BY <1>1, FrameRead
<1>5. /\ c \in Ctx(vocab) /\ ~c.exempt /\ c.exitTrap # Armed /\ c.parseError = c0.parseError
  BY <1>4 DEF Ctx
<1> HIDE DEF c
<1>6. d \in Ctx(vocab) /\ Calm(d) /\ d.exitTrap # Armed
  BY <1>5 DEF Ctx, Calm
<1> HIDE DEF d
<1>7. CASE f.for = "script"
  <2>1. r \in Status
    BY <1>7 DEF f
  <2> QED
    BY <1>3, <1>5, <1>7, <2>1, ExitSettles
<1>8. CASE f.for = "eval"
  <2>1. ExitWithTrap(d, 2) \/ Builtin(d, r)
    BY <1>3, <1>8 DEF EvalReturns, d
  <2>2. 2 \in Status
    BY DEF Status
  <2>3. Frames(Tail(stack))
    BY <1>2, <1>8
  <2> QED
    BY <1>6, <2>1, <2>2, <2>3, ExitSettles, BuiltinSettles
<1>9. CASE f.for = "dot"
  <2>1. Frames(Tail(stack))
    BY <1>2, <1>9
  <2>2. Calm(c)
    BY <1>5, <1>9 DEF Calm, f
  <2> QED
    BY <1>3, <1>5, <1>9, <2>1, <2>2, BuiltinSettles
<1> QED
  BY <1>2, <1>7, <1>8, <1>9

LEMMA UnitSettles ==
  ASSUME Tidy, Top.k = "text", NEW r \in Status, UnitReturns(r), Lands(vocab)
  PROVE  Settles
<1> DEFINE c == [Looked(ctx) EXCEPT !.last = r]
           d == [c EXCEPT !.fired = TRUE]
<1>1. \/ Stops(ctx, r) /\ TextReturns(d, r)
      \/ Runs(c) /\ stack' = stack
  BY DEF UnitReturns
<1>2. ctx \in Ctx(vocab) /\ ~ctx.parseError /\ ctx.exitTrap # Armed /\ Frames(stack)
  BY TidyRead
<1>3. c \in Ctx(vocab) /\ Calm(c) /\ c.exitTrap # Armed
  BY <1>2 DEF Looked, Ctx, Calm
<1>4. Stops(ctx, r) => "set" \in vocab
  BY <1>2, CtxRead DEF Stops
<1> HIDE DEF c
<1>5. Stops(ctx, r) => d \in Ctx(vocab) /\ ~d.exempt /\ d.exitTrap # Armed /\ ~d.parseError
  BY <1>3, <1>4 DEF Ctx, Options, Calm
<1> HIDE DEF d
<1>6. CASE Stops(ctx, r) /\ TextReturns(d, r)
  BY <1>5, <1>6, TextSettles
<1>7. CASE Runs(c) /\ stack' = stack
  <2>1. Frames(stack')
    BY <1>2, <1>7
  <2> QED
    BY <1>3, <1>7, <2>1, RunsSettles
<1> QED
  BY <1>1, <1>6, <1>7

LEMMA AfterTextSettles ==
  ASSUME Tidy, AfterUnit \/ EndOfText \/ ParseError
  PROVE  Settles
<1>1. Lands(vocab)
  BY AfterLands DEF Tidy, After
<1>2. /\ ctx \in Ctx(vocab) /\ ~ctx.parseError /\ ctx.exitTrap # Armed /\ Frames(stack)
      /\ ctx.last \in Status
  BY TidyRead, ShellRead DEF Tidy
<1>3. CASE AfterUnit
  <2>1. at = "ret" /\ Top.k = "text" /\ rc \in Results(vocab)
    BY <1>3, ShellRead DEF AfterUnit, Returned, Tidy
  <2>2. CASE ~Flow(rc)
    <3>1. rc \in Status /\ UnitReturns(rc)
      BY <1>3, <2>1, <2>2, Results0 DEF AfterUnit
    <3> QED
      BY <1>1, <2>1, <3>1, UnitSettles
  <2>3. CASE Flow(rc)
    <3>1. ~ctx.exempt
      BY <2>3 DEF Tidy, Settled
    <3>2. \/ TextReturns(ctx, ctx.last)
          \/ UnitReturns(ctx.last)
          \/ Top.for # "script" /\ TextReturns(ctx, rc)
      BY <1>3, <2>3 DEF AfterUnit
    <3> QED
      BY <1>1, <1>2, <2>1, <3>1, <3>2, UnitSettles, TextSettles
  <2> QED
    BY <2>2, <2>3
<1>4. CASE EndOfText
  <2>1. Top.k = "text" /\ TextReturns(ctx, ctx.last) /\ Calm(ctx)
    BY <1>4, TidyRead DEF EndOfText
  <2> QED
    BY <1>1, <1>2, <2>1, TextSettles DEF Calm
<1>5. CASE ParseError
  <2> DEFINE b == ctx.parseError \/ Top.for # "dot"
             c == [ctx EXCEPT !.last = 2, !.parseError = b]
  <2>1. Top.k = "text" /\ TextReturns(c, 2) /\ Calm(ctx)
    BY <1>5, TidyRead DEF ParseError
  <2>2. 2 \in Status /\ b \in BOOLEAN /\ (Top.for = "dot" => b = FALSE)
    BY <1>2 DEF Status
  <2> HIDE DEF b
  <2>3. c \in Ctx(vocab) /\ ~c.exempt /\ c.exitTrap # Armed /\ c.parseError = b
    BY <1>2, <2>1, <2>2 DEF Ctx, Calm
  <2> HIDE DEF c
  <2> QED
    BY <1>1, <2>1, <2>2, <2>3, TextSettles
<1> QED
  BY <1>3, <1>4, <1>5

LEMMA AfterTestSettles ==
  ASSUME Tidy, AfterAndOr \/ AfterNot
  PROVE  Settles
<1> DEFINE f == Top
           c == [ctx EXCEPT !.inCond = f.inCond]
<1>1. at = "ret" /\ f.k \in {"and", "or", "not"}
  BY DEF AfterAndOr, AfterNot, Returned
<1>2. c \in Ctx(vocab) /\ ctx \in Ctx(vocab) /\ ~ctx.parseError /\ rc \in Results(vocab)
  BY <1>1, TestPop, TidyRead, ShellRead DEF Tests, Tidy
<1>3. c.exempt = ctx.exempt /\ ~c.parseError
  BY <1>2 DEF Ctx
<1>4. Frames(Tail(stack))
  BY <1>1, FramesRead DEF Tidy
<1>5. f.k = "not" => AfterNot
  BY <1>1 DEF AfterAndOr
<1>6. f.k \in {"and", "or"} => AfterAndOr
  BY <1>1 DEF AfterNot, Returned
<1>7. Flow(rc) => Passes(c)
  BY DEF AfterAndOr, AfterNot
<1>8. /\ ~Flow(rc) /\ f.k \in {"and", "or"} =>
           /\ stack' = Tail(stack)
           /\ IF (rc = 0) = (f.k = "and")
              THEN Runs([c EXCEPT !.exempt = FALSE])
              ELSE Result([c EXCEPT !.exempt = f.k = "and"], rc) /\ ignored' = (rc # 0)
  BY <1>6 DEF AfterAndOr, Pop
<1>9. /\ ~Flow(rc) /\ f.k = "not" =>
           /\ stack' = Tail(stack) /\ Result([c EXCEPT !.exempt = TRUE], IF rc = 0 THEN 1 ELSE 0)
           /\ ignored' = (rc = 0)
  BY <1>5 DEF AfterNot, Pop
<1> HIDE DEF f, c
<1>10. CASE Flow(rc)
  <2>1. Result(c, rc) /\ stack' = Tail(stack) /\ ignored' = ignored
    BY <1>7, <1>10 DEF Passes, Pop, Static
  <2>2. Frames(stack') /\ Settled
    BY <1>4, <2>1 DEF Tidy
  <2> QED
    BY <1>1, <1>2, <1>3, <1>10, <2>1, <2>2, PassSettles
<1>11. ASSUME NEW b \in BOOLEAN, NEW r, ~Flow(r), Result([c EXCEPT !.exempt = b], r),
              r # 0 => ignored' /\ b, stack' = Tail(stack)
       PROVE  Settles
  <2> DEFINE d == [c EXCEPT !.exempt = b]
  <2>1. d \in Ctx(vocab) /\ d.exempt = b /\ ~d.parseError
    BY <1>2, <1>3 DEF Ctx
  <2>2. Result(d, r)
    BY <1>11
  <2> HIDE DEF d
  <2>3. at' = "ret" /\ rc' = r /\ ctx'.exempt = b /\ ~ctx'.parseError
    BY <2>1, <2>2, ResultRead
  <2>4. Frames(stack')
    BY <1>4, <1>11
  <2> QED
    BY <1>11, <2>3, <2>4 DEF Settles, Settled
<1>12. CASE ~Flow(rc) /\ f.k \in {"and", "or"}
  <2>1. CASE (rc = 0) = (f.k = "and")
    <3> DEFINE d == [c EXCEPT !.exempt = FALSE]
    <3>1. Runs(d) /\ stack' = Tail(stack)
      BY <1>8, <1>12, <2>1
    <3>2. Calm(d)
      BY <1>2, <1>3 DEF Ctx, Calm
    <3>3. Frames(stack')
      BY <1>4, <3>1
    <3> HIDE DEF d
    <3> QED
      BY <3>1, <3>2, <3>3, RunsSettles
  <2>2. CASE ~((rc = 0) = (f.k = "and"))
    <3> DEFINE b == f.k = "and"
    <3>1. b \in BOOLEAN /\ (rc # 0 => b)
      BY <2>2
    <3>2. /\ Result([c EXCEPT !.exempt = b], rc) /\ ignored' = (rc # 0) /\ stack' = Tail(stack)
      BY <1>8, <1>12, <2>2
    <3> HIDE DEF b
    <3> QED
      BY <1>11, <1>12, <3>1, <3>2
  <2> QED
    BY <2>1, <2>2
<1>13. CASE ~Flow(rc) /\ f.k = "not"
  <2> DEFINE r == IF rc = 0 THEN 1 ELSE 0
  <2>1. /\ Result([c EXCEPT !.exempt = TRUE], r) /\ ignored' = (rc = 0) /\ stack' = Tail(stack)
    BY <1>9, <1>13
  <2>2. ~Flow(r) /\ (r # 0 => rc = 0)
    BY JumpRead DEF Flow, BREAK
  <2> HIDE DEF r
  <2> QED
    BY <1>11, <2>1, <2>2
<1> QED
  BY <1>1, <1>10, <1>12, <1>13 DEF f

LEMMA AfterLeftSettles ==
  ASSUME Tidy, AfterLeft
  PROVE  Settles
<1> DEFINE c == Looked(Published(ctx, rc))
<1>1. /\ at = "ret" /\ Top.k = "seq" /\ stack' = Tail(stack) /\ ignored' = ignored
      /\ IF Flow(rc) THEN Result(ctx, rc)
         ELSE IF Stops(ctx, rc) THEN Result(c, rc) ELSE Runs(c)
  BY DEF AfterLeft, Returned, Pop, Static
<1>2. ctx \in Ctx(vocab) /\ ~ctx.parseError /\ rc \in Results(vocab) /\ Settled
  BY TidyRead, ShellRead DEF Tidy
<1>3. Frames(stack')
  BY <1>1, FramesRead DEF Tidy
<1>4. ~Flow(rc) => c \in Ctx(vocab) /\ Calm(c) /\ c.inCond = ctx.inCond
  BY <1>2, Results0 DEF Looked, Published, Ctx, Calm
<1> HIDE DEF c
<1>5. CASE Flow(rc)
  BY <1>1, <1>2, <1>3, <1>5, PassSettles
<1>6. CASE ~Flow(rc) /\ Stops(ctx, rc)
  <2>1. c.exempt = ctx.exempt /\ ~c.parseError
    BY <1>2, <1>4, <1>6, CtxRead DEF Stops, Calm
  <2> QED
    BY <1>1, <1>2, <1>3, <1>4, <1>6, <2>1, PassSettles
<1>7. CASE ~Flow(rc) /\ ~Stops(ctx, rc)
  BY <1>1, <1>3, <1>4, <1>7, RunsSettles
<1> QED
  BY <1>5, <1>6, <1>7

LEMMA AfterForkSettles ==
  ASSUME Tidy, AfterSubshell \/ AfterStage \/ AfterLast
  PROVE  Settles
<1>1. at = "ret" /\ Lands(vocab)
  BY AfterLands DEF Tidy, After, AfterSubshell, AfterStage, AfterLast, Returned
<1>2. /\ ctx \in Ctx(vocab) /\ ~ctx.parseError /\ ctx.exitTrap # Armed /\ Settled
      /\ Normalised(rc) \in Status
  BY <1>1, TidyRead, NormalisedType DEF Tidy
<1>3. CASE AfterSubshell
  <2> DEFINE r == Normalised(rc)
             c == [ctx EXCEPT !.last = r]
  <2>1. EndsNormally(c, r)
    BY <1>3 DEF AfterSubshell
  <2>2. c.exitTrap # Armed
    BY <1>2 DEF Ctx
  <2> HIDE DEF c
  <2> QED
    BY <1>1, <1>2, <2>1, <2>2, ExitSettles
<1>4. CASE AfterStage
  BY <1>1, <1>2, <1>4, GoneSettles DEF AfterStage, Tidy
<1>5. CASE AfterLast
  <2>1. Top.k = "last" /\ stack' = Tail(stack)
    BY <1>5 DEF AfterLast, Returned, Pop
  <2>2. "pipe" \in vocab
    BY <2>1, ShellRead, FrameRead DEF Tidy, Node
  <2>3. ~Pipefail
    BY <2>2 DEF Tidy, Careful
  <2>4. Result(ctx, rc) /\ ignored' = ignored
    BY <1>5, <2>3 DEF AfterLast
  <2>5. Frames(stack')
    BY <2>1, FramesRead DEF Tidy
  <2> QED
    BY <1>1, <1>2, <2>4, <2>5, PassSettles
<1> QED
  BY <1>3, <1>4, <1>5

LEMMA AfterCallSettles ==
  ASSUME Tidy, AfterCall
  PROVE  Settles
<1> DEFINE f == Top
           c == Outside(f, ctx)
           r == IF Flow(rc) /\ ~NonLexical THEN 0 ELSE rc
<1>1. /\ at = "ret" /\ f.k = "call" /\ stack' = Tail(stack) /\ Lands(vocab)
      /\ IF rc = RETURN THEN Result(c, ctx.last) /\ Fresh(ctx.last)
         ELSE Result(c, r) /\ ignored' = ignored
  BY AfterLands DEF AfterCall, Returned, Pop, Tidy, After
<1>2. /\ ctx \in Ctx(vocab) /\ ~ctx.parseError /\ Settled /\ ctx.last \in Status
      /\ f \in Frame(vocab) /\ Shell
  BY TidyRead, ShellRead DEF Tidy
<1>3. f.loops \in Int /\ f.level \in Nat
  <2> HIDE DEF f
  <2> QED
    BY <1>1, <1>2, FrameRead
<1>4. Frames(stack')
  BY <1>1, FramesRead DEF Tidy
<1> HIDE DEF f
<1>5. /\ c \in Ctx(vocab) /\ c.exempt = ctx.exempt /\ ~c.parseError /\ c.inCond = ctx.inCond
  <2> DEFINE l == IF NonLexical THEN ctx.loops ELSE f.loops
             n == IF NonLexical THEN ctx.level ELSE f.level
  <2>1. c = [ctx EXCEPT !.calls = ctx.calls - 1, !.loops = l, !.level = n]
    BY DEF Outside
  <2>2. l \in Int /\ n \in Nat /\ ctx.calls - 1 \in Int
    BY <1>1, <1>2, <1>3, ShellRead
  <2> HIDE DEF l, n, c
  <2> QED
    BY <1>2, <2>1, <2>2 DEF Ctx
<1> HIDE DEF c
<1>6. CASE rc = RETURN
  <2>1. Flow(rc) /\ ~Flow(ctx.last)
    BY <1>2, <1>6, JumpRead DEF Flow, RETURN, BREAK
  <2>2. Calm(c)
    BY <1>2, <1>5, <2>1 DEF Settled, Calm
  <2> QED
    BY <1>1, <1>2, <1>4, <1>5, <1>6, <2>1, <2>2, FreshSettles DEF Tidy
<1>7. CASE rc # RETURN /\ r = rc
  BY <1>1, <1>2, <1>4, <1>5, <1>7, PassSettles
<1>8. CASE rc # RETURN /\ r # rc
  <2>1. r = 0 /\ ~Flow(0)
    BY <1>8 DEF Flow, BREAK
  <2>2. Result(c, 0)
    BY <1>1, <1>8, <2>1
  <2>3. at' = "ret" /\ rc' = 0 /\ ~ctx'.parseError
    BY <1>5, <2>2, ResultRead
  <2> QED
    BY <1>4, <2>1, <2>3 DEF Settles, Settled
<1> QED
  BY <1>6, <1>7, <1>8

LEMMA AfterPrefixSettles ==
  ASSUME Tidy, AfterCommandPrefix
  PROVE  Settles
<1> DEFINE f == Top
           c == [ctx EXCEPT !.command = f.command]
<1>1. at = "ret" /\ f.k = "command" /\ Result(c, rc) /\ stack' = Tail(stack) /\ ignored' = ignored
  BY DEF AfterCommandPrefix, Returned, Passes, Pop, Static
<1>2. ctx \in Ctx(vocab) /\ ~ctx.parseError /\ Settled /\ f \in Frame(vocab)
  BY TidyRead, ShellRead DEF Tidy
<1>3. Frames(stack')
  BY <1>1, FramesRead DEF Tidy
<1> HIDE DEF f
<1>4. c \in Ctx(vocab) /\ c.exempt = ctx.exempt /\ ~c.parseError /\ c.inCond = ctx.inCond
  BY <1>1, <1>2, FrameRead DEF Ctx
<1> HIDE DEF c
<1> QED
  BY <1>1, <1>2, <1>3, <1>4, PassSettles

LEMMA AfterSettles ==
  ASSUME Tidy, After
  PROVE  Settles
<1>1. vocab \cap {"if", "while", "until", "for", "trap", "subst"} = {}
  BY TidyRead
<1>2. Top.k # "if"
  BY <1>1, ShellRead, FrameRead DEF Tidy, Node
<1>3. ~IsLoop(Top)
  <2>1. IsLoop(Top) => Top.k \in LoopKinds /\ Top.k \in vocab
    BY LoopRead DEF Tidy
  <2> QED
    BY <1>1, <2>1 DEF LoopKinds
<1>4. ~AfterIf
  BY <1>2 DEF AfterIf, Returned
<1>5. ~AfterCondition /\ ~AfterBody /\ ~NextWord
  BY <1>3 DEF AfterCondition, AfterBody, NextWord, IsLoop
<1> QED
  BY <1>4, <1>5, AfterTestSettles, AfterLeftSettles, AfterForkSettles, AfterCallSettles,
     AfterPrefixSettles, AfterTextSettles DEF After

-----------------------------------------------------------------------------
(* ErrexitIsExact.                                                         *)

(* A script with `set` in it uses -e for lists only.                       *)
ListsOnly == \A v \in Vocabularies : "set" \notin v \/ Careful(v)

Exempts == "set" \in vocab /\ at # "over" => Settled

LEMMA InitExempts == Init => Exempts
<1> SUFFICES ASSUME Init PROVE Settled
  BY DEF Exempts
<1>1. Len(stack) = 1 /\ at = "run" /\ ctx = Start
  BY DEF Init
<1>2. Frames(stack)
  BY <1>1 DEF Frames
<1>3. ~ctx.parseError /\ ~ctx.exempt
  BY <1>1 DEF Start
<1> QED
  BY <1>1, <1>2, <1>3 DEF Settled

LEMMA NextExempts == ListsOnly => (Shell /\ Exempts /\ [Next]_vars => Exempts')
<1> SUFFICES ASSUME ListsOnly, Shell, Exempts, [Next]_vars, "set" \in vocab', at' # "over"
             PROVE  Settled'
  BY DEF Exempts
<1>1. CASE UNCHANGED vars
  BY <1>1 DEF vars, Exempts, Settled, Frames
<1>2. CASE Next /\ ~UNCHANGED vars
  <2>1. Enter \/ After \/ Signal
    BY <1>2 DEF Next, Ended
  <2>2. at # "over"
    BY <2>1, EnterLands, AfterLands DEF Signal
  <2>3. vocab' = vocab
    BY <1>2, <2>2, NextLands
  <2>4. Tidy
    BY <2>2, <2>3 DEF Tidy, Exempts, Shell, ListsOnly
  <2>5. ~Signal
    BY <2>4, TidyRead DEF Signal
  <2> QED
    BY <2>1, <2>4, <2>5, EnterSettles, AfterSettles DEF Settles
<1> QED
  BY <1>1, <1>2

(* What the look at -e after a node comes to.                              *)
Fails(s) == (s /\ ctx.errexit /\ rc # 0) => ignored
Spares   == rc # 0 /\ ignored => Goes
Exact    == Fails(Goes) /\ Spares

LEMMA StopsExact ==
  ASSUME Tidy, at = "ret", ~Flow(rc), Stops(ctx, rc), at' # "run"
  PROVE  Exact
<1>1. rc \in Status
  BY ShellRead, Results0 DEF Tidy
<1>2. rc # 0 => (ignored <=> ctx.inCond \/ ctx.exempt)
  BY <1>1 DEF Tidy, Settled
<1> QED
  BY <1>2 DEF Stops, Exact, Fails, Spares, Goes

LEMMA GoesExact ==
  ASSUME Shell, Exempts, at = "ret", ~Flow(rc), ~Stops(ctx, rc), Goes
  PROVE  Exact
<1>1. rc \in Status /\ ctx \in Ctx(vocab)
  BY ShellRead, Results0
<1>2. ASSUME ctx.errexit, rc # 0 PROVE ignored
  <2>1. "set" \in vocab
    BY <1>1, <1>2, CtxRead
  <2>2. ignored <=> ctx.inCond \/ ctx.exempt
    BY <1>1, <1>2, <2>1 DEF Exempts, Settled
  <2> QED
    BY <1>2, <2>2 DEF Stops
<1> QED
  BY <1>2 DEF Exact, Fails, Spares

LEMMA TextStops ==
  ASSUME Tidy, Top.k = "text", NEW c0, c0.exitTrap # Armed, ~c0.parseError, c0 \in Ctx(vocab),
         NEW r, TextReturns(c0, r)
  PROVE  at' # "run"
<1> DEFINE f == Top
           c == [c0 EXCEPT !.command = f.command]
<1>1. \/ f.for \in {"eval", "dot"}
      \/ f.for = "script" /\ Boundaries = {}
  BY FramesRead DEF Tidy, IsScript
<1>2. /\ f.for = "script" => EndsNormally(c, r)
      /\ f.for = "eval" => EvalReturns(c, r)
      /\ f.for = "dot" => Builtin(c, IF r \in {BREAK, CONTINUE} THEN 0 ELSE r)
  BY DEF TextReturns
<1> HIDE DEF f
<1>3. c.exitTrap # Armed /\ ~c.parseError
  BY DEF Ctx
<1> HIDE DEF c
<1>4. CASE f.for = "script"
  BY <1>1, <1>2, <1>3, <1>4 DEF EndsNormally, Gone
<1>5. CASE f.for = "eval"
  BY <1>2, <1>3, <1>5 DEF EvalReturns, Builtin, Result
<1>6. CASE f.for = "dot"
  BY <1>2, <1>6 DEF Builtin, Result
<1> QED
  BY <1>1, <1>4, <1>5, <1>6

LEMMA LeftExact ==
  ASSUME ListsOnly, Shell, Exempts, AfterLeft, ~Flow(rc)
  PROVE  Exact
<1>1. /\ at = "ret" /\ Top.k = "seq" /\ stack' = Tail(stack)
      /\ IF Stops(ctx, rc) THEN at' = "ret" ELSE at' = "run"
  BY DEF AfterLeft, Returned, Pop, Result, Runs
<1>2. /\ Stack(vocab, Tail(stack)) /\ Len(stack) \in Nat /\ Len(Tail(stack)) = Len(stack) - 1
      /\ ctx \in Ctx(vocab)
  BY <1>1, ShellRead, StackRead DEF IsScript
<1>3. CASE Stops(ctx, rc)
  <2>1. "set" \in vocab
    BY <1>2, <1>3, CtxRead DEF Stops
  <2>2. Tidy
    BY <1>1, <2>1 DEF Tidy, Exempts, ListsOnly, Shell
  <2> QED
    BY <1>1, <1>3, <2>2, StopsExact
<1>4. CASE ~Stops(ctx, rc)
  <2>1. Goes
    BY <1>1, <1>2, <1>4 DEF Goes, Stack
  <2> QED
    BY <1>1, <1>4, <2>1, GoesExact
<1> QED
  BY <1>3, <1>4

LEMMA UnitExact ==
  ASSUME ListsOnly, Shell, Exempts, AfterUnit, ~Flow(rc)
  PROVE  Exact
<1> DEFINE c == [Looked(ctx) EXCEPT !.last = rc]
           d == [c EXCEPT !.fired = TRUE]
<1>1. /\ at = "ret" /\ Top.k = "text"
      /\ IF Stops(ctx, rc) THEN TextReturns(d, rc) ELSE at' = "run" /\ stack' = stack
  BY DEF AfterUnit, Returned, UnitReturns, Runs
<1>2. stack # <<>> /\ Len(stack) \in Nat /\ ctx \in Ctx(vocab) /\ rc \in Status
  BY <1>1, ShellRead, StackRead, Results0
<1>3. CASE Stops(ctx, rc)
  <2>1. "set" \in vocab
    BY <1>2, <1>3, CtxRead DEF Stops
  <2>2. Tidy
    BY <1>1, <2>1 DEF Tidy, Exempts, ListsOnly, Shell
  <2>3. ctx.exitTrap # Armed /\ ~ctx.parseError
    BY <2>2, TidyRead
  <2>4. c \in Ctx(vocab) /\ c.exitTrap # Armed /\ ~c.parseError
    BY <1>2, <2>3 DEF Looked, Ctx
  <2> HIDE DEF c
  <2>5. d \in Ctx(vocab) /\ d.exitTrap # Armed /\ ~d.parseError
    BY <2>1, <2>4 DEF Ctx, Options
  <2> HIDE DEF d
  <2>6. at' # "run"
    BY <1>1, <1>3, <2>2, <2>5, TextStops
  <2> QED
    BY <1>1, <1>3, <2>2, <2>6, StopsExact
<1>4. CASE ~Stops(ctx, rc)
  <2>1. Goes
    BY <1>1, <1>2, <1>4 DEF Goes
  <2> QED
    BY <1>1, <1>4, <2>1, GoesExact
<1> QED
  BY <1>3, <1>4

LEMMA BodyExact ==
  ASSUME ListsOnly, Shell, Exempts, AfterBody, ~Flow(rc)
  PROVE  Exact
<1>1. at = "ret" /\ IsLoop(Top) /\ Top.phase = "body"
  BY DEF AfterBody
<1>2. Top.k \in vocab /\ Top.k \in LoopKinds /\ ctx.inCond = Top.inCond
  BY <1>1, LoopRead
<1>3. vocab \cap {"if", "while", "until", "for", "trap", "subst"} # {}
  BY <1>2 DEF LoopKinds
<1>4. "set" \notin vocab
  BY <1>3 DEF ListsOnly, Careful, Shell
<1>5. ctx \in Ctx(vocab) /\ rc \in Status /\ ignored \in BOOLEAN
  BY <1>1, ShellRead, Results0
<1>6. ~Stops(ctx, rc)
  BY <1>4, <1>5, CtxRead DEF Stops
<1>7. Turn(Looked(ctx), rc, ignored)
  BY <1>6 DEF AfterBody
<1>8. Around(Looked(ctx))
  BY <1>1, <1>2, <1>5 DEF Around, Ctx, Looked
<1>9. Turns
  BY <1>1, <1>5, <1>7, <1>8, TurnTurns
<1>10. Goes
  <2>1. PICK g \in Frame(vocab) : stack' = <<g>> \o Tail(stack)
    BY <1>9 DEF Turns
  <2>2. Tail(stack) \in Seq(Frame(vocab)) /\ Len(stack) \in Nat /\ Len(Tail(stack)) = Len(stack) - 1
    BY <1>1, ShellRead, StackRead
  <2>3. stack' # <<>> /\ Len(stack') = Len(Tail(stack)) + 1
    BY <2>1, <2>2, Cons
  <2>4. at' = "run"
    BY <1>7 DEF Turn, Runs
  <2> QED
    BY <2>2, <2>3, <2>4 DEF Goes
<1> QED
  BY <1>1, <1>6, <1>10, GoesExact

LEMMA NextExact ==
  ListsOnly => (Shell /\ Exempts /\ [Next]_vars => [Looks => Exact]_vars)
<1> SUFFICES ASSUME ListsOnly, Shell, Exempts, Next, Looks PROVE Exact
  OBVIOUS
<1>1. /\ at = "ret" /\ ~Flow(rc) /\ Len(stack') <= Len(stack)
      /\ Top.k \in {"seq", "text"} \/ (IsLoop(Top) /\ Top.phase = "body")
  BY DEF Looks
<1>2. stack \in Seq(Frame(vocab)) /\ Len(stack) \in Nat
  BY <1>1, ShellRead, StackRead
<1>3. ~Signal
  <2> SUFFICES ASSUME Signal PROVE FALSE
    OBVIOUS
  <2>1. PICK t \in Seq(Frame(vocab)) : t # <<>> /\ stack' = t \o stack
    BY SignalGrows DEF Grows
  <2>2. Len(t) \in Nat /\ Len(t) # 0
    BY <2>1, LenProperties, EmptySeq
  <2>3. Len(stack') = Len(t) + Len(stack)
    BY <1>2, <2>1, ConcatProperties
  <2> QED
    BY <1>1, <1>2, <2>2, <2>3
<1>4. ~Enter
  BY <1>1, EnterMoves
<1>5. AfterLeft \/ AfterUnit \/ AfterBody
  BY <1>1, <1>3, <1>4 DEF Next, Ended, After, AfterAndOr, AfterNot, AfterIf, AfterCondition,
     NextWord, AfterSubshell, AfterStage, AfterLast, AfterCall, AfterCommandPrefix,
     EndOfText, ParseError, Returned, IsLoop
<1> QED
  BY <1>1, <1>5, LeftExact, UnitExact, BodyExact

(* In a script that uses -e for lists, `!`, functions, subshells, pipes,   *)
(* eval and sourced files: a failure ends the list it is in exactly if     *)
(* nothing tests it, however far its status travels before errexit is      *)
(* looked at (errexit_should_stop, in_cond, and_or_exempt).                *)
THEOREM ErrexitActsExactly == ListsOnly => (Spec => ErrexitIsExact)
<1>1. ASSUME ListsOnly PROVE Spec => ErrexitIsExact
  <2>1. Shell /\ Exempts /\ [Next]_vars => Exempts'
    BY <1>1, NextExempts
  <2>2. Spec => []Exempts
    BY <2>1, InitExempts, SpecShell, PTL DEF Spec
  <2>3. Shell /\ Exempts /\ [Next]_vars => [Looks => Exact]_vars
    BY <1>1, NextExact
  <2>4. Spec => [][Looks => Exact]_vars
    BY <2>2, <2>3, SpecShell, PTL DEF Spec
  <2>5. [Looks => Exact]_vars => [(Looks /\ Goes /\ ctx.errexit /\ rc # 0) => ignored]_vars
    BY DEF Exact, Fails
  <2>6. [Looks => Exact]_vars => [(Looks /\ rc # 0 /\ ignored) => Goes]_vars
    BY DEF Exact, Spares
  <2>7. [][Looks => Exact]_vars => ErrexitStops
    BY <2>5, PTL DEF ErrexitStops
  <2>8. [][Looks => Exact]_vars => ErrexitSpares
    BY <2>6, PTL DEF ErrexitSpares
  <2> QED
    BY <2>4, <2>7, <2>8, PTL DEF ErrexitIsExact
<1> QED
  BY <1>1

=============================================================================
