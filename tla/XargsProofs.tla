----------------------------- MODULE XargsProofs -----------------------------
(***************************************************************************)
(* The arguments and the commands of xargs (core/xargs.c): the proof that  *)
(* in every reachable state ArgumentsAccounted holds, for every input,     *)
(* every -n, -L, -s and -P, every table and every reuse of pids.           *)
(*                                                                         *)
(* Tokens: while nothing has failed, the lines made and what is gathered   *)
(* are together what was read.  Children: each is claimed by one slot in   *)
(* use, the first that holds its pid, or is the one that exec_cmd waits    *)
(* for, or one whose wait a signal broke off; slots of commands that have  *)
(* ended keep their pid, in the middle of the table and from one call to   *)
(* the next.                                                               *)
(***************************************************************************)
EXTENDS Xargs, SequenceTheorems, FiniteSetTheorems, WellFoundedInduction, TLAPS

(* A set of numbers that is not empty has a least member: the first slot   *)
(* that the loops over the table come to.                                  *)
LEMMA LeastIsIn ==
  ASSUME NEW ns \in SUBSET Nat, ns # {}
  PROVE  Least(ns) \in ns /\ \A m \in ns : Least(ns) <= m
<1>1. \E n \in ns : \A m \in ns : ~(<<m, n>> \in OpToRel(<, Nat))
  BY WFMin, NatLessThanWellFounded
<1>2. PICK n \in ns : \A m \in ns : ~(m < n)
  BY <1>1 DEF OpToRel
<1>3. \A m \in ns : n <= m
  BY <1>2
<1> QED
  BY <1>3 DEF Least

(***************************************************************************)
(* What is read and what is given away.                                    *)
(***************************************************************************)
JoinsTo(f, s, n) == f = [i \in 1 .. n |-> IF i = 1 THEN s[i] ELSE f[i - 1] \o s[i]]
Joins(f, s) == JoinsTo(f, s, Len(s))

LEMMA JoinsOneMore ==
  ASSUME NEW s, NEW n \in Nat, NEW f,
         JoinsTo(f, s, n)
  PROVE  /\ f[1] = s[1] \/ n = 0
         /\ \A i \in 2 .. n : f[i] = f[i - 1] \o s[i]
<1> DEFINE h == [i \in 1 .. n |-> IF i = 1 THEN s[i] ELSE f[i - 1] \o s[i]]
<1>1. f = h
  BY DEF JoinsTo
<1>2. n # 0 => h[1] = s[1]
  OBVIOUS
<1>3. ASSUME NEW i \in 2 .. n PROVE h[i] = f[i - 1] \o s[i]
  <2>1. i \in 1 .. n /\ i # 1
    OBVIOUS
  <2> QED
    BY <2>1
<1> HIDE DEF h
<1> QED
  BY <1>1, <1>2, <1>3

LEMMA JoinsGrow ==
  ASSUME NEW s, NEW n \in Nat, NEW f, JoinsTo(f, s, n)
  PROVE  \E g : JoinsTo(g, s, n + 1)
<1> DEFINE g == [i \in 1 .. n + 1 |-> IF i = n + 1 THEN IF n = 0 THEN s[i] ELSE f[n] \o s[i] ELSE f[i]]
           h == [i \in 1 .. n + 1 |-> IF i = 1 THEN s[i] ELSE g[i - 1] \o s[i]]
<1>0. /\ f[1] = s[1] \/ n = 0
      /\ \A i \in 2 .. n : f[i] = f[i - 1] \o s[i]
  BY JoinsOneMore
<1>1. f[1] = s[1] \/ n = 0
  BY <1>0
<1>2. \A i \in 2 .. n : f[i] = f[i - 1] \o s[i]
  BY JoinsOneMore
<1>3. \A i \in 1 .. n : g[i] = f[i]
  OBVIOUS
<1>4. g[n + 1] = IF n = 0 THEN s[n + 1] ELSE f[n] \o s[n + 1]
  OBVIOUS
<1>5. ASSUME NEW i \in 1 .. n + 1 PROVE h[i] = IF i = 1 THEN s[i] ELSE g[i - 1] \o s[i]
  OBVIOUS
<1> HIDE DEF g
<1>6. ASSUME NEW i \in 1 .. n + 1 PROVE g[i] = h[i]
  <2> HIDE DEF h
  <2>1. CASE i = 1
    BY <1>1, <1>3, <1>4, <1>5, <2>1
  <2>2. CASE i \in 2 .. n
    <3>1. i - 1 \in 1 .. n /\ i # 1
      BY <2>2
    <3>2. g[i] = f[i] /\ g[i - 1] = f[i - 1]
      BY <1>3, <2>2, <3>1
    <3> QED
      BY <1>2, <1>5, <2>2, <3>1, <3>2
  <2>3. CASE i = n + 1 /\ n # 0
    <3>1. i - 1 = n /\ n \in 1 .. n /\ i # 1
      BY <2>3
    <3>2. g[i] = f[n] \o s[i] /\ g[n] = f[n]
      BY <1>3, <1>4, <2>3, <3>1
    <3> QED
      BY <1>5, <3>1, <3>2
  <2> QED
    BY <2>1, <2>2, <2>3
<1>7. g = h
  <2>1. g = [i \in 1 .. n + 1 |-> g[i]]
    BY DEF g
  <2>2. h = [i \in 1 .. n + 1 |-> h[i]]
    OBVIOUS
  <2> HIDE DEF h
  <2> QED
    BY <1>6, <2>1, <2>2
<1> QED
  BY <1>7 DEF JoinsTo

LEMMA JoinsExist ==
  ASSUME NEW s, NEW n \in Nat
  PROVE  \E f : JoinsTo(f, s, n)
<1> DEFINE Bad == {m \in Nat : ~\E f : JoinsTo(f, s, m)}
<1>1. SUFFICES ASSUME Bad # {} PROVE FALSE
  OBVIOUS
<1>2. PICK m \in Bad : \A k \in Bad : m <= k
  BY <1>1, LeastIsIn
<1>3. m \in Nat /\ ~\E f : JoinsTo(f, s, m)
  OBVIOUS
<1>4. CASE m = 0
  <2>1. JoinsTo(<<>>, s, 0)
    BY DEF JoinsTo
  <2> QED
    BY <1>3, <1>4, <2>1
<1>5. CASE m # 0
  <2>1. m - 1 \in Nat /\ (m - 1) + 1 = m /\ ~(m <= m - 1)
    BY <1>3, <1>5
  <2>2. m - 1 \notin Bad
    BY <1>2, <2>1
  <2>3. PICK f : JoinsTo(f, s, m - 1)
    BY <2>1, <2>2
  <2>4. \E g : JoinsTo(g, s, (m - 1) + 1)
    BY <2>1, <2>3, JoinsGrow
  <2> QED
    BY <1>3, <2>1, <2>4
<1> QED
  BY <1>4, <1>5

LEMMA FlattenIsJoined ==
  ASSUME NEW S, NEW s \in Seq(Seq(S)), s # <<>>
  PROVE  \E f : Joins(f, s) /\ FlattenSeq(s) = f[Len(s)]
<1>1. Joins(CHOOSE f : Joins(f, s), s)
  <2>1. Len(s) \in Nat
    OBVIOUS
  <2>2. \E f : Joins(f, s)
    BY <2>1, JoinsExist DEF Joins
  <2> QED
    BY <2>2
<1>2. Len(s) # 0
  OBVIOUS
<1>3. FlattenSeq(s) = (CHOOSE f : Joins(f, s))[Len(s)]
  BY <1>2 DEF FlattenSeq, Joins, JoinsTo
<1> QED
  BY <1>1, <1>3

Continues(t, s) == Len(s) <= Len(t) /\ \A i \in 1 .. Len(s) : t[i] = s[i]

LEMMA JoinsAgree ==
  ASSUME NEW S, NEW s \in Seq(Seq(S)), NEW t \in Seq(Seq(S)), NEW f, NEW g, Joins(f, s), Joins(g, t),
         Continues(t, s)
  PROVE  \A i \in 1 .. Len(s) : f[i] \in Seq(S) /\ g[i] = f[i]
<1>a. Len(s) <= Len(t) /\ \A i \in 1 .. Len(s) : t[i] = s[i]
  BY DEF Continues
<1> DEFINE Bad == {i \in 1 .. Len(s) : ~(f[i] \in Seq(S) /\ g[i] = f[i])}
<1>1. SUFFICES ASSUME Bad # {} PROVE FALSE
  OBVIOUS
<1>2. Bad \in SUBSET Nat
  OBVIOUS
<1>3. PICK n \in Bad : \A m \in Bad : n <= m
  BY <1>1, <1>2, LeastIsIn
<1>0. /\ f[1] = s[1] \/ Len(s) = 0
      /\ \A i \in 2 .. Len(s) : f[i] = f[i - 1] \o s[i]
      /\ g[1] = t[1] \/ Len(t) = 0
      /\ \A i \in 2 .. Len(t) : g[i] = g[i - 1] \o t[i]
  <2>1. Len(s) \in Nat /\ Len(t) \in Nat
    OBVIOUS
  <2> QED
    BY <2>1, JoinsOneMore DEF Joins
<1>4. CASE n = 1
  <2>1. f[1] = s[1] /\ g[1] = t[1]
    <3>1. Len(s) # 0 /\ Len(t) # 0
      BY <1>a, <1>3
    <3> QED
      BY <1>0, <3>1
  <2> QED
    BY <1>a, <1>3, <1>4, <2>1
<1>5. CASE n # 1
  <2>0. n \in Nat /\ n - 1 \in 1 .. Len(s) /\ n \in 2 .. Len(s) /\ n \in 2 .. Len(t)
    BY <1>a, <1>3, <1>5
  <2>1. n - 1 \notin Bad
    <3> HIDE DEF Bad
    <3> QED
      BY <1>3, <2>0
  <2>2. f[n] = f[n - 1] \o s[n] /\ g[n] = g[n - 1] \o t[n]
    BY <1>0, <2>0
  <2>3. f[n - 1] \in Seq(S) /\ g[n - 1] = f[n - 1]
    BY <2>0, <2>1
  <2>4. s[n] \in Seq(S) /\ t[n] = s[n]
    BY <1>a, <1>3
  <2>5. f[n] \in Seq(S)
    BY <2>2, <2>3, <2>4, ConcatProperties
  <2> QED
    BY <1>3, <2>2, <2>3, <2>4, <2>5
<1> QED
  BY <1>4, <1>5

(* Flattening keeps pace with what is appended.                            *)
LEMMA FlattenAppended ==
  ASSUME NEW S, NEW s \in Seq(Seq(S)), NEW x \in Seq(S)
  PROVE  /\ FlattenSeq(s) \in Seq(S)
         /\ FlattenSeq(Append(s, x)) = FlattenSeq(s) \o x
<1>0. SUFFICES ASSUME NEW t \in Seq(Seq(S)), t = Append(s, x)
                PROVE  FlattenSeq(s) \in Seq(S) /\ FlattenSeq(t) = FlattenSeq(s) \o x
  BY AppendProperties
<1>1. /\ t \in Seq(Seq(S)) /\ t # <<>> /\ Len(t) = Len(s) + 1
      /\ \A i \in 1 .. Len(s) : t[i] = s[i]
      /\ t[Len(s) + 1] = x
  BY <1>0, AppendProperties
<1>2. PICK g : Joins(g, t) /\ FlattenSeq(t) = g[Len(s) + 1]
  BY <1>1, FlattenIsJoined
<1>5. /\ g[1] = t[1] \/ Len(t) = 0
      /\ \A i \in 2 .. Len(t) : g[i] = g[i - 1] \o t[i]
  <2>1. Len(t) \in Nat
    BY <1>1
  <2> QED
    BY <1>2, <2>1, JoinsOneMore DEF Joins
<1>3. CASE s = <<>>
  <2>1. FlattenSeq(s) = <<>> /\ Len(s) = 0
    BY <1>3 DEF FlattenSeq
  <2>2. g[1] = t[1]
    BY <1>1, <1>5
  <2>3. <<>> \o x = x
    BY ConcatEmptySeq
  <2> QED
    BY <1>1, <1>2, <2>1, <2>2, <2>3
<1>4. CASE s # <<>>
  <2>1. PICK f : Joins(f, s) /\ FlattenSeq(s) = f[Len(s)]
    BY <1>4, FlattenIsJoined
  <2>2. Len(s) \in 1 .. Len(s) /\ Len(s) + 1 \in 2 .. Len(t) /\ Len(s) <= Len(t)
    BY <1>1, <1>4
  <2>3. f[Len(s)] \in Seq(S) /\ g[Len(s)] = f[Len(s)]
    <3>1. \A i \in 1 .. Len(s) : f[i] \in Seq(S) /\ g[i] = f[i]
      <4>1. Continues(t, s)
        BY <1>1, <2>2 DEF Continues
      <4> QED
        BY <1>2, <2>1, <4>1, JoinsAgree
    <3> QED
      BY <2>2, <3>1
  <2>4. g[Len(s) + 1] = g[Len(s)] \o t[Len(s) + 1]
    <3>1. (Len(s) + 1) - 1 = Len(s)
      OBVIOUS
    <3> QED
      BY <1>5, <2>2, <3>1
  <2> QED
    BY <1>1, <1>2, <2>1, <2>3, <2>4
<1> QED
  BY <1>3, <1>4

(* The length of the items grows by that of the item added.                *)
SumsTo(f, s, n) == f = [k \in 0 .. n |-> IF k = 0 THEN 0 ELSE f[k - 1] + s[k].len + 1]

LEMMA SumsOneMore ==
  ASSUME NEW s, NEW n \in Nat, NEW f, SumsTo(f, s, n)
  PROVE  /\ f[0] = 0
         /\ \A k \in 1 .. n : f[k] = f[k - 1] + s[k].len + 1
<1> DEFINE h == [k \in 0 .. n |-> IF k = 0 THEN 0 ELSE f[k - 1] + s[k].len + 1]
<1>1. f = h
  BY DEF SumsTo
<1>2. h[0] = 0
  OBVIOUS
<1>3. ASSUME NEW k \in 1 .. n PROVE h[k] = f[k - 1] + s[k].len + 1
  <2>1. k \in 0 .. n /\ k # 0
    OBVIOUS
  <2> QED
    BY <2>1
<1> HIDE DEF h
<1> QED
  BY <1>1, <1>2, <1>3

LEMMA SumsGrow ==
  ASSUME NEW s, NEW n \in Nat, NEW f, SumsTo(f, s, n)
  PROVE  \E g : SumsTo(g, s, n + 1)
<1> DEFINE g == [k \in 0 .. n + 1 |-> IF k = n + 1 THEN f[n] + s[k].len + 1 ELSE f[k]]
           h == [k \in 0 .. n + 1 |-> IF k = 0 THEN 0 ELSE g[k - 1] + s[k].len + 1]
<1>1. /\ f[0] = 0
      /\ \A k \in 1 .. n : f[k] = f[k - 1] + s[k].len + 1
  BY SumsOneMore
<1>2. \A k \in 0 .. n : g[k] = f[k]
  OBVIOUS
<1>3. g[n + 1] = f[n] + s[n + 1].len + 1
  OBVIOUS
<1>4. ASSUME NEW k \in 0 .. n + 1 PROVE h[k] = IF k = 0 THEN 0 ELSE g[k - 1] + s[k].len + 1
  OBVIOUS
<1>5. g = [k \in 0 .. n + 1 |-> g[k]] /\ h = [k \in 0 .. n + 1 |-> h[k]]
  OBVIOUS
<1> HIDE DEF g
<1>6. ASSUME NEW k \in 0 .. n + 1 PROVE g[k] = h[k]
  <2> HIDE DEF h
  <2>1. CASE k = 0
    BY <1>1, <1>2, <1>4, <2>1
  <2>2. CASE k \in 1 .. n
    <3>1. k - 1 \in 0 .. n /\ k # 0 /\ k \in 0 .. n
      BY <2>2
    <3>2. g[k] = f[k] /\ g[k - 1] = f[k - 1]
      BY <1>2, <3>1
    <3> QED
      BY <1>1, <1>4, <2>2, <3>1, <3>2
  <2>3. CASE k = n + 1
    <3>1. k - 1 = n /\ n \in 0 .. n /\ k # 0
      BY <2>3
    <3>2. g[k] = f[n] + s[k].len + 1 /\ g[n] = f[n]
      BY <1>2, <1>3, <2>3, <3>1
    <3> QED
      BY <1>4, <3>1, <3>2
  <2> QED
    BY <2>1, <2>2, <2>3
<1>7. g = h
  <2> HIDE DEF h
  <2> QED
    BY <1>5, <1>6
<1> QED
  BY <1>7 DEF SumsTo

LEMMA SumsExist ==
  ASSUME NEW s, NEW n \in Nat
  PROVE  \E f : SumsTo(f, s, n)
<1> DEFINE Bad == {m \in Nat : ~\E f : SumsTo(f, s, m)}
<1>1. SUFFICES ASSUME Bad # {} PROVE FALSE
  OBVIOUS
<1>2. PICK m \in Bad : \A k \in Bad : m <= k
  BY <1>1, LeastIsIn
<1>3. m \in Nat /\ ~\E f : SumsTo(f, s, m)
  OBVIOUS
<1>4. CASE m = 0
  <2> DEFINE f == [k \in 0 .. 0 |-> 0]
  <2>1. f = [k \in 0 .. 0 |-> IF k = 0 THEN 0 ELSE f[k - 1] + s[k].len + 1]
    OBVIOUS
  <2>2. SumsTo(f, s, 0)
    BY <2>1 DEF SumsTo
  <2> QED
    BY <1>3, <1>4, <2>2
<1>5. CASE m # 0
  <2>1. m - 1 \in Nat /\ (m - 1) + 1 = m /\ ~(m <= m - 1)
    BY <1>3, <1>5
  <2>2. m - 1 \notin Bad
    BY <1>2, <2>1
  <2>3. PICK f : SumsTo(f, s, m - 1)
    BY <2>1, <2>2
  <2>4. \E g : SumsTo(g, s, (m - 1) + 1)
    BY <2>1, <2>3, SumsGrow
  <2> QED
    BY <1>3, <2>1, <2>4
<1> QED
  BY <1>4, <1>5

LEMMA LengthIsSum ==
  ASSUME NEW S, NEW s \in Seq(S)
  PROVE  \E f : SumsTo(f, s, Len(s)) /\ Length(s) = f[Len(s)]
<1>1. SumsTo(CHOOSE f : SumsTo(f, s, Len(s)), s, Len(s))
  <2>1. Len(s) \in Nat
    OBVIOUS
  <2>2. \E f : SumsTo(f, s, Len(s))
    BY <2>1, SumsExist
  <2> QED
    BY <2>2
<1>2. Length(s) = (CHOOSE f : SumsTo(f, s, Len(s)))[Len(s)]
  BY DEF Length, SumsTo
<1> QED
  BY <1>1, <1>2

LEMMA SumsAgree ==
  ASSUME NEW S, \A t \in S : t.len \in Nat, NEW s \in Seq(S), NEW t \in Seq(S), NEW f, NEW g,
         SumsTo(f, s, Len(s)), SumsTo(g, t, Len(t)), Continues(t, s)
  PROVE  \A k \in 0 .. Len(s) : f[k] \in Nat /\ g[k] = f[k]
<1>a. Len(s) <= Len(t) /\ \A i \in 1 .. Len(s) : t[i] = s[i]
  BY DEF Continues
<1> DEFINE Bad == {i \in 0 .. Len(s) : ~(f[i] \in Nat /\ g[i] = f[i])}
<1>1. SUFFICES ASSUME Bad # {} PROVE FALSE
  OBVIOUS
<1>2. Bad \in SUBSET Nat
  OBVIOUS
<1>3. PICK n \in Bad : \A m \in Bad : n <= m
  BY <1>1, <1>2, LeastIsIn
<1>4. /\ f[0] = 0
      /\ \A k \in 1 .. Len(s) : f[k] = f[k - 1] + s[k].len + 1
      /\ g[0] = 0
      /\ \A k \in 1 .. Len(t) : g[k] = g[k - 1] + t[k].len + 1
  <2>1. Len(s) \in Nat /\ Len(t) \in Nat
    OBVIOUS
  <2> QED
    BY <2>1, SumsOneMore
<1>5. CASE n = 0
  BY <1>3, <1>4, <1>5
<1>6. CASE n # 0
  <2>1. n \in Nat /\ n - 1 \in 0 .. Len(s) /\ n \in 1 .. Len(s) /\ n \in 1 .. Len(t)
    BY <1>a, <1>3, <1>6
  <2>2. n - 1 \notin Bad
    <3> HIDE DEF Bad
    <3> QED
      BY <1>3, <2>1
  <2>3. f[n - 1] \in Nat /\ g[n - 1] = f[n - 1]
    BY <2>1, <2>2
  <2>4. s[n].len \in Nat /\ t[n] = s[n]
    BY <1>a, <2>1
  <2>5. f[n] = f[n - 1] + s[n].len + 1 /\ g[n] = g[n - 1] + t[n].len + 1
    BY <1>4, <2>1
  <2>6. f[n] \in Nat /\ g[n] = f[n]
    <3> HIDE DEF Bad
    <3> QED
      BY <2>3, <2>4, <2>5
  <2> QED
    BY <1>3, <2>6
<1> QED
  BY <1>5, <1>6

LEMMA LengthAppended ==
  ASSUME NEW S, \A t \in S : t.len \in Nat, NEW s \in Seq(S), NEW x \in S
  PROVE  /\ Length(s) \in Nat
         /\ Length(Append(s, x)) = Length(s) + x.len + 1
<1>0. SUFFICES ASSUME NEW t \in Seq(S), t = Append(s, x)
                PROVE  Length(s) \in Nat /\ Length(t) = Length(s) + x.len + 1
  BY AppendProperties
<1>1. /\ Len(t) = Len(s) + 1
      /\ \A i \in 1 .. Len(s) : t[i] = s[i]
      /\ t[Len(s) + 1] = x
  BY <1>0, AppendProperties
<1>2. PICK f : SumsTo(f, s, Len(s)) /\ Length(s) = f[Len(s)]
  BY LengthIsSum
<1>3. PICK g : SumsTo(g, t, Len(t)) /\ Length(t) = g[Len(t)]
  BY LengthIsSum
<1>4. Len(s) \in Nat /\ Len(s) \in 0 .. Len(s) /\ Len(s) + 1 \in 1 .. Len(t) /\ Len(t) \in Nat
  BY <1>1
<1>5. Continues(t, s)
  BY <1>1, <1>4 DEF Continues
<1>6. f[Len(s)] \in Nat /\ g[Len(s)] = f[Len(s)]
  <2>1. \A k \in 0 .. Len(s) : f[k] \in Nat /\ g[k] = f[k]
    BY <1>2, <1>3, <1>5, SumsAgree
  <2> QED
    BY <1>4, <2>1
<1>7. g[Len(s) + 1] = g[Len(s)] + t[Len(s) + 1].len + 1
  <2>1. \A k \in 1 .. Len(t) : g[k] = g[k - 1] + t[k].len + 1
    BY <1>3, <1>4, SumsOneMore
  <2>2. (Len(s) + 1) - 1 = Len(s)
    BY <1>4
  <2> QED
    BY <1>4, <2>1, <2>2
<1> QED
  BY <1>1, <1>2, <1>3, <1>6, <1>7

(***************************************************************************)
(* The inductive invariant.                                                *)
(***************************************************************************)
Tokens == Range(run.input)
IsRun(r) ==
  /\ r \in [n : Nat \ {0}, room : Int, procs : 1 .. MaxParallel, repl : BOOLEAN,
            always : BOOLEAN, shell : BOOLEAN, trap : {"none", "plain", "reaps"},
            input : Seq(Range(r.input))]
  /\ \A i \in DOMAIN r.input : r.input[i].len \in Nat
  /\ r.trap = "reaps" => r.procs = 1

(* No trap has the commands of an xargs -P reaped behind its back.         *)
TrapsReapAlone == \A r \in XRuns \cup LaterRuns : r.trap = "reaps" => r.procs = 1

Shape ==
  /\ IsRun(run)
  /\ items \in Seq(Tokens) /\ made \in Seq(Seq(Tokens))
  /\ eof \in 0 .. Len(run.input) /\ got \in 0 .. eof
  /\ kids = [k \in DOMAIN kids |-> kids[k]] /\ DOMAIN kids \subseteq Pids \cup {Shell}
  /\ \A k \in DOMAIN kids : kids[k] \in Statuses \cup {Running}
  /\ child \in Pids \cup {Shell}
  /\ slots \in Seq([pid : Pids, used : BOOLEAN])
  /\ status \in Nat /\ ended \in Seq(Statuses) /\ abandoned \subseteq Pids
  /\ at \in {"read", "start", "wait", "drain", "done"}

(* While nothing has failed, what was read is in command lines or gathered.*)
Carried ==
  /\ Template /\ at = "read" => items = <<>>
  /\ at \in {"wait", "drain", "done"} => items = <<>>
  /\ at \in {"drain", "done"} => got = eof
  /\ run.trap = "none" => eof = Len(run.input)
  /\ status = 0 => FlattenSeq(made) \o items = SubSeq(run.input, 1, got)

Fits(its) == Len(its) <= run.n /\ (Len(its) > 1 => Length(its) <= run.room)
Lines == Fits(items) /\ \A i \in 1 .. Len(made) : Fits(made[i])

(* A child has one slot in use, the first with its pid, or is the one that *)
(* exec_cmd waits for, or did until a signal came; and a slot in use has a *)
(* child.                                                                  *)
Claimed(k) ==
  (\E i \in Busy : slots[i].pid = k) \/ (at = "wait" /\ k = child) \/ k \in abandoned
Table ==
  /\ Cardinality(Busy) <= run.procs
  /\ run.procs = 1 \/ at = "done" => Busy = {}
  /\ SlotsAreChildren
  /\ \A k \in DOMAIN kids \ {Shell} : Claimed(k)
  /\ at = "wait" => run.procs = 1 /\ child # Shell /\ child \notin abandoned
  /\ abandoned \subseteq DOMAIN kids

(* One at a time: each has ended but the one that is waited for, and a     *)
(* failure is in the status, or about to be collected.                     *)
Awaited == at = "wait" /\ child \in DOMAIN kids /\ kids[child] = Running
Told ==
  run.procs = 1 =>
    /\ run.shell /\ run.trap # "reaps" => Shell \in DOMAIN kids
    /\ status = 0 => Len(made) = Len(ended) + IF Awaited THEN 1 ELSE 0
    /\ status = 0 => \A i \in 1 .. Len(ended) :
          ended[i] = 0 \/ (at = "wait" /\ (child \in DOMAIN kids => ended[i] = kids[child]))

XInv == Shape /\ Carried /\ Lines /\ Table /\ Told

---------------------------------------------------------------------------
LEMMA RunsAreRuns ==
  ASSUME TrapsReapAlone, NEW r \in XRuns \cup LaterRuns
  PROVE  IsRun(r)
BY XargsAssumption DEF IsRun, TrapsReapAlone

LEMMA RunRead ==
  ASSUME IsRun(run)
  PROVE  /\ run.n \in Nat /\ run.n >= 1 /\ run.room \in Int
         /\ run.procs \in Nat /\ run.procs >= 1 /\ run.procs <= MaxParallel /\ MaxParallel \in Nat
         /\ run.repl \in BOOLEAN /\ run.always \in BOOLEAN /\ run.shell \in BOOLEAN
         /\ run.input \in Seq(Tokens) /\ Len(run.input) \in Nat
         /\ \A t \in Tokens : t.len \in Nat
         /\ \A i \in 1 .. Len(run.input) : run.input[i] \in Tokens
<1>1. run.input \in Seq(Tokens)
  BY DEF IsRun, Tokens
<1>2. DOMAIN run.input = 1 .. Len(run.input) /\ Len(run.input) \in Nat
  BY <1>1
<1>3. Tokens = {run.input[i] : i \in DOMAIN run.input}
  BY DEF Tokens, Range
<1>4. \A i \in DOMAIN run.input : run.input[i].len \in Nat
  BY DEF IsRun
<1>5. \A t \in Tokens : t.len \in Nat
  BY <1>3, <1>4
<1>6. /\ run.n \in Nat /\ run.n >= 1 /\ run.room \in Int
      /\ run.procs \in Nat /\ run.procs >= 1 /\ run.procs <= MaxParallel /\ MaxParallel \in Nat
      /\ run.repl \in BOOLEAN /\ run.always \in BOOLEAN /\ run.shell \in BOOLEAN
  BY XargsAssumption DEF IsRun
<1> QED
  BY <1>1, <1>2, <1>3, <1>5, <1>6

LEMMA XInitHolds == TrapsReapAlone /\ XInit => XInv
<1> SUFFICES ASSUME TrapsReapAlone, XInit PROVE XInv
  OBVIOUS
<1>1. IsRun(run)
  BY RunsAreRuns DEF XInit
<1>2. Shape
  <2>1. kids = [k \in DOMAIN kids |-> kids[k]] /\ DOMAIN kids \subseteq {Shell}
        /\ \A k \in DOMAIN kids : kids[k] = Running
    BY DEF XInit
  <2>2. Len(run.input) \in Nat
    BY <1>1, RunRead
  <2> QED
    BY <1>1, <2>1, <2>2 DEF XInit, Shape
<1>3. Carried
  <2>1. FlattenSeq(<<>>) = <<>> /\ <<>> \o <<>> = <<>>
    BY DEF FlattenSeq
  <2>2. SubSeq(run.input, 1, 0) = <<>>
    BY SubSeqEmpty
  <2> QED
    BY <2>1, <2>2 DEF XInit, Carried
<1>4. Lines
  BY <1>1, RunRead DEF XInit, Lines, Fits
<1>5. Busy = {} /\ Cardinality(Busy) = 0
  BY FS_EmptySet DEF XInit, Busy
<1>6. DOMAIN kids \subseteq {Shell} /\ (run.shell => Shell \in DOMAIN kids)
  BY <1>1, RunRead DEF XInit
<1>7. Table
  BY <1>1, <1>5, <1>6, RunRead DEF XInit, Table, SlotsAreChildren
<1>8. Told
  BY <1>6 DEF XInit, Told, Awaited
<1> QED
  BY <1>2, <1>3, <1>4, <1>7, <1>8 DEF XInv

(* A slot of the table set free, and a slot taken.                         *)
Freed(t, l) == [t EXCEPT ![l].used = FALSE]

LEMMA FreedSlot ==
  ASSUME NEW t \in Seq([pid : Pids, used : BOOLEAN]), NEW l \in 1 .. Len(t)
  PROVE  /\ Freed(t, l) \in Seq([pid : Pids, used : BOOLEAN]) /\ Len(Freed(t, l)) = Len(t)
         /\ \A i \in 1 .. Len(t) :
               /\ Freed(t, l)[i].pid = t[i].pid
               /\ Freed(t, l)[i].used = (t[i].used /\ i # l)
<1>1. \A i \in 1 .. Len(t) : t[i] \in [pid : Pids, used : BOOLEAN]
  BY ElementOfSeq
<1>2. PICK c \in [pid : Pids, used : BOOLEAN] : c = [t[l] EXCEPT !.used = FALSE]
  BY <1>1
<1>3. c.pid = t[l].pid /\ c.used = FALSE
  BY <1>1, <1>2
<1>4. Freed(t, l) = [t EXCEPT ![l] = c]
  BY <1>2 DEF Freed
<1>5. /\ Freed(t, l) \in Seq([pid : Pids, used : BOOLEAN]) /\ Len(Freed(t, l)) = Len(t)
      /\ \A i \in 1 .. Len(t) : Freed(t, l)[i] = IF i = l THEN c ELSE t[i]
  <2>1. [t EXCEPT ![l] = c] \in Seq([pid : Pids, used : BOOLEAN])
    BY ExceptSeq
  <2>2. Len([t EXCEPT ![l] = c]) = Len(t)
    BY ExceptSeq
  <2>3. \A i \in 1 .. Len(t) : [t EXCEPT ![l] = c][i] = IF i = l THEN c ELSE t[i]
    BY ExceptSeq
  <2> QED
    BY <1>4, <2>1, <2>2, <2>3
<1>6. ASSUME NEW i \in 1 .. Len(t)
      PROVE  Freed(t, l)[i].pid = t[i].pid /\ Freed(t, l)[i].used = (t[i].used /\ i # l)
  <2>1. t[i].used \in BOOLEAN
    BY <1>1
  <2>2. CASE i = l
    BY <1>3, <1>5, <2>2
  <2>3. CASE i # l
    <3>1. Freed(t, l)[i] = t[i]
      BY <1>5, <2>3
    <3> QED
      BY <2>1, <2>3, <3>1
  <2> QED
    BY <2>2, <2>3
<1> QED
  BY <1>5, <1>6

LEMMA ShapeKept == TrapsReapAlone /\ Shape /\ Carried /\ Table /\ [XNext]_xVars => Shape'
<1> SUFFICES ASSUME TrapsReapAlone, Shape, Carried, Table, [XNext]_xVars PROVE Shape'
  OBVIOUS
<1>1. /\ run.n \in Nat /\ run.n >= 1 /\ run.room \in Int
      /\ run.procs \in Nat /\ run.procs >= 1 /\ run.procs <= MaxParallel /\ MaxParallel \in Nat
      /\ run.input \in Seq(Tokens) /\ Len(run.input) \in Nat
      /\ \A i \in 1 .. Len(run.input) : run.input[i] \in Tokens
  BY RunRead DEF Shape
<1>2. More => Peek \in Tokens /\ got + 1 \in 0 .. eof
  BY <1>1 DEF More, Peek, Shape
<1>3. \A a, b \in Nat : Worse(a, b) \in Nat
  BY DEF Worse
<1>4. run' = run => Tokens' = Tokens
  BY DEF Tokens
<1> USE DEF Shape
<1>5. CASE Gather
  <2>1. Append(items, Peek) \in Seq(Tokens)
    BY <1>2, <1>5, AppendProperties DEF Gather
  <2> QED
    BY <1>2, <1>4, <1>5, <2>1 DEF Gather
<1>6. CASE MustFlush
  BY <1>4, <1>6 DEF MustFlush
<1>7. CASE Substituted
  BY <1>2, <1>4, <1>7 DEF Substituted
<1>8. CASE Refused
  BY <1>1, <1>4, <1>8 DEF Refused
<1>9. CASE EndOfInput
  BY <1>4, <1>9 DEF EndOfInput
<1>10. CASE Start
  <2>1. PICK pid \in Pids \ DOMAIN kids :
          /\ kids' = [k \in DOMAIN kids \cup {pid} |-> IF k = pid THEN Running ELSE kids[k]]
          /\ IF run.procs = 1 THEN child' = pid /\ UNCHANGED slots
             ELSE slots' = Recorded(pid) /\ UNCHANGED child
    BY <1>10 DEF Start
  <2>2. /\ kids' = [k \in DOMAIN kids' |-> kids'[k]] /\ DOMAIN kids' \subseteq Pids \cup {Shell}
        /\ \A k \in DOMAIN kids' : kids'[k] \in Statuses \cup {Running}
    BY <2>1
  <2>3. Taken(pid) \in [pid : Pids, used : BOOLEAN]
    BY <2>1 DEF Taken
  <2>4. Recorded(pid) \in Seq([pid : Pids, used : BOOLEAN])
    <3>1. CASE Free # {}
      <4>1. Free \in SUBSET Nat
        BY DEF Free
      <4>2. Least(Free) \in 1 .. Len(slots)
        <5>1. Least(Free) \in Free
          BY <3>1, <4>1, LeastIsIn
        <5> QED
          BY <5>1 DEF Free
      <4>3. [slots EXCEPT ![Least(Free)] = Taken(pid)] \in Seq([pid : Pids, used : BOOLEAN])
        BY <2>3, <4>2
      <4> QED
        BY <3>1, <4>3 DEF Recorded
    <3>2. CASE Free = {}
      <4>1. Append(slots, Taken(pid)) \in Seq([pid : Pids, used : BOOLEAN])
        BY <2>3, AppendProperties
      <4> QED
        BY <3>2, <4>1 DEF Recorded
    <3> QED
      BY <3>1, <3>2
  <2>5. slots' \in Seq([pid : Pids, used : BOOLEAN]) /\ child' \in Pids \cup {Shell}
    BY <2>1, <2>4
  <2>6. Append(made, items) \in Seq(Seq(Tokens))
    BY AppendProperties
  <2>7. at' \in {"read", "start", "wait", "drain", "done"}
    BY <1>10 DEF Start, GoesOn
  <2>8. /\ UNCHANGED <<run, got, eof, status, ended, abandoned>>
        /\ made' = Append(made, items) /\ items' = <<>>
    BY <1>10 DEF Start
  <2> QED
    BY <1>4, <2>2, <2>5, <2>6, <2>7, <2>8
<1>11. CASE ForkFails
  <2>1. status' \in Nat /\ at' \in {"read", "start", "wait", "drain", "done"}
    BY <1>3, <1>11 DEF ForkFails, GoesOn
  <2> QED
    BY <1>4, <1>11, <2>1 DEF ForkFails
<1>12. CASE WaitForIt
  <2>1. child \in DOMAIN kids /\ kids[child] \in Nat
    BY <1>12, XargsAssumption DEF WaitForIt
  <2>2. status' \in Nat /\ at' \in {"read", "start", "wait", "drain", "done"}
    BY <1>3, <1>12, <2>1 DEF WaitForIt, GoesOn
  <2>3. kids' = [k \in DOMAIN kids \ {child} |-> kids[k]]
    BY <1>12 DEF WaitForIt
  <2> QED
    BY <1>4, <1>12, <2>2, <2>3 DEF WaitForIt
<1>13. ASSUME NEW pid \in Reapable, Collected(pid)
       PROVE  /\ kids' = [k \in DOMAIN kids' |-> kids'[k]] /\ DOMAIN kids' \subseteq Pids \cup {Shell}
              /\ \A k \in DOMAIN kids' : kids'[k] \in Statuses \cup {Running}
              /\ slots' \in Seq([pid : Pids, used : BOOLEAN])
              /\ kids[pid] \in Nat /\ abandoned' \subseteq Pids
  <2>1. SlotsOf(pid) # {} => Least(SlotsOf(pid)) \in 1 .. Len(slots)
    <3>1. SlotsOf(pid) \in SUBSET Nat /\ SlotsOf(pid) \subseteq 1 .. Len(slots)
      BY DEF SlotsOf
    <3> QED
      BY <3>1, LeastIsIn
  <2>2. slots' \in Seq([pid : Pids, used : BOOLEAN])
    <3>1. CASE SlotsOf(pid) = {}
      BY <1>13, <3>1 DEF Collected
    <3>2. CASE SlotsOf(pid) # {}
      BY <1>13, <2>1, <3>2, FreedSlot DEF Collected, Freed
    <3> QED
      BY <3>1, <3>2
  <2>3. kids' = [k \in DOMAIN kids \ {pid} |-> kids[k]]
    BY <1>13 DEF Collected
  <2>4. kids[pid] \in Nat
    BY XargsAssumption DEF Reapable
  <2>5. abandoned' \subseteq Pids
    BY <1>13 DEF Collected
  <2> QED
    BY <2>2, <2>3, <2>4, <2>5
<1>14. CASE WaitForSlot
  BY <1>4, <1>13, <1>14 DEF WaitForSlot
<1>15. CASE Drain
  <2>1. PICK pid \in Reapable : Collected(pid) /\ status' = Worse(status, kids[pid])
    BY <1>15 DEF Drain
  <2>2. status' \in Nat
    BY <1>3, <1>13, <2>1
  <2> QED
    BY <1>4, <1>13, <1>15, <2>1, <2>2 DEF Drain
<1>16. CASE Exit
  BY <1>4, <1>16 DEF Exit
<1>17. CASE ChildEnds
  <2>1. PICK pid \in DOMAIN kids, s \in Statuses :
          /\ kids' = [kids EXCEPT ![pid] = s]
          /\ ended' = IF pid \in {Shell} \cup abandoned THEN ended ELSE Append(ended, s)
          /\ UNCHANGED <<run, items, got, eof, made, child, slots, status, abandoned, at>>
    BY <1>17 DEF ChildEnds
  <2>2. ended' \in Seq(Statuses)
    BY <2>1, AppendProperties
  <2>3. /\ kids' = [k \in DOMAIN kids' |-> kids'[k]] /\ DOMAIN kids' \subseteq Pids \cup {Shell}
        /\ \A k \in DOMAIN kids' : kids'[k] \in Statuses \cup {Running}
    BY <2>1
  <2> QED
    BY <1>4, <2>1, <2>2, <2>3
<1>18. CASE Again
  <2>1. PICK r \in LaterRuns :
          run' = [r EXCEPT !.shell = Shell \in DOMAIN kids] /\ eof' = Len(r.input)
    BY <1>18 DEF Again
  <2>2. IsRun(r)
    BY RunsAreRuns
  <2>3. IsRun(run')
    <3>1. run'.input = r.input /\ run'.trap = r.trap /\ run'.procs = r.procs
      BY <2>1, <2>2 DEF IsRun
    <3>2. run' \in [n : Nat \ {0}, room : Int, procs : 1 .. MaxParallel, repl : BOOLEAN,
                    always : BOOLEAN, shell : BOOLEAN, trap : {"none", "plain", "reaps"},
                    input : Seq(Range(r.input))]
      <4> DEFINE b == Shell \in DOMAIN kids
      <4>1. b \in BOOLEAN
        OBVIOUS
      <4>2. run' = [r EXCEPT !.shell = b]
        BY <2>1
      <4>3. r \in [n : Nat \ {0}, room : Int, procs : 1 .. MaxParallel, repl : BOOLEAN,
                   always : BOOLEAN, shell : BOOLEAN, trap : {"none", "plain", "reaps"},
                   input : Seq(Range(r.input))]
        BY <2>2 DEF IsRun
      <4> HIDE DEF b
      <4> QED
        BY <4>1, <4>2, <4>3
    <3> QED
      BY <2>2, <3>1, <3>2 DEF IsRun
  <2>4. eof' = Len(run'.input) /\ Len(run'.input) \in Nat
    BY <2>1, <2>2, <2>3 DEF IsRun
  <2> QED
    BY <1>18, <2>3, <2>4 DEF Again
<1>19. CASE ReadInterrupted
  <2>1. eof' = got /\ got \in Nat /\ got <= Len(run.input)
    BY <1>1, <1>19 DEF ReadInterrupted
  <2> QED
    BY <1>1, <1>4, <1>19, <2>1 DEF ReadInterrupted
<1>20. CASE WaitInterrupted
  <2>1. abandoned' \subseteq Pids
    BY <1>20 DEF WaitInterrupted, Table
  <2>2. status' \in Nat /\ at' \in {"read", "start", "wait", "drain", "done"}
    BY <1>3, <1>20 DEF WaitInterrupted, GoesOn
  <2> QED
    BY <1>4, <1>20, <2>1, <2>2 DEF WaitInterrupted
<1>21. CASE WaitGone
  <2>1. status' \in Nat /\ at' \in {"read", "start", "wait", "drain", "done"}
    BY <1>3, <1>21 DEF WaitGone, GoesOn
  <2> QED
    BY <1>4, <1>21, <2>1 DEF WaitGone
<1>22. CASE TrapReaps
  <2>1. kids' = [k \in DOMAIN kids \ Reapable |-> kids[k]] /\ abandoned' \subseteq Pids
    BY <1>22 DEF TrapReaps
  <2>2. /\ kids' = [k \in DOMAIN kids' |-> kids'[k]] /\ DOMAIN kids' \subseteq Pids \cup {Shell}
        /\ \A k \in DOMAIN kids' : kids'[k] \in Statuses \cup {Running}
    BY <2>1
  <2> QED
    BY <1>4, <1>22, <2>1, <2>2 DEF TrapReaps
<1>23. CASE UNCHANGED xVars
  BY <1>4, <1>23 DEF xVars
<1> QED
  BY <1>5, <1>6, <1>7, <1>8, <1>9, <1>10, <1>11, <1>12, <1>14, <1>15, <1>16, <1>17, <1>18, <1>19,
     <1>20, <1>21, <1>22, <1>23
  DEF XNext, XStep, Signalled

LEMMA AppendedBehind ==
  ASSUME NEW S, NEW f \in Seq(S), NEW b \in Seq(S), NEW e \in S
  PROVE  f \o Append(b, e) = Append(f \o b, e)
<1>1. /\ Append(b, e) \in Seq(S) /\ Len(Append(b, e)) = Len(b) + 1
      /\ \A i \in 1 .. Len(b) : Append(b, e)[i] = b[i]
      /\ Append(b, e)[Len(b) + 1] = e
  BY AppendProperties
<1>2. PICK t \in Seq(S) : t = Append(b, e)
  BY <1>1
<1>3. /\ f \o t \in Seq(S) /\ Len(f \o t) = Len(f) + Len(t)
      /\ \A i \in 1 .. Len(f) + Len(t) : (f \o t)[i] = IF i <= Len(f) THEN f[i] ELSE t[i - Len(f)]
  BY ConcatProperties
<1>4. /\ f \o b \in Seq(S) /\ Len(f \o b) = Len(f) + Len(b)
      /\ \A i \in 1 .. Len(f) + Len(b) : (f \o b)[i] = IF i <= Len(f) THEN f[i] ELSE b[i - Len(f)]
  BY ConcatProperties
<1>5. PICK u \in Seq(S) : u = f \o b
  BY <1>4
<1>6. /\ Append(u, e) \in Seq(S) /\ Len(Append(u, e)) = Len(u) + 1
      /\ \A i \in 1 .. Len(u) : Append(u, e)[i] = u[i]
      /\ Append(u, e)[Len(u) + 1] = e
  BY AppendProperties
<1>7. Len(f) \in Nat /\ Len(b) \in Nat /\ Len(t) = Len(b) + 1 /\ Len(u) = Len(f) + Len(b)
  BY <1>1, <1>2, <1>4, <1>5
<1>8. ASSUME NEW i \in 1 .. Len(f) + Len(b) + 1
      PROVE  (f \o t)[i] = Append(u, e)[i]
  <2>1. CASE i <= Len(f)
    BY <1>3, <1>4, <1>5, <1>6, <1>7, <2>1
  <2>2. CASE i > Len(f) /\ i <= Len(f) + Len(b)
    <3>1. i - Len(f) \in 1 .. Len(b)
      BY <1>7, <2>2
    <3> QED
      BY <1>1, <1>2, <1>3, <1>4, <1>5, <1>6, <1>7, <2>2, <3>1
  <2>3. CASE i = Len(f) + Len(b) + 1
    <3>1. /\ i \in 1 .. Len(f) + Len(t) /\ ~(i <= Len(f)) /\ i - Len(f) = Len(b) + 1
          /\ i = Len(u) + 1
      BY <1>7, <2>3
    <3>2. (f \o t)[i] = t[Len(b) + 1] /\ t[Len(b) + 1] = e
      BY <1>1, <1>2, <1>3, <3>1
    <3> QED
      BY <1>6, <3>1, <3>2
  <2>4. i <= Len(f) \/ (i > Len(f) /\ i <= Len(f) + Len(b)) \/ i = Len(f) + Len(b) + 1
    BY <1>7
  <2> QED
    BY <2>1, <2>2, <2>3, <2>4
<1>9. Len(f \o t) = Len(f) + Len(b) + 1 /\ Len(Append(u, e)) = Len(f) + Len(b) + 1
  BY <1>3, <1>6, <1>7
<1>10. f \o t = Append(u, e)
  BY <1>3, <1>6, <1>8, <1>9, SeqEqual
<1> QED
  BY <1>2, <1>5, <1>10

(* One token more in the part that was read.                               *)
LEMMA OneTokenMore ==
  ASSUME NEW S, NEW s \in Seq(S), NEW n \in 0 .. Len(s) - 1, NEW f \in Seq(S), NEW b \in Seq(S),
         f \o b = SubSeq(s, 1, n)
  PROVE  f \o Append(b, s[n + 1]) = SubSeq(s, 1, n + 1)
<1>1. Len(s) \in Nat /\ n \in Nat /\ n + 1 \in 1 .. Len(s) /\ s[n + 1] \in S
  BY ElementOfSeq
<1>2. SubSeq(s, 1, n + 1) = Append(SubSeq(s, 1, n), s[n + 1])
  <2>1. /\ SubSeq(s, 1, n) \in Seq(S) /\ Len(SubSeq(s, 1, n)) = n
        /\ \A i \in 1 .. n : SubSeq(s, 1, n)[i] = s[i]
    BY <1>1, SubSeqProperties
  <2>2. /\ SubSeq(s, 1, n + 1) \in Seq(S) /\ Len(SubSeq(s, 1, n + 1)) = n + 1
        /\ \A i \in 1 .. n + 1 : SubSeq(s, 1, n + 1)[i] = s[i]
    BY <1>1, SubSeqProperties
  <2>3. /\ Append(SubSeq(s, 1, n), s[n + 1]) \in Seq(S)
        /\ Len(Append(SubSeq(s, 1, n), s[n + 1])) = n + 1
        /\ \A i \in 1 .. n : Append(SubSeq(s, 1, n), s[n + 1])[i] = s[i]
        /\ Append(SubSeq(s, 1, n), s[n + 1])[n + 1] = s[n + 1]
    BY <1>1, <2>1, AppendProperties
  <2>4. \A i \in 1 .. n + 1 : SubSeq(s, 1, n + 1)[i] = Append(SubSeq(s, 1, n), s[n + 1])[i]
    BY <1>1, <2>2, <2>3
  <2> QED
    BY <2>2, <2>3, <2>4, SeqEqual
<1>3. f \o Append(b, s[n + 1]) = Append(f \o b, s[n + 1])
  BY <1>1, AppendedBehind
<1> QED
  BY <1>2, <1>3

LEMMA NothingRead ==
  ASSUME NEW s
  PROVE  FlattenSeq(<<>>) \o <<>> = SubSeq(s, 1, 0)
<1>1. FlattenSeq(<<>>) = <<>> /\ <<>> \o <<>> = <<>>
  BY DEF FlattenSeq
<1>2. SubSeq(s, 1, 0) = <<>>
  BY SubSeqEmpty
<1> QED
  BY <1>1, <1>2

(* What was gathered goes to the next command.                             *)
LEMMA GivenAway ==
  ASSUME NEW S, NEW m \in Seq(Seq(S)), NEW b \in Seq(S)
  PROVE  FlattenSeq(Append(m, b)) \o <<>> = FlattenSeq(m) \o b
<1>1. FlattenSeq(m) \in Seq(S) /\ FlattenSeq(Append(m, b)) = FlattenSeq(m) \o b
  BY FlattenAppended
<1>2. FlattenSeq(m) \o b \in Seq(S)
  BY <1>1
<1>3. (FlattenSeq(m) \o b) \o <<>> = FlattenSeq(m) \o b
  BY <1>2, ConcatEmptySeq
<1> QED
  BY <1>1, <1>3

LEMMA CarriedKept == Shape /\ Carried /\ Table /\ [XNext]_xVars => Carried'
<1> SUFFICES ASSUME Shape, Carried, Table, [XNext]_xVars PROVE Carried'
  OBVIOUS
<1>1. /\ run.input \in Seq(Tokens) /\ Len(run.input) \in Nat
      /\ items \in Seq(Tokens) /\ made \in Seq(Seq(Tokens))
      /\ eof \in 0 .. Len(run.input) /\ got \in 0 .. eof
  BY RunRead DEF Shape
<1>2. FlattenSeq(made) \in Seq(Tokens)
  BY <1>1, FlattenAppended
<1>3. ~More => got = eof
  BY <1>1 DEF More
<1>4. (at = "read" \/ status = 0) /\ run' = run /\ got' = got /\ made' = made /\ items' = items
        /\ (status' = 0 => status = 0)
        => (status' = 0 => FlattenSeq(made') \o items' = SubSeq(run'.input, 1, got'))
  BY DEF Carried
<1>5. ASSUME status = 0, More
      PROVE  FlattenSeq(made) \o Append(items, Peek) = SubSeq(run.input, 1, got + 1)
  <2>1. FlattenSeq(made) \o items = SubSeq(run.input, 1, got) /\ got \in 0 .. Len(run.input) - 1
    BY <1>1, <1>5 DEF Carried, More
  <2> QED
    BY <1>1, <1>2, <2>1, OneTokenMore DEF Peek
<1>6. CASE Gather
  <2>1. /\ run' = run /\ eof' = eof /\ made' = made /\ status' = status /\ at' = "read" /\ ~Template /\ More
        /\ items' = Append(items, Peek) /\ got' = got + 1
    BY <1>6 DEF Gather
  <2>2. status' = 0 => FlattenSeq(made') \o items' = SubSeq(run'.input, 1, got')
    BY <1>5, <2>1
  <2> QED
    BY <2>1, <2>2 DEF Carried, Template
<1>7. CASE MustFlush
  <2>1. at' = "start" /\ UNCHANGED <<run, items, got, eof, made, status>>
    BY <1>7 DEF MustFlush
  <2> QED
    BY <2>1 DEF Carried
<1>8. CASE Substituted
  <2>1. /\ run' = run /\ eof' = eof /\ made' = made /\ status' = status /\ at' = "start" /\ More
        /\ items' = <<Peek>> /\ got' = got + 1 /\ items = <<>>
    BY <1>8 DEF Substituted, Carried
  <2>2. <<Peek>> = Append(<<>>, Peek)
    OBVIOUS
  <2>3. status' = 0 => FlattenSeq(made') \o items' = SubSeq(run'.input, 1, got')
    BY <1>5, <2>1, <2>2
  <2> QED
    BY <2>1, <2>3 DEF Carried
<1>9. CASE Refused
  <2>1. at' = "read" /\ at = "read" /\ status' = 1 /\ UNCHANGED <<run, eof, items>>
    BY <1>9 DEF Refused
  <2> QED
    BY <2>1 DEF Carried, Template
<1>10. CASE EndOfInput
  <2>1. /\ at' \in {"start", "drain"} /\ (at' = "drain" => items = <<>>) /\ ~More
        /\ UNCHANGED <<run, items, got, eof, made, status>>
    BY <1>10 DEF EndOfInput
  <2> QED
    BY <1>3, <2>1 DEF Carried
<1>11. CASE Start
  <2>1. /\ made' = Append(made, items) /\ items' = <<>>
        /\ UNCHANGED <<run, got, eof, status>>
        /\ at' \in {"read", "wait", "drain"} /\ (at' = "drain" => ~More)
    BY <1>11 DEF Start, GoesOn
  <2>2. FlattenSeq(made') \o <<>> = FlattenSeq(made) \o items
    BY <1>1, <2>1, GivenAway
  <2> QED
    BY <1>3, <2>1, <2>2 DEF Carried
<1>12. CASE ForkFails
  <2>1. /\ status' # 0 /\ items' = <<>> /\ UNCHANGED <<run, got, eof>>
        /\ at' \in {"read", "drain"} /\ (at' = "drain" => ~More)
    BY <1>12 DEF ForkFails, GoesOn, Worse, Shape
  <2> QED
    BY <1>3, <2>1 DEF Carried
<1>13. CASE WaitForIt
  <2>1. kids[child] \in Nat
    BY <1>13, XargsAssumption DEF WaitForIt, Shape
  <2>2. status' = 0 => status = 0
    BY <1>13, <2>1 DEF WaitForIt, Worse, Shape
  <2>3. /\ UNCHANGED <<run, items, got, eof, made>> /\ items = <<>>
        /\ at' \in {"read", "drain"} /\ (at' = "drain" => ~More)
    BY <1>13 DEF WaitForIt, GoesOn, Carried
  <2> QED
    BY <1>3, <2>2, <2>3 DEF Carried
<1>14. CASE WaitForSlot
  <2>1. UNCHANGED <<run, items, got, eof, made, status, at>>
    BY <1>14 DEF WaitForSlot
  <2> QED
    BY <2>1 DEF Carried, Template
<1>15. CASE Drain
  <2>1. UNCHANGED <<run, items, got, eof, made, at>>
    BY <1>15 DEF Drain
  <2>2. PICK pid \in Reapable : status' = Worse(status, kids[pid])
    BY <1>15 DEF Drain
  <2>3. kids[pid] \in Nat
    BY <2>2, XargsAssumption DEF Reapable, Shape
  <2>4. status' = 0 => status = 0
    BY <2>2, <2>3 DEF Worse, Shape
  <2> QED
    BY <2>1, <2>4 DEF Carried, Template
<1>16. CASE Exit
  <2>1. UNCHANGED <<run, items, got, eof, made>> /\ (status' = 0 => status = 0) /\ at = "drain" /\ at' = "done"
    BY <1>16 DEF Exit
  <2> QED
    BY <2>1 DEF Carried
<1>17. CASE ChildEnds
  <2>1. UNCHANGED <<run, items, got, eof, made, status, at>>
    BY <1>17 DEF ChildEnds
  <2> QED
    BY <2>1 DEF Carried, Template
<1>18. CASE Again
  <2>1. items' = <<>> /\ got' = 0 /\ made' = <<>> /\ at' = "read"
    BY <1>18 DEF Again
  <2>2. PICK r \in LaterRuns :
          run' = [r EXCEPT !.shell = Shell \in DOMAIN kids] /\ eof' = Len(r.input)
    BY <1>18 DEF Again
  <2>3. eof' = Len(run'.input)
    BY <2>2, XargsAssumption
  <2> QED
    BY <2>1, <2>3, NothingRead DEF Carried
<1>19. CASE ReadInterrupted
  <2>1. UNCHANGED <<run, items, got, made, status, at>> /\ at = "read" /\ run.trap # "none"
    BY <1>19 DEF ReadInterrupted
  <2> QED
    BY <2>1 DEF Carried, Template
<1>20. CASE WaitInterrupted \/ WaitGone
  <2>1. status' # 0
    BY <1>20 DEF WaitInterrupted, WaitGone, Worse, Shape
  <2>2. /\ UNCHANGED <<run, items, got, eof, made>> /\ items = <<>>
        /\ at' \in {"read", "drain"} /\ (at' = "drain" => ~More)
    BY <1>20 DEF WaitInterrupted, WaitGone, GoesOn, Carried
  <2> QED
    BY <1>3, <2>1, <2>2 DEF Carried
<1>21. CASE TrapReaps
  <2>1. UNCHANGED <<run, items, got, eof, made, status, at>>
    BY <1>21 DEF TrapReaps
  <2> QED
    BY <2>1 DEF Carried, Template
<1>22. CASE UNCHANGED xVars
  <2>1. UNCHANGED <<run, items, got, eof, made, status, at>>
    BY <1>22 DEF xVars
  <2> QED
    BY <2>1 DEF Carried, Template
<1> QED
  BY <1>6, <1>7, <1>8, <1>9, <1>10, <1>11, <1>12, <1>13, <1>14, <1>15, <1>16, <1>17, <1>18, <1>19,
     <1>20, <1>21, <1>22
  DEF XNext, XStep, Signalled

(* The limits are looked at before a token is added, and a line given to a *)
(* command is what was gathered.                                           *)
LEMMA LinesKept == TrapsReapAlone /\ Shape /\ Lines /\ [XNext]_xVars => Lines'
<1> SUFFICES ASSUME TrapsReapAlone, Shape, Lines, [XNext]_xVars PROVE Lines'
  OBVIOUS
<1>1. /\ run.n \in Nat /\ run.n >= 1 /\ run.room \in Int
      /\ run.input \in Seq(Tokens) /\ Len(run.input) \in Nat
      /\ \A t \in Tokens : t.len \in Nat
      /\ \A i \in 1 .. Len(run.input) : run.input[i] \in Tokens
      /\ items \in Seq(Tokens) /\ made \in Seq(Seq(Tokens))
      /\ eof \in 0 .. Len(run.input) /\ got \in 0 .. eof
  BY RunRead DEF Shape
<1>2. More => Peek \in Tokens /\ Peek.len \in Nat
  BY <1>1 DEF More, Peek
<1>3. /\ run.n >= 1 => Fits(<<>>) /\ \A x : Fits(<<x>>)
      /\ run' = run => \A x : Fits(x)' = Fits(x)
  BY <1>1 DEF Fits
<1>4. CASE Gather
  <2>1. /\ run' = run /\ made' = made /\ items' = Append(items, Peek) /\ ~Full(Peek) /\ More
    BY <1>4 DEF Gather
  <2>2. Length(items) \in Nat /\ Length(Append(items, Peek)) = Length(items) + Peek.len + 1
    BY <1>1, <1>2, <2>1, LengthAppended
  <2>3. Len(Append(items, Peek)) = Len(items) + 1 /\ (items = <<>> => Len(items) = 0)
    BY <1>1, <1>2, <2>1, AppendProperties
  <2>4. Fits(Append(items, Peek))
    BY <1>1, <1>2, <2>1, <2>2, <2>3 DEF Full, Fits
  <2> QED
    BY <2>1, <2>4 DEF Lines, Fits
<1>5. CASE Substituted
  <2>1. items' = <<Peek>> /\ run' = run /\ made' = made
    BY <1>5 DEF Substituted
  <2> QED
    BY <1>1, <2>1 DEF Lines, Fits
<1>6. CASE Start
  <2>1. made' = Append(made, items) /\ items' = <<>> /\ run' = run
    BY <1>6 DEF Start
  <2>2. /\ Len(made') = Len(made) + 1 /\ made'[Len(made) + 1] = items
        /\ \A i \in 1 .. Len(made) : made'[i] = made[i]
    BY <1>1, <2>1, AppendProperties
  <2>3. \A i \in 1 .. Len(made') : Fits(made'[i])
    <3>1. ASSUME NEW i \in 1 .. Len(made') PROVE Fits(made'[i])
      <4>1. i \in 1 .. Len(made) \/ i = Len(made) + 1
        BY <1>1, <2>2
      <4> QED
        BY <2>2, <4>1 DEF Lines
    <3> QED
      BY <3>1
  <2> QED
    BY <1>1, <2>1, <2>3 DEF Lines, Fits
<1>7. CASE ForkFails
  <2>1. items' = <<>> /\ run' = run /\ made' = made
    BY <1>7 DEF ForkFails
  <2> QED
    BY <1>1, <2>1 DEF Lines, Fits
<1>8. CASE Again
  <2>1. PICK r \in LaterRuns : run' = [r EXCEPT !.shell = Shell \in DOMAIN kids]
    BY <1>8 DEF Again
  <2>2. r.n \in Nat \ {0} /\ DOMAIN r = {"n", "room", "procs", "repl", "always", "shell", "trap", "input"}
    BY RunsAreRuns DEF IsRun
  <2>3. run'.n = r.n
    BY <2>1, <2>2
  <2>4. items' = <<>> /\ made' = <<>>
    BY <1>8 DEF Again
  <2> QED
    BY <2>2, <2>3, <2>4 DEF Lines, Fits
<1>9. CASE UNCHANGED <<run, items, made>>
  BY <1>9 DEF Lines, Fits
<1>10. XNext \/ UNCHANGED xVars
       => Gather \/ Substituted \/ Start \/ ForkFails \/ Again \/ UNCHANGED <<run, items, made>>
  BY DEF XNext, XStep, Signalled, MustFlush, Refused, EndOfInput, WaitForIt, WaitForSlot, Drain, Exit,
         ChildEnds, ReadInterrupted, WaitInterrupted, WaitGone, TrapReaps, xVars
<1> QED
  BY <1>4, <1>5, <1>6, <1>7, <1>8, <1>9, <1>10

LEMMA TableRead ==
  ASSUME Shape
  PROVE  /\ DOMAIN slots = 1 .. Len(slots) /\ Len(slots) \in Nat
         /\ Busy \subseteq 1 .. Len(slots) /\ Free \subseteq 1 .. Len(slots)
         /\ IsFiniteSet(Busy) /\ Cardinality(Busy) \in Nat
         /\ \A i \in 1 .. Len(slots) : /\ slots[i].pid \in Pids /\ slots[i].used \in BOOLEAN
                                       /\ i \in Busy <=> slots[i].used
                                       /\ i \in Free <=> ~slots[i].used
<1>1. slots \in Seq([pid : Pids, used : BOOLEAN])
  BY DEF Shape
<1>2. DOMAIN slots = 1 .. Len(slots) /\ Len(slots) \in Nat
  BY <1>1
<1>3. \A i \in 1 .. Len(slots) : slots[i] \in [pid : Pids, used : BOOLEAN]
  BY <1>1, ElementOfSeq
<1>4. \A i \in 1 .. Len(slots) : slots[i].pid \in Pids /\ slots[i].used \in BOOLEAN
  BY <1>3
<1>5. IsFiniteSet(1 .. Len(slots))
  BY <1>2, FS_Interval
<1>6. Busy \subseteq 1 .. Len(slots) /\ Free \subseteq 1 .. Len(slots)
  BY <1>2 DEF Busy, Free
<1>7. IsFiniteSet(Busy) /\ Cardinality(Busy) \in Nat
  BY <1>5, <1>6, FS_Subset, FS_CardinalityType
<1>8. \A i \in 1 .. Len(slots) : (i \in Busy <=> slots[i].used) /\ (i \in Free <=> ~slots[i].used)
  BY <1>2 DEF Busy, Free
<1> QED
  BY <1>2, <1>4, <1>6, <1>7, <1>8

(* Where a new child is put: every slot before it is in use.               *)
Put(l, pid) ==
  /\ l \in DOMAIN slots' /\ l \in Nat /\ l \notin Busy
  /\ Busy' = Busy \cup {l}
  /\ slots'[l].pid = pid
  /\ \A i \in DOMAIN slots : i # l => slots'[i].pid = slots[i].pid
  /\ \A j \in 1 .. l - 1 : j \in Busy

LEMMA RecordedIsPut ==
  ASSUME Shape, run.procs > 1, Cardinality(Busy) < run.procs,
         NEW pid \in Pids, slots' = Recorded(pid)
  PROVE  \E l : Put(l, pid)
<1>1. /\ DOMAIN slots = 1 .. Len(slots) /\ Len(slots) \in Nat
      /\ Busy \subseteq 1 .. Len(slots) /\ Free \subseteq 1 .. Len(slots)
      /\ \A i \in 1 .. Len(slots) : /\ slots[i].used \in BOOLEAN
                                    /\ i \in Busy <=> slots[i].used
                                    /\ i \in Free <=> ~slots[i].used
  BY TableRead
<1>2. slots \in Seq([pid : Pids, used : BOOLEAN])
  BY DEF Shape
<1>3. PICK c \in [pid : Pids, used : BOOLEAN] : c = Taken(pid) /\ c.pid = pid /\ c.used = TRUE
  <2>1. PICK c \in [pid : Pids, used : BOOLEAN] : c = [pid |-> pid, used |-> TRUE]
    OBVIOUS
  <2>2. c.pid = pid /\ c.used = TRUE
    BY <2>1
  <2> QED
    BY <2>1, <2>2 DEF Taken
<1>4. CASE Free # {}
  <2>1. PICK l : l = Least(Free)
    OBVIOUS
  <2>2. l \in Free /\ \A m \in Free : l <= m
    <3>1. Free \in SUBSET Nat
      BY <1>1
    <3> QED
      BY <1>4, <2>1, <3>1, LeastIsIn
  <2>3. l \in 1 .. Len(slots) /\ slots' = [slots EXCEPT ![l] = c]
    BY <1>1, <1>3, <1>4, <2>1, <2>2 DEF Recorded
  <2>4. /\ DOMAIN slots' = 1 .. Len(slots)
        /\ \A i \in 1 .. Len(slots) : slots'[i] = IF i = l THEN c ELSE slots[i]
    BY <1>1, <2>3
  <2>5. Busy' = Busy \cup {l}
    <3>1. Busy' = {i \in 1 .. Len(slots) : slots'[i].used}
      BY <2>4 DEF Busy
    <3>2. \A i \in 1 .. Len(slots) : slots'[i].used <=> i \in Busy \cup {l}
      BY <1>1, <1>3, <2>4
    <3> QED
      BY <1>1, <2>3, <3>1, <3>2
  <2>6. \A j \in 1 .. l - 1 : j \in Busy
    BY <1>1, <2>2, <2>3
  <2>7. l \notin Busy
    BY <1>1, <2>2, <2>3
  <2>8. /\ slots'[l].pid = pid
        /\ \A i \in 1 .. Len(slots) : i # l => slots'[i].pid = slots[i].pid
    BY <1>3, <2>3, <2>4
  <2> QED
    BY <1>1, <2>3, <2>4, <2>5, <2>6, <2>7, <2>8 DEF Put
<1>5. CASE Free = {}
  <2>1. Busy = 1 .. Len(slots)
    BY <1>1, <1>5
  <2>2. Cardinality(Busy) = Len(slots)
    <3>1. Len(slots) \in Nat
      BY <1>1
    <3>2. Cardinality(1 .. Len(slots)) = IF 1 > Len(slots) THEN 0 ELSE Len(slots) - 1 + 1
      BY <3>1, FS_Interval
    <3> QED
      BY <2>1, <3>1, <3>2
  <2>3. Len(slots) < MaxParallel
    BY <1>1, <2>2, RunRead DEF Shape
  <2>4. slots' = Append(slots, c)
    BY <1>3, <1>5, <2>3 DEF Recorded
  <2>5. /\ DOMAIN slots' = 1 .. Len(slots) + 1
        /\ \A i \in 1 .. Len(slots) : slots'[i] = slots[i]
        /\ slots'[Len(slots) + 1] = c
    BY <1>1, <1>2, <2>4, AppendProperties
  <2>6. Busy' = Busy \cup {Len(slots) + 1}
    <3>1. Busy' = {i \in 1 .. Len(slots) + 1 : slots'[i].used}
      BY <2>5 DEF Busy
    <3>2. \A i \in 1 .. Len(slots) + 1 : slots'[i].used
      BY <1>1, <1>3, <2>1, <2>5
    <3>3. Busy' = 1 .. Len(slots) + 1
      BY <3>1, <3>2
    <3> QED
      BY <1>1, <2>1, <3>3
  <2> QED
    BY <1>1, <1>3, <2>1, <2>5, <2>6 DEF Put
<1> QED
  BY <1>4, <1>5

LEMMA TakenTable ==
  ASSUME Shape, Table, Cardinality(Busy) < run.procs, NEW pid \in Pids \ DOMAIN kids,
         DOMAIN kids' = DOMAIN kids \cup {pid}, NEW l, Put(l, pid),
         run' = run, abandoned' = abandoned, at # "wait"
  PROVE  /\ Cardinality(Busy') <= run'.procs
         /\ SlotsAreChildren'
         /\ \A k \in DOMAIN kids' \ {Shell} : (\E i \in Busy' : slots'[i].pid = k) \/ k \in abandoned'
<1>1. /\ DOMAIN slots = 1 .. Len(slots) /\ Len(slots) \in Nat
      /\ Busy \subseteq 1 .. Len(slots)
      /\ IsFiniteSet(Busy) /\ Cardinality(Busy) \in Nat
  BY TableRead
<1>2. Cardinality(Busy') <= run'.procs
  <2>1. Cardinality(Busy \cup {l}) = Cardinality(Busy) + 1
    BY <1>1, FS_AddElement DEF Put
  <2>2. run.procs \in Nat
    BY RunRead DEF Shape
  <2> QED
    BY <1>1, <2>1, <2>2 DEF Put
<1>3. SlotsAreChildren'
  <2>1. SUFFICES ASSUME NEW i \in Busy'
                 PROVE  /\ slots'[i].pid \in DOMAIN kids' \ {Shell}
                        /\ \A j \in 1 .. i - 1 : slots'[j].pid # slots'[i].pid
    BY DEF SlotsAreChildren
  <2>2. CASE i = l
    <3>1. slots'[i].pid = pid /\ pid \in DOMAIN kids' \ {Shell}
      BY <2>2, XargsAssumption DEF Put
    <3>2. ASSUME NEW j \in 1 .. i - 1 PROVE slots'[j].pid # pid
      <4>1. j \in Busy /\ slots'[j].pid = slots[j].pid
        BY <1>1, <2>2 DEF Put
      <4> QED
        BY <4>1 DEF Table, SlotsAreChildren
    <3> QED
      BY <3>1, <3>2
  <2>3. CASE i # l
    <3>1. i \in Busy /\ slots'[i].pid = slots[i].pid
      BY <1>1, <2>1, <2>3 DEF Put
    <3>2. slots[i].pid \in DOMAIN kids \ {Shell} /\ \A j \in 1 .. i - 1 : slots[j].pid # slots[i].pid
      BY <3>1 DEF Table, SlotsAreChildren
    <3>3. ASSUME NEW j \in 1 .. i - 1 PROVE slots'[j].pid # slots'[i].pid
      <4>1. CASE j = l
        BY <3>1, <3>2, <4>1 DEF Put
      <4>2. CASE j # l
        <5>1. slots'[j].pid = slots[j].pid
          BY <1>1, <3>1, <4>2 DEF Put
        <5> QED
          BY <3>1, <3>2, <5>1
      <4> QED
        BY <4>1, <4>2
    <3> QED
      BY <3>1, <3>2, <3>3
  <2> QED
    BY <2>2, <2>3
<1>4. ASSUME NEW k \in DOMAIN kids' \ {Shell}, k \notin abandoned
      PROVE  \E i \in Busy' : slots'[i].pid = k
  <2>1. CASE k = pid
    BY <2>1 DEF Put
  <2>2. CASE k # pid
    <3>1. k \in DOMAIN kids \ {Shell}
      BY <2>2
    <3>2. PICK i \in Busy : slots[i].pid = k
      BY <1>4, <3>1 DEF Table, Claimed
    <3> QED
      BY <1>1, <3>2 DEF Put
  <2> QED
    BY <2>1, <2>2
<1> QED
  BY <1>2, <1>3, <1>4

(* The one slot in use that holds the pid of a child that is collected is  *)
(* the one that the loop comes to, and the others keep their children.     *)
LEMMA CollectedTable ==
  ASSUME Shape, Table, at # "wait", NEW pid \in DOMAIN kids, Collected(pid)
  PROVE  /\ Cardinality(Busy') \in Nat /\ Cardinality(Busy') <= Cardinality(Busy)
         /\ Busy' \subseteq Busy
         /\ SlotsAreChildren'
         /\ \A k \in DOMAIN kids' \ {Shell} : (\E i \in Busy' : slots'[i].pid = k) \/ k \in abandoned'
         /\ abandoned' \subseteq DOMAIN kids'
<1>1. /\ DOMAIN slots = 1 .. Len(slots) /\ Len(slots) \in Nat
      /\ Busy \subseteq 1 .. Len(slots)
      /\ IsFiniteSet(Busy) /\ Cardinality(Busy) \in Nat
      /\ \A i \in 1 .. Len(slots) : /\ slots[i].pid \in Pids /\ slots[i].used \in BOOLEAN
                                    /\ i \in Busy <=> slots[i].used
  BY TableRead
<1>2. DOMAIN kids' = DOMAIN kids \ {pid} /\ abandoned' = abandoned \ {pid}
  BY DEF Collected
<1>3. /\ DOMAIN slots' = DOMAIN slots
      /\ \A i \in DOMAIN slots : slots'[i].pid = slots[i].pid
      /\ Busy' = {i \in Busy : slots[i].pid # pid}
  <2>1. CASE SlotsOf(pid) = {}
    <3>1. slots' = slots /\ \A i \in DOMAIN slots : slots[i].pid # pid
      BY <2>1 DEF Collected, SlotsOf
    <3>2. Busy' = Busy
      BY <3>1 DEF Busy
    <3> QED
      BY <1>1, <3>1, <3>2
  <2>2. CASE SlotsOf(pid) # {}
    <3>1. PICK l : l = Least(SlotsOf(pid))
      OBVIOUS
    <3>2. l \in SlotsOf(pid) /\ \A m \in SlotsOf(pid) : l <= m
      <4>1. SlotsOf(pid) \in SUBSET Nat
        BY <1>1 DEF SlotsOf
      <4> QED
        BY <2>2, <3>1, <4>1, LeastIsIn
    <3>3. l \in 1 .. Len(slots) /\ slots[l].pid = pid
      BY <1>1, <3>2 DEF SlotsOf
    <3>4. slots' = Freed(slots, l)
      BY <2>2, <3>1 DEF Collected, Freed
    <3>5. /\ slots' \in Seq([pid : Pids, used : BOOLEAN]) /\ Len(slots') = Len(slots)
          /\ \A i \in 1 .. Len(slots) : /\ slots'[i].pid = slots[i].pid
                                        /\ slots'[i].used = (slots[i].used /\ i # l)
      BY <3>3, <3>4, FreedSlot DEF Shape
    <3>6. DOMAIN slots' = 1 .. Len(slots)
      BY <3>5
    <3>7. \A i \in Busy : i # l => slots[i].pid # pid
      <4>1. ASSUME NEW i \in Busy, i # l, slots[i].pid = pid PROVE FALSE
        <5>1. i \in SlotsOf(pid) /\ l <= i /\ l \in 1 .. i - 1
          BY <1>1, <3>2, <3>3, <4>1 DEF SlotsOf
        <5> QED
          BY <3>3, <4>1, <5>1 DEF Table, SlotsAreChildren
      <4> QED
        BY <4>1
    <3>8. Busy' = {i \in Busy : slots[i].pid # pid}
      <4>1. Busy' = {i \in 1 .. Len(slots) : slots'[i].used}
        BY <3>6 DEF Busy
      <4>2. \A i \in 1 .. Len(slots) : slots'[i].used <=> i \in Busy /\ slots[i].pid # pid
        BY <1>1, <3>3, <3>5, <3>7
      <4> QED
        BY <1>1, <4>1, <4>2
    <3> QED
      BY <1>1, <3>5, <3>6, <3>8
  <2> QED
    BY <2>1, <2>2
<1>4. Cardinality(Busy') \in Nat /\ Cardinality(Busy') <= Cardinality(Busy) /\ Busy' \subseteq Busy
  <2>1. Busy' \subseteq Busy
    BY <1>3
  <2>2. IsFiniteSet(Busy') /\ Cardinality(Busy') <= Cardinality(Busy)
    BY <1>1, <2>1, FS_Subset
  <2> QED
    BY <2>1, <2>2, FS_CardinalityType
<1>5. SlotsAreChildren'
  <2>1. SUFFICES ASSUME NEW i \in Busy'
                 PROVE  /\ slots'[i].pid \in DOMAIN kids' \ {Shell}
                        /\ \A j \in 1 .. i - 1 : slots'[j].pid # slots'[i].pid
    BY DEF SlotsAreChildren
  <2>2. i \in Busy /\ slots[i].pid # pid /\ i \in 1 .. Len(slots) /\ slots'[i].pid = slots[i].pid
    BY <1>1, <1>3, <2>1
  <2>3. slots[i].pid \in DOMAIN kids \ {Shell} /\ \A j \in 1 .. i - 1 : slots[j].pid # slots[i].pid
    BY <2>2 DEF Table, SlotsAreChildren
  <2>4. \A j \in 1 .. i - 1 : j \in DOMAIN slots
    BY <1>1, <2>2
  <2> QED
    BY <1>2, <1>3, <2>2, <2>3, <2>4
<1>6. ASSUME NEW k \in DOMAIN kids' \ {Shell}, k \notin abandoned'
      PROVE  \E i \in Busy' : slots'[i].pid = k
  <2>1. k \in DOMAIN kids \ {Shell} /\ k # pid /\ k \notin abandoned
    BY <1>2, <1>6
  <2>2. PICK i \in Busy : slots[i].pid = k
    BY <2>1 DEF Table, Claimed
  <2> QED
    BY <1>1, <1>3, <2>1, <2>2
<1>7. abandoned' \subseteq DOMAIN kids'
  BY <1>2 DEF Table
<1> QED
  BY <1>4, <1>5, <1>6, <1>7

LEMMA TableKept == TrapsReapAlone /\ Shape /\ Carried /\ Table /\ [XNext]_xVars => Table'
<1> SUFFICES ASSUME TrapsReapAlone, Shape, Carried, Table, [XNext]_xVars PROVE Table'
  OBVIOUS
<1>1. /\ IsFiniteSet(Busy) /\ Cardinality(Busy) \in Nat
      /\ run.procs \in Nat /\ run.procs >= 1
      /\ Shell \notin Pids /\ DOMAIN kids \subseteq Pids \cup {Shell}
  BY TableRead, RunRead, XargsAssumption DEF Shape
<1>2. ASSUME UNCHANGED <<run, kids, slots, abandoned>>, at # "wait", at' # "wait", at' = "done" => Busy = {}
      PROVE  Table'
  BY <1>2 DEF Table, SlotsAreChildren, Claimed, Busy
<1>3. CASE Gather \/ MustFlush \/ Substituted \/ Refused \/ EndOfInput \/ ForkFails \/ Exit \/ ReadInterrupted
  <2>1. /\ UNCHANGED <<run, kids, slots, abandoned>>
        /\ at # "wait" /\ at' # "wait" /\ (at' = "done" => Busy = {})
    BY <1>3 DEF Gather, MustFlush, Substituted, Refused, EndOfInput, ForkFails, Exit, ReadInterrupted,
                 Ready, GoesOn
  <2> QED
    BY <1>2, <2>1
<1>4. CASE Start
  <2>1. /\ run' = run /\ abandoned' = abandoned /\ at = "start" /\ (run.procs > 1 => Cardinality(Busy) < run.procs)
        /\ IF run.procs = 1 THEN at' = "wait" ELSE at' \in {"read", "drain"}
    BY <1>4 DEF Start, Ready, GoesOn
  <2>2. PICK pid \in Pids \ DOMAIN kids :
          /\ DOMAIN kids' = DOMAIN kids \cup {pid}
          /\ IF run.procs = 1 THEN child' = pid /\ UNCHANGED slots
             ELSE slots' = Recorded(pid) /\ UNCHANGED child
    BY <1>4 DEF Start
  <2>3. CASE run.procs = 1
    <3>1. Busy' = Busy /\ Busy = {} /\ Cardinality(Busy) <= run.procs
      BY <2>2, <2>3 DEF Busy, Table
    <3>2. \A k \in DOMAIN kids \ {Shell} : k \in abandoned
      BY <2>1, <3>1 DEF Table, Claimed
    <3>3. \A k \in DOMAIN kids' \ {Shell} : k = child' \/ k \in abandoned'
      BY <2>1, <2>2, <2>3, <3>2
    <3>4. /\ at' = "wait" /\ run'.procs = 1 /\ child' # Shell /\ child' \notin abandoned'
          /\ abandoned' \subseteq DOMAIN kids'
      BY <1>1, <2>1, <2>2, <2>3 DEF Table
    <3> QED
      BY <2>1, <3>1, <3>3, <3>4 DEF Table, SlotsAreChildren, Claimed
  <2>4. CASE run.procs > 1
    <3>1. PICK l : Put(l, pid)
      BY <2>1, <2>2, <2>4, RecordedIsPut
    <3>2. /\ Cardinality(Busy') <= run'.procs
          /\ SlotsAreChildren'
          /\ \A k \in DOMAIN kids' \ {Shell} : (\E i \in Busy' : slots'[i].pid = k) \/ k \in abandoned'
          /\ abandoned' \subseteq DOMAIN kids'
      BY <2>1, <2>2, <2>4, <3>1, TakenTable DEF Table
    <3> QED
      BY <2>1, <2>4, <3>2 DEF Table, Claimed
  <2> QED
    BY <1>1, <2>3, <2>4
<1>5. CASE WaitForIt \/ WaitInterrupted \/ WaitGone
  <2>1. /\ run.procs = 1 /\ Busy = {} /\ Cardinality(Busy) <= run.procs /\ run' = run /\ slots' = slots
        /\ at' # "wait" /\ at' # "done"
    BY <1>5 DEF WaitForIt, WaitInterrupted, WaitGone, Table, GoesOn
  <2>2. Busy' = Busy
    BY <2>1 DEF Busy
  <2>3. \A k \in DOMAIN kids \ {Shell} : k = child \/ k \in abandoned
    BY <2>1 DEF Table, Claimed
  <2>4. child \notin abandoned /\ abandoned \subseteq DOMAIN kids
    BY <1>5 DEF WaitForIt, WaitInterrupted, WaitGone, Table
  <2>5. \/ DOMAIN kids' = DOMAIN kids \ {child} /\ abandoned' = abandoned
        \/ kids' = kids /\ abandoned' = abandoned \cup {child} /\ child \in DOMAIN kids
        \/ kids' = kids /\ abandoned' = abandoned /\ child \notin DOMAIN kids
    BY <1>5 DEF WaitForIt, WaitInterrupted, WaitGone
  <2>6. /\ \A k \in DOMAIN kids' \ {Shell} : k \in abandoned'
        /\ abandoned' \subseteq DOMAIN kids'
    BY <2>3, <2>4, <2>5
  <2> QED
    BY <2>1, <2>2, <2>6 DEF Table, SlotsAreChildren, Claimed
<1>6. CASE WaitForSlot \/ Drain
  <2>1. PICK pid \in DOMAIN kids : Collected(pid)
    BY <1>6 DEF WaitForSlot, Drain, Reapable
  <2>2. run' = run /\ at \in {"start", "drain"} /\ at' = at
    BY <1>6 DEF WaitForSlot, Drain
  <2>3. /\ Cardinality(Busy') \in Nat /\ Cardinality(Busy') <= Cardinality(Busy)
        /\ Busy' \subseteq Busy
        /\ SlotsAreChildren'
        /\ \A k \in DOMAIN kids' \ {Shell} : (\E i \in Busy' : slots'[i].pid = k) \/ k \in abandoned'
        /\ abandoned' \subseteq DOMAIN kids'
    BY <2>1, <2>2, CollectedTable
  <2>4. Cardinality(Busy) <= run.procs /\ (run.procs = 1 => Busy = {})
    BY DEF Table
  <2>5. Cardinality(Busy') <= run'.procs
    BY <1>1, <2>2, <2>3, <2>4
  <2> QED
    BY <2>2, <2>3, <2>4, <2>5 DEF Table, Claimed
<1>7. CASE ChildEnds
  <2>1. DOMAIN kids' = DOMAIN kids /\ UNCHANGED <<run, child, slots, abandoned, at>>
    BY <1>7 DEF ChildEnds
  <2>2. Busy' = Busy
    BY <2>1 DEF Busy
  <2> QED
    BY <2>1, <2>2 DEF Table, SlotsAreChildren, Claimed
<1>8. CASE Again
  <2>1. UNCHANGED <<kids, slots, abandoned>> /\ at = "done" /\ at' = "read"
    BY <1>8 DEF Again
  <2>2. Busy' = {} /\ Busy = {}
    BY <2>1 DEF Table, Busy
  <2>3. Cardinality(Busy') = 0
    BY <2>2, FS_EmptySet
  <2>4. run'.procs \in Nat
    <3>1. Shape'
      BY ShapeKept
    <3>2. IsRun(run')
      BY <3>1 DEF Shape
    <3> QED
      BY <3>2 DEF IsRun
  <2>5. \A k \in DOMAIN kids \ {Shell} : k \in abandoned
    BY <2>1, <2>2 DEF Table, Claimed
  <2> QED
    BY <2>1, <2>2, <2>3, <2>4, <2>5 DEF Table, SlotsAreChildren, Claimed
<1>9. CASE TrapReaps
  <2>1. /\ run' = run /\ slots' = slots /\ child' = child /\ at' = at /\ run.procs = 1 /\ at # "done"
        /\ DOMAIN kids' = DOMAIN kids \ Reapable /\ abandoned' = abandoned \ Reapable
    BY <1>9 DEF TrapReaps, Shape, IsRun
  <2>2. Busy' = Busy /\ Busy = {}
    BY <2>1 DEF Busy, Table
  <2>3. \A k \in DOMAIN kids \ {Shell} : (at = "wait" /\ k = child) \/ k \in abandoned
    BY <2>2 DEF Table, Claimed
  <2> QED
    BY <2>1, <2>2, <2>3 DEF Table, SlotsAreChildren, Claimed
<1>10. CASE UNCHANGED xVars
  <2>1. UNCHANGED <<run, kids, child, slots, abandoned, at>>
    BY <1>10 DEF xVars
  <2>2. Busy' = Busy
    BY <2>1 DEF Busy
  <2> QED
    BY <2>1, <2>2 DEF Table, SlotsAreChildren, Claimed
<1> QED
  BY <1>3, <1>4, <1>5, <1>6, <1>7, <1>8, <1>9, <1>10 DEF XNext, XStep, Signalled

(* With one command at a time the only child of xargs is the one waited    *)
(* for, and its status is taken when it is collected.                      *)
LEMMA ToldKept == TrapsReapAlone /\ Shape /\ Carried /\ Table /\ Told /\ [XNext]_xVars => Told'
<1> SUFFICES ASSUME TrapsReapAlone, Shape, Carried, Table, Told, [XNext]_xVars PROVE Told'
  OBVIOUS
<1>1. /\ status \in Nat /\ ended \in Seq(Statuses) /\ Statuses \subseteq Nat /\ Shell \notin Pids
      /\ \A i \in 1 .. Len(ended) : ended[i] \in Nat
  BY ElementOfSeq, XargsAssumption DEF Shape
<1>2. ASSUME UNCHANGED <<run, kids, child, ended, made>>, at # "wait", at' # "wait",
             status' = 0 => status = 0
      PROVE  Told'
  BY <1>2 DEF Told, Awaited
<1>3. CASE Gather \/ MustFlush \/ Substituted \/ Refused \/ EndOfInput \/ ForkFails \/ Exit \/ ReadInterrupted
  <2>1. UNCHANGED <<run, kids, child, ended, made>> /\ at # "wait" /\ at' # "wait"
    BY <1>3 DEF Gather, MustFlush, Substituted, Refused, EndOfInput, ForkFails, Exit, ReadInterrupted,
                Ready, GoesOn
  <2>2. status' = 0 => status = 0
    BY <1>1, <1>3 DEF Gather, MustFlush, Substituted, Refused, EndOfInput, ForkFails, Exit,
                      ReadInterrupted, Worse
  <2> QED
    BY <1>2, <2>1, <2>2
<1>4. CASE Start
  <2>1. run' = run /\ status' = status /\ ended' = ended /\ at = "start" /\ made' = Append(made, items)
    BY <1>4 DEF Start, Ready
  <2>2. DOMAIN kids \subseteq DOMAIN kids'
    BY <1>4 DEF Start
  <2>3. Len(made') = Len(made) + 1
    <3>1. made \in Seq(Seq(Tokens)) /\ items \in Seq(Tokens)
      BY DEF Shape
    <3> QED
      BY <2>1, <3>1, AppendProperties
  <2>4. run.procs = 1 => Awaited'
    BY <1>4 DEF Start, Awaited
  <2>5. run.procs = 1 /\ status = 0 =>
          Len(made) = Len(ended) /\ \A i \in 1 .. Len(ended) : ended[i] = 0
    <3>1. Len(ended) \in Nat
      BY <1>1
    <3> QED
      BY <2>1, <3>1 DEF Told, Awaited
  <2> QED
    BY <2>1, <2>2, <2>3, <2>4, <2>5 DEF Told
<1>5. CASE WaitForIt
  <2>1. /\ at = "wait" /\ at' # "wait" /\ child # Shell /\ run' = run /\ ended' = ended /\ made' = made
        /\ DOMAIN kids' = DOMAIN kids \ {child} /\ child \in DOMAIN kids /\ kids[child] # Running
        /\ status' = Worse(status, kids[child])
    BY <1>5 DEF WaitForIt, Table, GoesOn
  <2>2. kids[child] \in Nat
    BY <2>1, XargsAssumption DEF Shape
  <2>3. status' = 0 => status = 0 /\ kids[child] = 0
    BY <1>1, <2>1, <2>2 DEF Worse
  <2> QED
    BY <2>1, <2>3 DEF Told, Awaited
<1>6. CASE WaitInterrupted \/ WaitGone
  <2>1. run' = run /\ kids' = kids /\ status' # 0
    BY <1>1, <1>6 DEF WaitInterrupted, WaitGone, Worse
  <2> QED
    BY <2>1 DEF Told
<1>7. CASE WaitForSlot \/ Drain
  <2>1. run' = run /\ run.procs # 1
    BY <1>7 DEF WaitForSlot, Drain, Table
  <2> QED
    BY <2>1 DEF Told
<1>8. CASE ChildEnds
  <2>1. PICK pid \in DOMAIN kids, s \in Statuses :
          /\ kids[pid] = Running
          /\ kids' = [kids EXCEPT ![pid] = s]
          /\ ended' = IF pid \in {Shell} \cup abandoned THEN ended ELSE Append(ended, s)
          /\ UNCHANGED <<run, made, child, status, at>>
    BY <1>8 DEF ChildEnds
  <2>2. SUFFICES ASSUME run.procs = 1
                 PROVE  /\ run.shell /\ run.trap # "reaps" => Shell \in DOMAIN kids'
                        /\ status = 0 => Len(made) = Len(ended') + IF Awaited' THEN 1 ELSE 0
                        /\ status = 0 => \A i \in 1 .. Len(ended') :
                              ended'[i] = 0 \/ (at = "wait" /\ (child \in DOMAIN kids' => ended'[i] = kids'[child]))
    BY <2>1 DEF Told
  <2>3. DOMAIN kids' = DOMAIN kids
    BY <2>1
  <2>4. run.shell /\ run.trap # "reaps" => Shell \in DOMAIN kids'
    BY <2>2, <2>3 DEF Told
  <2>5. at = "wait" => child \notin abandoned /\ child # Shell
    BY DEF Table
  <2>6. CASE pid \in {Shell} \cup abandoned
    <3>1. ended' = ended /\ (at = "wait" /\ child \in DOMAIN kids => kids'[child] = kids[child])
      BY <2>1, <2>5, <2>6
    <3>2. Awaited' <=> Awaited
      BY <2>1, <2>3, <3>1 DEF Awaited
    <3> QED
      BY <2>2, <2>3, <2>4, <3>1, <3>2 DEF Told
  <2>7. CASE pid \notin {Shell} \cup abandoned
    <3>1. Busy = {}
      BY <2>2 DEF Table
    <3>2. at = "wait" /\ pid = child
      BY <2>7, <3>1 DEF Table, Claimed
    <3>3. kids'[child] = s /\ kids[child] = Running /\ child \in DOMAIN kids /\ s # Running
      BY <1>1, <2>1, <3>2 DEF Running
    <3>4. /\ Len(ended') = Len(ended) + 1 /\ ended'[Len(ended) + 1] = s
          /\ \A i \in 1 .. Len(ended) : ended'[i] = ended[i]
      BY <1>1, <2>1, <2>7, AppendProperties
    <3>5. status = 0 => \A i \in 1 .. Len(ended) : ended[i] = 0
      BY <1>1, <2>2, <3>3 DEF Told, Running
    <3>6. ASSUME status = 0, NEW i \in 1 .. Len(ended')
          PROVE  ended'[i] = 0 \/ ended'[i] = s
      <4>1. i \in 1 .. Len(ended) \/ i = Len(ended) + 1
        BY <1>1, <3>4
      <4> QED
        BY <3>4, <3>5, <3>6, <4>1
    <3>7. status = 0 => Len(made) = Len(ended') + IF Awaited' THEN 1 ELSE 0
      <4>1. Awaited /\ ~Awaited'
        BY <2>1, <3>2, <3>3 DEF Awaited
      <4>2. status = 0 => Len(made) = Len(ended) + 1
        BY <2>2, <4>1 DEF Told
      <4>3. Len(ended) \in Nat
        BY <1>1
      <4> QED
        BY <3>4, <4>1, <4>2, <4>3
    <3> QED
      BY <2>4, <3>2, <3>3, <3>6, <3>7
  <2> QED
    BY <2>6, <2>7
<1>9. CASE TrapReaps
  <2>1. /\ run.trap = "reaps" /\ kids' = [k \in DOMAIN kids \ Reapable |-> kids[k]]
        /\ UNCHANGED <<run, made, child, status, ended, at>>
    BY <1>9 DEF TrapReaps
  <2>2. Awaited' <=> Awaited
    BY <2>1 DEF Awaited, Reapable
  <2>3. child \in DOMAIN kids' => child \in DOMAIN kids /\ kids'[child] = kids[child]
    BY <2>1
  <2> QED
    BY <2>1, <2>2, <2>3 DEF Told
<1>10. CASE Again
  <2>1. PICK r \in LaterRuns : run' = [r EXCEPT !.shell = Shell \in DOMAIN kids]
    BY <1>10 DEF Again
  <2>2. DOMAIN r = {"n", "room", "procs", "repl", "always", "shell", "trap", "input"}
    BY RunsAreRuns DEF IsRun
  <2>3. run'.shell = (Shell \in DOMAIN kids)
    BY <2>1, <2>2
  <2>4. ended' = <<>> /\ made' = <<>> /\ kids' = kids /\ at' = "read"
    BY <1>10 DEF Again
  <2>5. run'.shell => Shell \in DOMAIN kids'
    BY <2>3, <2>4
  <2>6. /\ \A i \in 1 .. Len(ended') : FALSE
        /\ Len(made') = Len(ended') + 0 /\ ~Awaited'
    BY <2>4 DEF Awaited
  <2> QED
    BY <2>5, <2>6 DEF Told
<1>11. CASE UNCHANGED xVars
  BY <1>11 DEF xVars, Told, Awaited
<1> QED
  BY <1>3, <1>4, <1>5, <1>6, <1>7, <1>8, <1>9, <1>10, <1>11 DEF XNext, XStep, Signalled

LEMMA XInvKept == TrapsReapAlone /\ XInv /\ [XNext]_xVars => XInv'
BY ShapeKept, CarriedKept, LinesKept, TableKept, ToldKept DEF XInv

(* The commands that run have a slot each, or there is only one, beside    *)
(* those whose wait was broken off.                                        *)
LEMMA NoMoreThanProcs == Shape /\ Table => Cardinality(MineRunning \ abandoned) <= run.procs
<1> DEFINE Mine == MineRunning \ abandoned
<1> SUFFICES ASSUME Shape, Table PROVE Cardinality(Mine) <= run.procs
  OBVIOUS
<1>1. /\ IsFiniteSet(Busy) /\ Cardinality(Busy) \in Nat
      /\ run.procs \in Nat /\ run.procs >= 1 /\ Cardinality(Busy) <= run.procs
  BY TableRead, RunRead DEF Shape, Table
<1>2. CASE at = "wait"
  <2>1. run.procs = 1 /\ Busy = {}
    BY <1>2 DEF Table
  <2>2. Mine \subseteq {child}
    BY <2>1 DEF MineRunning, Table, Claimed
  <2>3. Cardinality({child}) = 1 /\ IsFiniteSet({child})
    BY FS_Singleton
  <2>4. Cardinality(Mine) <= Cardinality({child})
    BY <2>2, <2>3, FS_Subset
  <2> QED
    BY <2>1, <2>3, <2>4
<1>3. CASE at # "wait"
  <2>1. \A k \in Mine : \E i \in Busy : slots[i].pid = k
    BY <1>3 DEF MineRunning, Table, Claimed
  <2>2. Mine \subseteq {slots[i].pid : i \in Busy}
    BY <2>1
  <2>3. /\ IsFiniteSet({slots[i].pid : i \in Busy})
        /\ Cardinality({slots[i].pid : i \in Busy}) <= Cardinality(Busy)
    <3> DEFINE P == [i \in Busy |-> slots[i].pid]
    <3>1. P \in Surjection(Busy, {slots[i].pid : i \in Busy})
      BY DEF Surjection
    <3> QED
      BY <1>1, <3>1, FS_Surjection
  <2>4. Cardinality(Mine) <= Cardinality({slots[i].pid : i \in Busy})
    BY <2>2, <2>3, FS_Subset
  <2>5. IsFiniteSet(Mine)
    BY <2>2, <2>3, FS_Subset
  <2>6. Cardinality(Mine) \in Nat /\ Cardinality({slots[i].pid : i \in Busy}) \in Nat
    BY <2>3, <2>5, FS_CardinalityType
  <2> QED
    BY <1>1, <2>3, <2>4, <2>6
<1> QED
  BY <1>2, <1>3

LEMMA AccountedInInv == XInv => ArgumentsAccounted
<1> SUFFICES ASSUME XInv PROVE ArgumentsAccounted
  OBVIOUS
<1> USE DEF XInv
<1>1. EveryTokenOnce
  <2>1. SUFFICES ASSUME at = "done", status = 0
                 PROVE  /\ FlattenSeq(made) = SubSeq(run.input, 1, eof)
                        /\ run.trap = "none" => eof = Len(run.input)
    BY DEF EveryTokenOnce
  <2>2. /\ items = <<>> /\ FlattenSeq(made) \o <<>> = SubSeq(run.input, 1, eof)
        /\ run.trap = "none" => eof = Len(run.input)
    BY <2>1 DEF Carried
  <2>3. FlattenSeq(made) \in Seq(Tokens)
    BY FlattenAppended DEF Shape
  <2>4. FlattenSeq(made) \o <<>> = FlattenSeq(made)
    BY <2>3, ConcatEmptySeq
  <2> QED
    BY <2>2, <2>4
<1>2. WithinLimits
  <2>1. DOMAIN made = 1 .. Len(made)
    BY DEF Shape
  <2> QED
    BY <2>1, NoMoreThanProcs DEF WithinLimits, Lines, Fits
<1>3. NoneLeftBehind
  BY DEF NoneLeftBehind, Table, Claimed
<1>4. SlotsAreChildren
  BY DEF Table
<1>5. AloneItTellsAll
  <2>1. DOMAIN ended = 1 .. Len(ended) /\ Len(ended) \in Nat
    BY DEF Shape
  <2> QED
    BY <2>1 DEF AloneItTellsAll, Told, Awaited
<1> QED
  BY <1>1, <1>2, <1>3, <1>4, <1>5 DEF ArgumentsAccounted

(* xargs (applet_xargs, exec_cmd, exec_cmd_parallel, wait_one): a status   *)
(* of 0 says that each token read went to one command, in order and within *)
(* the limits, and that all were read unless a signal is trapped; no more  *)
(* than -P commands run and none is left when xargs returns, those aside   *)
(* whose wait a signal broke off; a slot in use is the first with the pid  *)
(* of a child that is there; and with -P 1 a status of 0 says that each    *)
(* was waited for and none failed.                                         *)
THEOREM ArgumentsAreAccountedFor == TrapsReapAlone => (XSpec => []ArgumentsAccounted)
<1> SUFFICES ASSUME TrapsReapAlone PROVE XSpec => []ArgumentsAccounted
  OBVIOUS
<1>1. XInit => XInv
  BY XInitHolds
<1>2. XInv /\ [XNext]_xVars => XInv'
  BY XInvKept
<1>3. XInv => ArgumentsAccounted
  BY AccountedInInv
<1> QED
  BY <1>1, <1>2, <1>3, PTL DEF XSpec
=============================================================================
