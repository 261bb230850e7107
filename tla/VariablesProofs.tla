-------------------------- MODULE VariablesProofs --------------------------
(***************************************************************************)
(* Only assignments change variables, a readonly one is safe from all of   *)
(* them, and without functions `environ` is in step: for any names, values *)
(* and scripts, and any nesting of prefixed commands.                      *)
(***************************************************************************)
EXTENDS Variables, SequenceTheorems, FiniteSetTheorems, FunctionTheorems, WellFoundedInduction, TLAPS

Scope == UNION {[D -> Binding] : D \in SUBSET Names}

Stores == {s \in [scopes : Seq(Scope), environ : [Names -> Values \cup {Unset}]] : s.scopes # <<>>}

(* A readonly entry is still there, with its value, in a scope that lives. *)
Guards(s, u) ==
  LET grown == Len(u.scopes) - Len(s.scopes)
  IN  \A i \in DOMAIN s.scopes : i + grown >= 1 =>
        \A n \in DOMAIN s.scopes[i] :
          LET b == s.scopes[i][n]
              c == u.scopes[i + grown]
          IN  b.readonly => n \in DOMAIN c /\ c[n].readonly /\ c[n].value = b.value

(* With the global scope alone, the environment is in step.                *)
InStep(s) == Len(s.scopes) = 1 /\ s.environ = Current(s)

(* One store becomes another of the same scopes.                           *)
Follows(s, u) ==
  /\ u \in Stores /\ Len(u.scopes) = Len(s.scopes)
  /\ Guards(s, u)
  /\ InStep(s) => InStep(u)

(* No name but those of N has another value.                               *)
Spares(s, u, N) == \A m \in Names \ N : VarsGet(u, m) = VarsGet(s, m)

-----------------------------------------------------------------------------
(* Induction over an interval, for a set.                                  *)
LEMMA Induct ==
  ASSUME NEW n \in Nat, NEW P, 0 \in P, \A i \in 1 .. n : i - 1 \in P => i \in P
  PROVE  \A i \in 0 .. n : i \in P
<1> SUFFICES ASSUME NEW j \in 0 .. n, j \notin P PROVE FALSE
  OBVIOUS
<1> DEFINE B == {i \in Nat : i \in 0 .. n /\ i \notin P}
<1>1. B # {} /\ B \in SUBSET Nat
  OBVIOUS
<1>2. \E k \in B : \A m \in B : ~(<<m, k>> \in OpToRel(<, Nat))
  BY <1>1, WFMin, NatLessThanWellFounded
<1>3. PICK k \in B : \A m \in B : ~(m < k)
  BY <1>1, <1>2 DEF OpToRel
<1>4. k \in 1 .. n
  BY <1>3
<1>5. k - 1 \in Nat /\ k - 1 < k /\ k - 1 \in 0 .. n
  BY <1>4
<1>6. k - 1 \in P
  BY <1>3, <1>5
<1> QED
  BY <1>3, <1>4, <1>6

(* The least of a set of numbers.                                          *)
LEMMA LeastIn ==
  ASSUME NEW S \in SUBSET Nat, S # {}
  PROVE  LET k == CHOOSE i \in S : \A j \in S : i <= j
         IN  k \in S /\ \A j \in S : k <= j
<1>1. \E k \in S : \A m \in S : ~(<<m, k>> \in OpToRel(<, Nat))
  BY WFMin, NatLessThanWellFounded
<1>2. PICK k \in S : \A m \in S : ~(m < k)
  BY <1>1 DEF OpToRel
<1>3. \A m \in S : k <= m
  BY <1>2
<1> QED
  BY <1>3

-----------------------------------------------------------------------------
(* The store.                                                              *)

(* What a store is made of.                                                *)
LEMMA StoreRead ==
  ASSUME NEW s \in Stores
  PROVE  /\ s.scopes \in Seq(Scope) /\ Len(s.scopes) \in Nat /\ Len(s.scopes) >= 1
         /\ DOMAIN s.scopes = 1 .. Len(s.scopes)
         /\ s.environ \in [Names -> Values \cup {Unset}]
         /\ Global(s) = Len(s.scopes)
         /\ s = [scopes |-> s.scopes, environ |-> s.environ]
         /\ \A i \in 1 .. Len(s.scopes) :
              /\ s.scopes[i] \in Scope
              /\ DOMAIN s.scopes[i] \subseteq Names
              /\ s.scopes[i] \in [DOMAIN s.scopes[i] -> Binding]
<1>1. s.scopes \in Seq(Scope) /\ s.scopes # <<>>
  BY DEF Stores
<1>2. Len(s.scopes) \in Nat /\ Len(s.scopes) >= 1 /\ DOMAIN s.scopes = 1 .. Len(s.scopes)
  BY <1>1, LenProperties, EmptySeq
<1>3. \A i \in 1 .. Len(s.scopes) : s.scopes[i] \in Scope
  BY <1>1, ElementOfSeq
<1>4. \A c \in Scope : DOMAIN c \subseteq Names /\ c \in [DOMAIN c -> Binding]
  BY DEF Scope
<1> QED
  BY <1>1, <1>2, <1>3, <1>4 DEF Stores, Global

(* vars_find returns the innermost scope that holds the name, or 0.        *)
LEMMA FindRead ==
  ASSUME NEW s \in Stores, NEW n
  PROVE  /\ VarsFind(s, n) \in 0 .. Len(s.scopes)
         /\ VarsFind(s, n) = 0 => \A i \in 1 .. Len(s.scopes) : n \notin DOMAIN s.scopes[i]
         /\ VarsFind(s, n) # 0 =>
              /\ VarsFind(s, n) \in 1 .. Len(s.scopes)
              /\ n \in DOMAIN s.scopes[VarsFind(s, n)]
              /\ \A j \in 1 .. Len(s.scopes) : n \in DOMAIN s.scopes[j] => VarsFind(s, n) <= j
<1>1. /\ Len(s.scopes) \in Nat /\ DOMAIN s.scopes = 1 .. Len(s.scopes)
  BY StoreRead
<1>2. Holding(s, n) \in SUBSET Nat
  BY <1>1 DEF Holding
<1>3. CASE Holding(s, n) = {}
  BY <1>1, <1>3 DEF VarsFind, Holding
<1>4. CASE Holding(s, n) # {}
  <2>1. /\ VarsFind(s, n) \in Holding(s, n)
        /\ \A j \in Holding(s, n) : VarsFind(s, n) <= j
    BY <1>2, <1>4, LeastIn DEF VarsFind
  <2> QED
    BY <1>1, <2>1 DEF Holding
<1> QED
  BY <1>3, <1>4

(* A scope and an environment replaced.                                    *)
LEMMA ScopeType ==
  ASSUME NEW c, DOMAIN c \subseteq Names, c \in [DOMAIN c -> Binding]
  PROVE  c \in Scope
BY DEF Scope

LEMMA PutRead ==
  ASSUME NEW s \in Stores, NEW i \in 1 .. Len(s.scopes), NEW n \in Names, NEW b \in Binding
  PROVE  LET u == Put(s, i, n, b)
         IN  /\ u \in Stores /\ Len(u.scopes) = Len(s.scopes) /\ u.environ = s.environ
             /\ \A j \in 1 .. Len(s.scopes) : j # i => u.scopes[j] = s.scopes[j]
             /\ DOMAIN u.scopes[i] = DOMAIN s.scopes[i] \cup {n}
             /\ u.scopes[i][n] = b
             /\ \A m \in DOMAIN s.scopes[i] : m # n => u.scopes[i][m] = s.scopes[i][m]
<1> DEFINE c == [m \in DOMAIN s.scopes[i] \cup {n} |-> IF m = n THEN b ELSE s.scopes[i][m]]
           q == [s.scopes EXCEPT ![i] = c]
           u == Put(s, i, n, b)
<1>1. /\ s.scopes \in Seq(Scope) /\ Len(s.scopes) \in Nat /\ Len(s.scopes) >= 1
      /\ DOMAIN s.scopes = 1 .. Len(s.scopes)
      /\ s.environ \in [Names -> Values \cup {Unset}]
      /\ s = [scopes |-> s.scopes, environ |-> s.environ]
      /\ DOMAIN s.scopes[i] \subseteq Names
      /\ s.scopes[i] \in [DOMAIN s.scopes[i] -> Binding]
  BY StoreRead
<1>2. /\ DOMAIN c = DOMAIN s.scopes[i] \cup {n} /\ c[n] = b
      /\ \A m \in DOMAIN s.scopes[i] : m # n => c[m] = s.scopes[i][m]
  OBVIOUS
<1>3. c \in Scope
  <2>1. DOMAIN c \subseteq Names /\ c \in [DOMAIN c -> Binding]
    BY <1>1
  <2> HIDE DEF c
  <2> QED
    BY <2>1, ScopeType
<1>4. u = [scopes |-> q, environ |-> s.environ]
  <2>1. u = [s EXCEPT !.scopes[i] = c]
    BY DEF Put
  <2> HIDE DEF u, c
  <2>2. u = [s EXCEPT !.scopes = q]
    BY <2>1
  <2> HIDE DEF q
  <2>3. DOMAIN s = {"scopes", "environ"}
    BY DEF Stores
  <2> QED
    BY <2>2, <2>3
<1> HIDE DEF c
<1>5. /\ q \in Seq(Scope) /\ Len(q) = Len(s.scopes) /\ q[i] = c
      /\ \A j \in 1 .. Len(s.scopes) : j # i => q[j] = s.scopes[j]
  BY <1>1, <1>3, ExceptSeq
<1>6. q # <<>>
  BY <1>1, <1>5
<1> HIDE DEF q
<1>7. u \in Stores /\ u.scopes = q /\ u.environ = s.environ
  BY <1>1, <1>4, <1>5, <1>6 DEF Stores
<1> HIDE DEF u
<1>8. /\ DOMAIN u.scopes[i] = DOMAIN s.scopes[i] \cup {n} /\ u.scopes[i][n] = b
      /\ \A m \in DOMAIN s.scopes[i] : m # n => u.scopes[i][m] = s.scopes[i][m]
  BY <1>2, <1>5, <1>7
<1>9. Len(u.scopes) = Len(s.scopes)
      /\ \A j \in 1 .. Len(s.scopes) : j # i => u.scopes[j] = s.scopes[j]
  BY <1>5, <1>7
<1> QED
  BY <1>7, <1>8, <1>9 DEF u

LEMMA EnvironRead ==
  ASSUME NEW s \in Stores, NEW n \in Names, NEW v \in Values \cup {Unset}
  PROVE  LET u == Environ(s, n, v)
         IN  /\ u \in Stores /\ u.scopes = s.scopes
             /\ u.environ[n] = v /\ \A m \in Names : m # n => u.environ[m] = s.environ[m]
<1> DEFINE e == [s.environ EXCEPT ![n] = v]
           u == Environ(s, n, v)
<1>1. s.environ \in [Names -> Values \cup {Unset}]
  BY StoreRead
<1>2. u = [s EXCEPT !.environ = e]
  BY DEF Environ
<1>3. /\ e \in [Names -> Values \cup {Unset}]
      /\ e[n] = v /\ \A m \in Names : m # n => e[m] = s.environ[m]
  BY <1>1
<1> HIDE DEF e, u
<1>4. u \in Stores /\ u.scopes = s.scopes /\ u.environ = e
  BY <1>2, <1>3 DEF Stores
<1> QED
  BY <1>3, <1>4 DEF u

(* Only what a store says of n changes.                                    *)
Touches(s, u, n) ==
  /\ u \in Stores /\ Len(u.scopes) = Len(s.scopes)
  /\ \A m \in Names \ {n} :
       /\ u.environ[m] = s.environ[m]
       /\ \A j \in 1 .. Len(s.scopes) :
            /\ m \in DOMAIN u.scopes[j] <=> m \in DOMAIN s.scopes[j]
            /\ m \in DOMAIN s.scopes[j] => u.scopes[j][m] = s.scopes[j][m]

(* No scope inside scope i holds n.                                        *)
Outside(s, i, n) == \A j \in 1 .. Len(s.scopes) : j < i => n \notin DOMAIN s.scopes[j]

LEMMA TouchesTwice ==
  ASSUME NEW s, NEW u, NEW w, NEW n, Touches(s, u, n), Touches(u, w, n)
  PROVE  Touches(s, w, n)
BY DEF Touches

(* The scope in which a name is found.                                     *)
LEMMA FindSame ==
  ASSUME NEW s \in Stores, NEW u \in Stores, NEW n, Len(u.scopes) = Len(s.scopes),
         \A j \in 1 .. Len(s.scopes) : n \in DOMAIN u.scopes[j] <=> n \in DOMAIN s.scopes[j]
  PROVE  VarsFind(u, n) = VarsFind(s, n)
<1>1. DOMAIN s.scopes = 1 .. Len(s.scopes) /\ DOMAIN u.scopes = 1 .. Len(s.scopes)
  BY StoreRead
<1>2. Holding(u, n) = Holding(s, n)
  BY <1>1 DEF Holding
<1> QED
  BY <1>2 DEF VarsFind

LEMMA FindAt ==
  ASSUME NEW s \in Stores, NEW n, NEW i \in 1 .. Len(s.scopes),
         n \in DOMAIN s.scopes[i], Outside(s, i, n)
  PROVE  VarsFind(s, n) = i
<1>1. Len(s.scopes) \in Nat
  BY StoreRead
<1>2. VarsFind(s, n) # 0
  BY FindRead
<1>3. /\ VarsFind(s, n) \in 1 .. Len(s.scopes) /\ n \in DOMAIN s.scopes[VarsFind(s, n)]
      /\ VarsFind(s, n) <= i
  BY <1>2, FindRead
<1>4. ~(VarsFind(s, n) < i)
  BY <1>3 DEF Outside
<1> QED
  BY <1>1, <1>3, <1>4

(* What the store says of a name in terms of where it is found.            *)
LEMMA FoundAt ==
  ASSUME NEW s \in Stores, NEW n
  PROVE  /\ VarsFind(s, n) = 0 => VarsGet(s, n) = Unset /\ ~VarsIsExported(s, n)
         /\ VarsFind(s, n) # 0 =>
              LET b == s.scopes[VarsFind(s, n)][n]
              IN  /\ Found(s, n) = b /\ b \in Binding
                  /\ VarsGet(s, n) = b.value
                  /\ VarsIsExported(s, n) = b.exported /\ VarsIsReadonly(s, n) = b.readonly
                  /\ Outside(s, VarsFind(s, n), n)
<1>1. VarsFind(s, n) = 0 => VarsGet(s, n) = Unset /\ ~VarsIsExported(s, n)
  BY DEF VarsGet, VarsIsExported
<1>2. ASSUME VarsFind(s, n) # 0
      PROVE  LET b == s.scopes[VarsFind(s, n)][n]
             IN  /\ Found(s, n) = b /\ b \in Binding
                 /\ VarsGet(s, n) = b.value
                 /\ VarsIsExported(s, n) = b.exported /\ VarsIsReadonly(s, n) = b.readonly
                 /\ Outside(s, VarsFind(s, n), n)
  <2> DEFINE i == VarsFind(s, n)
             b == s.scopes[i][n]
  <2>1. i \in 1 .. Len(s.scopes) /\ n \in DOMAIN s.scopes[i] /\ i # 0
    BY <1>2, FindRead
  <2>2. b \in Binding
    BY <2>1, StoreRead
  <2>3. Found(s, n) = b
    BY DEF Found
  <2>4. VarsGet(s, n) = b.value
    BY <1>2, <2>3 DEF VarsGet
  <2>5. Outside(s, i, n)
    <3>1. Len(s.scopes) \in Nat
      BY StoreRead
    <3>2. \A j \in 1 .. Len(s.scopes) : n \in DOMAIN s.scopes[j] => i <= j
      BY <1>2, FindRead
    <3> HIDE DEF i
    <3> QED
      BY <2>1, <3>1, <3>2 DEF Outside
  <2> HIDE DEF b
  <2>6. b.exported \in BOOLEAN /\ b.readonly \in BOOLEAN
    BY <2>2 DEF Binding
  <2>7. VarsIsExported(s, n) = b.exported
    BY <1>2, <2>3, <2>6, Zenon DEF VarsIsExported
  <2>8. VarsIsReadonly(s, n) = b.readonly
    BY <1>2, <2>3, <2>6, Zenon DEF VarsIsReadonly
  <2> QED
    BY <2>2, <2>3, <2>4, <2>5, <2>7, <2>8 DEF b
<1> QED
  BY <1>1, <1>2

(* Nothing else is read differently.                                       *)
LEMMA OthersSame ==
  ASSUME NEW s \in Stores, NEW u, NEW n \in Names, Touches(s, u, n), NEW m \in Names \ {n}
  PROVE  /\ VarsGet(u, m) = VarsGet(s, m)
         /\ VarsIsExported(u, m) = VarsIsExported(s, m)
         /\ VarsIsReadonly(u, m) = VarsIsReadonly(s, m)
<1>1. /\ u \in Stores /\ Len(u.scopes) = Len(s.scopes)
      /\ \A j \in 1 .. Len(s.scopes) :
           /\ m \in DOMAIN u.scopes[j] <=> m \in DOMAIN s.scopes[j]
           /\ m \in DOMAIN s.scopes[j] => u.scopes[j][m] = s.scopes[j][m]
  BY DEF Touches
<1>2. VarsFind(u, m) = VarsFind(s, m)
  BY <1>1, FindSame
<1>3. VarsFind(s, m) # 0 => Found(u, m) = Found(s, m)
  <2>1. VarsFind(s, m) # 0 =>
          VarsFind(s, m) \in 1 .. Len(s.scopes) /\ m \in DOMAIN s.scopes[VarsFind(s, m)]
    BY FindRead
  <2> QED
    BY <1>1, <1>2, <2>1 DEF Found
<1> QED
  BY <1>2, <1>3 DEF VarsGet, VarsIsExported, VarsIsReadonly

(* The environment in step, name by name.                                  *)
LEMMA InStepRead ==
  ASSUME NEW s \in Stores
  PROVE  InStep(s) <=> /\ Len(s.scopes) = 1
                       /\ \A n \in Names : s.environ[n] =
                            IF VarsIsExported(s, n) THEN VarsGet(s, n) ELSE Unset
<1>1. s.environ \in [Names -> Values \cup {Unset}]
  BY StoreRead
<1>2. s.environ = [n \in Names |-> s.environ[n]]
  BY <1>1
<1> QED
  BY <1>2 DEF InStep, Current

(* It is enough to look at the name that is touched.                       *)
LEMMA TouchesFollows ==
  ASSUME NEW s \in Stores, NEW u, NEW n \in Names, Touches(s, u, n),
         \A j \in 1 .. Len(s.scopes) : n \in DOMAIN s.scopes[j] /\ s.scopes[j][n].readonly =>
           /\ n \in DOMAIN u.scopes[j]
           /\ u.scopes[j][n].readonly /\ u.scopes[j][n].value = s.scopes[j][n].value,
         InStep(s) => u.environ[n] = IF VarsIsExported(u, n) THEN VarsGet(u, n) ELSE Unset
  PROVE  Follows(s, u) /\ Spares(s, u, {n})
<1>1. u \in Stores /\ Len(u.scopes) = Len(s.scopes)
  BY DEF Touches
<1>2. /\ Len(s.scopes) \in Nat /\ DOMAIN s.scopes = 1 .. Len(s.scopes)
      /\ \A j \in 1 .. Len(s.scopes) : DOMAIN s.scopes[j] \subseteq Names
  BY StoreRead
<1>3. Guards(s, u)
  <2> SUFFICES ASSUME NEW j \in 1 .. Len(s.scopes), NEW m \in DOMAIN s.scopes[j],
                      s.scopes[j][m].readonly
               PROVE  /\ m \in DOMAIN u.scopes[j]
                      /\ u.scopes[j][m].readonly /\ u.scopes[j][m].value = s.scopes[j][m].value
    <3>1. Len(u.scopes) - Len(s.scopes) = 0 /\ \A j \in 1 .. Len(s.scopes) : j + 0 = j
      BY <1>1, <1>2
    <3> QED
      BY <1>1, <1>2, <3>1, ZenonT(40) DEF Guards
  <2>1. CASE m = n
    BY <2>1
  <2>2. CASE m # n
    <3>1. m \in Names \ {n}
      BY <1>2, <2>2
    <3> QED
      BY <3>1 DEF Touches
  <2> QED
    BY <2>1, <2>2
<1>4. ASSUME InStep(s) PROVE InStep(u)
  <2>1. /\ Len(s.scopes) = 1
        /\ \A m \in Names : s.environ[m] = IF VarsIsExported(s, m) THEN VarsGet(s, m) ELSE Unset
    BY <1>4, InStepRead
  <2>2. \A m \in Names : u.environ[m] = IF VarsIsExported(u, m) THEN VarsGet(u, m) ELSE Unset
    <3> SUFFICES ASSUME NEW m \in Names
                 PROVE  u.environ[m] = IF VarsIsExported(u, m) THEN VarsGet(u, m) ELSE Unset
      OBVIOUS
    <3>1. CASE m = n
      BY <1>4, <3>1
    <3>2. CASE m # n
      <4>1. u.environ[m] = s.environ[m]
        BY <3>2 DEF Touches
      <4>2. VarsGet(u, m) = VarsGet(s, m) /\ VarsIsExported(u, m) = VarsIsExported(s, m)
        BY <3>2, OthersSame
      <4> QED
        BY <2>1, <4>1, <4>2
    <3> QED
      BY <3>1, <3>2
  <2> QED
    BY <1>1, <2>1, <2>2, InStepRead
<1>5. Spares(s, u, {n})
  BY OthersSame DEF Spares
<1> QED
  BY <1>1, <1>3, <1>4, <1>5 DEF Follows

(* An entry put where the name is found, or will be.                       *)
LEMMA PutAt ==
  ASSUME NEW s \in Stores, NEW i \in 1 .. Len(s.scopes), NEW n \in Names, NEW b \in Binding,
         Outside(s, i, n)
  PROVE  LET u == Put(s, i, n, b)
         IN  /\ Touches(s, u, n) /\ u \in Stores /\ Len(u.scopes) = Len(s.scopes)
             /\ u.environ = s.environ
             /\ VarsFind(u, n) = i /\ VarsGet(u, n) = b.value
             /\ VarsIsExported(u, n) = b.exported
             /\ n \in DOMAIN u.scopes[i] /\ u.scopes[i][n] = b
             /\ \A j \in 1 .. Len(s.scopes) : j # i => u.scopes[j] = s.scopes[j]
<1> DEFINE u == Put(s, i, n, b)
<1>1. /\ u \in Stores /\ Len(u.scopes) = Len(s.scopes) /\ u.environ = s.environ
      /\ \A j \in 1 .. Len(s.scopes) : j # i => u.scopes[j] = s.scopes[j]
      /\ DOMAIN u.scopes[i] = DOMAIN s.scopes[i] \cup {n}
      /\ u.scopes[i][n] = b
      /\ \A m \in DOMAIN s.scopes[i] : m # n => u.scopes[i][m] = s.scopes[i][m]
  BY PutRead
<1>2. Len(s.scopes) \in Nat
  BY StoreRead
<1> HIDE DEF u
<1>3. Touches(s, u, n)
  BY <1>1 DEF Touches
<1>4. Outside(u, i, n)
  BY <1>1, <1>2 DEF Outside
<1>5. VarsFind(u, n) = i
  BY <1>1, <1>4, FindAt
<1>6. i # 0
  BY <1>2
<1>7. VarsGet(u, n) = b.value /\ VarsIsExported(u, n) = b.exported
  BY <1>1, <1>5, <1>6, FoundAt
<1> QED
  BY <1>1, <1>3, <1>5, <1>7 DEF u

(* The environment changed for a name.                                     *)
LEMMA EnvironAt ==
  ASSUME NEW s \in Stores, NEW n \in Names, NEW v \in Values \cup {Unset}
  PROVE  LET u == Environ(s, n, v)
         IN  /\ Touches(s, u, n) /\ u \in Stores /\ u.scopes = s.scopes /\ u.environ[n] = v
             /\ \A m \in Names : VarsFind(u, m) = VarsFind(s, m) /\ VarsGet(u, m) = VarsGet(s, m)
                                 /\ VarsIsExported(u, m) = VarsIsExported(s, m)
<1> DEFINE u == Environ(s, n, v)
<1>1. /\ u \in Stores /\ u.scopes = s.scopes /\ u.environ[n] = v
      /\ \A m \in Names : m # n => u.environ[m] = s.environ[m]
  BY EnvironRead
<1> HIDE DEF u
<1>2. Touches(s, u, n)
  BY <1>1 DEF Touches
<1>3. \A m : Holding(u, m) = Holding(s, m)
  BY <1>1 DEF Holding
<1>4. ASSUME NEW m PROVE VarsFind(u, m) = VarsFind(s, m)
  <2>1. Holding(u, m) = Holding(s, m)
    BY <1>3
  <2> QED
    BY <2>1 DEF VarsFind
<1>5. \A m : Found(u, m) = Found(s, m)
  BY <1>1, <1>4 DEF Found
<1>6. \A m : VarsGet(u, m) = VarsGet(s, m) /\ VarsIsExported(u, m) = VarsIsExported(s, m)
  BY <1>4, <1>5 DEF VarsGet, VarsIsExported
<1> QED
  BY <1>1, <1>2, <1>4, <1>6 DEF u

-----------------------------------------------------------------------------
(* The functions of vars.c.                                                *)

(* A name gets its first entry in a scope.                                 *)
LEMMA FreshAt ==
  ASSUME NEW s \in Stores, NEW i \in 1 .. Len(s.scopes), NEW n \in Names,
         NEW v \in Values \cup {Unset}, n \notin DOMAIN s.scopes[i], Outside(s, i, n)
  PROVE  LET u == Put(s, i, n, Bound(v, FALSE, FALSE))
         IN  /\ Follows(s, u) /\ Spares(s, u, {n})
             /\ Touches(s, u, n) /\ VarsFind(u, n) = i /\ VarsGet(u, n) = v
<1> DEFINE b == Bound(v, FALSE, FALSE)
           u == Put(s, i, n, b)
<1>1. b \in Binding /\ b.value = v /\ b.exported = FALSE
  BY DEF Bound, Binding
<1> HIDE DEF b
<1>2. /\ Touches(s, u, n) /\ u.environ = s.environ
      /\ VarsFind(u, n) = i /\ VarsGet(u, n) = b.value /\ VarsIsExported(u, n) = b.exported
      /\ \A j \in 1 .. Len(s.scopes) : j # i => u.scopes[j] = s.scopes[j]
  BY <1>1, PutAt
<1> HIDE DEF u
<1>3. InStep(s) => u.environ[n] = IF VarsIsExported(u, n) THEN VarsGet(u, n) ELSE Unset
  <2> SUFFICES ASSUME InStep(s) PROVE u.environ[n] = Unset
    BY <1>1, <1>2
  <2>1. VarsFind(s, n) = 0
    <3>1. Len(s.scopes) = 1
      BY DEF InStep
    <3> QED
      BY <3>1, FindRead
  <2>2. ~VarsIsExported(s, n)
    BY <2>1, FoundAt
  <2> QED
    BY <1>2, <2>2, InStepRead
<1>4. Follows(s, u) /\ Spares(s, u, {n})
  <2>1. \A j \in 1 .. Len(s.scopes) : n \in DOMAIN s.scopes[j] => u.scopes[j] = s.scopes[j]
    BY <1>2
  <2> QED
    BY <1>2, <1>3, <2>1, TouchesFollows
<1> QED
  BY <1>1, <1>2, <1>4 DEF u, b

(* A change of an entry that the environment need not hear of.             *)
Settles(a, b) ==
  IF b.exported THEN b.value = a.value /\ (a.exported \/ a.value = Unset) ELSE ~a.exported

(* An entry that is found changes; a readonly one stays so, with its value. *)
LEMMA ChangeAt ==
  ASSUME NEW s \in Stores, NEW n \in Names, VarsFind(s, n) # 0, NEW b \in Binding, NEW u,
         LET i == VarsFind(s, n)
             put == Put(s, i, n, b)
         IN  /\ s.scopes[i][n].readonly => b.readonly /\ b.value = s.scopes[i][n].value
             /\ \/ u = put /\ Settles(s.scopes[i][n], b)
                \/ u = Environ(put, n, IF b.exported THEN b.value ELSE Unset)
  PROVE  /\ Follows(s, u) /\ Spares(s, u, {n})
         /\ VarsFind(u, n) = VarsFind(s, n) /\ VarsGet(u, n) = b.value
<1> DEFINE i == VarsFind(s, n)
           a == s.scopes[i][n]
           put == Put(s, i, n, b)
<1>1. i \in 1 .. Len(s.scopes) /\ n \in DOMAIN s.scopes[i]
  BY FindRead
<1>2. /\ Outside(s, i, n) /\ VarsGet(s, n) = a.value /\ VarsIsExported(s, n) = a.exported
  BY FoundAt
<1>3. /\ Touches(s, put, n) /\ put \in Stores /\ Len(put.scopes) = Len(s.scopes)
      /\ put.environ = s.environ
      /\ VarsFind(put, n) = i /\ VarsGet(put, n) = b.value
      /\ VarsIsExported(put, n) = b.exported
      /\ n \in DOMAIN put.scopes[i] /\ put.scopes[i][n] = b
      /\ \A j \in 1 .. Len(s.scopes) : j # i => put.scopes[j] = s.scopes[j]
  BY <1>1, <1>2, PutAt
<1>4. /\ a.readonly => b.readonly /\ b.value = a.value
      /\ \/ u = put /\ Settles(a, b)
         \/ u = Environ(put, n, IF b.exported THEN b.value ELSE Unset)
  OBVIOUS
<1>5. b.exported \in BOOLEAN /\ b.value \in Values \cup {Unset}
  BY DEF Binding
<1> HIDE DEF i, a, put
<1>6. /\ Touches(s, u, n) /\ u.scopes = put.scopes
      /\ VarsFind(u, n) = i /\ VarsGet(u, n) = b.value /\ VarsIsExported(u, n) = b.exported
      /\ InStep(s) => u.environ[n] = IF b.exported THEN b.value ELSE Unset
  <2>1. CASE u = put /\ Settles(a, b)
    <3>1. InStep(s) => u.environ[n] = IF b.exported THEN b.value ELSE Unset
      <4> SUFFICES ASSUME InStep(s) PROVE u.environ[n] = IF b.exported THEN b.value ELSE Unset
        OBVIOUS
      <4>1. u.environ[n] = IF VarsIsExported(s, n) THEN VarsGet(s, n) ELSE Unset
        BY <1>3, <2>1, InStepRead
      <4>2. CASE b.exported
        BY <1>2, <2>1, <4>1, <4>2 DEF Settles
      <4>3. CASE ~b.exported
        BY <1>2, <2>1, <4>1, <4>3 DEF Settles
      <4> QED
        BY <4>2, <4>3
    <3> QED
      BY <1>3, <2>1, <3>1
  <2>2. CASE u = Environ(put, n, IF b.exported THEN b.value ELSE Unset)
    <3> DEFINE v == IF b.exported THEN b.value ELSE Unset
    <3>1. v \in Values \cup {Unset}
      BY <1>5
    <3> HIDE DEF v
    <3>2. u = Environ(put, n, v)
      BY <2>2 DEF v
    <3>3. /\ Touches(put, u, n) /\ u.scopes = put.scopes /\ u.environ[n] = v
          /\ VarsFind(u, n) = VarsFind(put, n) /\ VarsGet(u, n) = VarsGet(put, n)
          /\ VarsIsExported(u, n) = VarsIsExported(put, n)
      BY <1>3, <3>1, <3>2, EnvironAt
    <3>4. Touches(s, u, n)
      BY <1>3, <3>3, TouchesTwice
    <3> QED
      BY <1>3, <3>3, <3>4 DEF v
  <2> QED
    BY <1>4, <2>1, <2>2
<1>7. \A j \in 1 .. Len(s.scopes) : n \in DOMAIN s.scopes[j] /\ s.scopes[j][n].readonly =>
         /\ n \in DOMAIN u.scopes[j]
         /\ u.scopes[j][n].readonly /\ u.scopes[j][n].value = s.scopes[j][n].value
  <2> SUFFICES ASSUME NEW j \in 1 .. Len(s.scopes), n \in DOMAIN s.scopes[j], s.scopes[j][n].readonly
               PROVE  /\ n \in DOMAIN u.scopes[j]
                      /\ u.scopes[j][n].readonly /\ u.scopes[j][n].value = s.scopes[j][n].value
    OBVIOUS
  <2>1. CASE j = i
    BY <1>3, <1>4, <1>6, <2>1 DEF a
  <2>2. CASE j # i
    BY <1>3, <1>6, <2>2
  <2> QED
    BY <2>1, <2>2
<1>8. InStep(s) => u.environ[n] = IF VarsIsExported(u, n) THEN VarsGet(u, n) ELSE Unset
  BY <1>6
<1>9. Follows(s, u) /\ Spares(s, u, {n})
  BY <1>6, <1>7, <1>8, TouchesFollows
<1> QED
  BY <1>6, <1>9 DEF i

(* Nothing happens.                                                        *)
LEMMA Stays ==
  ASSUME NEW s \in Stores, NEW N
  PROVE  Follows(s, s) /\ Spares(s, s, N)
<1>1. \A i \in DOMAIN s.scopes : i + (Len(s.scopes) - Len(s.scopes)) = i
  BY StoreRead
<1>2. Guards(s, s)
  BY <1>1 DEF Guards
<1> QED
  BY <1>2 DEF Follows, Spares

(* One after the other.                                                    *)
LEMMA FollowsOn ==
  ASSUME NEW s \in Stores, NEW u, NEW w, Follows(s, u), Follows(u, w)
  PROVE  Follows(s, w)
<1>1. /\ u \in Stores /\ w \in Stores
      /\ Len(u.scopes) = Len(s.scopes) /\ Len(w.scopes) = Len(s.scopes)
      /\ InStep(s) => InStep(w)
  BY DEF Follows
<1>2. /\ Len(s.scopes) \in Nat /\ DOMAIN s.scopes = 1 .. Len(s.scopes)
      /\ DOMAIN u.scopes = 1 .. Len(s.scopes)
  BY <1>1, StoreRead
<1>3. \A i \in 1 .. Len(s.scopes) : i + (Len(s.scopes) - Len(s.scopes)) = i /\ i >= 1
  BY <1>2
<1>4. \A i \in 1 .. Len(s.scopes) : \A n \in DOMAIN s.scopes[i] : s.scopes[i][n].readonly =>
        /\ n \in DOMAIN u.scopes[i]
        /\ u.scopes[i][n].readonly /\ u.scopes[i][n].value = s.scopes[i][n].value
  BY <1>1, <1>2, <1>3 DEF Follows, Guards
<1>5. \A i \in 1 .. Len(s.scopes) : \A n \in DOMAIN u.scopes[i] : u.scopes[i][n].readonly =>
        /\ n \in DOMAIN w.scopes[i]
        /\ w.scopes[i][n].readonly /\ w.scopes[i][n].value = u.scopes[i][n].value
  BY <1>1, <1>2, <1>3 DEF Follows, Guards
<1>6. Guards(s, w)
  BY <1>1, <1>2, <1>3, <1>4, <1>5 DEF Guards
<1> QED
  BY <1>1, <1>6 DEF Follows

LEMMA SparesOn ==
  ASSUME NEW s, NEW u, NEW w, NEW N, Spares(s, u, N), Spares(u, w, N)
  PROVE  Spares(s, w, N)
BY DEF Spares

(* var_store_value                                                         *)
LEMMA StoreValueFollows ==
  ASSUME NEW s \in Stores, NEW n \in Names, NEW v \in Values \cup {Unset},
         VarsFind(s, n) # 0, ~s.scopes[VarsFind(s, n)][n].readonly
  PROVE  LET u == VarStoreValue(s, VarsFind(s, n), n, v)
         IN  Follows(s, u) /\ Spares(s, u, {n}) /\ VarsGet(u, n) = v
<1> DEFINE i == VarsFind(s, n)
           a == s.scopes[i][n]
           b == [a EXCEPT !.value = v]
           u == VarStoreValue(s, i, n, v)
           put == Put(s, i, n, b)
<1>1. a \in Binding
  BY FoundAt
<1>2. b \in Binding /\ b.value = v /\ b.exported = a.exported
  BY <1>1 DEF Binding
<1>3. u = IF a.exported THEN Environ(put, n, v) ELSE put
  BY DEF VarStoreValue
<1> HIDE DEF b, u
<1>4. \/ u = put /\ Settles(a, b)
      \/ u = Environ(put, n, IF b.exported THEN b.value ELSE Unset)
  <2>1. CASE a.exported
    BY <1>2, <1>3, <2>1
  <2>2. CASE ~a.exported
    BY <1>2, <1>3, <2>2 DEF Settles
  <2> QED
    BY <2>1, <2>2
<1>5. Follows(s, u) /\ Spares(s, u, {n}) /\ VarsGet(u, n) = b.value
  BY <1>2, <1>4, ChangeAt
<1> QED
  BY <1>2, <1>5 DEF u

LEMMA SetFollows ==
  ASSUME NEW s \in Stores, NEW n \in Names, NEW v \in Values \cup {Unset}
  PROVE  LET u == VarsSet(s, n, v)
         IN  /\ Follows(s, u) /\ Spares(s, u, {n})
             /\ ~VarsIsReadonly(s, n) => VarsGet(u, n) = v
<1> DEFINE i == VarsFind(s, n)
           u == VarsSet(s, n, v)
<1>1. CASE i = 0
  <2>1. Global(s) = Len(s.scopes) /\ Len(s.scopes) \in 1 .. Len(s.scopes)
    BY StoreRead
  <2>2. n \notin DOMAIN s.scopes[Len(s.scopes)] /\ Outside(s, Len(s.scopes), n)
    BY <1>1, <2>1, FindRead DEF Outside
  <2>3. u = Put(s, Len(s.scopes), n, Bound(v, FALSE, FALSE))
    BY <1>1, <2>1 DEF VarsSet
  <2> DEFINE g == Len(s.scopes)
  <2> HIDE DEF u
  <2>4. g \in 1 .. Len(s.scopes) /\ n \notin DOMAIN s.scopes[g] /\ Outside(s, g, n)
    BY <2>1, <2>2
  <2>5. u = Put(s, g, n, Bound(v, FALSE, FALSE))
    BY <2>3
  <2> HIDE DEF g
  <2>6. Follows(s, u) /\ Spares(s, u, {n}) /\ VarsGet(u, n) = v
    BY <2>4, <2>5, FreshAt
  <2> QED
    BY <2>6 DEF u
<1>2. CASE i # 0 /\ s.scopes[i][n].readonly
  <2>1. u = s /\ VarsIsReadonly(s, n)
    BY <1>2, FoundAt DEF VarsSet
  <2> QED
    BY <2>1, Stays
<1>3. CASE i # 0 /\ ~s.scopes[i][n].readonly
  <2>1. u = VarStoreValue(s, i, n, v)
    BY <1>3 DEF VarsSet, Found
  <2> QED
    BY <1>3, <2>1, StoreValueFollows
<1> QED
  BY <1>1, <1>2, <1>3

LEMMA SetLocalFollows ==
  ASSUME NEW s \in Stores, NEW n \in Names, NEW v \in Values \cup {Unset}
  PROVE  Follows(s, VarsSetLocal(s, n, v)) /\ Spares(s, VarsSetLocal(s, n, v), {n})
<1>1. 1 \in 1 .. Len(s.scopes) /\ Outside(s, 1, n)
  BY StoreRead DEF Outside
<1>2. CASE ~VarsIsLocal(s, n)
  BY <1>1, <1>2, FreshAt DEF VarsIsLocal, VarsSetLocal
<1>3. CASE VarsIsLocal(s, n)
  <2>1. VarsFind(s, n) = 1
    BY <1>1, <1>3, FindAt DEF VarsIsLocal
  <2>2. CASE s.scopes[1][n].readonly
    BY <1>3, <2>2, Stays DEF VarsSetLocal
  <2>3. CASE ~s.scopes[1][n].readonly
    <3>1. VarsSetLocal(s, n, v) = VarStoreValue(s, VarsFind(s, n), n, v)
      BY <1>3, <2>1, <2>3 DEF VarsSetLocal
    <3> QED
      BY <2>1, <2>3, <3>1, StoreValueFollows
  <2> QED
    BY <2>2, <2>3
<1> QED
  BY <1>2, <1>3

(* No value changes at all.                                                *)
LEMMA SparesAll ==
  ASSUME NEW s, NEW u, NEW n, Spares(s, u, {n}), VarsGet(u, n) = VarsGet(s, n)
  PROVE  Spares(s, u, {})
BY DEF Spares

(* The same for a variable declared in the last scope, at any value.       *)
LEMMA FreshGlobal ==
  ASSUME NEW s \in Stores, NEW n \in Names, NEW g \in 1 .. Len(s.scopes),
         n \notin DOMAIN s.scopes[g], Outside(s, g, n)
  PROVE  LET d == Put(s, g, n, Bound(Unset, FALSE, FALSE))
         IN  Follows(s, d) /\ Spares(s, d, {n}) /\ VarsFind(d, n) = g /\ VarsGet(d, n) = Unset
<1>1. ASSUME NEW v \in Values \cup {Unset}
      PROVE  LET d == Put(s, g, n, Bound(v, FALSE, FALSE))
             IN  Follows(s, d) /\ Spares(s, d, {n}) /\ VarsFind(d, n) = g /\ VarsGet(d, n) = v
  <2> DEFINE d == Put(s, g, n, Bound(v, FALSE, FALSE))
  <2> HIDE DEF d
  <2>1. d = Put(s, g, n, Bound(v, FALSE, FALSE))
    BY DEF d
  <2>2. Follows(s, d) /\ Spares(s, d, {n}) /\ VarsGet(d, n) = v
    BY <2>1, FreshAt
  <2>3. VarsFind(d, n) = g
    <3> DEFINE b == Bound(v, FALSE, FALSE)
    <3>1. b \in Binding
      BY DEF Bound, Binding
    <3> HIDE DEF b
    <3>2. d = Put(s, g, n, b)
      BY <2>1 DEF b
    <3> QED
      BY <3>1, <3>2, PutAt
  <2> QED
    BY <2>2, <2>3 DEF d
<1>2. Unset \in Values \cup {Unset}
  OBVIOUS
<1> QED
  BY <1>1, <1>2, Zenon

LEMMA DeclaredFollows ==
  ASSUME NEW s \in Stores, NEW n \in Names
  PROVE  LET d == Declared(s, n)
         IN  /\ Follows(s, d) /\ Spares(s, d, {})
             /\ d \in Stores /\ VarsFind(d, n) # 0
<1> DEFINE g == Len(s.scopes)
           d == Declared(s, n)
<1>1. g \in 1 .. Len(s.scopes) /\ Global(s) = g /\ g # 0
  BY StoreRead
<1>2. CASE VarsFind(s, n) = 0
  <2>1. d = Put(s, g, n, Bound(Unset, FALSE, FALSE))
    BY <1>1, <1>2 DEF Declared
  <2>2. n \notin DOMAIN s.scopes[g] /\ Outside(s, g, n)
    BY <1>1, <1>2, FindRead DEF Outside
  <2> HIDE DEF g, d
  <2>3. Follows(s, d) /\ Spares(s, d, {n}) /\ VarsFind(d, n) = g /\ VarsGet(d, n) = Unset
    <3>1. g \in 1 .. Len(s.scopes)
      BY <1>1
    <3>2. n \notin DOMAIN s.scopes[g]
      BY <2>2
    <3>3. Outside(s, g, n)
      BY <2>2
    <3> QED
      BY <3>1, <3>2, <3>3, <2>1, FreshGlobal
  <2>4. VarsGet(s, n) = Unset
    BY <1>2, FoundAt
  <2>5. Follows(s, d) /\ Spares(s, d, {}) /\ d \in Stores /\ VarsFind(d, n) # 0
    BY <1>1, <2>3, <2>4, SparesAll DEF Follows
  <2> QED
    BY <2>5 DEF d
<1>3. CASE VarsFind(s, n) # 0
  <2>1. d = s
    BY <1>3 DEF Declared
  <2> QED
    BY <1>3, <2>1, Stays
<1> QED
  BY <1>2, <1>3

(* A flag is set or cleared.                                               *)
LEMMA ExportFollows ==
  ASSUME NEW s \in Stores, NEW n \in Names
  PROVE  Follows(s, VarsExport(s, n)) /\ Spares(s, VarsExport(s, n), {})
<1> DEFINE d == Declared(s, n)
           i == VarsFind(d, n)
           a == Found(d, n)
           b == [a EXCEPT !.exported = TRUE]
           put == Put(d, i, n, b)
           u == VarsExport(s, n)
<1>1. Follows(s, d) /\ Spares(s, d, {}) /\ d \in Stores /\ i # 0
  BY DeclaredFollows
<1>2. u = IF a.value = Unset THEN put ELSE Environ(put, n, a.value)
  BY DEF VarsExport
<1> HIDE DEF d, u
<1>3. a = d.scopes[i][n] /\ a \in Binding /\ VarsGet(d, n) = a.value
  BY <1>1, FoundAt
<1>4. b \in Binding /\ b.exported = TRUE /\ b.value = a.value /\ b.readonly = a.readonly
  BY <1>3 DEF Binding
<1> HIDE DEF b
<1>5. \/ u = put /\ Settles(a, b)
      \/ u = Environ(put, n, IF b.exported THEN b.value ELSE Unset)
  BY <1>2, <1>4 DEF Settles
<1>6. Follows(d, u) /\ Spares(d, u, {n}) /\ VarsGet(u, n) = b.value
  BY <1>1, <1>3, <1>4, <1>5, ChangeAt
<1>7. Spares(d, u, {})
  BY <1>3, <1>4, <1>6, SparesAll
<1>8. Follows(s, u) /\ Spares(s, u, {})
  BY <1>1, <1>6, <1>7, FollowsOn, SparesOn
<1> QED
  BY <1>8 DEF u

LEMMA ReadonlyFollows ==
  ASSUME NEW s \in Stores, NEW n \in Names
  PROVE  Follows(s, VarsReadonly(s, n)) /\ Spares(s, VarsReadonly(s, n), {})
<1> DEFINE d == Declared(s, n)
           i == VarsFind(d, n)
           a == Found(d, n)
           b == [a EXCEPT !.readonly = TRUE]
           put == Put(d, i, n, b)
           u == VarsReadonly(s, n)
<1>1. Follows(s, d) /\ Spares(s, d, {}) /\ d \in Stores /\ i # 0
  BY DeclaredFollows
<1>2. u = put
  BY DEF VarsReadonly
<1> HIDE DEF d, u
<1>3. a = d.scopes[i][n] /\ a \in Binding /\ VarsGet(d, n) = a.value
  BY <1>1, FoundAt
<1>4. b \in Binding /\ b.exported = a.exported /\ b.value = a.value /\ b.readonly
  BY <1>3 DEF Binding
<1> HIDE DEF b
<1>5. Settles(a, b)
  BY <1>4 DEF Settles
<1>6. Follows(d, u) /\ Spares(d, u, {n}) /\ VarsGet(u, n) = b.value
  BY <1>1, <1>2, <1>3, <1>4, <1>5, ChangeAt, SMTT(40)
<1>7. Spares(d, u, {})
  BY <1>3, <1>4, <1>6, SparesAll
<1>8. Follows(s, u) /\ Spares(s, u, {})
  BY <1>1, <1>6, <1>7, FollowsOn, SparesOn
<1> QED
  BY <1>8 DEF u

LEMMA UnexportFollows ==
  ASSUME NEW s \in Stores, NEW n \in Names
  PROVE  Follows(s, VarsUnexport(s, n)) /\ Spares(s, VarsUnexport(s, n), {})
<1> DEFINE i == VarsFind(s, n)
           a == Found(s, n)
           b == [a EXCEPT !.exported = FALSE]
           put == Put(s, i, n, b)
           u == VarsUnexport(s, n)
<1>1. CASE i = 0
  <2>1. u = Environ(s, n, Unset)
    BY <1>1 DEF VarsUnexport
  <2> HIDE DEF u
  <2>2. /\ Touches(s, u, n) /\ u \in Stores /\ u.scopes = s.scopes /\ u.environ[n] = Unset
        /\ \A m \in Names : VarsFind(u, m) = VarsFind(s, m) /\ VarsGet(u, m) = VarsGet(s, m)
    BY <2>1, EnvironAt
  <2>3. ~VarsIsExported(u, n)
    BY <1>1, <2>2, FoundAt
  <2>4. Follows(s, u)
    BY <2>2, <2>3, TouchesFollows
  <2> QED
    BY <2>2, <2>4 DEF Spares, u
<1>2. CASE i # 0
  <2>1. u = Environ(put, n, Unset)
    BY <1>2 DEF VarsUnexport
  <2> HIDE DEF u
  <2>2. a = s.scopes[i][n] /\ a \in Binding /\ VarsGet(s, n) = a.value
    BY <1>2, FoundAt
  <2>3. b \in Binding /\ b.exported = FALSE /\ b.value = a.value /\ b.readonly = a.readonly
    BY <2>2 DEF Binding
  <2> HIDE DEF b
  <2>4. u = Environ(put, n, IF b.exported THEN b.value ELSE Unset)
    BY <2>1, <2>3
  <2>5. Follows(s, u) /\ Spares(s, u, {n}) /\ VarsGet(u, n) = b.value
    BY <1>2, <2>2, <2>3, <2>4, ChangeAt
  <2> QED
    BY <2>2, <2>3, <2>5, SparesAll DEF u
<1> QED
  BY <1>1, <1>2

(* An entry is taken out of the global scope.                              *)
LEMMA Unlinked ==
  ASSUME NEW s \in Stores, NEW n \in Names, NEW i, i = VarsFind(s, n), i = Len(s.scopes)
  PROVE  LET u == Environ([s EXCEPT !.scopes[i] = Without(@, n)], n, Unset)
         IN  /\ Touches(s, u, n) /\ u \in Stores /\ u.environ[n] = Unset
             /\ VarsFind(u, n) = 0 /\ \A j \in 1 .. Len(s.scopes) : n \notin DOMAIN u.scopes[j]
<1> DEFINE g == Len(s.scopes)
           u == Environ([s EXCEPT !.scopes[i] = Without(@, n)], n, Unset)
<1>1. /\ g \in Nat /\ DOMAIN s.scopes = 1 .. g /\ i = g
      /\ s = [scopes |-> s.scopes, environ |-> s.environ]
      /\ i \in 1 .. g /\ \A j \in 1 .. g : n \in DOMAIN s.scopes[j] => i <= j
  <2>1. /\ g \in Nat /\ g >= 1 /\ DOMAIN s.scopes = 1 .. g
        /\ s = [scopes |-> s.scopes, environ |-> s.environ]
    BY StoreRead
  <2>2. i = g /\ i # 0
    <3> HIDE DEF g
    <3> QED
      BY <2>1 DEF g
  <2> QED
    BY <2>1, <2>2, FindRead
<1> DEFINE c == Without(s.scopes[i], n)
           q == [s.scopes EXCEPT ![i] = c]
           w == [s EXCEPT !.scopes = q]
<1>2. u = Environ(w, n, Unset)
  OBVIOUS
<1>3. /\ DOMAIN s.scopes[i] \subseteq Names
      /\ s.scopes[i] \in [DOMAIN s.scopes[i] -> Binding]
      /\ s.scopes \in Seq(Scope) /\ s.environ \in [Names -> Values \cup {Unset}]
  BY <1>1, StoreRead
<1>4. /\ DOMAIN c = DOMAIN s.scopes[i] \ {n}
      /\ \A m \in DOMAIN s.scopes[i] \ {n} : c[m] = s.scopes[i][m]
      /\ c \in [DOMAIN c -> Binding]
  BY <1>3 DEF Without
<1> HIDE DEF c, u
<1>5. c \in Scope
  BY <1>3, <1>4, ScopeType
<1>6. /\ q \in Seq(Scope) /\ Len(q) = g /\ q[i] = c
      /\ \A j \in 1 .. g : j # i => q[j] = s.scopes[j]
  BY <1>1, <1>3, <1>5, ExceptSeq
<1>7. q # <<>>
  BY <1>1, <1>6
<1> HIDE DEF q
<1>8. w \in Stores /\ w.scopes = q /\ w.environ = s.environ
  BY <1>3, <1>6, <1>7 DEF Stores
<1> HIDE DEF w
<1>9. Touches(s, w, n)
  BY <1>4, <1>6, <1>8 DEF Touches
<1>10. /\ Touches(w, u, n) /\ u \in Stores /\ u.scopes = w.scopes /\ u.environ[n] = Unset
  BY <1>2, <1>8, EnvironAt
<1>11. Touches(s, u, n)
  BY <1>9, <1>10, TouchesTwice
<1>12. \A j \in 1 .. g : n \notin DOMAIN u.scopes[j]
  <2> SUFFICES ASSUME NEW j \in 1 .. g PROVE n \notin DOMAIN q[j]
    BY <1>8, <1>10
  <2>1. CASE j = i
    BY <1>4, <1>6, <2>1
  <2>2. CASE j # i
    <3>1. j < i
      BY <1>1, <2>2
    <3>2. n \notin DOMAIN s.scopes[j]
      BY <1>1, <3>1
    <3> QED
      BY <1>6, <2>2, <3>2
  <2> QED
    BY <2>1, <2>2
<1>13. VarsFind(u, n) = 0
  <2>1. Len(u.scopes) = g
    BY <1>6, <1>8, <1>10
  <2> QED
    BY <1>10, <1>12, <2>1, FindRead
<1> QED
  BY <1>10, <1>11, <1>12, <1>13 DEF u, w, q, c

(* vars_unset: the value is gone, and the name stays unset, as no outer    *)
(* scope shows through.                                                    *)
LEMMA UnsetFollows ==
  ASSUME NEW s \in Stores, NEW n \in Names
  PROVE  LET u == VarsUnset(s, n)
         IN  /\ Follows(s, u) /\ Spares(s, u, {n})
             /\ VarsGet(u, n) \in {VarsGet(s, n), Unset}
<1> DEFINE i == VarsFind(s, n)
           g == Len(s.scopes)
           a == Found(s, n)
           u == VarsUnset(s, n)
           Goal == /\ Follows(s, u) /\ Spares(s, u, {n})
                   /\ VarsGet(u, n) \in {VarsGet(s, n), Unset}
<1>1. /\ Global(s) = g /\ g \in Nat /\ DOMAIN s.scopes = 1 .. g
      /\ s = [scopes |-> s.scopes, environ |-> s.environ]
  BY StoreRead
<1>2. CASE i = 0
  <2>1. u = Environ(s, n, Unset)
    BY <1>2 DEF VarsUnset
  <2> HIDE DEF u
  <2>2. /\ Touches(s, u, n) /\ u \in Stores /\ u.scopes = s.scopes /\ u.environ[n] = Unset
        /\ \A m \in Names : VarsFind(u, m) = VarsFind(s, m) /\ VarsGet(u, m) = VarsGet(s, m)
    BY <2>1, EnvironAt
  <2>3. ~VarsIsExported(u, n)
    BY <1>2, <2>2, FoundAt
  <2>4. Follows(s, u)
    BY <2>2, <2>3, TouchesFollows
  <2> QED
    BY <2>2, <2>4 DEF Spares, u
<1>3. CASE i # 0 /\ a.readonly
  <2>1. u = s
    BY <1>3 DEF VarsUnset
  <2> QED
    BY <2>1, Stays
<1>4. CASE i # 0 /\ ~a.readonly
  <2>1. /\ a = s.scopes[i][n] /\ a \in Binding /\ i \in 1 .. g
        /\ \A j \in 1 .. g : n \in DOMAIN s.scopes[j] => i <= j
    BY <1>4, FoundAt, FindRead
  <2>2. CASE i < g
    <3> DEFINE b == [a EXCEPT !.value = Unset, !.exported = FALSE]
               put == Put(s, i, n, b)
    <3>1. u = Environ(put, n, Unset)
      BY <1>1, <1>4, <2>2 DEF VarsUnset
    <3>2. b \in Binding /\ b.exported = FALSE /\ b.value = Unset
      BY <2>1 DEF Binding
    <3> HIDE DEF b, u
    <3>3. u = Environ(put, n, IF b.exported THEN b.value ELSE Unset)
      BY <3>1, <3>2
    <3>4. Follows(s, u) /\ Spares(s, u, {n}) /\ VarsGet(u, n) = b.value
      BY <1>4, <2>1, <3>2, <3>3, ChangeAt
    <3> QED
      BY <3>2, <3>4 DEF u
  <2>3. CASE ~(i < g)
    <3>1. u = Environ([s EXCEPT !.scopes[i] = Without(@, n)], n, Unset) /\ i = g
      BY <1>1, <1>4, <2>1, <2>3 DEF VarsUnset
    <3> HIDE DEF u
    <3>2. /\ Touches(s, u, n) /\ u \in Stores /\ u.environ[n] = Unset /\ VarsFind(u, n) = 0
      BY <3>1, Unlinked
    <3>3. VarsGet(u, n) = Unset /\ ~VarsIsExported(u, n)
      BY <3>2, FoundAt
    <3>4. \A j \in 1 .. g : n \in DOMAIN s.scopes[j] => ~s.scopes[j][n].readonly
      <4> SUFFICES ASSUME NEW j \in 1 .. g, n \in DOMAIN s.scopes[j]
                   PROVE  ~s.scopes[j][n].readonly
        OBVIOUS
      <4>1. j = i
        BY <1>1, <2>1, <2>3
      <4> QED
        BY <1>4, <2>1, <4>1
    <3>5. Follows(s, u) /\ Spares(s, u, {n})
      BY <3>2, <3>3, <3>4, TouchesFollows
    <3> QED
      BY <3>3, <3>5 DEF u
  <2> QED
    BY <2>2, <2>3
<1> QED
  BY <1>2, <1>3, <1>4

-----------------------------------------------------------------------------
(* Values that a recursive function goes through, one from the one before. *)
Steps(G, S, n) == \A u \in S, i \in 1 .. n : G[<<u, i>>] \in S

Walks(h, G, s, S, n) ==
  h \in [0 .. n -> S] /\ h[0] = s /\ \A i \in 1 .. n : h[i] = G[<<h[i - 1], i>>]

LEMMA Recursion ==
  ASSUME NEW S, NEW n \in Nat, NEW s \in S, NEW G, Steps(G, S, n)
  PROVE  \E h : Walks(h, G, s, S, n)
<1> DEFINE Upto(h, k) == h[0] = s /\ \A i \in 1 .. k : h[i] = G[<<h[i - 1], i>>]
           P == {k \in 0 .. n : \E h \in [0 .. k -> S] : Upto(h, k)}
<1>1. 0 \in P
  <2> DEFINE h == [i \in 0 .. 0 |-> s]
  <2>1. h \in [0 .. 0 -> S] /\ Upto(h, 0)
    OBVIOUS
  <2>2. 0 \in 0 .. n
    OBVIOUS
  <2> HIDE DEF h
  <2>3. \E f \in [0 .. 0 -> S] : Upto(f, 0)
    BY <2>1
  <2> QED
    BY <2>2, <2>3
<1>2. ASSUME NEW k \in 1 .. n, k - 1 \in P PROVE k \in P
  <2>1. PICK h \in [0 .. k - 1 -> S] : Upto(h, k - 1)
    BY <1>2
  <2> DEFINE e == G[<<h[k - 1], k>>]
             g == [i \in 0 .. k |-> IF i = k THEN e ELSE h[i]]
  <2>2. h[k - 1] \in S /\ e \in S
    BY <2>1 DEF Steps
  <2>3. /\ g \in [0 .. k -> S] /\ g[k] = e
        /\ \A i \in 0 .. k - 1 : g[i] = h[i]
    BY <2>1, <2>2
  <2> HIDE DEF g
  <2>4. g[0] = s
    BY <2>1, <2>3
  <2>5. ASSUME NEW i \in 1 .. k PROVE g[i] = G[<<g[i - 1], i>>]
    <3>1. CASE i = k
      BY <2>3, <3>1
    <3>2. CASE i # k
      <4>1. i \in 1 .. k - 1 /\ i \in 0 .. k - 1 /\ i - 1 \in 0 .. k - 1
        BY <3>2
      <4> QED
        BY <2>1, <2>3, <4>1
    <3> QED
      BY <3>1, <3>2
  <2> QED
    BY <2>3, <2>4, <2>5
<1> HIDE DEF P
<1>3. n \in P
  BY <1>1, <1>2, Induct
<1> QED
  BY <1>3 DEF P, Walks

LEMMA Reaches ==
  ASSUME NEW S, NEW n \in Nat, NEW g, g[0] \in S, \A i \in 1 .. n : g[i - 1] \in S => g[i] \in S
  PROVE  \A i \in 0 .. n : g[i] \in S
<1> DEFINE P == {i \in 0 .. n : g[i] \in S}
<1>1. 0 \in P /\ \A i \in 1 .. n : i - 1 \in P => i \in P
  OBVIOUS
<1>2. \A i \in 0 .. n : i \in P
  <2> HIDE DEF P
  <2> QED
    BY <1>1, Induct
<1> QED
  BY <1>2

(* The stores an assignment to names of N may leave.                       *)
After(s, N) == {u \in Stores : Follows(s, u) /\ Spares(s, u, N)}

LEMMA AfterOn ==
  ASSUME NEW s \in Stores, NEW N, NEW u \in After(s, N), NEW w, NEW M, M \subseteq N,
         Follows(u, w), Spares(u, w, M)
  PROVE  w \in After(s, N)
<1>1. u \in Stores /\ Follows(s, u) /\ Spares(s, u, N)
  BY DEF After
<1>2. Follows(s, w)
  BY <1>1, FollowsOn
<1>3. Spares(s, w, N)
  BY <1>1 DEF Spares
<1>4. w \in Stores
  BY <1>2 DEF Follows
<1> QED
  BY <1>2, <1>3, <1>4 DEF After

LEMMA AfterNone ==
  ASSUME NEW s \in Stores, NEW N
  PROVE  s \in After(s, N)
BY Stays DEF After

Prefix == [name : Names, value : Values]

LEMMA OverlaySetFollows ==
  ASSUME NEW s \in Stores, NEW a \in Prefix, NEW export \in BOOLEAN
  PROVE  Follows(s, OverlaySet(s, a, export)) /\ Spares(s, OverlaySet(s, a, export), {a.name})
<1> DEFINE set == VarsSet(s, a.name, a.value)
<1>1. a.name \in Names /\ a.value \in Values \cup {Unset}
  BY DEF Prefix
<1>2. Follows(s, set) /\ Spares(s, set, {a.name})
  BY <1>1, SetFollows
<1>3. set \in Stores
  BY <1>2 DEF Follows
<1> HIDE DEF set
<1>4. Follows(set, VarsExport(set, a.name)) /\ Spares(set, VarsExport(set, a.name), {})
  BY <1>1, <1>3, ExportFollows
<1>5. Follows(s, VarsExport(set, a.name))
  BY <1>2, <1>4, FollowsOn
<1>6. Spares(s, VarsExport(set, a.name), {a.name})
  BY <1>2, <1>4 DEF Spares
<1> QED
  BY <1>2, <1>5, <1>6 DEF OverlaySet, set

LEMMA SlotBackFollows ==
  ASSUME NEW s \in Stores, NEW e \in Slot, NEW unexport \in BOOLEAN, NEW redeclare \in BOOLEAN
  PROVE  LET u == SlotBack(s, e, unexport, redeclare)
         IN  Follows(s, u) /\ Spares(s, u, {e.name})
<1>1. e.name \in Names /\ e.had \in Values \cup {Unset}
  BY DEF Slot
<1>2. CASE e.had # Unset
  <2> DEFINE back == VarsSet(s, e.name, e.had)
  <2>1. Follows(s, back) /\ Spares(s, back, {e.name})
    BY <1>1, SetFollows
  <2>2. back \in Stores
    BY <2>1 DEF Follows
  <2> HIDE DEF back
  <2>3. Follows(back, VarsUnexport(back, e.name)) /\ Spares(back, VarsUnexport(back, e.name), {})
    BY <1>1, <2>2, UnexportFollows
  <2>4. Follows(s, VarsUnexport(back, e.name))
    BY <2>1, <2>3, FollowsOn
  <2>5. Spares(s, VarsUnexport(back, e.name), {e.name})
    BY <2>1, <2>3 DEF Spares
  <2> QED
    BY <1>2, <2>1, <2>4, <2>5 DEF SlotBack, back
<1>3. CASE e.had = Unset
  <2> DEFINE gone == VarsUnset(s, e.name)
  <2>1. Follows(s, gone) /\ Spares(s, gone, {e.name})
    BY <1>1, UnsetFollows
  <2>2. gone \in Stores
    BY <2>1 DEF Follows
  <2> HIDE DEF gone
  <2>3. Follows(gone, VarsExport(gone, e.name)) /\ Spares(gone, VarsExport(gone, e.name), {})
    BY <1>1, <2>2, ExportFollows
  <2>4. Follows(s, VarsExport(gone, e.name))
    BY <2>1, <2>3, FollowsOn
  <2>5. Spares(s, VarsExport(gone, e.name), {e.name})
    BY <2>1, <2>3 DEF Spares
  <2> QED
    BY <1>3, <2>1, <2>4, <2>5 DEF SlotBack, gone
<1> QED
  BY <1>2, <1>3

(* The names that assignments, or slots, are of.                           *)
NamesOf(as) == {as[i].name : i \in DOMAIN as}

LEMMA SlotType ==
  ASSUME NEW s \in Stores, NEW a \in Prefix
  PROVE  OverlaySlot(s, a) \in Slot
<1>1. a.name \in Names
  BY DEF Prefix
<1>2. VarsGet(s, a.name) \in Values \cup {Unset} /\ VarsIsExported(s, a.name) \in BOOLEAN
  <2>1. CASE VarsFind(s, a.name) = 0
    BY <2>1 DEF VarsGet, VarsIsExported
  <2>2. CASE VarsFind(s, a.name) # 0
    <3>1. Found(s, a.name) \in Binding /\ VarsGet(s, a.name) = Found(s, a.name).value
      BY <1>1, <2>2, FoundAt
    <3>2. Found(s, a.name).value \in Values \cup {Unset} /\ Found(s, a.name).exported \in BOOLEAN
      BY <3>1 DEF Binding
    <3> QED
      BY <2>2, <3>1, <3>2 DEF VarsIsExported
  <2> QED
    BY <2>1, <2>2
<1> QED
  BY <1>1, <1>2 DEF OverlaySlot, Slot

(* What the recursive functions of the overlay go through.                 *)
(* The stores on the way, from s to what the push leaves.                  *)
Pushing(g, s, as, export) ==
  /\ g \in [0 .. Len(as) -> Stores] /\ g[0] = s
  /\ \A i \in 1 .. Len(as) : g[i] = OverlaySet(g[i - 1], as[i], export)
  /\ OverlayPush(s, as, export).store = g[Len(as)]
  /\ OverlayPush(s, as, export).slots = [i \in DOMAIN as |-> OverlaySlot(g[i - 1], as[i])]

LEMMA PushUnfolds ==
  ASSUME NEW s \in Stores, NEW as \in Seq(Prefix), NEW export \in BOOLEAN
  PROVE  \E g : Pushing(g, s, as, export)
<1> DEFINE n == Len(as)
           Move(u, i) == OverlaySet(u, as[i], export)
           Grown(g) == g = [i \in 0 .. n |-> IF i = 0 THEN s ELSE Move(g[i - 1], i)]
           after == CHOOSE g : Grown(g)
           slots == [i \in DOMAIN as |-> OverlaySlot(after[i - 1], as[i])]
<1>1. n \in Nat /\ \A i \in 1 .. n : as[i] \in Prefix
  BY ElementOfSeq, LenProperties
<1>2. \A u \in Stores, i \in 1 .. n : Move(u, i) \in Stores
  BY <1>1, OverlaySetFollows DEF Follows
<1>3. OverlayPush(s, as, export) = [store |-> after[n], slots |-> slots]
  BY DEF OverlayPush
<1> HIDE DEF n, Move, after
<1>4. \E g : Grown(g) /\ g \in [0 .. n -> Stores]
  <2> DEFINE G == [p \in Stores \X (1 .. n) |-> Move(p[1], p[2])]
  <2>1. Steps(G, Stores, n)
    BY <1>2 DEF Steps
  <2>2. \A u \in Stores, i \in 1 .. n : G[<<u, i>>] = Move(u, i)
    OBVIOUS
  <2> HIDE DEF G
  <2>3. PICK h : Walks(h, G, s, Stores, n)
    BY <1>1, <2>1, Recursion
  <2>4. h \in [0 .. n -> Stores] /\ h[0] = s /\ \A i \in 1 .. n : h[i] = G[<<h[i - 1], i>>]
    BY <2>3 DEF Walks
  <2>5. ASSUME NEW i \in 1 .. n PROVE h[i] = Move(h[i - 1], i)
    <3>1. h[i - 1] \in Stores
      BY <1>1, <2>4
    <3> QED
      BY <2>2, <2>4, <3>1
  <2>6. h = [i \in 0 .. n |-> h[i]]
    BY <2>4
  <2>7. \A i \in 0 .. n : h[i] = IF i = 0 THEN s ELSE Move(h[i - 1], i)
    BY <1>1, <2>4, <2>5
  <2> QED
    BY <2>4, <2>6, <2>7
<1>5. Grown(after)
  BY <1>4 DEF after
<1>6. after[0] = s /\ \A i \in 1 .. n : after[i] = Move(after[i - 1], i)
  BY <1>1, <1>5
<1>7. \A i \in 0 .. n : after[i] \in Stores
  BY <1>1, <1>2, <1>6, Reaches
<1>8. after \in [0 .. n -> Stores]
  <2>1. after = [i \in 0 .. n |-> after[i]]
    BY <1>5
  <2> QED
    BY <1>7, <2>1
<1> HIDE DEF slots
<1>9. OverlayPush(s, as, export).store = after[n] /\ OverlayPush(s, as, export).slots = slots
  BY <1>3
<1>10. Pushing(after, s, as, export)
  BY <1>6, <1>8, <1>9 DEF n, Move, slots, Pushing
<1> QED
  BY <1>10

LEMMA LocalsUnfold ==
  ASSUME NEW s \in Stores, NEW as \in Seq(Prefix)
  PROVE  \E g \in [0 .. Len(as) -> Stores] :
           /\ g[0] = s /\ Locals(s, as) = g[Len(as)]
           /\ \A i \in 1 .. Len(as) : g[i] = VarsSetLocal(g[i - 1], as[i].name, as[i].value)
<1> DEFINE n == Len(as)
           Move(u, i) == VarsSetLocal(u, as[i].name, as[i].value)
           Grown(g) == g = [i \in 0 .. n |-> IF i = 0 THEN s ELSE Move(g[i - 1], i)]
           after == CHOOSE g : Grown(g)
<1>1. n \in Nat /\ \A i \in 1 .. n : as[i] \in Prefix
  BY ElementOfSeq, LenProperties
<1>2. \A u \in Stores, i \in 1 .. n : Move(u, i) \in Stores
  BY <1>1, SetLocalFollows DEF Follows, Prefix
<1>3. Locals(s, as) = after[n]
  BY DEF Locals
<1> HIDE DEF n, Move, after
<1>4. \E g : Grown(g) /\ g \in [0 .. n -> Stores]
  <2> DEFINE G == [p \in Stores \X (1 .. n) |-> Move(p[1], p[2])]
  <2>1. Steps(G, Stores, n)
    BY <1>2 DEF Steps
  <2>2. \A u \in Stores, i \in 1 .. n : G[<<u, i>>] = Move(u, i)
    OBVIOUS
  <2> HIDE DEF G
  <2>3. PICK h : Walks(h, G, s, Stores, n)
    BY <1>1, <2>1, Recursion
  <2>4. h \in [0 .. n -> Stores] /\ h[0] = s /\ \A i \in 1 .. n : h[i] = G[<<h[i - 1], i>>]
    BY <2>3 DEF Walks
  <2>5. ASSUME NEW i \in 1 .. n PROVE h[i] = Move(h[i - 1], i)
    <3>1. h[i - 1] \in Stores
      BY <1>1, <2>4
    <3> QED
      BY <2>2, <2>4, <3>1
  <2>6. h = [i \in 0 .. n |-> h[i]]
    BY <2>4
  <2>7. \A i \in 0 .. n : h[i] = IF i = 0 THEN s ELSE Move(h[i - 1], i)
    BY <1>1, <2>4, <2>5
  <2> QED
    BY <2>4, <2>6, <2>7
<1>5. Grown(after)
  BY <1>4 DEF after
<1>6. after[0] = s /\ \A i \in 1 .. n : after[i] = Move(after[i - 1], i)
  BY <1>1, <1>5
<1>7. \A i \in 0 .. n : after[i] \in Stores
  BY <1>1, <1>2, <1>6, Reaches
<1>8. after \in [0 .. n -> Stores]
  <2>1. after = [i \in 0 .. n |-> after[i]]
    BY <1>5
  <2> QED
    BY <1>7, <2>1
<1> QED
  BY <1>3, <1>6, <1>8 DEF n, Move

LEMMA UnexportUnfolds ==
  ASSUME NEW s \in Stores, NEW slots \in Seq(Slot)
  PROVE  \E g \in [0 .. Len(slots) -> Stores] :
           /\ g[0] = s /\ OverlayUnexport(s, slots) = g[Len(slots)]
           /\ \A i \in 1 .. Len(slots) : g[i] = 
                IF slots[i].wasexp THEN g[i - 1] ELSE VarsUnexport(g[i - 1], slots[i].name)
<1> DEFINE n == Len(slots)
           Move(u, i) == IF slots[i].wasexp THEN u ELSE VarsUnexport(u, slots[i].name)
           Grown(g) == g = [i \in 0 .. n |-> IF i = 0 THEN s ELSE Move(g[i - 1], i)]
           after == CHOOSE g : Grown(g)
<1>1. n \in Nat /\ \A i \in 1 .. n : slots[i] \in Slot
  BY ElementOfSeq, LenProperties
<1>2. \A u \in Stores, i \in 1 .. n : Move(u, i) \in Stores
  BY <1>1, UnexportFollows DEF Follows, Slot
<1>3. OverlayUnexport(s, slots) = after[n]
  BY DEF OverlayUnexport
<1> HIDE DEF n, Move, after
<1>4. \E g : Grown(g) /\ g \in [0 .. n -> Stores]
  <2> DEFINE G == [p \in Stores \X (1 .. n) |-> Move(p[1], p[2])]
  <2>1. Steps(G, Stores, n)
    BY <1>2 DEF Steps
  <2>2. \A u \in Stores, i \in 1 .. n : G[<<u, i>>] = Move(u, i)
    OBVIOUS
  <2> HIDE DEF G
  <2>3. PICK h : Walks(h, G, s, Stores, n)
    BY <1>1, <2>1, Recursion
  <2>4. h \in [0 .. n -> Stores] /\ h[0] = s /\ \A i \in 1 .. n : h[i] = G[<<h[i - 1], i>>]
    BY <2>3 DEF Walks
  <2>5. ASSUME NEW i \in 1 .. n PROVE h[i] = Move(h[i - 1], i)
    <3>1. h[i - 1] \in Stores
      BY <1>1, <2>4
    <3> QED
      BY <2>2, <2>4, <3>1
  <2>6. h = [i \in 0 .. n |-> h[i]]
    BY <2>4
  <2>7. \A i \in 0 .. n : h[i] = IF i = 0 THEN s ELSE Move(h[i - 1], i)
    BY <1>1, <2>4, <2>5
  <2> QED
    BY <2>4, <2>6, <2>7
<1>5. Grown(after)
  BY <1>4 DEF after
<1>6. after[0] = s /\ \A i \in 1 .. n : after[i] = Move(after[i - 1], i)
  BY <1>1, <1>5
<1>7. \A i \in 0 .. n : after[i] \in Stores
  BY <1>1, <1>2, <1>6, Reaches
<1>8. after \in [0 .. n -> Stores]
  <2>1. after = [i \in 0 .. n |-> after[i]]
    BY <1>5
  <2> QED
    BY <1>7, <2>1
<1> QED
  BY <1>3, <1>6, <1>8 DEF n, Move

(* The same from the last to the first.                                    *)
LEMMA InductDown ==
  ASSUME NEW n \in Nat, NEW P, n + 1 \in P, \A i \in 1 .. n : i + 1 \in P => i \in P
  PROVE  \A i \in 1 .. n + 1 : i \in P
<1> DEFINE Q == {k \in 0 .. n : n + 1 - k \in P}
<1>1. 0 \in Q
  OBVIOUS
<1>2. ASSUME NEW k \in 1 .. n, k - 1 \in Q PROVE k \in Q
  <2>1. n + 1 - k \in 1 .. n /\ n + 1 - k + 1 = n + 1 - (k - 1)
    OBVIOUS
  <2> QED
    BY <1>2, <2>1
<1> HIDE DEF Q
<1>3. \A k \in 0 .. n : k \in Q
  BY <1>1, <1>2, Induct
<1>4. ASSUME NEW i \in 1 .. n + 1 PROVE i \in P
  <2>1. n + 1 - i \in 0 .. n /\ n + 1 - (n + 1 - i) = i
    OBVIOUS
  <2>2. n + 1 - i \in Q
    BY <1>3, <2>1
  <2> QED
    BY <2>1, <2>2 DEF Q
<1> QED
  BY <1>4

LEMMA RestoreUnfolds ==
  ASSUME NEW s \in Stores, NEW slots \in Seq(Slot), NEW unexport \in BOOLEAN,
         NEW redeclare \in BOOLEAN
  PROVE  \E g \in [1 .. Len(slots) + 1 -> Stores] :
           /\ g[Len(slots) + 1] = s /\ OverlayRestore(s, slots, unexport, redeclare) = g[1]
           /\ \A i \in 1 .. Len(slots) : g[i] = SlotBack(g[i + 1], slots[i], unexport, redeclare)
<1> DEFINE n == Len(slots)
           Move(u, i) == SlotBack(u, slots[i], unexport, redeclare)
           Shrunk(g) == g = [i \in 1 .. n + 1 |-> IF i = n + 1 THEN s ELSE Move(g[i + 1], i)]
           back == CHOOSE g : Shrunk(g)
<1>1. n \in Nat /\ \A i \in 1 .. n : slots[i] \in Slot
  BY ElementOfSeq, LenProperties
<1>2. \A u \in Stores, i \in 1 .. n : Move(u, i) \in Stores
  BY <1>1, SlotBackFollows DEF Follows
<1>3. OverlayRestore(s, slots, unexport, redeclare) = back[1]
  BY DEF OverlayRestore
<1> HIDE DEF n, Move, back
<1>4. \E g : Shrunk(g)
  <2> DEFINE G == [p \in Stores \X (1 .. n) |-> Move(p[1], n + 1 - p[2])]
  <2>1. \A k \in 1 .. n : n + 1 - k \in 1 .. n
    BY <1>1
  <2>2. Steps(G, Stores, n)
    BY <1>2, <2>1 DEF Steps
  <2>3. \A u \in Stores, k \in 1 .. n : G[<<u, k>>] = Move(u, n + 1 - k)
    OBVIOUS
  <2> HIDE DEF G
  <2>4. PICK h : Walks(h, G, s, Stores, n)
    BY <1>1, <2>2, Recursion
  <2>5. h \in [0 .. n -> Stores] /\ h[0] = s /\ \A k \in 1 .. n : h[k] = G[<<h[k - 1], k>>]
    BY <2>4 DEF Walks
  <2> DEFINE b == [i \in 1 .. n + 1 |-> h[n + 1 - i]]
  <2>6. ASSUME NEW i \in 1 .. n PROVE b[i] = Move(b[i + 1], i)
    <3>1. PICK k \in 1 .. n : k = n + 1 - i
      BY <2>1
    <3>2. n + 1 - k = i /\ k - 1 = n + 1 - (i + 1) /\ i \in 1 .. n + 1 /\ i + 1 \in 1 .. n + 1
      BY <1>1, <3>1
    <3>3. h[k - 1] \in Stores
      BY <1>1, <2>5
    <3>4. h[k] = Move(h[k - 1], i)
      BY <2>3, <2>5, <3>2, <3>3
    <3> QED
      BY <3>1, <3>2, <3>4
  <2>7. b[n + 1] = s
    <3>1. n + 1 \in 1 .. n + 1 /\ n + 1 - (n + 1) = 0
      BY <1>1
    <3> QED
      BY <2>5, <3>1
  <2>8. b = [i \in 1 .. n + 1 |-> b[i]]
    OBVIOUS
  <2> HIDE DEF b
  <2>9. \A i \in 1 .. n + 1 : b[i] = IF i = n + 1 THEN s ELSE Move(b[i + 1], i)
    BY <1>1, <2>6, <2>7
  <2> QED
    BY <2>8, <2>9
<1>5. Shrunk(back)
  BY <1>4 DEF back
<1>6. back[n + 1] = s /\ \A i \in 1 .. n : back[i] = Move(back[i + 1], i)
  <2>1. n + 1 \in 1 .. n + 1 /\ \A i \in 1 .. n : i \in 1 .. n + 1 /\ i # n + 1
    BY <1>1
  <2> QED
    BY <1>5, <2>1
<1>7. \A i \in 1 .. n + 1 : back[i] \in Stores
  <2> DEFINE P == {i \in 1 .. n + 1 : back[i] \in Stores}
  <2>1. n + 1 \in P /\ \A i \in 1 .. n : i + 1 \in P => i \in P
    BY <1>1, <1>2, <1>6
  <2> HIDE DEF P
  <2>2. \A i \in 1 .. n + 1 : i \in P
    BY <1>1, <2>1, InductDown
  <2> QED
    BY <2>2 DEF P
<1>8. back \in [1 .. n + 1 -> Stores]
  <2>1. back = [i \in 1 .. n + 1 |-> back[i]]
    BY <1>5
  <2> QED
    BY <1>7, <2>1
<1> QED
  BY <1>3, <1>6, <1>8 DEF n, Move

-----------------------------------------------------------------------------
(* env_overlay_push: each assignment follows, and each slot is one.        *)
LEMMA PushFollows ==
  ASSUME NEW s \in Stores, NEW as \in Seq(Prefix), NEW export \in BOOLEAN
  PROVE  LET p == OverlayPush(s, as, export)
         IN  /\ p.store \in After(s, NamesOf(as))
             /\ p.slots \in Seq(Slot) /\ NamesOf(p.slots) = NamesOf(as)
<1> DEFINE n == Len(as)
           p == OverlayPush(s, as, export)
           S == After(s, NamesOf(as))
<1>0. PICK g : Pushing(g, s, as, export)
  BY PushUnfolds
<1>1. /\ g \in [0 .. Len(as) -> Stores] /\ g[0] = s
      /\ \A i \in 1 .. Len(as) : g[i] = OverlaySet(g[i - 1], as[i], export)
      /\ OverlayPush(s, as, export).store = g[Len(as)]
      /\ OverlayPush(s, as, export).slots = [i \in DOMAIN as |-> OverlaySlot(g[i - 1], as[i])]
  BY <1>0 DEF Pushing
<1>2. /\ n \in Nat /\ DOMAIN as = 1 .. n
      /\ \A i \in 1 .. n : as[i] \in Prefix /\ {as[i].name} \subseteq NamesOf(as)
  BY ElementOfSeq, LenProperties DEF NamesOf
<1>7. g \in [0 .. n -> Stores] /\ p.store = g[n]
      /\ p.slots = [i \in DOMAIN as |-> OverlaySlot(g[i - 1], as[i])]
  BY <1>1
<1> HIDE DEF n, p
<1>3. ASSUME NEW i \in 1 .. n, g[i - 1] \in S PROVE g[i] \in S
  <2>1. g[i - 1] \in Stores
    BY <1>3 DEF After
  <2>2. Follows(g[i - 1], g[i]) /\ Spares(g[i - 1], g[i], {as[i].name})
    BY <1>1, <1>2, <2>1, OverlaySetFollows DEF n
  <2> QED
    BY <1>2, <1>3, <2>2, AfterOn
<1> HIDE DEF S
<1>4. g[n] \in S
  <2>1. g[0] \in S
    BY <1>1, AfterNone DEF S
  <2>2. \A i \in 0 .. n : g[i] \in S
    BY <1>2, <1>3, <2>1, Reaches
  <2>3. n \in 0 .. n
    <3>1. n \in Nat
      BY LenProperties DEF n
    <3> QED
      BY <3>1
  <2> QED
    BY <2>2, <2>3
<1>5. p.slots \in Seq(Slot)
  <2>1. ASSUME NEW i \in 1 .. n PROVE OverlaySlot(g[i - 1], as[i]) \in Slot
    <3>1. g[i - 1] \in Stores
      <4>1. i - 1 \in 0 .. n
        BY <1>2
      <4> QED
        BY <1>7, <4>1
    <3> QED
      BY <1>2, <3>1, SlotType
  <2>2. p.slots \in [1 .. n -> Slot]
    BY <1>2, <1>7, <2>1
  <2> QED
    BY <1>2, <2>2
<1>6. NamesOf(p.slots) = NamesOf(as)
  <2>1. DOMAIN p.slots = DOMAIN as /\ \A i \in DOMAIN as : p.slots[i].name = as[i].name
    <3>1. DOMAIN p.slots = DOMAIN as /\ \A i \in DOMAIN as : p.slots[i] = OverlaySlot(g[i - 1], as[i])
      BY <1>7
    <3>2. \A i \in DOMAIN as : OverlaySlot(g[i - 1], as[i]).name = as[i].name
      BY DEF OverlaySlot
    <3> QED
      BY <3>1, <3>2
  <2> QED
    BY <2>1 DEF NamesOf
<1> QED
  BY <1>4, <1>5, <1>6, <1>7 DEF p, S

(* Locals: a function's assignments, in its scope.                         *)
LEMMA LocalsFollow ==
  ASSUME NEW s \in Stores, NEW as \in Seq(Prefix)
  PROVE  Locals(s, as) \in After(s, NamesOf(as))
<1> DEFINE S == After(s, NamesOf(as))
<1>1. PICK g \in [0 .. Len(as) -> Stores] :
        /\ g[0] = s /\ Locals(s, as) = g[Len(as)]
        /\ \A i \in 1 .. Len(as) : g[i] = VarsSetLocal(g[i - 1], as[i].name, as[i].value)
  BY LocalsUnfold
<1>2. /\ Len(as) \in Nat
      /\ \A i \in 1 .. Len(as) : as[i] \in Prefix /\ {as[i].name} \subseteq NamesOf(as)
  BY ElementOfSeq, LenProperties DEF NamesOf
<1>3. ASSUME NEW i \in 1 .. Len(as), g[i - 1] \in S PROVE g[i] \in S
  <2>1. g[i - 1] \in Stores /\ as[i].name \in Names /\ as[i].value \in Values \cup {Unset}
    BY <1>2, <1>3 DEF After, Prefix
  <2>2. Follows(g[i - 1], g[i]) /\ Spares(g[i - 1], g[i], {as[i].name})
    BY <1>1, <2>1, SetLocalFollows
  <2> QED
    BY <1>2, <1>3, <2>2, AfterOn
<1> HIDE DEF S
<1>4. g[0] \in S
  BY <1>1, AfterNone DEF S
<1>5. \A i \in 0 .. Len(as) : g[i] \in S
  BY <1>2, <1>3, <1>4, Reaches
<1>6. Len(as) \in 0 .. Len(as)
  <2>1. \A k \in Nat : k \in 0 .. k
    OBVIOUS
  <2> QED
    BY <1>2, <2>1, Zenon
<1> QED
  BY <1>1, <1>5, <1>6 DEF S

(* env_overlay_unexport: no value changes.                                 *)
LEMMA OverlayUnexportFollows ==
  ASSUME NEW s \in Stores, NEW slots \in Seq(Slot)
  PROVE  OverlayUnexport(s, slots) \in After(s, NamesOf(slots))
<1> DEFINE S == After(s, NamesOf(slots))
<1>1. PICK g \in [0 .. Len(slots) -> Stores] :
        /\ g[0] = s /\ OverlayUnexport(s, slots) = g[Len(slots)]
        /\ \A i \in 1 .. Len(slots) :
             g[i] = IF slots[i].wasexp THEN g[i - 1] ELSE VarsUnexport(g[i - 1], slots[i].name)
  BY UnexportUnfolds
<1>2. Len(slots) \in Nat /\ \A i \in 1 .. Len(slots) : slots[i] \in Slot
  BY ElementOfSeq, LenProperties
<1>3. ASSUME NEW i \in 1 .. Len(slots), g[i - 1] \in S PROVE g[i] \in S
  <2>1. CASE slots[i].wasexp
    BY <1>1, <1>3, <2>1
  <2>2. CASE ~slots[i].wasexp
    <3>1. g[i - 1] \in Stores /\ slots[i].name \in Names
      BY <1>2, <1>3 DEF After, Slot
    <3>2. Follows(g[i - 1], g[i]) /\ Spares(g[i - 1], g[i], {})
      BY <1>1, <2>2, <3>1, UnexportFollows
    <3> QED
      BY <1>3, <3>2, AfterOn
  <2> QED
    BY <2>1, <2>2
<1> HIDE DEF S
<1>4. g[0] \in S
  BY <1>1, AfterNone DEF S
<1>5. \A i \in 0 .. Len(slots) : g[i] \in S
  BY <1>2, <1>3, <1>4, Reaches
<1>6. Len(slots) \in 0 .. Len(slots)
  <2>1. \A k \in Nat : k \in 0 .. k
    OBVIOUS
  <2> QED
    BY <1>2, <2>1, Zenon
<1> QED
  BY <1>1, <1>5, <1>6 DEF S

(* env_overlay_restore: from the last slot to the first.                   *)
LEMMA RestoreFollows ==
  ASSUME NEW s \in Stores, NEW slots \in Seq(Slot), NEW unexport \in BOOLEAN,
         NEW redeclare \in BOOLEAN
  PROVE  OverlayRestore(s, slots, unexport, redeclare) \in After(s, NamesOf(slots))
<1> DEFINE n == Len(slots)
           S == After(s, NamesOf(slots))
<1>1. PICK g \in [1 .. Len(slots) + 1 -> Stores] :
        /\ g[Len(slots) + 1] = s /\ OverlayRestore(s, slots, unexport, redeclare) = g[1]
        /\ \A i \in 1 .. Len(slots) : g[i] = SlotBack(g[i + 1], slots[i], unexport, redeclare)
  BY RestoreUnfolds
<1>2. /\ n \in Nat
      /\ \A i \in 1 .. n : slots[i] \in Slot /\ {slots[i].name} \subseteq NamesOf(slots)
  BY ElementOfSeq, LenProperties DEF NamesOf
<1> DEFINE P == {i \in 1 .. n + 1 : g[i] \in S}
<1>3. ASSUME NEW i \in 1 .. n, i + 1 \in P PROVE i \in P
  <2>1. g[i + 1] \in S /\ g[i + 1] \in Stores
    BY <1>3 DEF After
  <2>2. Follows(g[i + 1], g[i]) /\ Spares(g[i + 1], g[i], {slots[i].name})
    BY <1>1, <1>2, <2>1, SlotBackFollows
  <2>3. g[i] \in S
    BY <1>2, <2>1, <2>2, AfterOn
  <2> QED
    BY <1>2, <2>3
<1>4. n + 1 \in P
  BY <1>1, <1>2, AfterNone
<1> HIDE DEF P
<1>5. \A i \in 1 .. n + 1 : i \in P
  BY <1>2, <1>3, <1>4, InductDown
<1>6. 1 \in P
  BY <1>2, <1>5
<1> QED
  BY <1>1, <1>6 DEF P

(* Assignments in turn are made to names of the one sequence.              *)
LEMMA AfterTwice ==
  ASSUME NEW s \in Stores, NEW N, NEW u \in After(s, N), NEW w \in After(u, N)
  PROVE  w \in After(s, N)
BY AfterOn DEF After

(* simple_cmd_expand_assigns                                               *)
LEMMA ExpandedFollows ==
  ASSUME NEW s \in Stores, NEW as \in Seq(Prefix)
  PROVE  Expanded(s, as) \in After(s, NamesOf(as))
<1>1. CASE Len(as) < 2
  BY <1>1, AfterNone DEF Expanded
<1>2. CASE ~(Len(as) < 2)
  <2> DEFINE p == OverlayPush(s, as, FALSE)
             w == OverlayRestore(p.store, p.slots, FALSE, TRUE)
  <2>1. /\ p.store \in After(s, NamesOf(as))
        /\ p.slots \in Seq(Slot) /\ NamesOf(p.slots) = NamesOf(as)
    BY PushFollows
  <2>2. Expanded(s, as) = w
    BY <1>2 DEF Expanded
  <2>3. p.store \in Stores
    BY <2>1 DEF After
  <2> HIDE DEF p
  <2>4. w \in After(p.store, NamesOf(as))
    BY <2>1, <2>3, RestoreFollows
  <2> HIDE DEF w
  <2> QED
    BY <2>1, <2>2, <2>4, AfterTwice
<1> QED
  BY <1>1, <1>2

-----------------------------------------------------------------------------
(* Scopes come and go.                                                     *)
LEMMA GuardsOn ==
  ASSUME NEW s \in Stores, NEW u \in Stores, NEW w \in Stores, Guards(s, u), Guards(u, w),
         Len(u.scopes) >= Len(s.scopes)
  PROVE  Guards(s, w)
<1> DEFINE a == Len(s.scopes)
           b == Len(u.scopes)
           c == Len(w.scopes)
<1>1. /\ a \in Nat /\ b \in Nat /\ c \in Nat /\ b >= a
      /\ DOMAIN s.scopes = 1 .. a /\ DOMAIN u.scopes = 1 .. b /\ DOMAIN w.scopes = 1 .. c
  BY StoreRead
<1>2. \A i \in 1 .. a : i + (b - a) >= 1 => \A n \in DOMAIN s.scopes[i] : s.scopes[i][n].readonly =>
        /\ n \in DOMAIN u.scopes[i + (b - a)] /\ u.scopes[i + (b - a)][n].readonly
        /\ u.scopes[i + (b - a)][n].value = s.scopes[i][n].value
  BY <1>1 DEF Guards
<1>3. \A i \in 1 .. b : i + (c - b) >= 1 => \A n \in DOMAIN u.scopes[i] : u.scopes[i][n].readonly =>
        /\ n \in DOMAIN w.scopes[i + (c - b)] /\ w.scopes[i + (c - b)][n].readonly
        /\ w.scopes[i + (c - b)][n].value = u.scopes[i][n].value
  BY <1>1 DEF Guards
<1> HIDE DEF a, b, c
<1>4. ASSUME NEW i \in 1 .. a, i + (c - a) >= 1, NEW n \in DOMAIN s.scopes[i],
             s.scopes[i][n].readonly
      PROVE  /\ n \in DOMAIN w.scopes[i + (c - a)] /\ w.scopes[i + (c - a)][n].readonly
             /\ w.scopes[i + (c - a)][n].value = s.scopes[i][n].value
  <2>1. PICK j \in 1 .. b : j = i + (b - a)
    BY <1>1
  <2>2. j >= 1 /\ j + (c - b) = i + (c - a)
    BY <1>1, <2>1
  <2>3. n \in DOMAIN u.scopes[j] /\ u.scopes[j][n].readonly /\ u.scopes[j][n].value = s.scopes[i][n].value
    BY <1>2, <1>4, <2>1, <2>2
  <2>4. j + (c - b) >= 1
    BY <1>4, <2>2
  <2>5. /\ n \in DOMAIN w.scopes[j + (c - b)] /\ w.scopes[j + (c - b)][n].readonly
        /\ w.scopes[j + (c - b)][n].value = u.scopes[j][n].value
    BY <1>3, <2>3, <2>4
  <2> QED
    BY <2>2, <2>3, <2>5
<1> QED
  BY <1>1, <1>4 DEF Guards, a, c

LEMMA PushGuards ==
  ASSUME NEW s \in Stores
  PROVE  LET u == VarsPushScope(s)
         IN  u \in Stores /\ Len(u.scopes) = Len(s.scopes) + 1 /\ Guards(s, u)
<1> DEFINE u == VarsPushScope(s)
           q == <<EmptyScope>> \o s.scopes
<1>1. /\ s.scopes \in Seq(Scope) /\ s.environ \in [Names -> Values \cup {Unset}]
      /\ Len(s.scopes) \in Nat /\ DOMAIN s.scopes = 1 .. Len(s.scopes)
      /\ s = [scopes |-> s.scopes, environ |-> s.environ]
  BY StoreRead
<1>2. EmptyScope \in Scope
  <2>1. EmptyScope \in [{} -> Binding] /\ {} \in SUBSET Names
    BY DEF EmptyScope
  <2> QED
    BY <2>1 DEF Scope
<1>3. /\ q \in Seq(Scope) /\ Len(q) = Len(s.scopes) + 1
      /\ \A i \in 1 .. Len(s.scopes) : q[i + 1] = s.scopes[i]
  BY <1>1, <1>2
<1>4. u = [s EXCEPT !.scopes = q]
  BY DEF VarsPushScope
<1> HIDE DEF q, u
<1>5. q # <<>>
  BY <1>1, <1>3
<1>6. u \in Stores /\ u.scopes = q
  BY <1>1, <1>3, <1>4, <1>5 DEF Stores
<1>7. Len(u.scopes) - Len(s.scopes) = 1
  BY <1>1, <1>3, <1>6
<1>8. Guards(s, u)
  BY <1>1, <1>3, <1>6, <1>7 DEF Guards
<1> QED
  BY <1>3, <1>6, <1>8 DEF u

LEMMA PopGuards ==
  ASSUME NEW s \in Stores
  PROVE  LET u == VarsPopScope(s)
         IN  /\ u \in Stores /\ Guards(s, u)
             /\ Len(s.scopes) > 1 => Len(u.scopes) = Len(s.scopes) - 1
<1> DEFINE u == VarsPopScope(s)
           q == Tail(s.scopes)
<1>1. /\ s.scopes \in Seq(Scope) /\ s.environ \in [Names -> Values \cup {Unset}]
      /\ Len(s.scopes) \in Nat /\ DOMAIN s.scopes = 1 .. Len(s.scopes) /\ Len(s.scopes) >= 1
      /\ s = [scopes |-> s.scopes, environ |-> s.environ]
  BY StoreRead
<1>2. CASE Len(s.scopes) = 1
  <2>1. u = s
    BY <1>2 DEF VarsPopScope, Global
  <2> QED
    BY <1>2, <2>1, Stays DEF Follows
<1>3. CASE Len(s.scopes) # 1
  <2>1. /\ q \in Seq(Scope) /\ Len(q) = Len(s.scopes) - 1
        /\ \A i \in 1 .. Len(s.scopes) : i - 1 >= 1 => q[i - 1] = s.scopes[i]
    BY <1>1, <1>3
  <2>2. u = [scopes |-> q, environ |-> s.environ]
    BY <1>1, <1>3 DEF VarsPopScope, Global
  <2> HIDE DEF q, u
  <2>3. q # <<>>
    <3> DEFINE g == Len(s.scopes)
    <3>a. g \in Nat /\ g >= 1 /\ g # 1
      BY <1>1, <1>3
    <3> HIDE DEF g
    <3>b. g - 1 > 0
      BY <3>a
    <3>1. Len(s.scopes) - 1 > 0
      BY <3>b DEF g
    <3>2. Len(q) > 0
      BY <2>1, <3>1
    <3> QED
      BY <3>2
  <2>4. u \in Stores /\ u.scopes = q
    BY <1>1, <2>1, <2>2, <2>3 DEF Stores
  <2>5. Len(u.scopes) - Len(s.scopes) = 0 - 1 /\ \A i \in 1 .. Len(s.scopes) : i + (0 - 1) = i - 1
    BY <1>1, <2>1, <2>4
  <2>6. Guards(s, u)
    BY <1>1, <2>1, <2>4, <2>5 DEF Guards
  <2> QED
    BY <2>1, <2>4, <2>6 DEF u
<1> QED
  BY <1>2, <1>3

(* A command starts, and is over.                                          *)
LEMMA EnteredFollows ==
  ASSUME NEW s \in Stores, NEW kind, NEW as \in Seq(Prefix)
  PROVE  LET e == Entered(s, kind, as)
         IN  /\ e.frame.kind = kind /\ e.frame.slots \in Seq(Slot)
             /\ e.frame = [kind |-> kind, slots |-> e.frame.slots]
             /\ e.store \in Stores /\ Guards(s, e.store)
             /\ kind = "function" => Len(e.store.scopes) = Len(s.scopes) + 1
             /\ kind # "function" => Follows(s, e.store)
<1> DEFINE x == Expanded(s, as)
           p == OverlayPush(x, as, TRUE)
           u == VarsPushScope(x)
           w == Locals(u, as)
           e == Entered(s, kind, as)
<1>1. x \in Stores /\ Follows(s, x)
  BY ExpandedFollows DEF After
<1>2. e = IF kind = "function" THEN [store |-> w, frame |-> Frame(kind, <<>>)]
          ELSE [store |-> p.store, frame |-> Frame(kind, p.slots)]
  BY DEF Entered
<1> HIDE DEF x, e
<1>3. CASE kind = "function"
  <2>1. u \in Stores /\ Len(u.scopes) = Len(x.scopes) + 1 /\ Guards(x, u)
    BY <1>1, PushGuards
  <2> HIDE DEF u
  <2>2. w \in Stores /\ Follows(u, w)
    BY <2>1, LocalsFollow DEF After
  <2> HIDE DEF w
  <2>3. /\ Guards(s, x) /\ Guards(u, w) /\ Len(w.scopes) = Len(u.scopes)
        /\ Len(x.scopes) = Len(s.scopes)
    BY <1>1, <2>2 DEF Follows
  <2>4. Len(s.scopes) \in Nat /\ Len(u.scopes) \in Nat
    BY <2>1, StoreRead
  <2>5. Len(u.scopes) >= Len(x.scopes) /\ Len(x.scopes) >= Len(s.scopes)
    BY <2>1, <2>3, <2>4
  <2>6. Guards(s, u)
    BY <1>1, <2>1, <2>3, <2>5, GuardsOn
  <2>7. Len(u.scopes) >= Len(s.scopes)
    BY <2>1, <2>3, <2>4
  <2>8. Guards(s, w)
    BY <2>1, <2>2, <2>3, <2>6, <2>7, GuardsOn
  <2>9. e.store = w /\ e.frame = [kind |-> kind, slots |-> <<>>]
    BY <1>2, <1>3 DEF Frame
  <2>10. Len(e.store.scopes) = Len(s.scopes) + 1 /\ <<>> \in Seq(Slot)
    BY <2>1, <2>3, <2>9
  <2>11. /\ e.frame.kind = kind /\ e.frame.slots \in Seq(Slot)
         /\ e.frame = [kind |-> kind, slots |-> e.frame.slots]
         /\ e.store \in Stores /\ Guards(s, e.store)
    BY <2>2, <2>8, <2>9, <2>10
  <2> QED
    BY <1>3, <2>10, <2>11 DEF e
<1>4. CASE kind # "function"
  <2>1. p.store \in After(x, NamesOf(as)) /\ p.slots \in Seq(Slot)
    BY <1>1, PushFollows
  <2>2. e.store = p.store /\ e.frame = [kind |-> kind, slots |-> p.slots]
    BY <1>2, <1>4 DEF Frame
  <2> HIDE DEF p
  <2>3. p.store \in Stores /\ Follows(x, p.store)
    BY <2>1 DEF After
  <2>4. Follows(s, p.store)
    BY <1>1, <2>3, FollowsOn
  <2>5. Guards(s, p.store)
    BY <2>4 DEF Follows
  <2> QED
    BY <1>4, <2>1, <2>2, <2>3, <2>4, <2>5 DEF e
<1> QED
  BY <1>3, <1>4

LEMMA LeftFollows ==
  ASSUME NEW s \in Stores, NEW f, f.kind \in AllKinds, f.slots \in Seq(Slot)
  PROVE  LET u == Left(s, f)
         IN  /\ u \in Stores /\ Guards(s, u)
             /\ f.kind = "function" /\ Len(s.scopes) > 1 => Len(u.scopes) = Len(s.scopes) - 1
             /\ f.kind # "function" => Follows(s, u)
<1> DEFINE u == Left(s, f)
           o == f.slots
<1>1. CASE f.kind = "function"
  <2>1. u = VarsPopScope(s)
    BY <1>1 DEF Left
  <2> QED
    BY <1>1, <2>1, PopGuards
<1>2. CASE f.kind # "function"
  <2>1. ASSUME f.kind = "builtin" PROVE Follows(s, u)
    <3> DEFINE r == OverlayRestore(s, o, FALSE, FALSE)
    <3>1. u = OverlayUnexport(r, o)
      BY <2>1 DEF Left
    <3>2. r \in Stores /\ Follows(s, r)
      BY RestoreFollows DEF After
    <3> HIDE DEF r, u
    <3>3. Follows(r, u)
      BY <3>1, <3>2, OverlayUnexportFollows DEF After
    <3> QED
      BY <3>2, <3>3, FollowsOn
  <2>2. ASSUME f.kind = "special" PROVE Follows(s, u)
    <3>1. u = OverlayUnexport(s, o)
      BY <2>2 DEF Left
    <3> QED
      BY <3>1, OverlayUnexportFollows DEF After
  <2>3. ASSUME f.kind = "applet" PROVE Follows(s, u)
    <3>1. u = OverlayRestore(s, o, TRUE, FALSE)
      BY <2>3 DEF Left
    <3> QED
      BY <3>1, RestoreFollows DEF After
  <2>4. Follows(s, u)
    BY <1>2, <2>1, <2>2, <2>3 DEF AllKinds
  <2> HIDE DEF u
  <2>5. u \in Stores /\ Guards(s, u)
    BY <2>4 DEF Follows
  <2> QED
    BY <1>2, <2>4, <2>5 DEF u
<1> QED
  BY <1>1, <1>2

-----------------------------------------------------------------------------
(* The invariant.                                                          *)
Frames(sc) == [kind : sc.kinds \cup {"script"}, slots : Seq(Slot)]

Calls(st) == {i \in DOMAIN st : st[i].kind = "function"}

Sound ==
  /\ script \in Scripts /\ running \in BOOLEAN /\ store \in Stores
  /\ stack \in Seq(Frames(script)) /\ stack # <<>> /\ stack[Len(stack)].kind = "script"
  /\ Len(store.scopes) = 1 + Cardinality(Calls(stack))
  /\ "function" \notin script.kinds => InStep(store)

(* A command more or less is a call more or less, or none.                 *)
LEMMA ShiftCount ==
  ASSUME NEW n \in Nat, NEW S \in SUBSET (1 .. n)
  PROVE  LET T == {i + 1 : i \in S}
         IN  IsFiniteSet(S) /\ IsFiniteSet(T) /\ Cardinality(T) = Cardinality(S)
<1> DEFINE T == {i + 1 : i \in S}
           f == [i \in S |-> i + 1]
<1>1. IsFiniteSet(1 .. n)
  BY FS_Interval
<1>2. IsFiniteSet(S)
  BY <1>1, FS_Subset
<1>3. f \in Bijection(S, T)
  <2>1. f \in [S -> T]
    OBVIOUS
  <2>2. \A i, j \in S : f[i] = f[j] => i = j
    OBVIOUS
  <2>3. \A t \in T : \E i \in S : f[i] = t
    OBVIOUS
  <2> HIDE DEF f, T
  <2> QED
    BY <2>1, <2>2, <2>3, Fun_IsBij
<1>4. IsFiniteSet(T) /\ Cardinality(T) = Cardinality(S)
  BY <1>2, <1>3, FS_Bijection DEF ExistsBijection
<1> QED
  BY <1>2, <1>4

LEMMA CallsCounted ==
  ASSUME NEW F, NEW st \in Seq(F)
  PROVE  Cardinality(Calls(st)) \in Nat
<1>1. Calls(st) \in SUBSET (1 .. Len(st)) /\ Len(st) \in Nat
  BY LenProperties DEF Calls
<1> QED
  BY <1>1, ShiftCount, FS_CardinalityType

LEMMA CallsPushed ==
  ASSUME NEW F, NEW st \in Seq(F), NEW f \in F
  PROVE  Cardinality(Calls(<<f>> \o st)) =
           Cardinality(Calls(st)) + IF f.kind = "function" THEN 1 ELSE 0
<1> DEFINE n == Len(st)
           up == <<f>> \o st
           S == Calls(st)
           T == {i + 1 : i \in S}
<1>1. n \in Nat /\ DOMAIN st = 1 .. n
  BY LenProperties
<1>2. /\ DOMAIN up = 1 .. n + 1 /\ up[1] = f
      /\ \A i \in 1 .. n : up[i + 1] = st[i]
  BY <1>1
<1>3. S \in SUBSET (1 .. n)
  BY <1>1 DEF Calls
<1> HIDE DEF n, up
<1>4. Calls(up) = IF f.kind = "function" THEN T \cup {1} ELSE T
  <2>1. \A j \in 1 .. n + 1 : j = 1 \/ \E i \in 1 .. n : j = i + 1
    <3> SUFFICES ASSUME NEW j \in 1 .. n + 1, j # 1 PROVE \E i \in 1 .. n : j = i + 1
      OBVIOUS
    <3>1. j - 1 \in 1 .. n /\ j = j - 1 + 1
      BY <1>1
    <3> QED
      BY <3>1
  <2>2. \A j : j \in Calls(up) <=> j \in 1 .. n + 1 /\ up[j].kind = "function"
    BY <1>2 DEF Calls
  <2>3. \A i \in 1 .. n : i + 1 \in Calls(up) <=> i \in S
    BY <1>1, <1>2, <2>2 DEF Calls
  <2>4. 1 \in Calls(up) <=> f.kind = "function"
    BY <1>1, <1>2, <2>2
  <2> HIDE DEF S
  <2>5. \A j : j \in T <=> \E i \in S : j = i + 1
    OBVIOUS
  <2> HIDE DEF T
  <2>6. ASSUME NEW j PROVE j \in Calls(up) <=> (j \in T \/ (j = 1 /\ f.kind = "function"))
    <3>1. CASE j = 1
      <4>1. j \notin T
        BY <1>1, <1>3, <2>5, <3>1
      <4> QED
        BY <2>4, <3>1, <4>1
    <3>2. CASE j # 1
      <4>1. ASSUME j \in Calls(up) PROVE j \in T
        <5>1. PICK i \in 1 .. n : j = i + 1
          BY <2>1, <2>2, <3>2, <4>1
        <5> QED
          BY <2>3, <2>5, <4>1, <5>1
      <4>2. ASSUME j \in T PROVE j \in Calls(up)
        BY <1>3, <2>3, <2>5, <4>2
      <4> QED
        BY <3>2, <4>1, <4>2
    <3> QED
      BY <3>1, <3>2
  <2>7. CASE f.kind = "function"
    BY <2>6, <2>7
  <2>8. CASE f.kind # "function"
    BY <2>6, <2>8
  <2> QED
    BY <2>7, <2>8
<1> HIDE DEF S
<1>5. IsFiniteSet(S) /\ IsFiniteSet(T) /\ Cardinality(T) = Cardinality(S)
  BY <1>1, <1>3, ShiftCount
<1>6. 1 \notin T
  BY <1>1, <1>3
<1> HIDE DEF T
<1>7. Cardinality(T \cup {1}) = Cardinality(T) + 1
  BY <1>5, <1>6, FS_AddElement
<1>8. Cardinality(S) \in Nat
  BY <1>5, FS_CardinalityType
<1> QED
  BY <1>4, <1>5, <1>7, <1>8 DEF up, S

-----------------------------------------------------------------------------
(* The steps.  What a step with no command more or less does: values of N  *)
(* may change.                                                             *)
Quiet(N) ==
  /\ Follows(store, store') /\ Spares(store, store', N)
  /\ stack' = stack /\ running' \in BOOLEAN

LEMMA ScriptRead ==
  ASSUME Sound
  PROVE  /\ script.names \subseteq Names /\ script.assigned \subseteq Values /\ Empty \in Values
         /\ script.interactive \in BOOLEAN /\ script.kinds \subseteq AllKinds
         /\ script.inherited \subseteq [Names -> Values \cup {Unset}]
         /\ \A as \in script.prefixes : as \in Seq(Prefix)
         /\ store \in Stores /\ running \in BOOLEAN
<1>1. script \in Scripts /\ store \in Stores /\ running \in BOOLEAN
  BY DEF Sound
<1>2. /\ script.names \subseteq Names /\ script.assigned \subseteq Values /\ Empty \in Values
      /\ {script.interactive, script.allexport} \subseteq BOOLEAN /\ script.kinds \subseteq AllKinds
      /\ script.inherited \subseteq [Names -> Values \cup {Unset}]
      /\ script.prefixes \subseteq Seq([name : script.names, value : Values])
  BY <1>1, VariablesAssumption
<1>3. ASSUME NEW as \in script.prefixes PROVE as \in Seq(Prefix)
  <2> DEFINE F == [name : script.names, value : Values]
  <2>1. as \in Seq(F)
    BY <1>2
  <2>2. F \subseteq Prefix
    BY <1>2 DEF Prefix
  <2> HIDE DEF F
  <2> QED
    BY <2>1, <2>2, SeqMonotonic
<1> QED
  BY <1>1, <1>2, <1>3

LEMMA DoneQuiet ==
  ASSUME NEW u, NEW N, Done(u), running \in BOOLEAN, Follows(store, u), Spares(store, u, N)
  PROVE  Quiet(N)
BY DEF Done, Quiet

LEMMA RefusedQuiet ==
  ASSUME Sound, AssignmentRefused \/ BuiltinRefused, NEW N
  PROVE  Quiet(N) /\ store' = store
<1>1. store \in Stores /\ script.interactive \in BOOLEAN
  BY ScriptRead
<1>2. store' = store /\ stack' = stack /\ running' \in BOOLEAN
  BY <1>1 DEF AssignmentRefused, BuiltinRefused
<1> QED
  BY <1>1, <1>2, Stays DEF Quiet

LEMMA ExportQuiet ==
  ASSUME Sound, NEW n \in script.names, Export(n)
  PROVE  Quiet({})
BY ScriptRead, ExportFollows, DoneQuiet DEF Export

LEMMA ReadonlyQuiet ==
  ASSUME Sound, NEW n \in script.names, Readonly(n)
  PROVE  Quiet({})
BY ScriptRead, ReadonlyFollows, DoneQuiet DEF Readonly

LEMMA UnsetQuiet ==
  ASSUME Sound, NEW n \in script.names, UnsetName(n)
  PROVE  Quiet({n}) /\ VarsGet(store', n) \in {VarsGet(store, n), Unset}
<1>1. n \in Names /\ store \in Stores /\ running \in BOOLEAN
  BY ScriptRead
<1>2. CASE VarsIsReadonly(store, n)
  BY <1>2, RefusedQuiet DEF UnsetName
<1>3. CASE ~VarsIsReadonly(store, n)
  <2>1. Done(VarsUnset(store, n))
    BY <1>3 DEF UnsetName
  <2>2. store' = VarsUnset(store, n)
    BY <2>1 DEF Done
  <2> QED
    BY <1>1, <2>1, <2>2, UnsetFollows, DoneQuiet
<1> QED
  BY <1>2, <1>3

LEMMA LocalQuiet ==
  ASSUME Sound, NEW n \in script.names, Local(n)
  PROVE  Quiet({n})
<1>1. n \in Names /\ store \in Stores /\ running \in BOOLEAN /\ Empty \in Values
  BY ScriptRead
<1>2. CASE VarsIsLocal(store, n)
  <2>1. Done(store)
    BY <1>2 DEF Local
  <2> QED
    BY <1>1, <2>1, Stays, DoneQuiet
<1>3. CASE ~VarsIsLocal(store, n)
  <2>1. Done(VarsSetLocal(store, n, Empty))
    BY <1>3 DEF Local
  <2>2. /\ Follows(store, VarsSetLocal(store, n, Empty))
        /\ Spares(store, VarsSetLocal(store, n, Empty), {n})
    BY <1>1, SetLocalFollows
  <2> QED
    BY <1>1, <2>1, <2>2, DoneQuiet
<1> QED
  BY <1>2, <1>3

LEMMA LocalValueQuiet ==
  ASSUME Sound, NEW n \in script.names, NEW v \in script.assigned, LocalValue(n, v)
  PROVE  Quiet({n})
<1>1. n \in Names /\ store \in Stores /\ running \in BOOLEAN /\ v \in Values \cup {Unset}
  BY ScriptRead
<1> QED
  BY <1>1, SetLocalFollows, DoneQuiet DEF LocalValue

(* A value is set, then a flag: the flag changes no value.                 *)
LEMMA SetThen ==
  ASSUME NEW s \in Stores, NEW n \in Names, NEW v \in Values \cup {Unset}, NEW w,
         LET u == VarsSet(s, n, v)
         IN  u \in Stores => w = u \/ (Follows(u, w) /\ Spares(u, w, {}))
  PROVE  Follows(s, w) /\ Spares(s, w, {n})
<1> DEFINE u == VarsSet(s, n, v)
<1>1. Follows(s, u) /\ Spares(s, u, {n})
  BY SetFollows
<1>2. u \in Stores
  BY <1>1 DEF Follows
<1>3. w = u \/ (Follows(u, w) /\ Spares(u, w, {}))
  BY <1>2
<1> HIDE DEF u
<1>4. CASE w = u
  BY <1>1, <1>4
<1>5. CASE Follows(u, w) /\ Spares(u, w, {})
  <2>1. Follows(s, w)
    BY <1>1, <1>5, FollowsOn
  <2>2. Spares(s, w, {n})
    BY <1>1, <1>5 DEF Spares
  <2> QED
    BY <2>1, <2>2
<1> QED
  BY <1>3, <1>4, <1>5

LEMMA AssignQuiet ==
  ASSUME Sound, NEW n \in script.names, NEW v \in script.assigned,
         Assign(n, v) \/ ExportValue(n, v) \/ ReadonlyValue(n, v)
  PROVE  Quiet({n})
<1> DEFINE u == VarsSet(store, n, v)
<1>1. n \in Names /\ store \in Stores /\ running \in BOOLEAN /\ v \in Values \cup {Unset}
  BY ScriptRead
<1>2. CASE VarsIsReadonly(store, n)
  BY <1>2, RefusedQuiet DEF Assign, ExportValue, ReadonlyValue
<1>3. CASE ~VarsIsReadonly(store, n)
  <2>1. Done(u) \/ Done(VarsExport(u, n)) \/ Done(VarsReadonly(u, n))
    BY <1>3 DEF Assign, ExportValue, ReadonlyValue
  <2>2. PICK w : Done(w) /\ w \in {u, VarsExport(u, n), VarsReadonly(u, n)}
    BY <2>1
  <2>3. ASSUME u \in Stores PROVE w = u \/ (Follows(u, w) /\ Spares(u, w, {}))
    <3> HIDE DEF u
    <3> QED
      BY <1>1, <2>2, <2>3, ExportFollows, ReadonlyFollows
  <2>4. Follows(store, w) /\ Spares(store, w, {n})
    BY <1>1, <2>3, SetThen
  <2> QED
    BY <1>1, <2>2, <2>4, DoneQuiet
<1> QED
  BY <1>2, <1>3

LEMMA PrefixedExportQuiet ==
  ASSUME Sound, NEW as \in script.prefixes, NEW n \in script.names, PrefixedExport(as, n)
  PROVE  Quiet(NamesOf(as))
<1> DEFINE x == Expanded(store, as)
           u == OverlayPush(x, as, TRUE).store
           w == VarsExport(u, n)
<1>1. /\ n \in Names /\ store \in Stores /\ running \in BOOLEAN /\ as \in Seq(Prefix)
  BY ScriptRead
<1>2. CASE ~Assignable(store, as)
  BY <1>2, RefusedQuiet DEF PrefixedExport
<1>3. CASE Assignable(store, as)
  <2>1. Done(w)
    BY <1>3 DEF PrefixedExport
  <2>2. x \in After(store, NamesOf(as)) /\ x \in Stores
    BY <1>1, ExpandedFollows DEF After
  <2> HIDE DEF x
  <2>3. u \in After(x, NamesOf(as)) /\ u \in Stores
    BY <1>1, <2>2, PushFollows DEF After
  <2> HIDE DEF u
  <2>4. u \in After(store, NamesOf(as))
    BY <1>1, <2>2, <2>3, AfterTwice
  <2>5. Follows(u, w) /\ Spares(u, w, {})
    BY <1>1, <2>3, ExportFollows
  <2> HIDE DEF w
  <2>6. w \in After(store, NamesOf(as))
    BY <1>1, <2>4, <2>5, AfterOn
  <2> QED
    BY <1>1, <2>1, <2>6, DoneQuiet DEF After
<1> QED
  BY <1>2, <1>3

(* A quiet step keeps the invariant, and readonly variables.               *)
LEMMA QuietSound ==
  ASSUME Sound, NEW N, Quiet(N), script' = script
  PROVE  Sound' /\ Guards(store, store')
BY DEF Sound, Quiet, Follows

LEMMA TopRead ==
  ASSUME Sound
  PROVE  /\ Len(stack) \in Nat /\ Len(stack) >= 1 /\ DOMAIN stack = 1 .. Len(stack)
         /\ Top = stack[1] /\ Top \in Frames(script)
         /\ Tail(stack) \in Seq(Frames(script)) /\ stack = <<Top>> \o Tail(stack)
<1>1. stack \in Seq(Frames(script)) /\ stack # <<>>
  BY DEF Sound
<1> HIDE DEF Frames
<1>2. Len(stack) \in Nat /\ Len(stack) >= 1 /\ DOMAIN stack = 1 .. Len(stack)
  BY <1>1, EmptySeq, LenProperties
<1>3. Top = stack[1] /\ Top \in Frames(script) /\ Tail(stack) \in Seq(Frames(script))
  BY <1>1, HeadTailProperties, ElementOfSeq, <1>2 DEF Top
<1>4. stack = <<Head(stack)>> \o Tail(stack)
  BY <1>1, HeadTailProperties
<1> QED
  BY <1>2, <1>3, <1>4 DEF Top

LEMMA EnterSound ==
  ASSUME Sound, NEW kind \in script.kinds, NEW as \in script.prefixes, Enter(kind, as),
         script' = script
  PROVE  /\ Sound' /\ Guards(store, store')
         /\ stack' = stack => store' = store
<1> DEFINE e == Entered(store, kind, as)
<1>1. /\ store \in Stores /\ running \in BOOLEAN /\ as \in Seq(Prefix) /\ script.kinds \subseteq AllKinds
  BY ScriptRead
<1>2. CASE ~Assignable(store, as)
  <2>1. AssignmentRefused
    BY <1>2 DEF Enter
  <2> QED
    BY <2>1, RefusedQuiet, QuietSound
<1>3. CASE Assignable(store, as)
  <2>1. /\ e.frame.kind = kind /\ e.frame.slots \in Seq(Slot)
        /\ e.frame = [kind |-> kind, slots |-> e.frame.slots]
        /\ e.store \in Stores /\ Guards(store, e.store)
        /\ kind = "function" => Len(e.store.scopes) = Len(store.scopes) + 1
        /\ kind # "function" => Follows(store, e.store)
    BY <1>1, EnteredFollows
  <2>2. store' = e.store /\ stack' = <<e.frame>> \o stack /\ running' = running
    BY <1>3 DEF Enter
  <2> HIDE DEF e
  <2>3. e.frame \in Frames(script)
    BY <2>1 DEF Frames
  <2>4. /\ stack \in Seq(Frames(script)) /\ Len(stack) \in Nat /\ Len(stack) >= 1
        /\ DOMAIN stack = 1 .. Len(stack) /\ stack[Len(stack)].kind = "script"
    BY TopRead DEF Sound
  <2>5. /\ stack' \in Seq(Frames(script)) /\ Len(stack') = Len(stack) + 1
        /\ \A i \in 1 .. Len(stack) : stack'[i + 1] = stack[i]
    BY <2>2, <2>3, <2>4
  <2>6. stack' # <<>> /\ stack'[Len(stack')].kind = "script" /\ stack' # stack
    BY <2>4, <2>5
  <2>7. Cardinality(Calls(stack')) = Cardinality(Calls(stack)) + IF kind = "function" THEN 1 ELSE 0
    BY <2>1, <2>2, <2>3, <2>4, CallsPushed
  <2>8. Len(store.scopes) = 1 + Cardinality(Calls(stack)) /\ Len(store.scopes) \in Nat
    BY <1>1, StoreRead DEF Sound
  <2>9. Len(store'.scopes) = 1 + Cardinality(Calls(stack'))
    <3>1. Cardinality(Calls(stack)) \in Nat
      BY <2>4, CallsCounted
    <3>2. kind # "function" => Len(e.store.scopes) = Len(store.scopes)
      BY <2>1 DEF Follows
    <3> QED
      BY <2>1, <2>2, <2>7, <2>8, <3>1, <3>2
  <2>10. "function" \notin script.kinds => InStep(store')
    BY <2>1, <2>2 DEF Sound, Follows
  <2> QED
    BY <1>1, <2>1, <2>2, <2>5, <2>6, <2>9, <2>10 DEF Sound
<1> QED
  BY <1>2, <1>3

LEMMA LeaveSound ==
  ASSUME Sound, Leave, script' = script
  PROVE  Sound' /\ Guards(store, store') /\ stack' # stack
<1> DEFINE u == Left(store, Top)
           rest == Tail(stack)
<1>1. /\ store \in Stores /\ running \in BOOLEAN /\ script.kinds \subseteq AllKinds
  BY ScriptRead
<1>2. /\ Len(stack) \in Nat /\ Len(stack) >= 1 /\ DOMAIN stack = 1 .. Len(stack)
      /\ Top = stack[1] /\ Top \in Frames(script)
      /\ rest \in Seq(Frames(script)) /\ stack = <<Top>> \o rest
  BY TopRead
<1>3. store' = u /\ stack' = rest /\ running' = running /\ Top.kind # "script"
  BY DEF Leave
<1>4. Top.kind \in script.kinds /\ Top.kind \in AllKinds /\ Top.slots \in Seq(Slot)
  BY <1>1, <1>2, <1>3 DEF Frames
<1> HIDE DEF rest
<1>5. /\ u \in Stores /\ Guards(store, u)
      /\ Top.kind = "function" /\ Len(store.scopes) > 1 => Len(u.scopes) = Len(store.scopes) - 1
      /\ Top.kind # "function" => Follows(store, u)
  BY <1>1, <1>4, LeftFollows
<1> HIDE DEF u
<1>6. stack \in Seq(Frames(script)) /\ stack[Len(stack)].kind = "script"
  BY DEF Sound
<1>7. Len(stack) > 1
  BY <1>2, <1>3, <1>6
<1>8. /\ Len(rest) = Len(stack) - 1
      /\ \A i \in 1 .. Len(rest) : rest[i] = stack[i + 1]
  BY <1>2, <1>6 DEF rest
<1>9. rest # <<>> /\ rest[Len(rest)].kind = "script" /\ rest # stack
  <2>1. Len(rest) \in 1 .. Len(rest) /\ Len(rest) + 1 = Len(stack)
    BY <1>2, <1>7, <1>8
  <2> QED
    BY <1>2, <1>6, <1>8, <2>1
<1>10. Cardinality(Calls(stack)) = Cardinality(Calls(rest)) + IF Top.kind = "function" THEN 1 ELSE 0
  BY <1>2, CallsPushed
<1>11. Cardinality(Calls(rest)) \in Nat
  BY <1>2, CallsCounted
<1>12. Len(store.scopes) = 1 + Cardinality(Calls(stack))
  BY DEF Sound
<1>13. Len(u.scopes) = 1 + Cardinality(Calls(rest))
  <2>1. CASE Top.kind = "function"
    BY <1>5, <1>10, <1>11, <1>12, <2>1
  <2>2. CASE Top.kind # "function"
    BY <1>5, <1>10, <1>11, <1>12, <2>2 DEF Follows
  <2> QED
    BY <2>1, <2>2
<1>14. "function" \notin script.kinds => InStep(u)
  BY <1>4, <1>5 DEF Sound, Follows
<1> QED
  BY <1>1, <1>2, <1>3, <1>5, <1>9, <1>13, <1>14 DEF Sound

(* The shell starts with what it inherits, in step.                        *)
LEMMA ImportedInStep ==
  ASSUME NEW environ \in [Names -> Values \cup {Unset}]
  PROVE  VarsImportEnv(environ) \in Stores /\ InStep(VarsImportEnv(environ))
<1> DEFINE D == {m \in Names : environ[m] # Unset}
           scope == [n \in D |-> Bound(environ[n], TRUE, FALSE)]
           s == VarsImportEnv(environ)
<1>1. s = [scopes |-> <<scope>>, environ |-> environ]
  BY DEF VarsImportEnv
<1>2. scope \in Scope
  <2>1. scope \in [D -> Binding] /\ D \in SUBSET Names
    BY DEF Bound, Binding
  <2> QED
    BY <2>1 DEF Scope
<1>3. /\ DOMAIN scope = D
      /\ \A n \in D : scope[n].value = environ[n] /\ scope[n].exported = TRUE
  BY DEF Bound
<1>4. \A n \in Names : n \in D <=> environ[n] # Unset
  OBVIOUS
<1> HIDE DEF scope, s
<1>5. /\ s \in Stores /\ s.scopes = <<scope>> /\ s.environ = environ
      /\ Len(s.scopes) = 1 /\ s.scopes[1] = scope
  BY <1>1, <1>2 DEF Stores
<1>6. ASSUME NEW n \in Names
      PROVE  environ[n] = IF VarsIsExported(s, n) THEN VarsGet(s, n) ELSE Unset
  <2>1. CASE n \in D
    <3>1. VarsFind(s, n) = 1
      <4>1. 1 \in 1 .. Len(s.scopes) /\ n \in DOMAIN s.scopes[1] /\ Outside(s, 1, n)
        BY <1>3, <1>5, <2>1 DEF Outside
      <4> QED
        BY <1>5, <4>1, FindAt
    <3>2. VarsGet(s, n) = scope[n].value /\ VarsIsExported(s, n) = scope[n].exported
      BY <1>5, <3>1, FoundAt
    <3> QED
      BY <1>3, <2>1, <3>2
  <2>2. CASE n \notin D
    <3>1. VarsFind(s, n) = 0
      BY <1>3, <1>5, <2>2, FindRead
    <3>2. ~VarsIsExported(s, n)
      BY <1>5, <3>1, FoundAt
    <3> QED
      BY <1>4, <2>2, <3>2
  <2> QED
    BY <2>1, <2>2
<1>7. s.environ = Current(s)
  <2>1. Current(s) = [n \in Names |-> environ[n]]
    BY <1>6 DEF Current
  <2> QED
    BY <1>5, <2>1
<1> QED
  BY <1>5, <1>7 DEF InStep, s

LEMMA InitSound == Init => Sound
<1> SUFFICES ASSUME Init PROVE Sound
  OBVIOUS
<1> DEFINE f == Frame("script", <<>>)
<1>1. /\ script \in Scripts /\ running = TRUE /\ stack = <<f>>
  BY DEF Init
<1>2. PICK environ \in script.inherited : store = VarsImportEnv(environ)
  BY DEF Init
<1>3. script.inherited \subseteq [Names -> Values \cup {Unset}]
  BY <1>1, VariablesAssumption
<1>4. store \in Stores /\ InStep(store)
  BY <1>2, <1>3, ImportedInStep
<1>5. f \in Frames(script) /\ f.kind = "script"
  BY DEF Frame, Frames
<1> HIDE DEF f
<1>6. /\ stack \in Seq(Frames(script)) /\ stack # <<>> /\ Len(stack) = 1 /\ DOMAIN stack = {1}
      /\ stack[1].kind = "script"
  BY <1>1, <1>5
<1>7. Calls(stack) = {}
  BY <1>6 DEF Calls
<1>8. Len(store.scopes) = 1 + Cardinality(Calls(stack))
  BY <1>4, <1>7, FS_EmptySet DEF InStep
<1> QED
  BY <1>1, <1>4, <1>6, <1>8 DEF Sound

LEMMA StepSound ==
  ASSUME Sound, [Next]_vars
  PROVE  Sound' /\ Guards(store, store')
<1>1. CASE UNCHANGED vars
  <2>1. store \in Stores /\ store' = store
    BY <1>1, ScriptRead DEF vars
  <2> QED
    BY <1>1, <2>1, Stays DEF vars, Follows, Sound
<1>2. CASE Next
  <2>1. script' = script /\ Step
    BY <1>2 DEF Next
  <2>2. ASSUME NEW n \in script.names, Export(n) \/ UnsetName(n) \/ Readonly(n) \/ Local(n)
        PROVE  Sound' /\ Guards(store, store')
    BY <2>1, <2>2, ExportQuiet, UnsetQuiet, ReadonlyQuiet, LocalQuiet, QuietSound
  <2>3. ASSUME NEW n \in script.names, NEW v \in script.assigned,
               Assign(n, v) \/ ExportValue(n, v) \/ ReadonlyValue(n, v) \/ LocalValue(n, v)
        PROVE  Sound' /\ Guards(store, store')
    BY <2>1, <2>3, AssignQuiet, LocalValueQuiet, QuietSound
  <2>4. ASSUME NEW kind \in script.kinds, NEW as \in script.prefixes, Enter(kind, as)
        PROVE  Sound' /\ Guards(store, store')
    BY <2>1, <2>4, EnterSound
  <2>5. ASSUME NEW as \in script.prefixes, NEW n \in script.names, PrefixedExport(as, n)
        PROVE  Sound' /\ Guards(store, store')
    BY <2>1, <2>5, PrefixedExportQuiet, QuietSound
  <2>6. ASSUME Leave PROVE Sound' /\ Guards(store, store')
    BY <2>1, <2>6, LeaveSound
  <2> QED
    BY <2>1, <2>2, <2>3, <2>4, <2>5, <2>6 DEF Step
<1> QED
  BY <1>1, <1>2

LEMMA AlwaysSound == Spec => []Sound
<1>1. Sound /\ [Next]_vars => Sound'
  BY StepSound
<1> QED
  BY InitSound, <1>1, PTL DEF Spec

-----------------------------------------------------------------------------
(* The variables are well typed whatever a script does, and every function *)
(* under way has one scope, over the global one that is never popped.      *)
THEOREM VariablesTypeCorrect == Spec => []TypeOK
<1>1. Sound => TypeOK
  <2> SUFFICES ASSUME Sound PROVE TypeOK
    OBVIOUS
  <2>1. /\ store \in Stores /\ running \in BOOLEAN /\ script.kinds \subseteq AllKinds
        /\ stack \in Seq(Frames(script)) /\ Len(store.scopes) = 1 + Cardinality(Calls(stack))
    BY ScriptRead DEF Sound
  <2>2. IsStore(store)
    <3>1. /\ store = [scopes |-> store.scopes, environ |-> store.environ]
          /\ Len(store.scopes) \in Nat /\ Len(store.scopes) >= 1
          /\ DOMAIN store.scopes = 1 .. Len(store.scopes)
          /\ store.environ \in [Names -> Values \cup {Unset}]
          /\ \A i \in 1 .. Len(store.scopes) :
               /\ DOMAIN store.scopes[i] \subseteq Names
               /\ store.scopes[i] \in [DOMAIN store.scopes[i] -> Binding]
      BY <2>1, StoreRead
    <3> QED
      BY <3>1 DEF IsStore
  <2>3. \A i \in DOMAIN stack : stack[i] \in Frames(script)
    BY <2>1, ElementOfSeq, LenProperties
  <2>4. \A i \in DOMAIN stack : /\ stack[i].kind \in AllKinds \cup {"script"}
                                /\ stack[i].slots \in Seq(Slot)
    BY <2>1, <2>3 DEF Frames
  <2>5. Len(store.scopes) = 1 + Cardinality(Functions)
    BY <2>1 DEF Functions, Calls
  <2> QED
    BY <2>1, <2>2, <2>4, <2>5 DEF TypeOK
<1> QED
  BY <1>1, AlwaysSound, PTL

(* In a script that calls no function, `environ` holds every exported      *)
(* variable's current value and nothing else: an applet reads there what   *)
(* the script would.                                                       *)
THEOREM EnvironKeptInStep == Spec => []ScriptEnvironInStep
<1>1. Sound => ScriptEnvironInStep
  BY DEF Sound, InStep, ScriptEnvironInStep, EnvironInStep
<1> QED
  BY <1>1, AlwaysSound, PTL

LEMMA StepAssigns ==
  ASSUME Sound, [Next]_vars, stack' = stack, NEW n \in Names
  PROVE  \/ VarsGet(store', n) \in {VarsGet(store, n), Unset}
         \/ Local(n)
         \/ \E v \in script.assigned : \/ Assign(n, v) \/ ExportValue(n, v)
                                       \/ ReadonlyValue(n, v) \/ LocalValue(n, v)
         \/ \E as \in script.prefixes, m \in Names :
              PrefixedExport(as, m) /\ \E i \in DOMAIN as : as[i].name = n
<1> DEFINE Goal == \/ VarsGet(store', n) \in {VarsGet(store, n), Unset}
                   \/ Local(n)
                   \/ \E v \in script.assigned : \/ Assign(n, v) \/ ExportValue(n, v)
                                                 \/ ReadonlyValue(n, v) \/ LocalValue(n, v)
                   \/ \E as \in script.prefixes, m \in Names :
                        PrefixedExport(as, m) /\ \E i \in DOMAIN as : as[i].name = n
<1>1. ASSUME UNCHANGED vars PROVE Goal
  BY <1>1 DEF vars
<1>2. ASSUME Next PROVE Goal
  <2>1. script' = script /\ Step /\ script.names \subseteq Names
    BY <1>2, ScriptRead DEF Next
  <2>2. ASSUME NEW N, Quiet(N), n \notin N PROVE Goal
    BY <2>2 DEF Quiet, Spares
  <2>3. ASSUME NEW m \in script.names, Export(m) \/ Readonly(m) PROVE Goal
    <3> HIDE DEF Goal
    <3>1. Quiet({})
      BY <2>3, ExportQuiet, ReadonlyQuiet
    <3> QED
      BY <2>2, <3>1
  <2>4. ASSUME NEW m \in script.names, UnsetName(m) PROVE Goal
    <3>1. Quiet({m}) /\ VarsGet(store', m) \in {VarsGet(store, m), Unset}
      BY <2>4, UnsetQuiet
    <3>2. CASE m = n
      BY <3>1, <3>2
    <3>3. CASE m # n
      BY <2>2, <3>1, <3>3
    <3> QED
      BY <3>2, <3>3
  <2>5. ASSUME NEW m \in script.names, Local(m) PROVE Goal
    <3>1. CASE m = n
      BY <2>5, <3>1
    <3>2. CASE m # n
      <4>1. Quiet({m}) /\ n \notin {m}
        BY <2>5, <3>2, LocalQuiet
      <4> HIDE DEF Goal
      <4> QED
        BY <2>2, <4>1
    <3> QED
      BY <3>1, <3>2
  <2>6. ASSUME NEW m \in script.names, NEW v \in script.assigned,
               Assign(m, v) \/ ExportValue(m, v) \/ ReadonlyValue(m, v) \/ LocalValue(m, v)
        PROVE  Goal
    <3>1. CASE m = n
      BY <2>6, <3>1
    <3>2. CASE m # n
      <4>1. Quiet({m}) /\ n \notin {m}
        BY <2>6, <3>2, AssignQuiet, LocalValueQuiet
      <4> HIDE DEF Goal
      <4> QED
        BY <2>2, <4>1
    <3> QED
      BY <3>1, <3>2
  <2>7. ASSUME NEW as \in script.prefixes, NEW m \in script.names, PrefixedExport(as, m)
        PROVE  Goal
    <3>1. CASE \E i \in DOMAIN as : as[i].name = n
      BY <2>1, <2>7, <3>1
    <3>2. CASE ~(\E i \in DOMAIN as : as[i].name = n)
      <4>1. Quiet(NamesOf(as)) /\ n \notin NamesOf(as)
        BY <2>7, <3>2, PrefixedExportQuiet DEF NamesOf
      <4> HIDE DEF Goal
      <4> QED
        BY <2>2, <4>1
    <3> QED
      BY <3>1, <3>2
  <2>8. ASSUME NEW kind \in script.kinds, NEW as \in script.prefixes, Enter(kind, as)
        PROVE  Goal
    BY <2>1, <2>8, EnterSound
  <2>9. ASSUME Leave PROVE Goal
    BY <2>1, <2>9, LeaveSound
  <2> HIDE DEF Goal
  <2> QED
    BY <2>1, <2>3, <2>4, <2>5, <2>6, <2>7, <2>8, <2>9 DEF Step
<1> QED
  BY <1>1, <1>2

(* Whatever the script, and however its commands nest: a readonly variable *)
(* keeps its value and its flag as long as its scope lives, and a name     *)
(* gets another value from an assignment to it alone.                      *)
THEOREM OnlyAssignmentsAssign == Spec => AssignmentsAlone
<1>1. Sound /\ [Next]_vars => KeepsReadonly
  BY StepSound DEF Guards, KeepsReadonly
<1>2. Sound /\ [Next]_vars => AssignsValues
  BY StepAssigns DEF AssignsValues
<1> QED
  BY <1>1, <1>2, AlwaysSound, PTL DEF Spec, AssignmentsAlone, ReadonlyHolds, ValuesAreAssigned
-----------------------------------------------------------------------------
(***************************************************************************)
(* The assignments in front of a command end with it (exec.c, vars.c): in  *)
(* every reachable state PrefixesEnd holds, for every script, every        *)
(* environment and every nesting of commands.                              *)
(*                                                                         *)
(* A name is followed through the scopes by height and through the frames  *)
(* by depth.  Each frame remembers how many scopes there were when its     *)
(* command started, and in which of them the name was then bound; what its *)
(* slots hold of the name is fit to stay there for ever, or a frame below  *)
(* has a slot for the same place.  So what is put back, in whatever order  *)
(* functions, builtins and applets nest, is what may last.                 *)
(***************************************************************************)

(* The end of prefixes.  Where the commands on a name work: the scope that *)
(* holds it, or the global one; and what is there.                         *)
Nil == Bound(Unset, FALSE, FALSE)

Here(s, n) == IF VarsFind(s, n) = 0 THEN Len(s.scopes) ELSE VarsFind(s, n)

Entry(s, j, n) == IF n \in DOMAIN s.scopes[j] THEN s.scopes[j][n] ELSE Nil

Cell(s, n) == Entry(s, Here(s, n), n)

(* Nothing about n differs.                                                *)
Same(s, u, n) ==
  /\ u.environ[n] = s.environ[n]
  /\ \A j \in 1 .. Len(s.scopes) : /\ n \in DOMAIN u.scopes[j] <=> n \in DOMAIN s.scopes[j]
                                   /\ Entry(u, j, n) = Entry(s, j, n)

(* Nothing but what is here, and no name comes to an inner scope.          *)
Held(s, u, n) ==
  \A j \in 1 .. Len(s.scopes) :
    /\ j < Len(s.scopes) => (n \in DOMAIN u.scopes[j] <=> n \in DOMAIN s.scopes[j])
    /\ j # Here(s, n) => /\ n \in DOMAIN u.scopes[j] <=> n \in DOMAIN s.scopes[j]
                         /\ Entry(u, j, n) = Entry(s, j, n)

(* A command on n: the entry here is c then, and the environment's is e.   *)
Becomes(s, u, n, c, e) ==
  Touches(s, u, n) /\ Held(s, u, n) /\ Cell(u, n) = c /\ u.environ[n] = e

(* A binding is its three parts.                                           *)
LEMMA BoundRead ==
  ASSUME NEW v, NEW x, NEW r
  PROVE  Bound(v, x, r).value = v /\ Bound(v, x, r).exported = x /\ Bound(v, x, r).readonly = r
BY DEF Bound

(* A binding of a value and two flags.                                     *)
LEMMA BoundType ==
  ASSUME NEW v \in Values \cup {Unset}, NEW x \in BOOLEAN, NEW r \in BOOLEAN
  PROVE  Bound(v, x, r) \in Binding
BY DEF Bound, Binding

(* What a binding consists of, and what changing a part of it gives.       *)
LEMMA BindingRead ==
  ASSUME NEW c \in Binding
  PROVE  /\ c.value \in Values \cup {Unset} /\ c.exported \in BOOLEAN /\ c.readonly \in BOOLEAN
         /\ c = Bound(c.value, c.exported, c.readonly)
         /\ \A v : [c EXCEPT !.value = v] = Bound(v, c.exported, c.readonly)
         /\ \A x : [c EXCEPT !.exported = x] = Bound(c.value, x, c.readonly)
         /\ [c EXCEPT !.value = Unset, !.exported = FALSE] = Bound(Unset, FALSE, c.readonly)
<1>1. /\ c.value \in Values \cup {Unset} /\ c.exported \in BOOLEAN /\ c.readonly \in BOOLEAN
      /\ c = [value |-> c.value, exported |-> c.exported, readonly |-> c.readonly]
  BY DEF Binding
<1>2. c = Bound(c.value, c.exported, c.readonly)
  BY <1>1, Zenon DEF Bound
<1>3. \A v : [c EXCEPT !.value = v] = Bound(v, c.exported, c.readonly)
  BY DEF Binding, Bound
<1>4. \A x : [c EXCEPT !.exported = x] = Bound(c.value, x, c.readonly)
  BY DEF Binding, Bound
<1>5. [c EXCEPT !.value = Unset, !.exported = FALSE] = Bound(Unset, FALSE, c.readonly)
  <2> DEFINE d == [c EXCEPT !.value = Unset, !.exported = FALSE]
  <2>1. d \in Binding /\ d.value = Unset /\ d.exported = FALSE /\ d.readonly = c.readonly
    BY <1>1 DEF Binding
  <2> HIDE DEF d
  <2>2. d = [value |-> d.value, exported |-> d.exported, readonly |-> d.readonly]
    BY <2>1 DEF Binding
  <2> QED
    BY <2>1, <2>2 DEF Bound, d
<1> QED
  BY <1>1, <1>2, <1>3, <1>4, <1>5, Zenon

(* Nil is the binding of a name that is nowhere bound.                     *)
LEMMA NilRead ==
  /\ Nil \in Binding /\ Nil.value = Unset /\ Nil.exported = FALSE /\ Nil.readonly = FALSE
  /\ Nil = Bound(Unset, FALSE, FALSE)
BY DEF Nil, Bound, Binding

(* Commands on n work in the first scope that binds it, or in the global   *)
(* one.                                                                    *)
LEMMA HereRead ==
  ASSUME NEW s \in Stores, NEW n
  PROVE  /\ Here(s, n) \in 1 .. Len(s.scopes) /\ Outside(s, Here(s, n), n)
         /\ n \in DOMAIN s.scopes[Here(s, n)] <=> VarsFind(s, n) # 0
         /\ Here(s, n) < Len(s.scopes) => VarsFind(s, n) # 0
         /\ VarsFind(s, n) # 0 => Here(s, n) = VarsFind(s, n)
<1>1. Len(s.scopes) \in Nat /\ Len(s.scopes) >= 1
  BY StoreRead
<1>2. CASE VarsFind(s, n) = 0
  <2>1. Here(s, n) = Len(s.scopes)
    BY <1>2 DEF Here
  <2>2. \A i \in 1 .. Len(s.scopes) : n \notin DOMAIN s.scopes[i]
    BY <1>2, FindRead
  <2> DEFINE g == Len(s.scopes)
  <2>3. g \in 1 .. g /\ ~(g < g)
    <3> HIDE DEF g
    <3>1. g \in Nat /\ g >= 1
      BY <1>1 DEF g
    <3> QED
      BY <3>1
  <2> QED
    BY <1>2, <2>1, <2>2, <2>3 DEF Outside
<1>3. CASE VarsFind(s, n) # 0
  <2>1. Here(s, n) = VarsFind(s, n)
    BY <1>3 DEF Here
  <2> QED
    BY <1>3, <2>1, FindRead, FoundAt
<1> QED
  BY <1>2, <1>3

(* Which scope that is, told from the bindings.                            *)
LEMMA HereIs ==
  ASSUME NEW s \in Stores, NEW n, NEW i \in 1 .. Len(s.scopes), Outside(s, i, n),
         n \in DOMAIN s.scopes[i] \/ i = Len(s.scopes)
  PROVE  Here(s, n) = i
<1>1. CASE n \in DOMAIN s.scopes[i]
  <2>1. VarsFind(s, n) = i /\ i # 0
    BY <1>1, FindAt
  <2> QED
    BY <2>1 DEF Here
<1>2. CASE n \notin DOMAIN s.scopes[i]
  <2>1. i = Len(s.scopes) /\ Len(s.scopes) \in Nat
    BY <1>2, StoreRead
  <2>2. \A j \in 1 .. Len(s.scopes) : n \notin DOMAIN s.scopes[j]
    BY <1>2, <2>1 DEF Outside
  <2>3. VarsFind(s, n) = 0
    BY <2>2, FindRead
  <2> QED
    BY <2>1, <2>3 DEF Here
<1> QED
  BY <1>1, <1>2

(* It stays the same one while no inner scope gains or loses the name.     *)
LEMMA HereSame ==
  ASSUME NEW s \in Stores, NEW u \in Stores, NEW n, Len(u.scopes) = Len(s.scopes), Held(s, u, n)
  PROVE  Here(u, n) = Here(s, n)
<1> DEFINE i == Here(s, n)
<1>1. Len(s.scopes) \in Nat
  BY StoreRead
<1>2. i \in 1 .. Len(s.scopes) /\ Outside(s, i, n) /\ (i < Len(s.scopes) => n \in DOMAIN s.scopes[i])
  BY HereRead
<1> HIDE DEF i
<1>3. \A j \in 1 .. Len(s.scopes) :
        j < Len(s.scopes) => (n \in DOMAIN u.scopes[j] <=> n \in DOMAIN s.scopes[j])
  BY DEF Held
<1>4. Outside(u, i, n)
  BY <1>1, <1>2, <1>3 DEF Outside
<1>5. n \in DOMAIN u.scopes[i] \/ i = Len(u.scopes)
  BY <1>1, <1>2, <1>3
<1>6. Here(u, n) = i
  BY <1>2, <1>4, <1>5, HereIs
<1> QED
  BY <1>6 DEF i

(* What the store says of a name, of the entry that is here.               *)
LEMMA CellRead ==
  ASSUME NEW s \in Stores, NEW n
  PROVE  /\ Cell(s, n) \in Binding
         /\ VarsGet(s, n) = Cell(s, n).value
         /\ VarsIsExported(s, n) = Cell(s, n).exported
         /\ VarsIsReadonly(s, n) = Cell(s, n).readonly
         /\ VarsFind(s, n) = 0 => Cell(s, n) = Nil
         /\ VarsFind(s, n) # 0 => Cell(s, n) = Found(s, n)
<1>1. CASE VarsFind(s, n) = 0
  <2>1. Cell(s, n) = Nil
    BY <1>1, HereRead DEF Cell, Entry
  <2>2. Nil \in Binding /\ Nil.value = Unset /\ Nil.exported = FALSE /\ Nil.readonly = FALSE
    BY DEF Nil, Bound, Binding
  <2> QED
    BY <1>1, <2>1, <2>2 DEF VarsGet, VarsIsExported, VarsIsReadonly
<1>2. CASE VarsFind(s, n) # 0
  <2>1. Cell(s, n) = s.scopes[VarsFind(s, n)][n]
    BY <1>2, HereRead DEF Cell, Entry
  <2> QED
    BY <1>2, <2>1, FoundAt
<1> QED
  BY <1>1, <1>2

(* A command on n does nothing to another name.                            *)
LEMMA TouchesSame ==
  ASSUME NEW s \in Stores, NEW u, NEW n, Touches(s, u, n), NEW m \in Names \ {n}
  PROVE  Same(s, u, m)
BY DEF Touches, Same, Entry

(* Where nothing differs, all is found where it was.                       *)
LEMMA SameHeld ==
  ASSUME NEW s \in Stores, NEW u \in Stores, NEW n, Len(u.scopes) = Len(s.scopes), Same(s, u, n)
  PROVE  Held(s, u, n) /\ Here(u, n) = Here(s, n) /\ Cell(u, n) = Cell(s, n)
<1>1. Held(s, u, n)
  BY DEF Same, Held
<1>2. Here(u, n) = Here(s, n)
  BY <1>1, HereSame
<1>3. Here(s, n) \in 1 .. Len(s.scopes)
  BY HereRead
<1> QED
  BY <1>1, <1>2, <1>3 DEF Same, Cell

(* Nothing differs after two steps that make no difference.                *)
LEMMA SameOn ==
  ASSUME NEW s, NEW u, NEW w, NEW n, Len(u.scopes) = Len(s.scopes), Same(s, u, n), Same(u, w, n)
  PROVE  Same(s, w, n)
BY DEF Same

(* Two steps that work only where commands on n work.                      *)
LEMMA HeldOn ==
  ASSUME NEW s \in Stores, NEW u \in Stores, NEW w, NEW n, Len(u.scopes) = Len(s.scopes),
         Held(s, u, n), Held(u, w, n)
  PROVE  Held(s, w, n)
<1>1. Here(u, n) = Here(s, n)
  BY HereSame
<1> QED
  BY <1>1 DEF Held

(* A command on n overrides an earlier one.                                *)
LEMMA BecomesOn ==
  ASSUME NEW s \in Stores, NEW u, NEW w, NEW n, NEW c, NEW d, NEW e, NEW f,
         Becomes(s, u, n, c, e), Becomes(u, w, n, d, f)
  PROVE  Becomes(s, w, n, d, f)
<1>1. u \in Stores /\ Len(u.scopes) = Len(s.scopes)
  BY DEF Becomes, Touches
<1>2. Touches(s, w, n) /\ Held(s, w, n)
  BY <1>1, TouchesTwice, HeldOn DEF Becomes
<1> QED
  BY <1>2 DEF Becomes

(* An entry is put where commands on n work.                               *)
LEMMA PutBecomes ==
  ASSUME NEW s \in Stores, NEW n \in Names, NEW b \in Binding
  PROVE  LET u == Put(s, Here(s, n), n, b)
         IN  u \in Stores /\ Becomes(s, u, n, b, s.environ[n])
<1> DEFINE i == Here(s, n)
           u == Put(s, i, n, b)
<1>1. i \in 1 .. Len(s.scopes) /\ Outside(s, i, n) /\ (i < Len(s.scopes) => n \in DOMAIN s.scopes[i])
  BY HereRead
<1> HIDE DEF i
<1>2. /\ Touches(s, u, n) /\ u \in Stores /\ Len(u.scopes) = Len(s.scopes)
      /\ u.environ = s.environ
      /\ n \in DOMAIN u.scopes[i] /\ u.scopes[i][n] = b
      /\ \A j \in 1 .. Len(s.scopes) : j # i => u.scopes[j] = s.scopes[j]
  BY <1>1, PutAt
<1> HIDE DEF u
<1>3. Held(s, u, n)
  BY <1>1, <1>2 DEF Held, Entry, i
<1>4. Here(u, n) = i
  BY <1>2, <1>3, HereSame DEF i
<1>5. Cell(u, n) = b
  BY <1>2, <1>4 DEF Cell, Entry
<1> QED
  BY <1>2, <1>3, <1>5 DEF Becomes, u, i

(* setenv and unsetenv change nothing but the environment.                 *)
LEMMA EnvironBecomes ==
  ASSUME NEW s \in Stores, NEW n \in Names, NEW v \in Values \cup {Unset}
  PROVE  LET u == Environ(s, n, v)
         IN  u \in Stores /\ Becomes(s, u, n, Cell(s, n), v)
<1> DEFINE u == Environ(s, n, v)
<1>1. Touches(s, u, n) /\ u \in Stores /\ u.scopes = s.scopes /\ u.environ[n] = v
  BY EnvironAt
<1> HIDE DEF u
<1>2. Held(s, u, n)
  BY <1>1 DEF Held, Entry
<1>3. Here(u, n) = Here(s, n)
  BY <1>1, <1>2, HereSame
<1>4. Cell(u, n) = Cell(s, n)
  BY <1>1, <1>3 DEF Cell, Entry
<1> QED
  BY <1>1, <1>2, <1>4 DEF Becomes, u

(* Both.                                                                   *)
LEMMA PutEnvironBecomes ==
  ASSUME NEW s \in Stores, NEW n \in Names, NEW b \in Binding, NEW v \in Values \cup {Unset}
  PROVE  LET u == Environ(Put(s, Here(s, n), n, b), n, v)
         IN  u \in Stores /\ Becomes(s, u, n, b, v)
<1> DEFINE w == Put(s, Here(s, n), n, b)
           u == Environ(w, n, v)
<1>1. w \in Stores /\ Becomes(s, w, n, b, s.environ[n])
  BY PutBecomes
<1> HIDE DEF w
<1>2. u \in Stores /\ Becomes(w, u, n, Cell(w, n), v)
  BY <1>1, EnvironBecomes
<1>3. Cell(w, n) = b
  BY <1>1 DEF Becomes
<1> HIDE DEF u
<1>4. Becomes(s, u, n, b, v)
  BY <1>1, <1>2, <1>3, BecomesOn
<1> QED
  BY <1>2, <1>4 DEF u, w

(* The functions of vars.c on a variable that is not readonly.             *)
LEMMA SetBecomes ==
  ASSUME NEW s \in Stores, NEW n \in Names, NEW v \in Values, ~Cell(s, n).readonly
  PROVE  LET u == VarsSet(s, n, v)
             c == Cell(s, n)
         IN  /\ u \in Stores
             /\ Becomes(s, u, n, Bound(v, c.exported, FALSE),
                        IF c.exported THEN v ELSE s.environ[n])
<1> DEFINE c == Cell(s, n)
           b == Bound(v, c.exported, FALSE)
           u == VarsSet(s, n, v)
<1>1. /\ c \in Binding /\ c.readonly = FALSE /\ c.exported \in BOOLEAN
      /\ VarsFind(s, n) = 0 => c = Nil
      /\ VarsFind(s, n) # 0 => c = Found(s, n)
  BY CellRead, BindingRead
<1>2. b \in Binding
  BY <1>1, BoundType
<1>3. CASE VarsFind(s, n) = 0
  <2>1. c.exported = FALSE
    <3> HIDE DEF c
    <3> QED
      BY <1>1, <1>3, NilRead
  <2>2. u = Put(s, Here(s, n), n, b)
    BY <1>3, <2>1 DEF VarsSet, Here, Global
  <2> HIDE DEF b, c, u
  <2>3. u \in Stores /\ Becomes(s, u, n, b, s.environ[n])
    BY <1>2, <2>2, PutBecomes
  <2> QED
    BY <2>1, <2>3 DEF b, c, u
<1>4. CASE VarsFind(s, n) # 0
  <2>1. Found(s, n) = c /\ Here(s, n) = VarsFind(s, n) /\ s.scopes[VarsFind(s, n)][n] = c
    BY <1>1, <1>4 DEF Here, Found
  <2> HIDE DEF c
  <2>2. [c EXCEPT !.value = v] = b
    BY <1>1, BindingRead
  <2>3. u = IF c.exported THEN Environ(Put(s, Here(s, n), n, b), n, v) ELSE Put(s, Here(s, n), n, b)
    BY <1>1, <1>4, <2>1, <2>2 DEF VarsSet, VarStoreValue
  <2> HIDE DEF b, u
  <2>4. CASE c.exported
    BY <1>2, <2>3, <2>4, PutEnvironBecomes DEF b, c, u
  <2>5. CASE ~c.exported
    BY <1>2, <2>3, <2>5, PutBecomes DEF b, c, u
  <2> QED
    BY <2>4, <2>5
<1> QED
  BY <1>3, <1>4

(* vars_export: the flag, and the value there is into the environment.     *)
LEMMA ExportBecomes ==
  ASSUME NEW s \in Stores, NEW n \in Names
  PROVE  LET u == VarsExport(s, n)
             c == Cell(s, n)
         IN  /\ u \in Stores
             /\ Becomes(s, u, n, Bound(c.value, TRUE, c.readonly),
                        IF c.value = Unset THEN s.environ[n] ELSE c.value)
<1> DEFINE c == Cell(s, n)
           d == Declared(s, n)
           b == Bound(c.value, TRUE, c.readonly)
           u == VarsExport(s, n)
<1>1. /\ c \in Binding
      /\ VarsFind(s, n) = 0 => c = Nil
  BY CellRead
<1>2. b \in Binding /\ [c EXCEPT !.exported = TRUE] = b /\ c.value \in Values \cup {Unset}
  <2> HIDE DEF c
  <2> QED
    BY <1>1, BindingRead, BoundType
<1>3. d \in Stores /\ VarsFind(d, n) # 0 /\ Becomes(s, d, n, c, s.environ[n])
  <2>1. CASE VarsFind(s, n) = 0
    <3>1. d = Put(s, Here(s, n), n, c)
      BY <1>1, <2>1 DEF Declared, Here, Global, Nil
    <3>2. d \in Stores /\ Becomes(s, d, n, c, s.environ[n])
      BY <1>1, <3>1, PutBecomes
    <3> QED
      BY <3>2, DeclaredFollows
  <2>2. CASE VarsFind(s, n) # 0
    <3>1. d = s
      BY <2>2 DEF Declared
    <3>2. Becomes(s, s, n, c, s.environ[n])
      BY DEF Becomes, Touches, Held, Entry
    <3> QED
      BY <2>2, <3>1, <3>2
  <2> QED
    BY <2>1, <2>2
<1>4. c = Found(d, n) /\ c = Cell(d, n) /\ Here(d, n) = VarsFind(d, n)
      /\ d.environ[n] = s.environ[n]
  BY <1>3, CellRead DEF Becomes, Here
<1>5. u = IF c.value = Unset THEN Put(d, Here(d, n), n, b)
          ELSE Environ(Put(d, Here(d, n), n, b), n, c.value)
  BY <1>2, <1>4 DEF VarsExport
<1> HIDE DEF b, c, u, d
<1>6. /\ u \in Stores
      /\ Becomes(d, u, n, b, IF c.value = Unset THEN s.environ[n] ELSE c.value)
  <2>1. CASE c.value = Unset
    BY <1>2, <1>3, <1>4, <1>5, <2>1, PutBecomes
  <2>2. CASE c.value # Unset
    BY <1>2, <1>3, <1>5, <2>2, PutEnvironBecomes
  <2> QED
    BY <2>1, <2>2
<1>7. Becomes(s, u, n, b, IF c.value = Unset THEN s.environ[n] ELSE c.value)
  BY <1>3, <1>6, BecomesOn
<1> QED
  BY <1>6, <1>7 DEF b, c, u

(* vars_unexport: the flag, and the entry out of the environment.          *)
LEMMA UnexportBecomes ==
  ASSUME NEW s \in Stores, NEW n \in Names
  PROVE  LET u == VarsUnexport(s, n)
             c == Cell(s, n)
         IN  u \in Stores /\ Becomes(s, u, n, Bound(c.value, FALSE, c.readonly), Unset)
<1> DEFINE c == Cell(s, n)
           b == Bound(c.value, FALSE, c.readonly)
           u == VarsUnexport(s, n)
<1>1. /\ c \in Binding
      /\ VarsFind(s, n) = 0 => c = Nil
      /\ VarsFind(s, n) # 0 => c = Found(s, n)
  BY CellRead
<1>2. b \in Binding /\ [c EXCEPT !.exported = FALSE] = b
  <2> HIDE DEF c
  <2> QED
    BY <1>1, BindingRead, BoundType
<1>3. CASE VarsFind(s, n) = 0
  <2>1. u = Environ(s, n, Unset)
    BY <1>3 DEF VarsUnexport
  <2>2. b = c
    <3> HIDE DEF c
    <3> QED
      BY <1>1, <1>3, NilRead
  <2> QED
    BY <2>1, <2>2, EnvironBecomes
<1>4. CASE VarsFind(s, n) # 0
  <2>1. u = Environ(Put(s, Here(s, n), n, b), n, Unset)
    BY <1>1, <1>2, <1>4 DEF VarsUnexport, Here
  <2> HIDE DEF b, u
  <2> QED
    BY <1>2, <2>1, PutEnvironBecomes DEF b, u
<1> QED
  BY <1>3, <1>4

(* vars_unset leaves nothing where it works and nothing in the             *)
(* environment.                                                            *)
LEMMA UnsetBecomes ==
  ASSUME NEW s \in Stores, NEW n \in Names, ~Cell(s, n).readonly
  PROVE  LET u == VarsUnset(s, n) IN u \in Stores /\ Becomes(s, u, n, Nil, Unset)
<1> DEFINE c == Cell(s, n)
           g == Len(s.scopes)
           i == VarsFind(s, n)
           u == VarsUnset(s, n)
<1>1. /\ c \in Binding /\ ~c.readonly
      /\ i = 0 => c = Nil
      /\ i # 0 => c = Found(s, n)
  BY CellRead
<1>2. g \in Nat /\ Global(s) = g
  BY StoreRead
<1>3. CASE i = 0
  <2>1. u = Environ(s, n, Unset) /\ c = Nil
    BY <1>1, <1>3 DEF VarsUnset
  <2> QED
    BY <2>1, EnvironBecomes
<1>4. CASE i # 0 /\ i < g
  <2>1. c = Found(s, n) /\ Here(s, n) = i
    BY <1>1, <1>4 DEF Here
  <2>2. [c EXCEPT !.value = Unset, !.exported = FALSE] = Nil /\ Nil \in Binding
    <3> HIDE DEF c
    <3>1. c.readonly = FALSE
      BY <1>1, BindingRead
    <3> QED
      BY <1>1, <3>1, BindingRead, NilRead
  <2>3. u = Environ(Put(s, Here(s, n), n, Nil), n, Unset)
    BY <1>1, <1>2, <1>4, <2>1, <2>2 DEF VarsUnset
  <2> HIDE DEF u
  <2> QED
    BY <2>2, <2>3, PutEnvironBecomes DEF u
<1>5. CASE i # 0 /\ ~(i < g)
  <2>1. i = g /\ i \in 1 .. g
    <3>1. i \in 1 .. g
      BY <1>5, FindRead
    <3> HIDE DEF i, g
    <3> QED
      BY <1>2, <1>5, <3>1
  <2>2. u = Environ([s EXCEPT !.scopes[i] = Without(@, n)], n, Unset)
    BY <1>1, <1>2, <1>5 DEF VarsUnset
  <2> HIDE DEF u
  <2>3. /\ Touches(s, u, n) /\ u \in Stores /\ u.environ[n] = Unset
        /\ VarsFind(u, n) = 0 /\ \A j \in 1 .. g : n \notin DOMAIN u.scopes[j]
    BY <2>1, <2>2, Unlinked
  <2>4. \A j \in 1 .. g : j # i => n \notin DOMAIN s.scopes[j]
    <3>1. \A j \in 1 .. g : n \in DOMAIN s.scopes[j] => i <= j
      BY <1>5, FindRead
    <3> HIDE DEF i, g
    <3> QED
      BY <1>2, <2>1, <3>1
  <2>5. Here(s, n) = i
    BY <1>5 DEF Here
  <2>6. Held(s, u, n)
    <3>1. \A j \in 1 .. g : j < g => j # i
      BY <1>2, <2>1
    <3> QED
      BY <2>3, <2>4, <2>5, <3>1 DEF Held, Entry
  <2>7. Cell(u, n) = Nil
    BY <2>3, CellRead
  <2> QED
    BY <2>3, <2>6, <2>7 DEF Becomes, u
<1> QED
  BY <1>3, <1>4, <1>5

(* One assignment of an overlay, and one slot put back.                    *)
LEMMA OverlaySetBecomes ==
  ASSUME NEW s \in Stores, NEW a \in Prefix, NEW export \in BOOLEAN, ~Cell(s, a.name).readonly
  PROVE  LET u == OverlaySet(s, a, export)
             x == export \/ Cell(s, a.name).exported
         IN  /\ u \in Stores
             /\ Becomes(s, u, a.name, Bound(a.value, x, FALSE),
                        IF x THEN a.value ELSE s.environ[a.name])
<1> DEFINE n == a.name
           v == a.value
           x == Cell(s, n).exported
           f == IF x THEN v ELSE s.environ[n]
           w == VarsSet(s, n, v)
           u == VarsExport(w, n)
<1>1. n \in Names /\ v \in Values /\ v # Unset
  BY VarStoreAssumption DEF Prefix
<1>2. x \in BOOLEAN
  BY CellRead, BindingRead
<1>3. w \in Stores /\ Becomes(s, w, n, Bound(v, x, FALSE), f)
  BY <1>1, SetBecomes
<1> HIDE DEF n, v, w, x, f
<1>4. Cell(w, n).value = v /\ Cell(w, n).readonly = FALSE
  <2>1. Cell(w, n) = Bound(v, x, FALSE)
    BY <1>3 DEF Becomes
  <2> QED
    BY <2>1 DEF Bound
<1>5. u \in Stores /\ Becomes(w, u, n, Bound(v, TRUE, FALSE), v)
  BY <1>1, <1>3, <1>4, ExportBecomes
<1> HIDE DEF u
<1>6. Becomes(s, u, n, Bound(v, TRUE, FALSE), v)
  BY <1>3, <1>5, BecomesOn
<1>7. OverlaySet(s, a, export) = IF export THEN u ELSE w
  BY DEF OverlaySet, u, w, n, v
<1>8. CASE export
  BY <1>5, <1>6, <1>7, <1>8 DEF n, v
<1>9. CASE ~export
  <2>1. (export \/ x) = x
    BY <1>2, <1>9
  <2> QED
    BY <1>3, <1>7, <1>9, <2>1 DEF n, v, x, f
<1> QED
  BY <1>8, <1>9

(* overlay_restore, one slot: what it makes of the entry, the flag and the *)
(* environment.                                                            *)
LEMMA SlotBackBecomes ==
  ASSUME NEW s \in Stores, NEW e \in Slot, NEW unexport \in BOOLEAN, NEW redeclare \in BOOLEAN,
         ~Cell(s, e.name).readonly
  PROVE  LET u   == SlotBack(s, e, unexport, redeclare)
             off == unexport /\ ~e.wasexp
             x   == IF e.had = Unset THEN redeclare /\ e.wasexp ELSE Cell(s, e.name).exported /\ ~off
         IN  /\ u \in Stores
             /\ Becomes(s, u, e.name, Bound(e.had, x, FALSE),
                        IF e.had = Unset \/ off THEN Unset
                        ELSE IF x THEN e.had ELSE s.environ[e.name])
<1> DEFINE n == e.name
           v == e.had
           o == Cell(s, n).exported
           off == unexport /\ ~e.wasexp
           back == redeclare /\ e.wasexp
<1>1. n \in Names /\ v \in Values \cup {Unset} /\ e.wasexp \in BOOLEAN
  BY DEF Slot
<1>2. o \in BOOLEAN /\ back \in BOOLEAN /\ off \in BOOLEAN
  BY <1>1, CellRead, BindingRead
<1>3. CASE v = Unset
  <2> DEFINE w == VarsUnset(s, n)
             u == VarsExport(w, n)
  <2>1. w \in Stores /\ Becomes(s, w, n, Nil, Unset)
    BY <1>1, UnsetBecomes
  <2> HIDE DEF w, n
  <2>2. Cell(w, n).value = Unset /\ Cell(w, n).readonly = FALSE /\ w.environ[n] = Unset
    BY <2>1, NilRead DEF Becomes
  <2>3. u \in Stores /\ Becomes(w, u, n, Bound(Unset, TRUE, FALSE), Unset)
    BY <1>1, <2>1, <2>2, ExportBecomes
  <2> HIDE DEF u
  <2>4. Becomes(s, u, n, Bound(Unset, TRUE, FALSE), Unset)
    BY <2>1, <2>3, BecomesOn
  <2>5. SlotBack(s, e, unexport, redeclare) = IF back THEN u ELSE w
    BY <1>3 DEF SlotBack, u, w, n
  <2>6. CASE back
    <3>1. back = TRUE
      BY <1>2, <2>6
    <3> QED
      BY <1>3, <2>3, <2>4, <2>5, <3>1 DEF n
  <2>7. CASE ~back
    <3>1. back = FALSE
      BY <1>2, <2>7
    <3> QED
      BY <1>3, <2>1, <2>5, <3>1 DEF n, Nil
  <2> QED
    BY <2>6, <2>7
<1>4. CASE v # Unset
  <2> DEFINE f == IF o THEN v ELSE s.environ[n]
             w == VarsSet(s, n, v)
             u == VarsUnexport(w, n)
  <2>1. w \in Stores /\ Becomes(s, w, n, Bound(v, o, FALSE), f)
    BY <1>1, <1>4, SetBecomes
  <2> HIDE DEF w, n, o, f, v
  <2>2. Cell(w, n).value = v /\ Cell(w, n).readonly = FALSE
    <3>1. Cell(w, n) = Bound(v, o, FALSE)
      BY <2>1 DEF Becomes
    <3> QED
      BY <3>1 DEF Bound
  <2>3. u \in Stores /\ Becomes(w, u, n, Bound(v, FALSE, FALSE), Unset)
    BY <1>1, <2>1, <2>2, UnexportBecomes
  <2> HIDE DEF u
  <2>4. Becomes(s, u, n, Bound(v, FALSE, FALSE), Unset)
    BY <2>1, <2>3, BecomesOn
  <2>5. SlotBack(s, e, unexport, redeclare) = IF off THEN u ELSE w
    BY <1>4 DEF SlotBack, u, w, n, v
  <2>6. CASE off
    <3>1. (o /\ ~off) = FALSE
      BY <1>2, <2>6
    <3> HIDE DEF off
    <3> QED
      BY <1>4, <2>3, <2>4, <2>5, <2>6, <3>1 DEF n, o, off, v
  <2>7. CASE ~off
    <3>1. (o /\ ~off) = o
      BY <1>2, <2>7
    <3> HIDE DEF off
    <3> QED
      BY <1>4, <2>1, <2>5, <2>7, <3>1 DEF n, o, off, f, v
  <2> QED
    BY <2>6, <2>7
<1> QED
  BY <1>3, <1>4

-----------------------------------------------------------------------------
(* What commands on any names leave alone of a name: where it is, whether  *)
(* it may be assigned, and an environment entry that no export has made.   *)
Abides(s, u, n) ==
  /\ Held(s, u, n) /\ Cell(u, n).readonly = Cell(s, n).readonly
  /\ \/ u.environ[n] = Unset \/ Cell(u, n).exported
     \/ u.environ[n] = s.environ[n] /\ ~Cell(s, n).exported

(* Two such commands leave it alone too.                                   *)
LEMMA AbidesOn ==
  ASSUME NEW s \in Stores, NEW u \in Stores, NEW w, NEW n, Len(u.scopes) = Len(s.scopes),
         Abides(s, u, n), Abides(u, w, n)
  PROVE  Abides(s, w, n)
<1>1. Held(s, w, n)
  BY HeldOn DEF Abides
<1> QED
  BY <1>1 DEF Abides

(* So does one that makes no difference.                                   *)
LEMMA SameAbides ==
  ASSUME NEW s \in Stores, NEW u \in Stores, NEW n, Len(u.scopes) = Len(s.scopes), Same(s, u, n)
  PROVE  Abides(s, u, n)
<1>1. Held(s, u, n) /\ Cell(u, n) = Cell(s, n)
  BY SameHeld
<1>2. u.environ[n] = s.environ[n]
  BY DEF Same
<1> QED
  BY <1>1, <1>2 DEF Abides

(* Nothing differs from itself.                                            *)
LEMMA SameSelf ==
  ASSUME NEW s \in Stores, NEW n
  PROVE  Same(s, s, n) /\ Abides(s, s, n)
<1>1. Same(s, s, n)
  BY DEF Same
<1> QED
  BY <1>1, SameAbides

(* After i assignments of an overlay.                                      *)
Pushed(s, w, as, i, x, n) ==
  /\ Abides(s, w, n)
  /\ (\A j \in 1 .. i : as[j].name # n) => Same(s, w, n)
  /\ (\E j \in 1 .. i : as[j].name = n) =>
       Cell(w, n).value \in Values /\ Cell(w, n).exported = (Cell(s, n).exported \/ x)

(* One assignment more of overlay_push.                                    *)
LEMMA PushedOn ==
  ASSUME NEW s \in Stores, NEW w \in Stores, Len(w.scopes) = Len(s.scopes),
         NEW as \in Seq(Prefix), NEW i \in 1 .. Len(as), NEW x \in BOOLEAN,
         \A n \in Names : Pushed(s, w, as, i - 1, x, n),
         ~Cell(s, as[i].name).readonly
  PROVE  LET u == OverlaySet(w, as[i], x)
         IN  /\ u \in Stores /\ Len(u.scopes) = Len(s.scopes)
             /\ \A n \in Names : Pushed(s, u, as, i, x, n)
<1> DEFINE a == as[i]
           m == a.name
           o == Cell(w, m).exported
           r == o \/ x
           f == IF r THEN a.value ELSE w.environ[m]
           u == OverlaySet(w, a, x)
<1>1. a \in Prefix /\ m \in Names /\ a.value \in Values
  <2>1. a \in Prefix
    BY ElementOfSeq
  <2> HIDE DEF a
  <2> QED
    BY <2>1 DEF Prefix
<1>2. Abides(s, w, m) /\ ~Cell(w, m).readonly
  BY <1>1 DEF Pushed, Abides
<1>3. o \in BOOLEAN /\ Cell(s, m).exported \in BOOLEAN /\ (x \/ o) = r
  BY CellRead, BindingRead
<1>4. u \in Stores /\ Becomes(w, u, m, Bound(a.value, r, FALSE), f)
  <2> HIDE DEF a
  <2> QED
    BY <1>1, <1>2, <1>3, OverlaySetBecomes
<1> HIDE DEF u, f
<1>5. Touches(w, u, m) /\ Held(w, u, m) /\ Cell(u, m) = Bound(a.value, r, FALSE) /\ u.environ[m] = f
  BY <1>4 DEF Becomes
<1>6. /\ Cell(u, m).value = a.value /\ Cell(u, m).exported = r /\ Cell(u, m).readonly = FALSE
  <2> HIDE DEF a, r
  <2> QED
    BY <1>5 DEF Bound
<1>7. Len(u.scopes) = Len(s.scopes)
  BY <1>5 DEF Touches
<1>8. \A j \in 1 .. i : j = i \/ j \in 1 .. i - 1
  BY LenProperties
<1>9. \A j \in 1 .. i - 1 : j \in 1 .. i
  BY LenProperties
<1>10. i \in 1 .. i
  BY LenProperties
<1>11. Pushed(s, u, as, i, x, m)
  <2>1. Abides(w, u, m)
    <3>1. Cell(w, m).readonly = FALSE
      BY <1>2, CellRead, BindingRead
    <3>2. u.environ[m] = w.environ[m] \/ r
      BY <1>5 DEF f
    <3> HIDE DEF m
    <3> QED
      BY <1>3, <1>5, <1>6, <3>1, <3>2 DEF Abides, r
  <2>2. Abides(s, u, m)
    BY <1>2, <2>1, AbidesOn
  <2>3. r = (Cell(s, m).exported \/ x)
    <3>1. CASE \E j \in 1 .. i - 1 : as[j].name = m
      <4>1. o = (Cell(s, m).exported \/ x)
        BY <1>1, <3>1 DEF Pushed
      <4> QED
        BY <1>3, <4>1
    <3>2. CASE \A j \in 1 .. i - 1 : as[j].name # m
      <4>1. Same(s, w, m)
        BY <1>1, <3>2 DEF Pushed
      <4>2. Cell(w, m) = Cell(s, m)
        BY <4>1, SameHeld
      <4> QED
        BY <4>2
    <3> QED
      BY <3>1, <3>2
  <2> QED
    BY <1>1, <1>6, <1>10, <2>2, <2>3 DEF Pushed
<1>12. ASSUME NEW n \in Names \ {m} PROVE Pushed(s, u, as, i, x, n)
  <2>1. Same(w, u, n)
    BY <1>5, <1>12, TouchesSame
  <2>2. Abides(w, u, n) /\ Cell(u, n) = Cell(w, n)
    BY <1>4, <1>7, <2>1, SameAbides, SameHeld
  <2>3. Pushed(s, w, as, i - 1, x, n)
    BY <1>12
  <2>4. Abides(s, u, n)
    BY <2>2, <2>3, AbidesOn DEF Pushed
  <2>5. (\A j \in 1 .. i : as[j].name # n) => Same(s, u, n)
    BY <1>9, <2>1, <2>3, SameOn DEF Pushed
  <2>6. (\E j \in 1 .. i : as[j].name = n) => \E j \in 1 .. i - 1 : as[j].name = n
    BY <1>8, <1>12
  <2> QED
    BY <2>2, <2>3, <2>4, <2>5, <2>6 DEF Pushed
<1> QED
  BY <1>4, <1>7, <1>11, <1>12 DEF u

(* After the slots from the last down to i have been put back.             *)
Restored(s, w, slots, i, unexport, redeclare, n) ==
  /\ Abides(s, w, n)
  /\ (\A j \in i .. Len(slots) : slots[j].name # n) => Same(s, w, n)
  /\ \A j \in i .. Len(slots) :
       slots[j].name = n /\ (\A k \in i .. j - 1 : slots[k].name # n) =>
         /\ Cell(w, n).value = slots[j].had
         /\ Cell(w, n).exported => w.environ[n] = slots[j].had
         /\ unexport /\ ~redeclare /\ Cell(w, n).exported => slots[j].wasexp
  /\ redeclare /\ ~unexport
     /\ (\A j \in i .. Len(slots) : slots[j].name = n => slots[j].wasexp = Cell(s, n).exported) =>
       Cell(w, n).exported = Cell(s, n).exported

(* One slot more of overlay_restore, which goes from the last to the       *)
(* first.                                                                  *)
LEMMA RestoredOn ==
  ASSUME NEW s \in Stores, NEW w \in Stores, Len(w.scopes) = Len(s.scopes),
         NEW slots \in Seq(Slot), NEW i \in 1 .. Len(slots),
         NEW unexport \in BOOLEAN, NEW redeclare \in BOOLEAN,
         \A n \in Names : Restored(s, w, slots, i + 1, unexport, redeclare, n),
         ~Cell(s, slots[i].name).readonly
  PROVE  LET u == SlotBack(w, slots[i], unexport, redeclare)
         IN  /\ u \in Stores /\ Len(u.scopes) = Len(s.scopes)
             /\ \A n \in Names : Restored(s, u, slots, i, unexport, redeclare, n)
<1> DEFINE e == slots[i]
           m == e.name
           o == Cell(w, m).exported
           off == unexport /\ ~e.wasexp
           x == IF e.had = Unset THEN redeclare /\ e.wasexp ELSE o /\ ~off
           f == IF e.had = Unset \/ off THEN Unset ELSE IF x THEN e.had ELSE w.environ[m]
           u == SlotBack(w, e, unexport, redeclare)
           l == Len(slots)
<1>1. e \in Slot /\ m \in Names /\ e.had \in Values \cup {Unset} /\ e.wasexp \in BOOLEAN
  <2>1. e \in Slot
    BY ElementOfSeq
  <2> HIDE DEF e
  <2> QED
    BY <2>1 DEF Slot
<1>2. Abides(s, w, m) /\ ~Cell(w, m).readonly
  BY <1>1 DEF Restored, Abides
<1>3. o \in BOOLEAN /\ Cell(s, m).exported \in BOOLEAN
  BY CellRead, BindingRead
<1>4. u \in Stores /\ Becomes(w, u, m, Bound(e.had, x, FALSE), f)
  <2> HIDE DEF e
  <2> QED
    BY <1>1, <1>2, SlotBackBecomes
<1>5. /\ x \in BOOLEAN
      /\ f = Unset \/ x \/ (f = w.environ[m] /\ ~o)
      /\ x => f = e.had
      /\ unexport /\ ~redeclare /\ x => e.wasexp
      /\ redeclare /\ ~unexport /\ e.wasexp = o => x = o
  <2> HIDE DEF e, m, o
  <2> QED
    BY <1>1, <1>3
<1> HIDE DEF u, f, x
<1>6. Touches(w, u, m) /\ Held(w, u, m) /\ Cell(u, m) = Bound(e.had, x, FALSE) /\ u.environ[m] = f
  BY <1>4 DEF Becomes
<1>7. /\ Cell(u, m).value = e.had /\ Cell(u, m).exported = x /\ Cell(u, m).readonly = FALSE
  <2> HIDE DEF e
  <2> QED
    BY <1>6 DEF Bound
<1>8. Len(u.scopes) = Len(s.scopes)
  BY <1>6 DEF Touches
<1>9. l \in Nat /\ i \in 1 .. l
  BY LenProperties
<1> HIDE DEF l
<1>10. /\ i \in i .. l
       /\ \A j \in i .. l : j = i \/ j \in i + 1 .. l
       /\ \A j \in i + 1 .. l : j \in i .. l /\ i \in i .. j - 1
       /\ \A j \in i + 1 .. l : \A k \in i + 1 .. j - 1 : k \in i .. j - 1
  BY <1>9
<1>11. Restored(s, u, slots, i, unexport, redeclare, m)
  <2>1. Abides(w, u, m)
    <3>1. Cell(w, m).readonly = FALSE
      BY <1>2, CellRead, BindingRead
    <3> HIDE DEF m
    <3> QED
      BY <1>3, <1>5, <1>6, <1>7, <3>1 DEF Abides, o
  <2>2. Abides(s, u, m)
    BY <1>2, <2>1, AbidesOn
  <2>3. ASSUME redeclare /\ ~unexport,
               \A j \in i .. l : slots[j].name = m => slots[j].wasexp = Cell(s, m).exported
        PROVE  x = Cell(s, m).exported
    <3>1. e.wasexp = Cell(s, m).exported
      BY <1>10, <2>3
    <3>2. \A j \in i + 1 .. l : slots[j].name = m => slots[j].wasexp = Cell(s, m).exported
      BY <1>10, <2>3
    <3>3. o = Cell(s, m).exported
      BY <1>1, <2>3, <3>2 DEF Restored, l
    <3> QED
      BY <1>5, <2>3, <3>1, <3>3
  <2>4. ASSUME NEW j \in i .. l, slots[j].name = m, \A k \in i .. j - 1 : slots[k].name # m
        PROVE  j = i
    BY <1>10, <2>4
  <2>5. ~(\A j \in i .. l : slots[j].name # m)
    BY <1>10
  <2> HIDE DEF m
  <2> QED
    BY <1>5, <1>6, <1>7, <2>2, <2>3, <2>4, <2>5 DEF Restored, l
<1>12. ASSUME NEW n \in Names \ {m} PROVE Restored(s, u, slots, i, unexport, redeclare, n)
  <2>1. Same(w, u, n)
    BY <1>6, <1>12, TouchesSame
  <2>2. Abides(w, u, n) /\ Cell(u, n) = Cell(w, n) /\ u.environ[n] = w.environ[n]
    BY <1>4, <1>8, <2>1, SameAbides, SameHeld DEF Same
  <2>3. Restored(s, w, slots, i + 1, unexport, redeclare, n)
    BY <1>12
  <2>4. Abides(s, u, n)
    BY <2>2, <2>3, AbidesOn DEF Restored
  <2>5. (\A j \in i .. l : slots[j].name # n) => Same(s, u, n)
    BY <1>10, <2>1, <2>3, SameOn DEF Restored, l
  <2>6. ASSUME NEW j \in i .. l, slots[j].name = n, \A k \in i .. j - 1 : slots[k].name # n
        PROVE  j \in i + 1 .. l /\ \A k \in i + 1 .. j - 1 : slots[k].name # n
    <3>1. j \in i + 1 .. l
      BY <1>10, <1>12, <2>6
    <3> QED
      BY <1>10, <2>6, <3>1
  <2>7. ASSUME NEW j \in i .. l, slots[j].name = n, \A k \in i .. j - 1 : slots[k].name # n
        PROVE  /\ Cell(u, n).value = slots[j].had
               /\ Cell(u, n).exported => u.environ[n] = slots[j].had
               /\ unexport /\ ~redeclare /\ Cell(u, n).exported => slots[j].wasexp
    BY <2>2, <2>3, <2>6, <2>7 DEF Restored, l
  <2>8. ASSUME redeclare /\ ~unexport,
               \A j \in i .. l : slots[j].name = n => slots[j].wasexp = Cell(s, n).exported
        PROVE  Cell(u, n).exported = Cell(s, n).exported
    BY <1>10, <2>2, <2>3, <2>8 DEF Restored, l
  <2> QED
    BY <2>4, <2>5, <2>7, <2>8 DEF Restored, l
<1> QED
  BY <1>4, <1>8, <1>11, <1>12 DEF u

(* What slot e holds of assignment i.                                      *)
Saved(s, as, i, x, e) ==
  LET c == Cell(s, as[i].name)
  IN  /\ e.name = as[i].name
      /\ (\A j \in 1 .. i - 1 : as[j].name # as[i].name) => e.had = c.value /\ e.wasexp = c.exported
      /\ (\E j \in 1 .. i - 1 : as[j].name = as[i].name) =>
           e.had \in Values /\ e.wasexp = (c.exported \/ x)

(* env_overlay_push, env_overlay_restore and env_overlay_unexport as they  *)
(* leave each name.                                                        *)
LEMMA PushView ==
  ASSUME NEW s \in Stores, NEW as \in Seq(Prefix), NEW x \in BOOLEAN, Assignable(s, as)
  PROVE  LET p == OverlayPush(s, as, x)
         IN  /\ p.store \in Stores /\ Len(p.store.scopes) = Len(s.scopes)
             /\ \A n \in Names : Pushed(s, p.store, as, Len(as), x, n)
             /\ p.slots \in Seq(Slot) /\ Len(p.slots) = Len(as)
             /\ \A i \in 1 .. Len(as) : Saved(s, as, i, x, p.slots[i])
<1>12. PICK g : Pushing(g, s, as, x)
  BY PushUnfolds
<1>1. /\ g \in [0 .. Len(as) -> Stores] /\ g[0] = s
      /\ \A i \in 1 .. Len(as) : g[i] = OverlaySet(g[i - 1], as[i], x)
      /\ OverlayPush(s, as, x).store = g[Len(as)]
      /\ OverlayPush(s, as, x).slots = [i \in DOMAIN as |-> OverlaySlot(g[i - 1], as[i])]
  BY <1>12 DEF Pushing
<1> DEFINE l == Len(as)
           p == OverlayPush(s, as, x)
           Good(i, w) == /\ w \in Stores /\ Len(w.scopes) = Len(s.scopes)
                         /\ \A n \in Names : Pushed(s, w, as, i, x, n)
           B == {i \in 0 .. l : Good(i, g[i])}
<1>2. DOMAIN as = 1 .. l /\ \A i \in 1 .. l : as[i] \in Prefix
  BY ElementOfSeq, LenProperties
<1>4. l \in Nat
  BY LenProperties
<1>3. /\ g \in [0 .. l -> Stores] /\ \A i \in 1 .. l : g[i] = OverlaySet(g[i - 1], as[i], x)
      /\ p.store = g[l] /\ p.slots = [i \in DOMAIN as |-> OverlaySlot(g[i - 1], as[i])]
  BY <1>1
<1> HIDE DEF p
<1>5. ASSUME NEW i \in 1 .. l, Good(i - 1, g[i - 1]) PROVE Good(i, g[i])
  <2>1. g[i] = OverlaySet(g[i - 1], as[i], x)
    BY <1>3
  <2>2. ~Cell(s, as[i].name).readonly
    BY <1>2, CellRead DEF Assignable
  <2> DEFINE w == g[i - 1]
  <2>3. w \in Stores /\ Len(w.scopes) = Len(s.scopes) /\ \A n \in Names : Pushed(s, w, as, i - 1, x, n)
    BY <1>5
  <2> HIDE DEF w
  <2>4. Good(i, OverlaySet(w, as[i], x))
    BY <2>2, <2>3, PushedOn
  <2> QED
    BY <2>1, <2>4 DEF w
<1> HIDE DEF l
<1>0. 0 \in B
  <2>1. \A n \in Names : Pushed(s, s, as, 0, x, n)
    BY SameSelf DEF Pushed
  <2>2. Good(0, g[0])
    BY <1>1, <2>1
  <2> HIDE DEF Good
  <2> QED
    BY <1>4, <2>2
<1> HIDE DEF Good
<1>6. \A i \in 1 .. l : i - 1 \in B => i \in B
  BY <1>4, <1>5
<1> HIDE DEF B
<1>7. \A i \in 0 .. l : Good(i, g[i])
  <2>1. \A i \in 0 .. l : i \in B
    BY <1>4, <1>0, <1>6, Induct
  <2> QED
    BY <2>1 DEF B
<1>8. Good(l, g[l])
  BY <1>4, <1>7
<1>9. ASSUME NEW i \in 1 .. l
      PROVE  p.slots[i] \in Slot /\ Saved(s, as, i, x, p.slots[i])
  <2> DEFINE n == as[i].name
             w == g[i - 1]
             e == p.slots[i]
  <2>1. w \in Stores /\ n \in Names /\ as[i] \in Prefix
    <3>1. i - 1 \in 0 .. l
      BY <1>4
    <3>2. as[i] \in Prefix
      BY <1>2
    <3> QED
      BY <1>3, <3>1, <3>2 DEF Prefix
  <2>2. e = OverlaySlot(w, as[i])
    BY <1>2, <1>3
  <2> HIDE DEF e, w
  <2>3. e \in Slot
    BY <2>1, <2>2, SlotType
  <2>4. e.name = n /\ e.had = Cell(w, n).value /\ e.wasexp = Cell(w, n).exported
    <3>1. VarsGet(w, n) = Cell(w, n).value /\ VarsIsExported(w, n) = Cell(w, n).exported
      BY <2>1, CellRead
    <3> QED
      BY <2>2, <3>1 DEF OverlaySlot
  <2>5. Pushed(s, w, as, i - 1, x, n) /\ Len(w.scopes) = Len(s.scopes)
    <3>1. i - 1 \in 0 .. l
      BY <1>4
    <3>2. Good(i - 1, w)
      BY <1>7, <3>1 DEF w
    <3> QED
      BY <2>1, <3>2 DEF Good
  <2>6. (\A j \in 1 .. i - 1 : as[j].name # n) => Cell(w, n) = Cell(s, n)
    BY <2>1, <2>5, SameHeld DEF Pushed
  <2>7. (\E j \in 1 .. i - 1 : as[j].name = n) =>
          Cell(w, n).value \in Values /\ Cell(w, n).exported = (Cell(s, n).exported \/ x)
    BY <2>5 DEF Pushed
  <2> HIDE DEF n
  <2>8. /\ e \in Slot /\ e.name = n
        /\ (\A j \in 1 .. i - 1 : as[j].name # n) => e.had = Cell(s, n).value /\ e.wasexp = Cell(s, n).exported
        /\ (\E j \in 1 .. i - 1 : as[j].name = n) =>
             e.had \in Values /\ e.wasexp = (Cell(s, n).exported \/ x)
    BY <2>3, <2>4, <2>6, <2>7
  <2> QED
    BY <2>8 DEF e, n, Saved
<1>10. p.slots \in Seq(Slot) /\ Len(p.slots) = l
  <2>1. p.slots \in [1 .. l -> Slot]
    <3>1. \A i \in 1 .. l : p.slots[i] \in Slot
      BY <1>9
    <3> QED
      BY <1>2, <1>3, <3>1
  <2> QED
    BY <1>4, <2>1
<1>11. Good(l, p.store)
  BY <1>3, <1>8
<1> QED
  BY <1>9, <1>10, <1>11 DEF Good, p, l

(* overlay_restore as a name sees it: the first slot that names it has the *)
(* last word.                                                              *)
LEMMA RestoreView ==
  ASSUME NEW s \in Stores, NEW slots \in Seq(Slot), NEW unexport \in BOOLEAN,
         NEW redeclare \in BOOLEAN, \A i \in 1 .. Len(slots) : ~Cell(s, slots[i].name).readonly
  PROVE  LET u == OverlayRestore(s, slots, unexport, redeclare)
         IN  /\ u \in Stores /\ Len(u.scopes) = Len(s.scopes)
             /\ \A n \in Names : Restored(s, u, slots, 1, unexport, redeclare, n)
<1> DEFINE l == Len(slots)
           Good(i, w) == /\ w \in Stores /\ Len(w.scopes) = Len(s.scopes)
                         /\ \A n \in Names : Restored(s, w, slots, i, unexport, redeclare, n)
<1>1. PICK g \in [1 .. Len(slots) + 1 -> Stores] :
        /\ g[Len(slots) + 1] = s /\ OverlayRestore(s, slots, unexport, redeclare) = g[1]
        /\ \A i \in 1 .. Len(slots) : g[i] = SlotBack(g[i + 1], slots[i], unexport, redeclare)
  BY RestoreUnfolds
<1>2. l \in Nat
  BY LenProperties
<1> DEFINE B == {i \in 1 .. l + 1 : Good(i, g[i])}
<1>3. l + 1 \in B
  <2>1. \A j \in l + 1 .. l : FALSE
    BY <1>2
  <2>2. \A n \in Names : Restored(s, s, slots, l + 1, unexport, redeclare, n)
    BY <2>1, SameSelf DEF Restored
  <2> QED
    BY <1>1, <1>2, <2>2
<1>4. ASSUME NEW i \in 1 .. l, i + 1 \in B PROVE i \in B
  <2>1. Good(i + 1, g[i + 1])
    BY <1>4
  <2>2. g[i] = SlotBack(g[i + 1], slots[i], unexport, redeclare)
    BY <1>1
  <2>3. Good(i, g[i])
    BY <2>1, <2>2, RestoredOn
  <2> HIDE DEF Good
  <2> QED
    BY <1>2, <2>3
<1> HIDE DEF B
<1>5. \A i \in 1 .. l + 1 : i \in B
  BY <1>2, <1>3, <1>4, InductDown
<1>6. Good(1, g[1])
  BY <1>2, <1>5 DEF B
<1> QED
  BY <1>1, <1>6

(* After i slots: the first that was not exported is no more.              *)
Withdrawn(s, w, slots, i, n) ==
  /\ Abides(s, w, n)
  /\ (\A j \in 1 .. i : slots[j].name # n) => Same(s, w, n)
  /\ Cell(w, n).value = Cell(s, n).value
  /\ Cell(w, n).exported => Cell(s, n).exported /\ w.environ[n] = s.environ[n]
  /\ (\E j \in 1 .. i : slots[j].name = n /\ ~slots[j].wasexp) => ~Cell(w, n).exported

(* One slot more of overlay_unexport.                                      *)
LEMMA WithdrawnOn ==
  ASSUME NEW s \in Stores, NEW w \in Stores, Len(w.scopes) = Len(s.scopes),
         NEW slots \in Seq(Slot), NEW i \in 1 .. Len(slots),
         \A n \in Names : Withdrawn(s, w, slots, i - 1, n)
  PROVE  LET u == IF slots[i].wasexp THEN w ELSE VarsUnexport(w, slots[i].name)
         IN  /\ u \in Stores /\ Len(u.scopes) = Len(s.scopes)
             /\ \A n \in Names : Withdrawn(s, u, slots, i, n)
<1>1. \A j \in 1 .. i : j = i \/ j \in 1 .. i - 1
  BY LenProperties
<1>2. \A j \in 1 .. i - 1 : j \in 1 .. i
  BY LenProperties
<1>3. slots[i] \in Slot /\ slots[i].name \in Names
  <2>1. slots[i] \in Slot
    BY ElementOfSeq
  <2> QED
    BY <2>1 DEF Slot
<1>4. CASE slots[i].wasexp
  BY <1>1, <1>2, <1>4 DEF Withdrawn
<1>5. CASE ~slots[i].wasexp
  <2> DEFINE m == slots[i].name
             c == Cell(w, m)
             u == VarsUnexport(w, m)
  <2>1. u \in Stores /\ Becomes(w, u, m, Bound(c.value, FALSE, c.readonly), Unset)
    BY <1>3, UnexportBecomes
  <2> HIDE DEF u
  <2>2. /\ Touches(w, u, m) /\ Held(w, u, m) /\ u.environ[m] = Unset
        /\ Cell(u, m) = Bound(c.value, FALSE, c.readonly)
    BY <2>1 DEF Becomes
  <2>3. Cell(u, m).value = c.value /\ Cell(u, m).exported = FALSE /\ Cell(u, m).readonly = c.readonly
    <3> HIDE DEF c
    <3> QED
      BY <2>2 DEF Bound
  <2>4. Len(u.scopes) = Len(s.scopes)
    BY <2>2 DEF Touches
  <2>5. Withdrawn(s, w, slots, i - 1, m)
    BY <1>3
  <2>6. Abides(w, u, m)
    BY <2>2, <2>3 DEF Abides
  <2>7. Abides(s, u, m)
    BY <2>5, <2>6, AbidesOn DEF Withdrawn
  <2>8. ~(\A j \in 1 .. i : slots[j].name # m)
    <3>1. i \in 1 .. i
      BY LenProperties
    <3> QED
      BY <3>1
  <2>9. Withdrawn(s, u, slots, i, m)
    BY <2>3, <2>5, <2>7, <2>8 DEF Withdrawn
  <2>10. ASSUME NEW n \in Names \ {m} PROVE Withdrawn(s, u, slots, i, n)
    <3>1. Same(w, u, n)
      BY <2>2, <2>10, TouchesSame
    <3>2. Abides(w, u, n) /\ Cell(u, n) = Cell(w, n) /\ u.environ[n] = w.environ[n]
      BY <2>1, <2>4, <3>1, SameAbides, SameHeld DEF Same
    <3>3. Withdrawn(s, w, slots, i - 1, n)
      BY <2>10
    <3>4. Abides(s, u, n)
      BY <3>2, <3>3, AbidesOn DEF Withdrawn
    <3>5. (\A j \in 1 .. i : slots[j].name # n) => Same(s, u, n)
      BY <1>2, <3>1, <3>3, SameOn DEF Withdrawn
    <3>6. (\E j \in 1 .. i : slots[j].name = n /\ ~slots[j].wasexp) =>
            \E j \in 1 .. i - 1 : slots[j].name = n /\ ~slots[j].wasexp
      BY <1>1, <2>10
    <3> QED
      BY <3>2, <3>3, <3>4, <3>5, <3>6 DEF Withdrawn
  <2> QED
    BY <1>5, <2>1, <2>4, <2>9, <2>10 DEF u
<1> QED
  BY <1>4, <1>5

(* overlay_unexport as a name sees it.                                     *)
LEMMA UnexportView ==
  ASSUME NEW s \in Stores, NEW slots \in Seq(Slot)
  PROVE  LET u == OverlayUnexport(s, slots)
         IN  /\ u \in Stores /\ Len(u.scopes) = Len(s.scopes)
             /\ \A n \in Names : Withdrawn(s, u, slots, Len(slots), n)
<1> DEFINE l == Len(slots)
           Good(i, w) == /\ w \in Stores /\ Len(w.scopes) = Len(s.scopes)
                         /\ \A n \in Names : Withdrawn(s, w, slots, i, n)
<1>1. PICK g \in [0 .. Len(slots) -> Stores] :
        /\ g[0] = s /\ OverlayUnexport(s, slots) = g[Len(slots)]
        /\ \A i \in 1 .. Len(slots) :
             g[i] = IF slots[i].wasexp THEN g[i - 1] ELSE VarsUnexport(g[i - 1], slots[i].name)
  BY UnexportUnfolds
<1>2. l \in Nat
  BY LenProperties
<1> DEFINE B == {i \in 0 .. l : Good(i, g[i])}
<1>3. 0 \in B
  <2>1. \A n \in Names : Withdrawn(s, s, slots, 0, n)
    BY SameSelf DEF Withdrawn
  <2> QED
    BY <1>1, <1>2, <2>1
<1>4. ASSUME NEW i \in 1 .. l, i - 1 \in B PROVE i \in B
  <2>1. Good(i - 1, g[i - 1])
    BY <1>4
  <2>2. g[i] = IF slots[i].wasexp THEN g[i - 1] ELSE VarsUnexport(g[i - 1], slots[i].name)
    BY <1>1
  <2>3. Good(i, g[i])
    BY <2>1, <2>2, WithdrawnOn
  <2> HIDE DEF Good
  <2> QED
    BY <1>2, <2>3
<1> HIDE DEF B
<1>5. \A i \in 0 .. l : i \in B
  BY <1>2, <1>3, <1>4, Induct
<1>6. Good(l, g[l])
  BY <1>2, <1>5 DEF B
<1> QED
  BY <1>1, <1>6

-----------------------------------------------------------------------------
(* The first of some positions.                                            *)
LEMMA FirstOf ==
  ASSUME NEW l \in Nat, NEW S, S \subseteq 1 .. l, S # {}
  PROVE  \E j \in S : \A k \in 1 .. j - 1 : k \notin S
<1> DEFINE j == CHOOSE i \in S : \A k \in S : i <= k
<1>1. j \in S /\ \A k \in S : j <= k
  BY LeastIn
<1> HIDE DEF j
<1> QED
  BY <1>1

(* With the entry that commands work on unchanged, no entry is changed.    *)
LEMMA EntriesSame ==
  ASSUME NEW s \in Stores, NEW u \in Stores, NEW n, Len(u.scopes) = Len(s.scopes),
         Held(s, u, n), Cell(u, n) = Cell(s, n)
  PROVE  \A j \in 1 .. Len(s.scopes) : Entry(u, j, n) = Entry(s, j, n)
<1>1. Here(u, n) = Here(s, n)
  BY HereSame
<1> QED
  BY <1>1 DEF Held, Cell

(* Stores that differ in global entries that say nothing.                  *)
LEMMA AlikeSettled ==
  ASSUME NEW s \in Stores, NEW u \in Stores, Len(u.scopes) = Len(s.scopes),
         \A n \in Names : \A j \in 1 .. Len(s.scopes) :
           /\ Entry(u, j, n) = Entry(s, j, n)
           /\ j < Len(s.scopes) => (n \in DOMAIN u.scopes[j] <=> n \in DOMAIN s.scopes[j])
  PROVE  Settled(u) = Settled(s)
<1> DEFINE g == Len(s.scopes)
           Told(c) == [n \in {m \in DOMAIN c : c[m] # Nil} |-> c[n]]
<1>1. /\ g \in Nat /\ g >= 1 /\ Len(u.scopes) = g /\ Global(s) = g /\ Global(u) = g
      /\ s.scopes \in Seq(Scope) /\ u.scopes \in Seq(Scope)
      /\ DOMAIN s.scopes = 1 .. g /\ DOMAIN u.scopes = 1 .. g
  BY StoreRead
<1>2. \A j \in 1 .. g : /\ DOMAIN s.scopes[j] \subseteq Names /\ DOMAIN u.scopes[j] \subseteq Names
                        /\ s.scopes[j] = [n \in DOMAIN s.scopes[j] |-> s.scopes[j][n]]
                        /\ u.scopes[j] = [n \in DOMAIN u.scopes[j] |-> u.scopes[j][n]]
  BY <1>1, StoreRead
<1>3. /\ Settled(s) = [s.scopes EXCEPT ![g] = Told(s.scopes[g])]
      /\ Settled(u) = [u.scopes EXCEPT ![g] = Told(u.scopes[g])]
  BY <1>1 DEF Settled, Nil
<1> DEFINE c == s.scopes[g]
           d == u.scopes[g]
<1>4. /\ DOMAIN c \subseteq Names /\ DOMAIN d \subseteq Names
      /\ \A n \in Names : (IF n \in DOMAIN d THEN d[n] ELSE Nil) = (IF n \in DOMAIN c THEN c[n] ELSE Nil)
  <2>1. g \in 1 .. g
    <3> HIDE DEF g
    <3> QED
      BY <1>1
  <2> QED
    BY <1>2, <2>1 DEF Entry
<1> HIDE DEF c, d
<1>5. Told(d) = Told(c)
  <2>1. {m \in DOMAIN d : d[m] # Nil} = {m \in DOMAIN c : c[m] # Nil}
    BY <1>4
  <2>2. \A n \in {m \in DOMAIN c : c[m] # Nil} : d[n] = c[n]
    BY <1>4
  <2> QED
    BY <2>1, <2>2
<1> HIDE DEF Told
<1>6. ASSUME NEW j \in 1 .. g, j # g PROVE u.scopes[j] = s.scopes[j]
  <2>1. j < g
    <3> HIDE DEF g
    <3> QED
      BY <1>1, <1>6
  <2>2. \A n \in Names : /\ n \in DOMAIN u.scopes[j] <=> n \in DOMAIN s.scopes[j]
                         /\ Entry(u, j, n) = Entry(s, j, n)
    BY <2>1
  <2>3. DOMAIN u.scopes[j] = DOMAIN s.scopes[j]
    BY <1>2, <2>2
  <2>4. \A n \in DOMAIN s.scopes[j] : u.scopes[j][n] = s.scopes[j][n]
    BY <1>2, <2>2, <2>3 DEF Entry
  <2> QED
    BY <1>2, <2>3, <2>4
<1> HIDE DEF g
<1>7. \A j \in 1 .. g : Settled(u)[j] = Settled(s)[j]
  BY <1>1, <1>3, <1>5, <1>6 DEF c, d
<1>8. /\ Settled(u) = [j \in 1 .. g |-> Settled(u)[j]]
      /\ Settled(s) = [j \in 1 .. g |-> Settled(s)[j]]
  BY <1>1, <1>3
<1> QED
  BY <1>7, <1>8

(* What assignments that are expanded leave: all as it was, but that the   *)
(* environment's entry may be in step now.                                 *)
Untraced(s, u, n) ==
  /\ Held(s, u, n) /\ Cell(u, n) = Cell(s, n)
  /\ \/ u.environ[n] \in {s.environ[n], Unset}
     \/ Cell(s, n).exported /\ u.environ[n] = Cell(s, n).value

(* Expanding the assignments of a command leaves no name changed, but for  *)
(* an environment entry that no export had made.                           *)
LEMMA ExpandedView ==
  ASSUME NEW s \in Stores, NEW as \in Seq(Prefix), Assignable(s, as)
  PROVE  LET u == Expanded(s, as)
         IN  u \in Stores /\ Len(u.scopes) = Len(s.scopes) /\ \A n \in Names : Untraced(s, u, n)
<1>1. CASE Len(as) < 2
  <2>1. Expanded(s, as) = s
    BY <1>1 DEF Expanded
  <2>2. \A n \in Names : Untraced(s, s, n)
    BY SameSelf, SameHeld DEF Untraced
  <2> QED
    BY <2>1, <2>2
<1>2. CASE ~(Len(as) < 2)
  <2>0. PICK x \in BOOLEAN : x = FALSE
    OBVIOUS
  <2> DEFINE p == OverlayPush(s, as, x)
             w == p.store
             slots == p.slots
             u == OverlayRestore(w, slots, FALSE, TRUE)
             l == Len(as)
  <2>1. /\ w \in Stores /\ Len(w.scopes) = Len(s.scopes)
        /\ \A n \in Names : Pushed(s, w, as, l, x, n)
        /\ slots \in Seq(Slot) /\ Len(slots) = l
        /\ \A i \in 1 .. l : Saved(s, as, i, x, slots[i])
    BY PushView
  <2>2. Expanded(s, as) = u
    BY <1>2, <2>0 DEF Expanded
  <2>3. l \in Nat /\ DOMAIN as = 1 .. l /\ \A i \in 1 .. l : as[i] \in Prefix
    BY LenProperties, ElementOfSeq
  <2> HIDE DEF p, w, slots, l
  <2>4. \A i \in 1 .. Len(slots) : ~Cell(w, slots[i].name).readonly
    <3> SUFFICES ASSUME NEW i \in 1 .. l PROVE ~Cell(w, as[i].name).readonly
      BY <2>1 DEF Saved
    <3>1. as[i].name \in Names
      BY <2>3 DEF Prefix
    <3>2. ~Cell(s, as[i].name).readonly
      BY <2>3, CellRead DEF Assignable
    <3>3. Pushed(s, w, as, l, x, as[i].name)
      BY <2>1, <3>1
    <3> QED
      BY <3>2, <3>3 DEF Pushed, Abides
  <2>5. /\ u \in Stores /\ Len(u.scopes) = Len(w.scopes)
        /\ \A n \in Names : Restored(w, u, slots, 1, FALSE, TRUE, n)
    BY <2>1, <2>4, RestoreView
  <2> HIDE DEF u
  <2>6. ASSUME NEW n \in Names PROVE Untraced(s, u, n)
    <3>1. Pushed(s, w, as, l, x, n) /\ Restored(w, u, slots, 1, FALSE, TRUE, n)
      BY <2>1, <2>5
    <3>2. Abides(s, u, n)
      BY <2>1, <3>1, AbidesOn DEF Pushed, Restored
    <3>3. CASE \A j \in 1 .. l : as[j].name # n
      <4>1. \A j \in 1 .. l : slots[j].name # n
        BY <2>1, <3>3 DEF Saved
      <4>2. Same(s, w, n) /\ Same(w, u, n)
        BY <2>1, <3>1, <3>3, <4>1 DEF Pushed, Restored
      <4>3. Same(s, u, n)
        BY <2>1, <4>2, SameOn
      <4> QED
        BY <2>1, <2>5, <4>3, SameHeld DEF Untraced, Same
    <3>4. CASE \E j \in 1 .. l : as[j].name = n
      <4> DEFINE c == Cell(s, n)
      <4>1. PICK j \in 1 .. l : as[j].name = n /\ \A k \in 1 .. j - 1 : as[k].name # n
        <5> DEFINE S == {j \in 1 .. l : as[j].name = n}
        <5>1. S \subseteq 1 .. l /\ S # {}
          BY <3>4
        <5> HIDE DEF S
        <5>2. PICK j \in S : \A k \in 1 .. j - 1 : k \notin S
          BY <2>3, <5>1, FirstOf
        <5>3. j \in 1 .. l /\ \A k \in 1 .. j - 1 : k \in 1 .. l
          BY <2>3, <5>1, <5>2
        <5> QED
          BY <5>2, <5>3 DEF S
      <4>2. c \in Binding /\ Cell(u, n) \in Binding /\ c.exported \in BOOLEAN
        BY <2>5, CellRead, BindingRead
      <4>3. \A k \in 1 .. j - 1 : k \in 1 .. l
        BY <2>3
      <4>4. /\ slots[j].name = n /\ slots[j].had = c.value
            /\ \A k \in 1 .. j - 1 : slots[k].name # n
        BY <2>1, <4>1, <4>3 DEF Saved
      <4>5. \A i \in 1 .. l : slots[i].name = n => slots[i].wasexp = c.exported
        BY <2>0, <2>1, <4>2 DEF Saved
      <4>6. Cell(w, n).exported = c.exported
        BY <2>0, <3>1, <3>4, <4>2 DEF Pushed
      <4>7. Cell(u, n).value = c.value /\ (Cell(u, n).exported => u.environ[n] = c.value)
        BY <2>1, <3>1, <4>4 DEF Restored
      <4>8. Cell(u, n).exported = c.exported
        BY <2>1, <3>1, <4>5, <4>6 DEF Restored
      <4>9. Cell(u, n).readonly = c.readonly
        BY <3>2 DEF Abides
      <4>10. Cell(u, n) = c
        BY <4>2, <4>7, <4>8, <4>9, BindingRead
      <4> QED
        BY <3>2, <4>7, <4>10 DEF Untraced, Abides
    <3> QED
      BY <3>3, <3>4
  <2> QED
    BY <2>1, <2>2, <2>5, <2>6
<1> QED
  BY <1>1, <1>2

(* What a child would be given is then as before, whatever the prefix.     *)
LEMMA ExpandedSettles ==
  ASSUME NEW s \in Stores, NEW as \in Seq(Prefix), Assignable(s, as)
  PROVE  Settled(Expanded(s, as)) = Settled(s)
<1> DEFINE u == Expanded(s, as)
<1>1. u \in Stores /\ Len(u.scopes) = Len(s.scopes) /\ \A n \in Names : Untraced(s, u, n)
  BY ExpandedView
<1> HIDE DEF u
<1>2. \A n \in Names : \A j \in 1 .. Len(s.scopes) :
        /\ Entry(u, j, n) = Entry(s, j, n)
        /\ j < Len(s.scopes) => (n \in DOMAIN u.scopes[j] <=> n \in DOMAIN s.scopes[j])
  BY <1>1, EntriesSame DEF Untraced, Held
<1>3. Settled(u) = Settled(s)
  BY <1>1, <1>2, AlikeSettled
<1> QED
  BY <1>3 DEF u

-----------------------------------------------------------------------------
(* Scopes by their height over the global one, and frames by theirs over   *)
(* the script's: what is put on top does not move them.                    *)
Told(s, h, n) == Entry(s, Len(s.scopes) + 1 - h, n)

In(s, h, n) == n \in DOMAIN s.scopes[Len(s.scopes) + 1 - h]

Nth(st, d) == st[Len(st) + 1 - d]

(* With l scopes, commands on n work at height h.                          *)
IsHome(s, n, l, h) == h \in 1 .. l /\ (h = 1 \/ In(s, h, n)) /\ \A k \in h + 1 .. l : ~In(s, k, n)

Home(s, n) == Len(s.scopes) + 1 - Here(s, n)

Outer(s, u, n, l) ==
  \A h \in 1 .. l : Told(u, h, n) = Told(s, h, n) /\ (In(u, h, n) <=> In(s, h, n))

(* A frame put on top does not move the others.                            *)
LEMMA NthPush ==
  ASSUME NEW F, NEW st \in Seq(F), NEW f \in F
  PROVE  LET ts == <<f>> \o st
         IN  /\ Len(ts) = Len(st) + 1 /\ Nth(ts, Len(ts)) = f
             /\ \A d \in 1 .. Len(st) : Nth(ts, d) = Nth(st, d)
<1>1. Len(st) \in Nat
  BY LenProperties
<1>2. /\ Len(<<f>> \o st) = Len(st) + 1 /\ (<<f>> \o st)[1] = f
      /\ \A i \in 1 .. Len(st) : (<<f>> \o st)[i + 1] = st[i]
  OBVIOUS
<1> DEFINE ts == <<f>> \o st
<1> HIDE DEF ts
<1>3. Len(ts) = Len(st) + 1 /\ ts[1] = f /\ \A i \in 1 .. Len(st) : ts[i + 1] = st[i]
  BY <1>2 DEF ts
<1>4. Nth(ts, Len(ts)) = f
  BY <1>1, <1>3 DEF Nth
<1>5. ASSUME NEW d \in 1 .. Len(st) PROVE Nth(ts, d) = Nth(st, d)
  <2>1. Len(st) + 1 - d \in 1 .. Len(st) /\ Len(ts) + 1 - d = (Len(st) + 1 - d) + 1
    BY <1>1, <1>3
  <2> QED
    BY <1>3, <2>1 DEF Nth
<1> QED
  BY <1>3, <1>4, <1>5 DEF ts

(* Nor does one taken from there.                                          *)
LEMMA NthPop ==
  ASSUME NEW F, NEW st \in Seq(F), st # <<>>
  PROVE  /\ Len(Tail(st)) = Len(st) - 1 /\ Nth(st, Len(st)) = Head(st)
         /\ \A d \in 1 .. Len(st) - 1 : Nth(Tail(st), d) = Nth(st, d)
<1>1. Len(st) \in Nat /\ Len(st) >= 1
  BY LenProperties, EmptySeq
<1>2. /\ Len(Tail(st)) = Len(st) - 1 /\ Head(st) = st[1]
      /\ \A i \in 1 .. Len(st) - 1 : Tail(st)[i] = st[i + 1]
  BY <1>1
<1>3. Nth(st, Len(st)) = Head(st)
  BY <1>1, <1>2 DEF Nth
<1> DEFINE ts == Tail(st)
<1> HIDE DEF ts
<1>4. Len(ts) = Len(st) - 1 /\ \A i \in 1 .. Len(st) - 1 : ts[i] = st[i + 1]
  BY <1>2 DEF ts
<1>5. ASSUME NEW d \in 1 .. Len(st) - 1 PROVE Nth(ts, d) = Nth(st, d)
  <2>1. Len(ts) + 1 - d \in 1 .. Len(st) - 1 /\ Len(st) + 1 - d = (Len(ts) + 1 - d) + 1
    BY <1>1, <1>4
  <2> QED
    BY <1>4, <2>1 DEF Nth
<1> QED
  BY <1>3, <1>4, <1>5 DEF ts

(* The home of n is the height of the scope that commands on n work in.    *)
LEMMA HomeRead ==
  ASSUME NEW s \in Stores, NEW n
  PROVE  /\ Home(s, n) \in 1 .. Len(s.scopes)
         /\ IsHome(s, n, Len(s.scopes), Home(s, n)) /\ Told(s, Home(s, n), n) = Cell(s, n)
<1> DEFINE l == Len(s.scopes)
           j == Here(s, n)
<1>1. l \in Nat /\ l >= 1
  BY StoreRead
<1>2. j \in 1 .. l /\ Outside(s, j, n) /\ (j < l => n \in DOMAIN s.scopes[j])
  BY HereRead
<1> HIDE DEF j
<1>3. Home(s, n) = l + 1 - j
  BY DEF Home, j
<1> DEFINE h == Home(s, n)
<1> HIDE DEF h
<1>4. h \in 1 .. l /\ l + 1 - h = j
  BY <1>1, <1>2, <1>3 DEF h
<1>5. h = 1 \/ In(s, h, n)
  BY <1>1, <1>2, <1>4 DEF In
<1>6. ASSUME NEW k \in h + 1 .. l PROVE ~In(s, k, n)
  <2>1. l + 1 - k \in 1 .. l /\ l + 1 - k < j
    BY <1>1, <1>4
  <2> QED
    BY <1>2, <2>1 DEF In, Outside
<1>7. Told(s, h, n) = Cell(s, n)
  BY <1>4 DEF Told, Cell, j
<1> QED
  BY <1>4, <1>5, <1>6, <1>7 DEF h, IsHome

(* There is one home.                                                      *)
LEMMA HomeOne ==
  ASSUME NEW s, NEW n, NEW l \in Nat, NEW h, NEW g, IsHome(s, n, l, h), IsHome(s, n, l, g)
  PROVE  g = h
<1>1. h \in 1 .. l /\ g \in 1 .. l
  BY DEF IsHome
<1>2. CASE g < h
  <2>1. h \in g + 1 .. l /\ h # 1
    BY <1>1, <1>2
  <2> QED
    BY <2>1 DEF IsHome
<1>3. CASE h < g
  <2>1. g \in h + 1 .. l /\ g # 1
    BY <1>1, <1>3
  <2> QED
    BY <2>1 DEF IsHome
<1> QED
  BY <1>1, <1>2, <1>3

(* It is the home still with fewer scopes, if it is among them.            *)
LEMMA HomeLower ==
  ASSUME NEW s, NEW n, NEW l \in Nat, NEW k \in 1 .. l, NEW h \in 1 .. k, IsHome(s, n, l, h)
  PROVE  IsHome(s, n, k, h)
<1>1. \A i \in h + 1 .. k : i \in h + 1 .. l
  OBVIOUS
<1> QED
  BY <1>1 DEF IsHome

(* It depends only on which scopes over the global one bind the name.      *)
LEMMA OuterHome ==
  ASSUME NEW s, NEW u, NEW n, NEW l \in Nat, NEW k \in 1 .. l, NEW h,
         \A i \in 2 .. l : In(u, i, n) <=> In(s, i, n), IsHome(s, n, k, h)
  PROVE  IsHome(u, n, k, h)
<1>1. h \in 1 .. k /\ (h = 1 \/ In(s, h, n)) /\ \A i \in h + 1 .. k : ~In(s, i, n)
  BY DEF IsHome
<1>2. \A i \in h + 1 .. k : i \in 2 .. l
  BY <1>1
<1>3. h = 1 \/ h \in 2 .. l
  BY <1>1
<1> QED
  BY <1>1, <1>2, <1>3 DEF IsHome

(* A command on n leaves its home, and the entries elsewhere.              *)
LEMMA HeldRead ==
  ASSUME NEW s \in Stores, NEW u \in Stores, NEW n, Len(u.scopes) = Len(s.scopes), Held(s, u, n)
  PROVE  /\ Home(u, n) = Home(s, n)
         /\ \A i \in 2 .. Len(s.scopes) : In(u, i, n) <=> In(s, i, n)
         /\ \A h \in 1 .. Len(s.scopes) : h # Home(s, n) => Told(u, h, n) = Told(s, h, n)
<1> DEFINE l == Len(s.scopes)
           j == Here(s, n)
<1>1. l \in Nat /\ Len(u.scopes) = l
  BY StoreRead
<1>2. Here(u, n) = j /\ j \in 1 .. l
  BY HereSame, HereRead
<1>3. \A i \in 1 .. l : /\ i < l => (n \in DOMAIN u.scopes[i] <=> n \in DOMAIN s.scopes[i])
                        /\ i # j => Entry(u, i, n) = Entry(s, i, n)
  BY DEF Held
<1>4. Home(s, n) = l + 1 - j /\ Home(u, n) = l + 1 - j
  BY <1>1, <1>2 DEF Home
<1> HIDE DEF l, j
<1>5. ASSUME NEW i \in 2 .. l PROVE In(u, i, n) <=> In(s, i, n)
  <2>1. l + 1 - i \in 1 .. l /\ l + 1 - i < l
    BY <1>1
  <2> QED
    BY <1>1, <1>3, <2>1 DEF In, l
<1>6. ASSUME NEW h \in 1 .. l, h # l + 1 - j PROVE Told(u, h, n) = Told(s, h, n)
  <2>1. l + 1 - h \in 1 .. l /\ l + 1 - h # j
    BY <1>1, <1>2, <1>6
  <2> QED
    BY <1>1, <1>3, <2>1 DEF Told, l
<1> QED
  BY <1>4, <1>5, <1>6 DEF l

(* Nothing differs at any height.                                          *)
LEMMA SameOuter ==
  ASSUME NEW s, NEW u, NEW n, Len(s.scopes) \in Nat, Len(u.scopes) = Len(s.scopes), Same(s, u, n)
  PROVE  Outer(s, u, n, Len(s.scopes))
<1>1. ASSUME NEW h \in 1 .. Len(s.scopes)
      PROVE  Told(u, h, n) = Told(s, h, n) /\ (In(u, h, n) <=> In(s, h, n))
  <2> DEFINE j == Len(s.scopes) + 1 - h
  <2>1. j \in 1 .. Len(s.scopes)
    OBVIOUS
  <2>2. Entry(u, j, n) = Entry(s, j, n) /\ (n \in DOMAIN u.scopes[j] <=> n \in DOMAIN s.scopes[j])
    <3> HIDE DEF j
    <3> QED
      BY <2>1 DEF Same
  <2> QED
    BY <2>2 DEF Told, In
<1> QED
  BY <1>1 DEF Outer

-----------------------------------------------------------------------------
(* What an entry at height h may be where no prefix covers it, and what    *)
(* the environment may hold; L is the lasting values, and q says that      *)
(* nothing is ever exported.                                               *)
Kept(L, q, h, v, x) == ((h = 1 \/ x) => v \in L) /\ (q => ~x)

Fine(L, q, v) == v \in L /\ (q => v = Unset)

Deep(f) == IF f.kind = "function" THEN 1 ELSE 0

Covers(f, n) == \E i \in 1 .. Len(f.slots) : f.slots[i].name = n

First(f, i, n) == f.slots[i].name = n /\ \A j \in 1 .. i - 1 : f.slots[j].name # n

(* A prefix of frame d or of one below it covers n at height h.            *)
Covered(st, n, hm, d, h) == \E e \in 1 .. d : Covers(Nth(st, e), n) /\ hm[e] = h

(* Frame d started with lv[d] scopes, and found n at height hm[d].         *)
Marked(s, st, n, lv, hm) ==
  /\ lv[Len(st)] = Len(s.scopes) /\ lv[1] = 1
  /\ \A d \in 1 .. Len(st) : lv[d] \in Nat /\ IsHome(s, n, lv[d], hm[d])
  /\ \A d \in 1 .. Len(st) : d > 1 => lv[d] = lv[d - 1] + Deep(Nth(st, d))
  /\ \A d, e \in 1 .. Len(st) : d <= e => lv[d] <= lv[e]

(* What the first slot for n holds was kept, or it is a prefix's below.    *)
SlotsKept(st, n, hm, L, q) ==
  \A d \in 1 .. Len(st) : \A i \in 1 .. Len(Nth(st, d).slots) :
    First(Nth(st, d), i, n) =>
      \/ Covered(st, n, hm, d - 1, hm[d])
      \/ Kept(L, q, hm[d], Nth(st, d).slots[i].had, Nth(st, d).slots[i].wasexp)

EntriesKept(s, st, n, hm, L, q) ==
  \A h \in 1 .. Len(s.scopes) :
    /\ ~Told(s, h, n).readonly
    /\ \/ Covered(st, n, hm, Len(st), h)
       \/ Kept(L, q, h, Told(s, h, n).value, Told(s, h, n).exported)

(* The environment holds a prefix's value only while the innermost prefix  *)
(* that covers n has it exported, and so takes it back.                    *)
EnvironFine(s, st, n, hm, L, q) ==
  \/ Fine(L, q, s.environ[n])
  \/ \E d \in 1 .. Len(st) : /\ Covers(Nth(st, d), n) /\ Told(s, hm[d], n).exported
                             /\ \A e \in d + 1 .. Len(st) : ~Covers(Nth(st, e), n)

Clean(s, st, n, L, q) ==
  \E lv, hm : /\ Marked(s, st, n, lv, hm) /\ SlotsKept(st, n, hm, L, q)
              /\ EntriesKept(s, st, n, hm, L, q) /\ EnvironFine(s, st, n, hm, L, q)

(* What goes on being allowed: lasting values, and fewer exports.          *)
LEMMA KeptFine ==
  ASSUME NEW L, Unset \in L, NEW q \in BOOLEAN, NEW h, NEW v, NEW x \in BOOLEAN, Kept(L, q, h, v, x)
  PROVE  /\ Fine(L, q, Unset) /\ (x => Fine(L, q, v))
         /\ \A y \in BOOLEAN : (y => x) => Kept(L, q, h, v, y)
         /\ \A w \in L : Kept(L, q, h, w, x) /\ (~q => Kept(L, q, h, w, TRUE))
         /\ Kept(L, q, h, Unset, FALSE)
BY DEF Kept, Fine

(* The last of some positions.                                             *)
LEMMA LastOf ==
  ASSUME NEW l \in Nat, NEW S, S \subseteq 1 .. l, S # {}
  PROVE  \E j \in S : \A k \in j + 1 .. l : k \notin S
<1> DEFINE T == {l + 1 - i : i \in S}
<1>1. T \subseteq 1 .. l /\ T # {}
  <2>1. \A i \in S : i \in 1 .. l
    OBVIOUS
  <2>2. \A i \in S : l + 1 - i \in 1 .. l
    BY <2>1
  <2> QED
    BY <2>2
<1>2. PICK t \in T : \A k \in 1 .. t - 1 : k \notin T
  <2> HIDE DEF T
  <2> QED
    BY <1>1, FirstOf
<1>3. PICK j \in S : t = l + 1 - j
  BY <1>2
<1>4. ASSUME NEW k \in j + 1 .. l, k \in S PROVE FALSE
  <2>1. l + 1 - k \in T
    BY <1>4
  <2>2. l + 1 - k \in 1 .. t - 1
    BY <1>3, <1>4
  <2> QED
    BY <1>2, <2>1, <2>2
<1> QED
  BY <1>4

(* Where n is covered here, its innermost prefix is one that is here.      *)
LEMMA CoverTop ==
  ASSUME NEW s \in Stores, NEW st, Len(st) \in Nat, NEW n, NEW lv, NEW hm,
         Marked(s, st, n, lv, hm), Covered(st, n, hm, Len(st), Home(s, n))
  PROVE  \E d \in 1 .. Len(st) : /\ Covers(Nth(st, d), n) /\ hm[d] = Home(s, n)
                                 /\ \A e \in d + 1 .. Len(st) : ~Covers(Nth(st, e), n)
<1> DEFINE D == Len(st)
           h == Home(s, n)
           l == Len(s.scopes)
           S == {e \in 1 .. D : Covers(Nth(st, e), n)}
<1>1. PICK c \in 1 .. D : Covers(Nth(st, c), n) /\ hm[c] = h
  BY DEF Covered
<1>2. S \subseteq 1 .. D /\ c \in S
  BY <1>1
<1> HIDE DEF S
<1>3. PICK d \in S : \A e \in d + 1 .. D : e \notin S
  BY <1>2, LastOf
<1>4. l \in Nat /\ h \in 1 .. l /\ IsHome(s, n, l, h)
  BY StoreRead, HomeRead
<1>5. d \in 1 .. D /\ c <= d
  <2>1. d \in 1 .. D
    BY <1>2
  <2>2. ~(c \in d + 1 .. D)
    BY <1>2, <1>3
  <2> QED
    BY <2>1, <2>2
<1>6. /\ lv[c] \in Nat /\ lv[d] \in Nat /\ lv[c] <= lv[d] /\ lv[d] <= lv[D] /\ lv[D] = l
      /\ IsHome(s, n, lv[c], hm[c]) /\ IsHome(s, n, lv[d], hm[d])
  <2>1. D \in 1 .. D /\ d <= D
    BY <1>5
  <2> QED
    BY <1>1, <1>5, <2>1 DEF Marked
<1>7. h \in 1 .. lv[c]
  BY <1>1, <1>6 DEF IsHome
<1>8. lv[d] \in 1 .. l /\ h \in 1 .. lv[d]
  BY <1>4, <1>6, <1>7
<1>9. IsHome(s, n, lv[d], h)
  BY <1>4, <1>8, HomeLower
<1>10. hm[d] = h
  BY <1>6, <1>9, HomeOne
<1>11. \A e \in d + 1 .. D : e \in 1 .. D
  BY <1>5
<1> QED
  BY <1>3, <1>5, <1>10, <1>11 DEF S

(* The commands on n, with no frame more or less.                          *)
LEMMA ChangeClean ==
  ASSUME NEW s \in Stores, NEW u \in Stores, NEW n, Len(u.scopes) = Len(s.scopes), Held(s, u, n),
         NEW st, Len(st) \in Nat, NEW L, NEW q, Clean(s, st, n, L, q), Cell(u, n).readonly = FALSE,
         LET c == Cell(s, n)
             d == Cell(u, n)
         IN  /\ \A h : Kept(L, q, h, c.value, c.exported) => Kept(L, q, h, d.value, d.exported)
             /\ \/ Fine(L, q, u.environ[n])
                \/ /\ d.exported
                   /\ \A h : Kept(L, q, h, d.value, d.exported) => Fine(L, q, u.environ[n])
                \/ u.environ[n] = s.environ[n] /\ (c.exported => d.exported)
  PROVE  Clean(u, st, n, L, q)
<1> DEFINE h == Home(s, n)
           l == Len(s.scopes)
           c == Cell(s, n)
           d == Cell(u, n)
<1>1. PICK lv, hm : /\ Marked(s, st, n, lv, hm) /\ SlotsKept(st, n, hm, L, q)
                    /\ EntriesKept(s, st, n, hm, L, q) /\ EnvironFine(s, st, n, hm, L, q)
  BY DEF Clean
<1>2. /\ l \in Nat /\ h \in 1 .. l /\ Told(s, h, n) = c /\ Told(u, h, n) = d
      /\ Home(u, n) = h
      /\ \A i \in 2 .. l : In(u, i, n) <=> In(s, i, n)
      /\ \A g \in 1 .. l : g # h => Told(u, g, n) = Told(s, g, n)
  BY StoreRead, HomeRead, HeldRead
<1> HIDE DEF h, l, c, d
<1>3. Marked(u, st, n, lv, hm)
  <2>1. ASSUME NEW e \in 1 .. Len(st) PROVE IsHome(u, n, lv[e], hm[e])
    <3>1. Len(st) \in 1 .. Len(st) /\ e <= Len(st)
      OBVIOUS
    <3>2. lv[e] \in Nat /\ lv[e] <= l /\ IsHome(s, n, lv[e], hm[e])
      BY <1>1, <3>1 DEF Marked, l
    <3>3. lv[e] \in 1 .. l
      BY <1>2, <3>2 DEF IsHome
    <3> QED
      BY <1>2, <3>2, <3>3, OuterHome
  <2> QED
    BY <1>1, <2>1 DEF Marked
<1>4. EntriesKept(u, st, n, hm, L, q)
  <2> SUFFICES ASSUME NEW g \in 1 .. l
               PROVE  /\ ~Told(u, g, n).readonly
                      /\ \/ Covered(st, n, hm, Len(st), g)
                         \/ Kept(L, q, g, Told(u, g, n).value, Told(u, g, n).exported)
    BY DEF EntriesKept, l
  <2>1. /\ ~Told(s, g, n).readonly
        /\ \/ Covered(st, n, hm, Len(st), g)
           \/ Kept(L, q, g, Told(s, g, n).value, Told(s, g, n).exported)
    BY <1>1 DEF EntriesKept, l
  <2>2. CASE g # h
    BY <1>2, <2>1, <2>2
  <2>3. CASE g = h
    BY <1>2, <2>1, <2>3 DEF c, d
  <2> QED
    BY <2>2, <2>3
<1>5. ASSUME Covered(st, n, hm, Len(st), h), d.exported PROVE EnvironFine(u, st, n, hm, L, q)
  <2>1. \E e \in 1 .. Len(st) : /\ Covers(Nth(st, e), n) /\ hm[e] = h
                                /\ \A k \in e + 1 .. Len(st) : ~Covers(Nth(st, k), n)
    BY <1>2, <1>3, <1>5, CoverTop
  <2> QED
    BY <1>2, <1>5, <2>1 DEF EnvironFine
<1>6. EnvironFine(u, st, n, hm, L, q)
  <2>1. CASE Fine(L, q, u.environ[n])
    BY <2>1 DEF EnvironFine
  <2>2. CASE d.exported /\ \A g : Kept(L, q, g, d.value, d.exported) => Fine(L, q, u.environ[n])
    <3>1. CASE Covered(st, n, hm, Len(st), h)
      BY <1>5, <2>2, <3>1
    <3>2. CASE ~Covered(st, n, hm, Len(st), h)
      <4>1. Kept(L, q, h, d.value, d.exported)
        BY <1>2, <1>4, <3>2 DEF EntriesKept, l
      <4> QED
        BY <2>2, <4>1 DEF EnvironFine
    <3> QED
      BY <3>1, <3>2
  <2>3. CASE u.environ[n] = s.environ[n] /\ (c.exported => d.exported)
    <3>1. CASE Fine(L, q, s.environ[n])
      BY <2>3, <3>1 DEF EnvironFine
    <3>2. CASE \E e \in 1 .. Len(st) : /\ Covers(Nth(st, e), n) /\ Told(s, hm[e], n).exported
                                       /\ \A k \in e + 1 .. Len(st) : ~Covers(Nth(st, k), n)
      <4>1. PICK e \in 1 .. Len(st) : /\ Covers(Nth(st, e), n) /\ Told(s, hm[e], n).exported
                                      /\ \A k \in e + 1 .. Len(st) : ~Covers(Nth(st, k), n)
        BY <3>2
      <4>2. hm[e] \in 1 .. l
        <5>1. Len(st) \in 1 .. Len(st) /\ e <= Len(st)
          OBVIOUS
        <5>2. lv[e] \in Nat /\ lv[e] <= l /\ hm[e] \in 1 .. lv[e]
          BY <1>1, <5>1 DEF Marked, l, IsHome
        <5> QED
          BY <1>2, <5>2
      <4>3. Told(u, hm[e], n).exported
        BY <1>2, <2>3, <4>1, <4>2
      <4> QED
        BY <4>1, <4>3 DEF EnvironFine
    <3> QED
      BY <1>1, <3>1, <3>2 DEF EnvironFine
  <2> QED
    BY <2>1, <2>2, <2>3 DEF c, d
<1> QED
  BY <1>1, <1>3, <1>4, <1>6 DEF Clean

-----------------------------------------------------------------------------
(* The marks go on with a frame more.                                      *)
Grown(s, u, st, ts, n, hm) ==
  \E kv, km :
    /\ Marked(u, ts, n, kv, km) /\ km[Len(ts)] = Home(u, n)
    /\ \A d \in 1 .. Len(st) : km[d] = hm[d] /\ hm[d] \in 1 .. Len(s.scopes)
    /\ \A d \in 0 .. Len(st) : \A h : Covered(st, n, hm, d, h) <=> Covered(ts, n, km, d, h)

(* One height and one home more, for the frame on top.                     *)
LEMMA MarkedPush ==
  ASSUME NEW s \in Stores, NEW u \in Stores, NEW n, NEW F, NEW st \in Seq(F), NEW f \in F, st # <<>>,
         NEW lv, NEW hm, Marked(s, st, n, lv, hm), Len(u.scopes) = Len(s.scopes) + Deep(f),
         \A i \in 2 .. Len(s.scopes) : In(u, i, n) <=> In(s, i, n)
  PROVE  Grown(s, u, st, <<f>> \o st, n, hm)
<1> DEFINE ts == <<f>> \o st
           D == Len(st)
           l == Len(s.scopes)
           m == Len(u.scopes)
<1>2. /\ D \in Nat /\ D >= 1 /\ Len(ts) = D + 1 /\ Nth(ts, D + 1) = f
      /\ \A d \in 1 .. D : Nth(ts, d) = Nth(st, d)
  <2>1. D \in Nat /\ D >= 1
    BY LenProperties, EmptySeq
  <2> QED
    BY <2>1, NthPush
<1>3. /\ l \in Nat /\ l >= 1 /\ m \in Nat /\ m >= l /\ m = l + Deep(f)
      /\ (m = l \/ m = l + 1) /\ (m = l + 1 => Deep(f) = 1)
      /\ IsHome(u, n, m, Home(u, n)) /\ Home(u, n) \in 1 .. m
  <2>1. Deep(f) = 0 \/ Deep(f) = 1
    BY DEF Deep
  <2>2. l \in Nat /\ l >= 1 /\ IsHome(u, n, m, Home(u, n)) /\ Home(u, n) \in 1 .. m
    BY StoreRead, HomeRead
  <2> QED
    BY <2>1, <2>2
<1> HIDE DEF ts, D, l, m
<1> DEFINE kv == [d \in 1 .. D + 1 |-> IF d = D + 1 THEN m ELSE lv[d]]
           km == [d \in 1 .. D + 1 |-> IF d = D + 1 THEN Home(u, n) ELSE hm[d]]
<1>4. /\ kv[D + 1] = m /\ km[D + 1] = Home(u, n)
      /\ \A d \in 1 .. D : kv[d] = lv[d] /\ km[d] = hm[d]
      /\ \A d \in 1 .. D + 1 : d \in 1 .. D \/ d = D + 1
  BY <1>2
<1> HIDE DEF kv, km
<1>5. /\ \A d \in 1 .. D : lv[d] \in 1 .. l /\ IsHome(s, n, lv[d], hm[d]) /\ hm[d] \in 1 .. l
      /\ lv[D] = l /\ lv[1] = 1 /\ D \in 1 .. D /\ 1 \in 1 .. D
      /\ \A d \in 1 .. D : d > 1 => lv[d] = lv[d - 1] + Deep(Nth(st, d))
      /\ \A d, e \in 1 .. D : d <= e => lv[d] <= lv[e]
  <2>1. /\ lv[D] = l /\ lv[1] = 1
        /\ \A d \in 1 .. D : d > 1 => lv[d] = lv[d - 1] + Deep(Nth(st, d))
        /\ \A d, e \in 1 .. D : d <= e => lv[d] <= lv[e]
        /\ \A d \in 1 .. D : lv[d] \in Nat /\ IsHome(s, n, lv[d], hm[d])
    BY DEF Marked, D, l
  <2>2. D \in 1 .. D /\ 1 \in 1 .. D
    BY <1>2
  <2>3. \A d \in 1 .. D : lv[d] <= l /\ hm[d] \in 1 .. lv[d]
    BY <2>1, <2>2 DEF IsHome
  <2>4. \A d \in 1 .. D : lv[d] \in 1 .. l /\ hm[d] \in 1 .. l
    BY <1>3, <2>1, <2>3
  <2> QED
    BY <2>1, <2>2, <2>4
<1>6. Marked(u, ts, n, kv, km)
  <2>1. ASSUME NEW d \in 1 .. D + 1 PROVE kv[d] \in Nat /\ IsHome(u, n, kv[d], km[d]) /\ kv[d] <= m
    <3>1. CASE d \in 1 .. D
      <4>1. \A i \in 2 .. l : In(u, i, n) <=> In(s, i, n)
        BY <1>3 DEF l
      <4>2. lv[d] \in 1 .. l /\ IsHome(s, n, lv[d], hm[d])
        BY <1>5, <3>1
      <4>3. IsHome(u, n, lv[d], hm[d])
        BY <1>3, <4>1, <4>2, OuterHome
      <4>4. lv[d] \in Nat /\ lv[d] <= m
        BY <1>3, <4>2
      <4> QED
        BY <1>4, <3>1, <4>3, <4>4
    <3>2. CASE d = D + 1
      BY <1>3, <1>4, <3>2
    <3> QED
      BY <1>4, <3>1, <3>2
  <2>2. kv[1] = 1
    BY <1>4, <1>5
  <2>3. ASSUME NEW d \in 1 .. D + 1, d > 1 PROVE kv[d] = kv[d - 1] + Deep(Nth(ts, d))
    <3>1. CASE d \in 1 .. D
      <4>1. d - 1 \in 1 .. D
        BY <1>2, <2>3, <3>1
      <4> QED
        BY <1>2, <1>4, <1>5, <2>3, <3>1, <4>1
    <3>2. CASE d = D + 1
      <4>1. d - 1 = D
        BY <1>2, <3>2
      <4> QED
        BY <1>2, <1>3, <1>4, <1>5, <3>2, <4>1
    <3> QED
      BY <1>4, <3>1, <3>2
  <2>4. ASSUME NEW d \in 1 .. D + 1, NEW e \in 1 .. D + 1, d <= e PROVE kv[d] <= kv[e]
    <3>1. CASE e = D + 1
      BY <1>4, <2>1, <3>1
    <3>2. CASE e \in 1 .. D
      <4>1. d \in 1 .. D
        BY <1>2, <2>4, <3>2
      <4> QED
        BY <1>4, <1>5, <2>4, <3>2, <4>1
    <3> QED
      BY <1>4, <3>1, <3>2
  <2> QED
    BY <1>2, <1>4, <2>1, <2>2, <2>3, <2>4 DEF Marked, m
<1>7. \A d \in 0 .. D : \A h : Covered(st, n, hm, d, h) <=> Covered(ts, n, km, d, h)
  <2>1. \A d \in 0 .. D : \A e \in 1 .. d : e \in 1 .. D
    BY <1>2
  <2> QED
    BY <1>2, <1>4, <2>1 DEF Covered
<1> QED
  BY <1>2, <1>4, <1>5, <1>6, <1>7 DEF ts, D, l, Grown

(* A frame that does not cover n, on top.                                  *)
LEMMA PushClean ==
  ASSUME NEW s \in Stores, NEW u \in Stores, NEW n, NEW F, NEW st \in Seq(F), NEW f \in F, st # <<>>,
         NEW L, NEW q, Clean(s, st, n, L, q), Len(u.scopes) = Len(s.scopes) + Deep(f),
         Outer(s, u, n, Len(s.scopes)), u.environ[n] = s.environ[n], ~Covers(f, n),
         Deep(f) = 1 => LET c == Told(u, Len(u.scopes), n) IN ~c.readonly /\ ~c.exported
  PROVE  Clean(u, <<f>> \o st, n, L, q)
<1> DEFINE ts == <<f>> \o st
           D == Len(st)
           l == Len(s.scopes)
           m == Len(u.scopes)
<1>1. PICK lv, hm : /\ Marked(s, st, n, lv, hm) /\ SlotsKept(st, n, hm, L, q)
                    /\ EntriesKept(s, st, n, hm, L, q) /\ EnvironFine(s, st, n, hm, L, q)
  BY DEF Clean
<1>2. /\ D \in Nat /\ D >= 1 /\ Len(ts) = D + 1 /\ Nth(ts, D + 1) = f
      /\ \A d \in 1 .. D : Nth(ts, d) = Nth(st, d)
      /\ \A d \in 1 .. D + 1 : d \in 1 .. D \/ d = D + 1
  <2>1. D \in Nat /\ D >= 1
    BY LenProperties, EmptySeq
  <2> QED
    BY <2>1, NthPush
<1>3. l \in Nat /\ l >= 1 /\ m = l + Deep(f) /\ (m = l \/ m = l + 1) /\ (m = l + 1 => Deep(f) = 1)
  <2>1. Deep(f) = 0 \/ Deep(f) = 1
    BY DEF Deep
  <2>2. l \in Nat /\ l >= 1
    BY StoreRead
  <2> QED
    BY <2>1, <2>2
<1>4. PICK kv, km :
        /\ Marked(u, ts, n, kv, km)
        /\ \A d \in 1 .. D : km[d] = hm[d] /\ hm[d] \in 1 .. l
        /\ \A d \in 0 .. D : \A h : Covered(st, n, hm, d, h) <=> Covered(ts, n, km, d, h)
  <2>1. \A i \in 2 .. l : In(u, i, n) <=> In(s, i, n)
    BY <1>3 DEF Outer
  <2>2. Grown(s, u, st, ts, n, hm)
    BY <1>1, <2>1, MarkedPush
  <2> QED
    BY <1>2, <2>2 DEF Grown
<1> HIDE DEF ts, D, l, m
<1>8. SlotsKept(ts, n, km, L, q)
  <2> SUFFICES ASSUME NEW d \in 1 .. D + 1, NEW i \in 1 .. Len(Nth(ts, d).slots), First(Nth(ts, d), i, n)
               PROVE  \/ Covered(ts, n, km, d - 1, km[d])
                      \/ Kept(L, q, km[d], Nth(ts, d).slots[i].had, Nth(ts, d).slots[i].wasexp)
    BY <1>2 DEF SlotsKept
  <2>1. d \in 1 .. D
    <3>1. d # D + 1
      BY <1>2 DEF First, Covers
    <3> QED
      BY <1>2, <3>1
  <2>2. d - 1 \in 0 .. D
    BY <1>2, <2>1
  <2>3. Nth(ts, d) = Nth(st, d) /\ km[d] = hm[d]
    BY <1>2, <1>4, <2>1
  <2> QED
    BY <1>1, <1>4, <2>1, <2>2, <2>3 DEF SlotsKept, D
<1>9. \A h : Covered(st, n, hm, D, h) => Covered(ts, n, km, D + 1, h)
  <2>1. \A e \in 1 .. D : e \in 1 .. D + 1
    BY <1>2
  <2> QED
    BY <1>2, <1>4, <2>1 DEF Covered
<1>10. EntriesKept(u, ts, n, km, L, q)
  <2> SUFFICES ASSUME NEW h \in 1 .. m
               PROVE  /\ ~Told(u, h, n).readonly
                      /\ \/ Covered(ts, n, km, D + 1, h)
                         \/ Kept(L, q, h, Told(u, h, n).value, Told(u, h, n).exported)
    BY <1>2 DEF EntriesKept, m
  <2>1. CASE h \in 1 .. l
    <3>1. Told(u, h, n) = Told(s, h, n)
      BY <2>1 DEF Outer, l
    <3>2. /\ ~Told(s, h, n).readonly
          /\ \/ Covered(st, n, hm, D, h)
             \/ Kept(L, q, h, Told(s, h, n).value, Told(s, h, n).exported)
      BY <1>1, <2>1 DEF EntriesKept, l, D
    <3> QED
      BY <1>9, <3>1, <3>2
  <2>2. CASE h \notin 1 .. l
    <3>1. h = m /\ Deep(f) = 1 /\ h # 1
      BY <1>3, <2>2
    <3>2. ~Told(u, h, n).readonly /\ ~Told(u, h, n).exported
      BY <3>1 DEF m
    <3> QED
      BY <3>1, <3>2 DEF Kept
  <2> QED
    BY <2>1, <2>2
<1>11. EnvironFine(u, ts, n, km, L, q)
  <2>1. CASE Fine(L, q, s.environ[n])
    BY <2>1 DEF EnvironFine
  <2>2. CASE \E d \in 1 .. D : /\ Covers(Nth(st, d), n) /\ Told(s, hm[d], n).exported
                               /\ \A e \in d + 1 .. D : ~Covers(Nth(st, e), n)
    <3>1. PICK d \in 1 .. D : /\ Covers(Nth(st, d), n) /\ Told(s, hm[d], n).exported
                              /\ \A e \in d + 1 .. D : ~Covers(Nth(st, e), n)
      BY <2>2
    <3>2. d \in 1 .. D + 1 /\ \A e \in d + 1 .. D + 1 : e = D + 1 \/ (e \in d + 1 .. D /\ e \in 1 .. D)
      BY <1>2
    <3>3. Covers(Nth(ts, d), n) /\ \A e \in d + 1 .. D + 1 : ~Covers(Nth(ts, e), n)
      BY <1>2, <3>1, <3>2
    <3>4. Told(u, km[d], n).exported
      <4>1. km[d] = hm[d] /\ hm[d] \in 1 .. l
        BY <1>4
      <4> QED
        BY <3>1, <4>1 DEF Outer, l
    <3> QED
      BY <1>2, <3>2, <3>3, <3>4 DEF EnvironFine
  <2> QED
    BY <1>1, <2>1, <2>2 DEF EnvironFine, D
<1> QED
  BY <1>4, <1>8, <1>10, <1>11 DEF Clean, ts

(* The first slot for n is of what was there.                              *)
Records(s, f, n) ==
  \A i \in 1 .. Len(f.slots) : First(f, i, n) =>
    f.slots[i].had = Cell(s, n).value /\ f.slots[i].wasexp = Cell(s, n).exported

(* A frame that covers n, on top.                                          *)
LEMMA CoverClean ==
  ASSUME NEW s \in Stores, NEW u \in Stores, NEW n, NEW F, NEW st \in Seq(F), NEW f \in F, st # <<>>,
         NEW L, NEW q, Clean(s, st, n, L, q), Len(u.scopes) = Len(s.scopes), Deep(f) = 0,
         Held(s, u, n), Covers(f, n), Cell(u, n).exported, ~Cell(u, n).readonly,
         Records(s, f, n)
  PROVE  Clean(u, <<f>> \o st, n, L, q)
<1> DEFINE ts == <<f>> \o st
           D == Len(st)
           l == Len(s.scopes)
           h == Home(s, n)
<1>1. PICK lv, hm : /\ Marked(s, st, n, lv, hm) /\ SlotsKept(st, n, hm, L, q)
                    /\ EntriesKept(s, st, n, hm, L, q) /\ EnvironFine(s, st, n, hm, L, q)
  BY DEF Clean
<1>2. /\ D \in Nat /\ D >= 1 /\ Len(ts) = D + 1 /\ Nth(ts, D + 1) = f
      /\ \A d \in 1 .. D : Nth(ts, d) = Nth(st, d)
      /\ \A d \in 1 .. D + 1 : d \in 1 .. D \/ d = D + 1
  <2>1. D \in Nat /\ D >= 1
    BY LenProperties, EmptySeq
  <2> QED
    BY <2>1, NthPush
<1>3. /\ l \in Nat /\ Len(u.scopes) = l
      /\ h \in 1 .. l /\ Told(s, h, n) = Cell(s, n) /\ Told(u, h, n) = Cell(u, n) /\ Home(u, n) = h
      /\ \A i \in 2 .. l : In(u, i, n) <=> In(s, i, n)
      /\ \A g \in 1 .. l : g # h => Told(u, g, n) = Told(s, g, n)
  BY StoreRead, HomeRead, HeldRead
<1>4. PICK kv, km :
        /\ Marked(u, ts, n, kv, km) /\ km[D + 1] = h
        /\ \A d \in 1 .. D : km[d] = hm[d]
        /\ \A d \in 0 .. D : \A g : Covered(st, n, hm, d, g) <=> Covered(ts, n, km, d, g)
  <2>1. Len(u.scopes) = Len(s.scopes) + Deep(f)
    BY <1>3
  <2>2. Grown(s, u, st, ts, n, hm)
    BY <1>1, <1>3, <2>1, MarkedPush
  <2> QED
    BY <1>2, <1>3, <2>2 DEF Grown
<1> HIDE DEF ts, D, l, h
<1>5. SlotsKept(ts, n, km, L, q)
  <2> SUFFICES ASSUME NEW d \in 1 .. D + 1, NEW i \in 1 .. Len(Nth(ts, d).slots), First(Nth(ts, d), i, n)
               PROVE  \/ Covered(ts, n, km, d - 1, km[d])
                      \/ Kept(L, q, km[d], Nth(ts, d).slots[i].had, Nth(ts, d).slots[i].wasexp)
    BY <1>2 DEF SlotsKept
  <2>1. CASE d \in 1 .. D
    <3>1. d - 1 \in 0 .. D
      BY <1>2, <2>1
    <3>2. Nth(ts, d) = Nth(st, d) /\ km[d] = hm[d]
      BY <1>2, <1>4, <2>1
    <3> QED
      BY <1>1, <1>4, <2>1, <3>1, <3>2 DEF SlotsKept, D
  <2>2. CASE d = D + 1
    <3>1. /\ Nth(ts, d) = f /\ km[d] = h /\ d - 1 = D /\ D \in 0 .. D
      BY <1>2, <1>4, <2>2
    <3>2. \/ Covered(st, n, hm, D, h)
          \/ Kept(L, q, h, Told(s, h, n).value, Told(s, h, n).exported)
      BY <1>1, <1>3 DEF EntriesKept, l, D
    <3>3. f.slots[i].had = Told(s, h, n).value /\ f.slots[i].wasexp = Told(s, h, n).exported
      BY <1>3, <3>1 DEF Records
    <3> QED
      BY <1>4, <3>1, <3>2, <3>3
  <2> QED
    BY <1>2, <2>1, <2>2
<1>6. /\ Covered(ts, n, km, D + 1, h)
      /\ \A g : Covered(st, n, hm, D, g) => Covered(ts, n, km, D + 1, g)
  <2>1. D + 1 \in 1 .. D + 1 /\ \A e \in 1 .. D : e \in 1 .. D + 1
    BY <1>2
  <2> QED
    BY <1>2, <1>4, <2>1 DEF Covered
<1>7. EntriesKept(u, ts, n, km, L, q)
  <2> SUFFICES ASSUME NEW g \in 1 .. l
               PROVE  /\ ~Told(u, g, n).readonly
                      /\ \/ Covered(ts, n, km, D + 1, g)
                         \/ Kept(L, q, g, Told(u, g, n).value, Told(u, g, n).exported)
    BY <1>2, <1>3 DEF EntriesKept
  <2>1. CASE g = h
    BY <1>3, <1>6, <2>1
  <2>2. CASE g # h
    <3>1. /\ ~Told(s, g, n).readonly
          /\ \/ Covered(st, n, hm, D, g)
             \/ Kept(L, q, g, Told(s, g, n).value, Told(s, g, n).exported)
      BY <1>1 DEF EntriesKept, l, D
    <3> QED
      BY <1>3, <1>6, <2>2, <3>1
  <2> QED
    BY <2>1, <2>2
<1>8. EnvironFine(u, ts, n, km, L, q)
  <2>1. D + 1 \in 1 .. D + 1 /\ \A e \in (D + 1) + 1 .. D + 1 : FALSE
    BY <1>2
  <2>2. Covers(Nth(ts, D + 1), n) /\ Told(u, km[D + 1], n).exported
    BY <1>2, <1>3, <1>4
  <2> QED
    BY <1>2, <2>1, <2>2 DEF EnvironFine
<1> QED
  BY <1>4, <1>5, <1>7, <1>8 DEF Clean, ts

(* The marks go on with a frame less.                                      *)
LEMMA MarkedPop ==
  ASSUME NEW s \in Stores, NEW u \in Stores, NEW n, NEW F, NEW st \in Seq(F), Len(st) > 1,
         NEW lv, NEW hm, Marked(s, st, n, lv, hm), Len(s.scopes) = Len(u.scopes) + Deep(Head(st)),
         \A i \in 2 .. Len(u.scopes) : In(u, i, n) <=> In(s, i, n)
  PROVE  LET ts == Tail(st)
         IN  /\ Marked(u, ts, n, lv, hm) /\ hm[Len(st)] = Home(s, n)
             /\ \A d \in 1 .. Len(st) - 1 : hm[d] \in 1 .. Len(u.scopes)
             /\ \A d \in 0 .. Len(st) - 1 : \A h :
                  Covered(st, n, hm, d, h) <=> Covered(ts, n, hm, d, h)
<1> DEFINE ts == Tail(st)
           D == Len(st)
           l == Len(s.scopes)
           m == Len(u.scopes)
           f == Head(st)
<1>1. D \in Nat /\ st # <<>>
  BY LenProperties, EmptySeq
<1>2. Len(ts) = D - 1 /\ Nth(st, D) = f /\ \A d \in 1 .. D - 1 : Nth(ts, d) = Nth(st, d)
  BY <1>1, NthPop
<1>3. /\ l \in Nat /\ m \in Nat /\ m >= 1 /\ l = m + Deep(f) /\ Deep(f) \in Nat
      /\ IsHome(s, n, l, Home(s, n))
  BY StoreRead, HomeRead DEF Deep
<1>4. D > 1
  OBVIOUS
<1>5. \A i \in 2 .. m : In(u, i, n) <=> In(s, i, n)
  OBVIOUS
<1> HIDE DEF ts, D, l, m, f
<1>6. /\ lv[D] = l /\ lv[1] = 1
      /\ \A d \in 1 .. D : d > 1 => lv[d] = lv[d - 1] + Deep(Nth(st, d))
      /\ \A d, e \in 1 .. D : d <= e => lv[d] <= lv[e]
      /\ \A d \in 1 .. D : lv[d] \in Nat /\ IsHome(s, n, lv[d], hm[d])
  BY DEF Marked, D, l
<1>7. /\ D \in 1 .. D /\ D - 1 \in 1 .. D - 1
      /\ \A d \in 1 .. D - 1 : d \in 1 .. D /\ d <= D - 1 /\ D - 1 \in 1 .. D
      /\ \A d \in 1 .. D - 1 : d > 1 => d - 1 \in 1 .. D - 1
  BY <1>1, <1>4
<1>8. lv[D - 1] = m
  <2>1. lv[D] = lv[D - 1] + Deep(f)
    BY <1>2, <1>4, <1>6, <1>7
  <2>2. lv[D - 1] \in Nat
    BY <1>6, <1>7
  <2> QED
    BY <1>3, <1>6, <2>1, <2>2
<1>9. hm[D] = Home(s, n)
  <2>1. IsHome(s, n, l, hm[D])
    BY <1>6, <1>7
  <2> QED
    BY <1>3, <2>1, HomeOne
<1>10. ASSUME NEW d \in 1 .. D - 1
       PROVE  lv[d] \in Nat /\ IsHome(u, n, lv[d], hm[d]) /\ hm[d] \in 1 .. m
  <2>1. lv[d] \in Nat /\ lv[d] <= m /\ IsHome(s, n, lv[d], hm[d])
    BY <1>6, <1>7, <1>8
  <2>2. hm[d] \in 1 .. lv[d]
    BY <2>1 DEF IsHome
  <2>3. lv[d] \in 1 .. m /\ hm[d] \in 1 .. m
    BY <1>3, <2>1, <2>2
  <2>4. IsHome(u, n, lv[d], hm[d])
    BY <1>3, <1>5, <2>1, <2>3, OuterHome
  <2> QED
    BY <2>1, <2>3, <2>4
<1>11. Marked(u, ts, n, lv, hm)
  BY <1>2, <1>6, <1>7, <1>8, <1>10 DEF Marked, m
<1>12. \A d \in 0 .. D - 1 : \A h : Covered(st, n, hm, d, h) <=> Covered(ts, n, hm, d, h)
  <2>1. \A d \in 0 .. D - 1 : \A e \in 1 .. d : e \in 1 .. D - 1
    BY <1>1
  <2> QED
    BY <1>2, <2>1 DEF Covered
<1> QED
  BY <1>9, <1>10, <1>11, <1>12 DEF ts, D, m

(* That frame had covered n or not.                                        *)
LEMMA SlotsPop ==
  ASSUME NEW n, NEW F, NEW st \in Seq(F), Len(st) > 1, NEW hm, NEW L, NEW q,
         SlotsKept(st, n, hm, L, q),
         \A d \in 0 .. Len(st) - 1 : \A h :
           Covered(st, n, hm, d, h) <=> Covered(Tail(st), n, hm, d, h)
  PROVE  SlotsKept(Tail(st), n, hm, L, q)
<1> DEFINE ts == Tail(st)
           D == Len(st)
<1>1. D \in Nat /\ st # <<>>
  BY LenProperties, EmptySeq
<1>2. Len(ts) = D - 1 /\ \A d \in 1 .. D - 1 : Nth(ts, d) = Nth(st, d)
  BY <1>1, NthPop
<1> HIDE DEF ts, D
<1>3. \A d \in 1 .. D - 1 : d \in 1 .. D /\ d - 1 \in 0 .. D - 1
  BY <1>1
<1>4. \A d \in 0 .. D - 1 : \A h : Covered(st, n, hm, d, h) <=> Covered(ts, n, hm, d, h)
  BY DEF ts, D
<1> SUFFICES ASSUME NEW d \in 1 .. D - 1, NEW i \in 1 .. Len(Nth(ts, d).slots), First(Nth(ts, d), i, n)
             PROVE  \/ Covered(ts, n, hm, d - 1, hm[d])
                    \/ Kept(L, q, hm[d], Nth(ts, d).slots[i].had, Nth(ts, d).slots[i].wasexp)
  BY <1>2 DEF SlotsKept, ts
<1> QED
  BY <1>2, <1>3, <1>4 DEF SlotsKept, D

(* A command ends that has no prefix on n: n goes on as it was under it.   *)
LEMMA PopClean ==
  ASSUME NEW s \in Stores, NEW u \in Stores, NEW n, NEW F, NEW st \in Seq(F), Len(st) > 1,
         NEW L, NEW q, Clean(s, st, n, L, q), Len(s.scopes) = Len(u.scopes) + Deep(Head(st)),
         Outer(s, u, n, Len(u.scopes)), u.environ[n] = s.environ[n], ~Covers(Head(st), n)
  PROVE  Clean(u, Tail(st), n, L, q)
<1> DEFINE ts == Tail(st)
           D == Len(st)
           l == Len(s.scopes)
           m == Len(u.scopes)
<1>1. PICK lv, hm : /\ Marked(s, st, n, lv, hm) /\ SlotsKept(st, n, hm, L, q)
                    /\ EntriesKept(s, st, n, hm, L, q) /\ EnvironFine(s, st, n, hm, L, q)
  BY DEF Clean
<1>2. D \in Nat /\ st # <<>>
  BY LenProperties, EmptySeq
<1>3. /\ Len(ts) = D - 1 /\ Nth(st, D) = Head(st) /\ \A d \in 1 .. D - 1 : Nth(ts, d) = Nth(st, d)
      /\ \A d \in 1 .. D : d \in 1 .. D - 1 \/ d = D
      /\ \A d \in 1 .. D - 1 : d \in 1 .. D /\ \A e \in d + 1 .. D - 1 : e \in 1 .. D - 1 /\ e \in d + 1 .. D
  BY <1>2, NthPop
<1>4. l \in Nat /\ m \in Nat /\ \A h \in 1 .. m : h \in 1 .. l
  <2>1. Deep(Head(st)) \in Nat
    BY DEF Deep
  <2> QED
    BY <2>1, StoreRead
<1>5. /\ Marked(u, ts, n, lv, hm)
      /\ \A d \in 1 .. D - 1 : hm[d] \in 1 .. m
      /\ \A d \in 0 .. D - 1 : \A h : Covered(st, n, hm, d, h) <=> Covered(ts, n, hm, d, h)
  <2>1. \A i \in 2 .. m : In(u, i, n) <=> In(s, i, n)
    BY <1>4 DEF Outer
  <2> QED
    BY <1>1, <2>1, MarkedPop
<1>6. SlotsKept(ts, n, hm, L, q)
  BY <1>1, <1>5, SlotsPop
<1> HIDE DEF ts, D, l, m
<1>7. ~Covers(Nth(st, D), n)
  BY <1>3
<1>8. \A h : Covered(st, n, hm, D, h) => Covered(ts, n, hm, D - 1, h)
  <2> SUFFICES ASSUME NEW h, NEW e \in 1 .. D, Covers(Nth(st, e), n), hm[e] = h
               PROVE  Covered(ts, n, hm, D - 1, h)
    BY DEF Covered
  <2>1. e \in 1 .. D - 1
    BY <1>3, <1>7
  <2> QED
    BY <1>3, <2>1 DEF Covered
<1>9. EntriesKept(u, ts, n, hm, L, q)
  <2> SUFFICES ASSUME NEW h \in 1 .. m
               PROVE  /\ ~Told(u, h, n).readonly
                      /\ \/ Covered(ts, n, hm, D - 1, h)
                         \/ Kept(L, q, h, Told(u, h, n).value, Told(u, h, n).exported)
    BY <1>3 DEF EntriesKept, m
  <2>1. Told(u, h, n) = Told(s, h, n)
    BY DEF Outer, m
  <2>2. /\ ~Told(s, h, n).readonly
        /\ \/ Covered(st, n, hm, D, h)
           \/ Kept(L, q, h, Told(s, h, n).value, Told(s, h, n).exported)
    BY <1>1, <1>4 DEF EntriesKept, l, D
  <2> QED
    BY <1>8, <2>1, <2>2
<1>10. EnvironFine(u, ts, n, hm, L, q)
  <2>1. CASE Fine(L, q, s.environ[n])
    BY <2>1 DEF EnvironFine
  <2>2. CASE \E d \in 1 .. D : /\ Covers(Nth(st, d), n) /\ Told(s, hm[d], n).exported
                               /\ \A e \in d + 1 .. D : ~Covers(Nth(st, e), n)
    <3>1. PICK d \in 1 .. D : /\ Covers(Nth(st, d), n) /\ Told(s, hm[d], n).exported
                              /\ \A e \in d + 1 .. D : ~Covers(Nth(st, e), n)
      BY <2>2
    <3>2. d \in 1 .. D - 1
      BY <1>3, <1>7, <3>1
    <3>3. Told(u, hm[d], n).exported
      BY <1>5, <3>1, <3>2 DEF Outer, m
    <3>4. Covers(Nth(ts, d), n) /\ \A e \in d + 1 .. D - 1 : ~Covers(Nth(ts, e), n)
      BY <1>3, <3>1, <3>2
    <3> QED
      BY <1>3, <3>2, <3>3, <3>4 DEF EnvironFine
  <2> QED
    BY <1>1, <2>1, <2>2 DEF EnvironFine, D
<1> QED
  BY <1>5, <1>6, <1>9, <1>10 DEF Clean, ts

(* What the first slot for n holds is back.                                *)
PutBack(u, f, n) ==
  \A i \in 1 .. Len(f.slots) : First(f, i, n) =>
    /\ Cell(u, n).value = f.slots[i].had
    /\ Cell(u, n).exported => f.slots[i].wasexp /\ u.environ[n] = f.slots[i].had

(* A command ends whose prefix assigned n: what it found is back, which is *)
(* of a prefix further out or may last.                                    *)
LEMMA UncoverClean ==
  ASSUME NEW s \in Stores, NEW u \in Stores, NEW n, NEW F, NEW st \in Seq(F), Len(st) > 1,
         NEW L, Unset \in L, NEW q \in BOOLEAN, Clean(s, st, n, L, q),
         Len(u.scopes) = Len(s.scopes), Deep(Head(st)) = 0, Covers(Head(st), n),
         Len(Head(st).slots) \in Nat, \A i \in 1 .. Len(Head(st).slots) : Head(st).slots[i].wasexp \in BOOLEAN,
         Abides(s, u, n), PutBack(u, Head(st), n)
  PROVE  Clean(u, Tail(st), n, L, q)
<1> DEFINE ts == Tail(st)
           D == Len(st)
           l == Len(s.scopes)
           h == Home(s, n)
           c == Cell(u, n)
           f == Head(st)
<1>1. PICK lv, hm : /\ Marked(s, st, n, lv, hm) /\ SlotsKept(st, n, hm, L, q)
                    /\ EntriesKept(s, st, n, hm, L, q) /\ EnvironFine(s, st, n, hm, L, q)
  BY DEF Clean
<1>2. D \in Nat /\ st # <<>> /\ D > 1
  BY LenProperties, EmptySeq
<1>3. /\ Len(ts) = D - 1 /\ Nth(st, D) = f /\ D \in 1 .. D
      /\ \A d \in 1 .. D - 1 : Nth(ts, d) = Nth(st, d)
      /\ \A d \in 1 .. D : d \in 1 .. D - 1 \/ d = D
  BY <1>2, NthPop
<1>4. /\ l \in Nat /\ Len(u.scopes) = l
      /\ h \in 1 .. l /\ Told(s, h, n) = Cell(s, n) /\ Told(u, h, n) = c /\ Home(u, n) = h
      /\ \A i \in 2 .. l : In(u, i, n) <=> In(s, i, n)
      /\ \A g \in 1 .. l : g # h => Told(u, g, n) = Told(s, g, n)
  BY StoreRead, HomeRead, HeldRead DEF Abides
<1>5. /\ Marked(u, ts, n, lv, hm) /\ hm[D] = h
      /\ \A d \in 0 .. D - 1 : \A g : Covered(st, n, hm, d, g) <=> Covered(ts, n, hm, d, g)
  <2>1. Len(s.scopes) = Len(u.scopes) + Deep(Head(st))
    BY <1>4
  <2> QED
    BY <1>1, <1>4, <2>1, MarkedPop, SMTT(40)
<1>6. SlotsKept(ts, n, hm, L, q)
  BY <1>1, <1>5, SlotsPop
<1>7. PICK i \in 1 .. Len(f.slots) : First(f, i, n)
  <2> DEFINE S == {i \in 1 .. Len(f.slots) : f.slots[i].name = n}
  <2>1. S \subseteq 1 .. Len(f.slots) /\ S # {}
    BY DEF Covers
  <2> HIDE DEF S
  <2>2. PICK i \in S : \A k \in 1 .. i - 1 : k \notin S
    BY <2>1, FirstOf
  <2>3. i \in 1 .. Len(f.slots) /\ \A k \in 1 .. i - 1 : k \in 1 .. Len(f.slots)
    BY <2>1, <2>2
  <2> QED
    BY <2>2, <2>3 DEF S, First
<1> DEFINE had == f.slots[i].had
           was == f.slots[i].wasexp
<1>8. c.value = had /\ (c.exported => was /\ u.environ[n] = had) /\ was \in BOOLEAN
  BY <1>7 DEF PutBack
<1>9. Covered(ts, n, hm, D - 1, h) \/ Kept(L, q, h, had, was)
  <2>1. Covered(st, n, hm, D - 1, h) \/ Kept(L, q, h, had, was)
    BY <1>1, <1>3, <1>5, <1>7 DEF SlotsKept
  <2>2. D - 1 \in 0 .. D - 1
    BY <1>2
  <2> QED
    BY <1>5, <2>1, <2>2
<1>10. ~c.readonly /\ c.exported \in BOOLEAN /\ Cell(s, n).exported \in BOOLEAN
  <2>1. ~Told(s, h, n).readonly
    BY <1>1, <1>4 DEF EntriesKept
  <2> QED
    BY <1>4, <2>1, CellRead, BindingRead DEF Abides
<1> HIDE DEF ts, D, l, h, c, f, had, was
<1>11. \A g : g # h /\ Covered(st, n, hm, D, g) => Covered(ts, n, hm, D - 1, g)
  <2> SUFFICES ASSUME NEW e \in 1 .. D, Covers(Nth(st, e), n), hm[e] # h
               PROVE  Covered(ts, n, hm, D - 1, hm[e])
    BY DEF Covered
  <2>1. e \in 1 .. D - 1
    BY <1>3, <1>5
  <2> QED
    BY <1>3, <2>1 DEF Covered
<1>12. EntriesKept(u, ts, n, hm, L, q)
  <2> SUFFICES ASSUME NEW g \in 1 .. l
               PROVE  /\ ~Told(u, g, n).readonly
                      /\ \/ Covered(ts, n, hm, D - 1, g)
                         \/ Kept(L, q, g, Told(u, g, n).value, Told(u, g, n).exported)
    BY <1>3, <1>4 DEF EntriesKept
  <2>1. CASE g # h
    <3>1. /\ ~Told(s, g, n).readonly
          /\ \/ Covered(st, n, hm, D, g)
             \/ Kept(L, q, g, Told(s, g, n).value, Told(s, g, n).exported)
      BY <1>1 DEF EntriesKept, l, D
    <3> QED
      BY <1>4, <1>11, <2>1, <3>1
  <2>2. CASE g = h
    <3>1. Kept(L, q, h, had, was) => Kept(L, q, h, had, c.exported)
      BY <1>8, <1>10, KeptFine
    <3> QED
      BY <1>4, <1>8, <1>9, <1>10, <2>2, <3>1
  <2> QED
    BY <2>1, <2>2
<1>13. EnvironFine(u, ts, n, hm, L, q)
  <2>1. CASE u.environ[n] = Unset
    <3>1. Fine(L, q, Unset)
      BY DEF Fine
    <3> QED
      BY <2>1, <3>1 DEF EnvironFine
  <2>2. CASE c.exported
    <3>1. CASE Covered(ts, n, hm, D - 1, h)
      <4>1. Len(ts) \in Nat
        BY <1>2, <1>3
      <4>2. \E d \in 1 .. Len(ts) : /\ Covers(Nth(ts, d), n) /\ hm[d] = h
                                    /\ \A e \in d + 1 .. Len(ts) : ~Covers(Nth(ts, e), n)
        BY <1>3, <1>4, <1>5, <3>1, <4>1, CoverTop
      <4> QED
        BY <1>4, <2>2, <4>2 DEF EnvironFine
    <3>2. CASE Kept(L, q, h, had, was)
      <4>1. Fine(L, q, had)
        BY <1>8, <2>2, <3>2, KeptFine
      <4> QED
        BY <1>8, <2>2, <4>1 DEF EnvironFine
    <3> QED
      BY <1>9, <3>1, <3>2
  <2>3. CASE u.environ[n] = s.environ[n] /\ ~Cell(s, n).exported
    <3>1. CASE Fine(L, q, s.environ[n])
      BY <2>3, <3>1 DEF EnvironFine
    <3>2. CASE \E d \in 1 .. D : /\ Covers(Nth(st, d), n) /\ Told(s, hm[d], n).exported
                                 /\ \A e \in d + 1 .. D : ~Covers(Nth(st, e), n)
      <4>1. PICK d \in 1 .. D : /\ Covers(Nth(st, d), n) /\ Told(s, hm[d], n).exported
                                /\ \A e \in d + 1 .. D : ~Covers(Nth(st, e), n)
        BY <3>2
      <4>2. d \in 1 .. D - 1 => D \in d + 1 .. D
        BY <1>2
      <4>3. d = D
        BY <1>3, <4>1, <4>2 DEF f
      <4> QED
        BY <1>4, <1>5, <2>3, <4>1, <4>3
    <3> QED
      BY <1>1, <3>1, <3>2 DEF EnvironFine, D
  <2> QED
    BY <2>1, <2>2, <2>3 DEF Abides, c
<1> QED
  BY <1>5, <1>6, <1>12, <1>13 DEF Clean, ts

-----------------------------------------------------------------------------
(* The scope of a function, new and with its prefix.                       *)
Mild(c) == ~c.readonly /\ ~c.exported

(* vars_push_scope: an empty scope over the others.                        *)
LEMMA PushScopeView ==
  ASSUME NEW s \in Stores
  PROVE  LET u == VarsPushScope(s)
         IN  /\ u \in Stores /\ Len(u.scopes) = Len(s.scopes) + 1 /\ u.environ = s.environ
             /\ DOMAIN u.scopes[1] = {}
             /\ \A j \in 1 .. Len(s.scopes) : u.scopes[j + 1] = s.scopes[j]
<1> DEFINE u == VarsPushScope(s)
<1>1. u \in Stores /\ Len(u.scopes) = Len(s.scopes) + 1
  BY PushGuards
<1>2. s.scopes \in Seq(Scope) /\ s = [scopes |-> s.scopes, environ |-> s.environ]
  BY StoreRead
<1>3. u.scopes = <<EmptyScope>> \o s.scopes /\ u.environ = s.environ
  BY <1>2 DEF VarsPushScope
<1> HIDE DEF u
<1>4. EmptyScope \in Scope /\ DOMAIN EmptyScope = {}
  BY DEF EmptyScope, Scope
<1>5. u.scopes[1] = EmptyScope /\ \A j \in 1 .. Len(s.scopes) : u.scopes[j + 1] = s.scopes[j]
  <2> HIDE DEF EmptyScope
  <2> QED
    BY <1>2, <1>3, <1>4
<1> QED
  BY <1>1, <1>3, <1>4, <1>5 DEF u

(* vars_pop_scope: the others.                                             *)
LEMMA PopScopeView ==
  ASSUME NEW s \in Stores, Len(s.scopes) > 1
  PROVE  LET u == VarsPopScope(s)
         IN  /\ u \in Stores /\ Len(u.scopes) = Len(s.scopes) - 1 /\ u.environ = s.environ
             /\ \A j \in 1 .. Len(s.scopes) - 1 : u.scopes[j] = s.scopes[j + 1]
<1> DEFINE u == VarsPopScope(s)
<1>1. u \in Stores /\ Len(u.scopes) = Len(s.scopes) - 1
  BY PopGuards
<1>2. s.scopes \in Seq(Scope) /\ s = [scopes |-> s.scopes, environ |-> s.environ] /\ Global(s) # 1
  BY StoreRead
<1>3. u.scopes = Tail(s.scopes) /\ u.environ = s.environ
  BY <1>2 DEF VarsPopScope
<1> HIDE DEF u
<1>4. \A j \in 1 .. Len(s.scopes) - 1 : u.scopes[j] = s.scopes[j + 1]
  BY <1>2, <1>3
<1> QED
  BY <1>1, <1>3, <1>4 DEF u

(* The two as heights see them: an inner scope more or less.               *)
LEMMA ScopeOuter ==
  ASSUME NEW s \in Stores, NEW u \in Stores, NEW n, Len(u.scopes) = Len(s.scopes) + 1,
         \A j \in 1 .. Len(s.scopes) : u.scopes[j + 1] = s.scopes[j]
  PROVE  /\ Outer(s, u, n, Len(s.scopes)) /\ Outer(u, s, n, Len(s.scopes))
         /\ Told(u, Len(u.scopes), n) = Entry(u, 1, n)
<1> DEFINE l == Len(s.scopes)
           m == Len(u.scopes)
<1>1. l \in Nat /\ m = l + 1
  BY StoreRead
<1> HIDE DEF l, m
<1>2. ASSUME NEW h \in 1 .. l
      PROVE  Told(u, h, n) = Told(s, h, n) /\ (In(u, h, n) <=> In(s, h, n))
  <2>1. l + 1 - h \in 1 .. l /\ m + 1 - h = (l + 1 - h) + 1
    BY <1>1
  <2>2. u.scopes[m + 1 - h] = s.scopes[l + 1 - h]
    BY <2>1 DEF l
  <2> QED
    BY <2>2 DEF Told, In, Entry, l, m
<1>3. m + 1 - m = 1
  BY <1>1
<1> QED
  BY <1>2, <1>3 DEF Outer, Told, l, m

(* vars_set_local writes the innermost scope, and neither exports nor      *)
(* protects.                                                               *)
LEMMA SetLocalView ==
  ASSUME NEW s \in Stores, NEW a \in Prefix, \A n \in DOMAIN s.scopes[1] : Mild(s.scopes[1][n])
  PROVE  LET u == VarsSetLocal(s, a.name, a.value)
         IN  /\ u \in Stores /\ Len(u.scopes) = Len(s.scopes) /\ u.environ = s.environ
             /\ \A n \in DOMAIN u.scopes[1] : Mild(u.scopes[1][n])
             /\ \A j \in 1 .. Len(s.scopes) : j # 1 => u.scopes[j] = s.scopes[j]
<1> DEFINE n == a.name
           v == a.value
           b == Bound(v, FALSE, FALSE)
           u == VarsSetLocal(s, n, v)
<1>1. n \in Names /\ v \in Values \cup {Unset}
  BY DEF Prefix
<1>2. 1 \in 1 .. Len(s.scopes)
  BY StoreRead
<1> HIDE DEF n, v
<1>3. b \in Binding /\ Mild(b)
  BY <1>1 DEF Bound, Binding, Mild
<1>4. u = Put(s, 1, n, b)
  <2>1. CASE n \notin DOMAIN s.scopes[1]
    BY <2>1 DEF VarsSetLocal, VarsIsLocal
  <2>2. CASE n \in DOMAIN s.scopes[1]
    <3> DEFINE c == s.scopes[1][n]
    <3>1. c \in Binding /\ Mild(c)
      BY <1>2, <2>2, StoreRead
    <3>2. c.exported = FALSE /\ c.readonly = FALSE /\ [c EXCEPT !.value = v] = Bound(v, c.exported, c.readonly)
      BY <3>1, BindingRead DEF Mild
    <3>3. [c EXCEPT !.value = v] = b
      BY <3>2
    <3>4. u = VarStoreValue(s, 1, n, v)
      BY <2>2, <3>2 DEF VarsSetLocal, VarsIsLocal
    <3> QED
      BY <3>2, <3>3, <3>4 DEF VarStoreValue
  <2> QED
    BY <2>1, <2>2
<1> HIDE DEF b, u
<1>5. /\ u \in Stores /\ Len(u.scopes) = Len(s.scopes) /\ u.environ = s.environ
      /\ \A j \in 1 .. Len(s.scopes) : j # 1 => u.scopes[j] = s.scopes[j]
      /\ DOMAIN u.scopes[1] = DOMAIN s.scopes[1] \cup {n} /\ u.scopes[1][n] = b
      /\ \A m \in DOMAIN s.scopes[1] : m # n => u.scopes[1][m] = s.scopes[1][m]
  BY <1>1, <1>2, <1>3, <1>4, PutRead
<1>6. \A m \in DOMAIN u.scopes[1] : Mild(u.scopes[1][m])
  BY <1>3, <1>5
<1> QED
  BY <1>5, <1>6 DEF u, n, v

(* The assignments in front of a function call are its first locals.       *)
LEMMA LocalsView ==
  ASSUME NEW s \in Stores, NEW as \in Seq(Prefix), DOMAIN s.scopes[1] = {}
  PROVE  LET u == Locals(s, as)
         IN  /\ u \in Stores /\ Len(u.scopes) = Len(s.scopes) /\ u.environ = s.environ
             /\ \A n \in DOMAIN u.scopes[1] : Mild(u.scopes[1][n])
             /\ \A j \in 1 .. Len(s.scopes) : j # 1 => u.scopes[j] = s.scopes[j]
<1> DEFINE l == Len(as)
           Good(u) == /\ u \in Stores /\ Len(u.scopes) = Len(s.scopes) /\ u.environ = s.environ
                      /\ \A n \in DOMAIN u.scopes[1] : Mild(u.scopes[1][n])
                      /\ \A j \in 1 .. Len(s.scopes) : j # 1 => u.scopes[j] = s.scopes[j]
<1>1. PICK g :
        /\ g \in [0 .. Len(as) -> Stores] /\ g[0] = s /\ Locals(s, as) = g[Len(as)]
        /\ \A i \in 1 .. Len(as) : g[i] = VarsSetLocal(g[i - 1], as[i].name, as[i].value)
  <2>1. \E g \in [0 .. Len(as) -> Stores] :
          /\ g[0] = s /\ Locals(s, as) = g[Len(as)]
          /\ \A i \in 1 .. Len(as) : g[i] = VarsSetLocal(g[i - 1], as[i].name, as[i].value)
    BY LocalsUnfold, Zenon
  <2> QED
    BY <2>1, Zenon
<1>2. l \in Nat
  BY LenProperties
<1>3. \A i \in 1 .. l : g[i] = VarsSetLocal(g[i - 1], as[i].name, as[i].value) /\ as[i] \in Prefix
  BY <1>1, ElementOfSeq
<1>4. Good(g[0])
  BY <1>1
<1>5. ASSUME NEW i \in 1 .. l, Good(g[i - 1]) PROVE Good(g[i])
  <2> DEFINE w == g[i - 1]
             a == as[i]
             u == VarsSetLocal(w, a.name, a.value)
  <2>1. g[i] = u /\ a \in Prefix
    BY <1>3
  <2>2. w \in Stores /\ \A n \in DOMAIN w.scopes[1] : Mild(w.scopes[1][n])
    BY <1>5
  <2> HIDE DEF w, a
  <2>3. /\ u \in Stores /\ Len(u.scopes) = Len(w.scopes) /\ u.environ = w.environ
        /\ \A n \in DOMAIN u.scopes[1] : Mild(u.scopes[1][n])
        /\ \A j \in 1 .. Len(w.scopes) : j # 1 => u.scopes[j] = w.scopes[j]
    BY <2>1, <2>2, SetLocalView
  <2> HIDE DEF u
  <2>4. Good(w)
    BY <1>5 DEF w
  <2>5. Good(u)
    BY <2>3, <2>4
  <2> HIDE DEF Good
  <2> QED
    BY <2>1, <2>5
<1> HIDE DEF Good, l
<1> DEFINE B == {i \in 0 .. l : Good(g[i])}
<1>6. 0 \in B
  BY <1>2, <1>4
<1>7. \A i \in 1 .. l : i - 1 \in B => i \in B
  BY <1>2, <1>5
<1> HIDE DEF B
<1>8. \A i \in 0 .. l : i \in B
  BY <1>2, <1>6, <1>7, Induct
<1>9. Good(g[l])
  BY <1>2, <1>8 DEF B
<1> QED
  BY <1>1, <1>9 DEF Good, l

-----------------------------------------------------------------------------
(* The commands as every name sees them.                                   *)
LEMMA CleanCell ==
  ASSUME NEW s \in Stores, NEW n, NEW st, NEW L, NEW q, Clean(s, st, n, L, q)
  PROVE  Cell(s, n).readonly = FALSE
<1>1. \A h \in 1 .. Len(s.scopes) : ~Told(s, h, n).readonly
  BY DEF Clean, EntriesKept
<1>2. ~Cell(s, n).readonly
  BY <1>1, HomeRead
<1>3. Cell(s, n).readonly \in BOOLEAN
  BY CellRead, BindingRead
<1> QED
  BY <1>2, <1>3

(* What makes no difference to n leaves it clean.                          *)
LEMMA SameClean ==
  ASSUME NEW s \in Stores, NEW u \in Stores, NEW n, Len(u.scopes) = Len(s.scopes), Same(s, u, n),
         NEW st, Len(st) \in Nat, NEW L, NEW q, Clean(s, st, n, L, q)
  PROVE  Clean(u, st, n, L, q)
<1>1. Held(s, u, n) /\ Cell(u, n) = Cell(s, n)
  BY SameHeld
<1>2. u.environ[n] = s.environ[n] /\ Cell(u, n).readonly = FALSE
  BY <1>1, CleanCell DEF Same
<1> QED
  BY <1>1, <1>2, ChangeClean

(* Expanding assignments leaves n clean.                                   *)
LEMMA ExpandedClean ==
  ASSUME NEW s \in Stores, NEW u \in Stores, NEW n, Len(u.scopes) = Len(s.scopes), Untraced(s, u, n),
         NEW st, Len(st) \in Nat, NEW L, Unset \in L, NEW q \in BOOLEAN, Clean(s, st, n, L, q)
  PROVE  Clean(u, st, n, L, q)
<1> DEFINE c == Cell(s, n)
           d == Cell(u, n)
<1>1. Held(s, u, n) /\ d = c /\ d.readonly = FALSE /\ c.exported \in BOOLEAN
  BY CleanCell, CellRead, BindingRead DEF Untraced
<1>2. \A h : Kept(L, q, h, c.value, c.exported) => Kept(L, q, h, d.value, d.exported)
  BY <1>1
<1>3. \/ u.environ[n] \in {s.environ[n], Unset}
      \/ c.exported /\ u.environ[n] = c.value
  BY DEF Untraced
<1>4. Fine(L, q, Unset)
  BY DEF Fine
<1>5. c.exported => \A h : Kept(L, q, h, c.value, c.exported) => Fine(L, q, c.value)
  BY <1>1, KeptFine
<1>6. \/ Fine(L, q, u.environ[n])
      \/ /\ d.exported
         /\ \A h : Kept(L, q, h, d.value, d.exported) => Fine(L, q, u.environ[n])
      \/ u.environ[n] = s.environ[n] /\ (c.exported => d.exported)
  BY <1>1, <1>3, <1>4, <1>5
<1> QED
  BY <1>1, <1>2, <1>6, ChangeClean

(* A name is assigned, and then exported if x.                             *)
LEMMA AssignedClean ==
  ASSUME NEW s \in Stores, NEW st, Len(st) \in Nat, NEW L, Unset \in L, NEW q \in BOOLEAN,
         NEW n \in Names, NEW v \in Values, v \in L, NEW x \in BOOLEAN, x => ~q,
         \A m \in Names : Clean(s, st, m, L, q)
  PROVE  LET w == VarsSet(s, n, v)
             u == IF x THEN VarsExport(w, n) ELSE w
         IN  u \in Stores /\ \A m \in Names : Clean(u, st, m, L, q)
<1> DEFINE a == [name |-> n, value |-> v]
           u == OverlaySet(s, a, x)
           c == Cell(s, n)
           y == x \/ c.exported
           e == IF y THEN v ELSE s.environ[n]
<1>1. a \in Prefix /\ a.name = n /\ a.value = v
  BY DEF Prefix
<1>2. (LET w == VarsSet(s, n, v) IN IF x THEN VarsExport(w, n) ELSE w) = u
  BY <1>1 DEF OverlaySet
<1>3. Clean(s, st, n, L, q) /\ c.readonly = FALSE /\ c.exported \in BOOLEAN
  BY CleanCell, CellRead, BindingRead
<1> HIDE DEF a
<1>4. u \in Stores /\ Becomes(s, u, n, Bound(v, y, FALSE), e)
  BY <1>1, <1>3, OverlaySetBecomes
<1> HIDE DEF u, c, e
<1>5. /\ Touches(s, u, n) /\ Held(s, u, n) /\ Cell(u, n) = Bound(v, y, FALSE) /\ u.environ[n] = e
      /\ Len(u.scopes) = Len(s.scopes)
  BY <1>4 DEF Becomes, Touches
<1>6. y \in BOOLEAN /\ Cell(u, n).value = v /\ Cell(u, n).exported = y /\ Cell(u, n).readonly = FALSE
  BY <1>3, <1>5 DEF Bound
<1>7. \A h : Kept(L, q, h, c.value, c.exported) => Kept(L, q, h, v, y)
  BY <1>3 DEF Kept
<1>8. \/ y /\ \A h : Kept(L, q, h, v, y) => Fine(L, q, u.environ[n])
      \/ u.environ[n] = s.environ[n] /\ (c.exported => y)
  <2>1. CASE y
    BY <1>5, <2>1 DEF e, Kept, Fine
  <2>2. CASE ~y
    BY <1>5, <2>2 DEF e
  <2> QED
    BY <2>1, <2>2
<1> HIDE DEF y
<1>9. Clean(u, st, n, L, q)
  BY <1>3, <1>4, <1>5, <1>6, <1>7, <1>8, ChangeClean DEF c
<1>10. ASSUME NEW m \in Names \ {n} PROVE Clean(u, st, m, L, q)
  <2>1. Same(s, u, m)
    BY <1>5, TouchesSame
  <2> QED
    BY <1>4, <1>5, <2>1, SameClean
<1> QED
  BY <1>2, <1>4, <1>9, <1>10

(* `unset' leaves every name clean.                                        *)
LEMMA UnsetClean ==
  ASSUME NEW s \in Stores, NEW st, Len(st) \in Nat, NEW L, Unset \in L, NEW q \in BOOLEAN,
         NEW n \in Names, \A m \in Names : Clean(s, st, m, L, q)
  PROVE  LET u == VarsUnset(s, n)
         IN  u \in Stores /\ \A m \in Names : Clean(u, st, m, L, q)
<1> DEFINE u == VarsUnset(s, n)
<1>1. Clean(s, st, n, L, q) /\ Cell(s, n).readonly = FALSE
  BY CleanCell
<1>2. u \in Stores /\ Becomes(s, u, n, Nil, Unset)
  BY <1>1, UnsetBecomes
<1> HIDE DEF u
<1>3. /\ Touches(s, u, n) /\ Held(s, u, n) /\ Cell(u, n) = Nil /\ u.environ[n] = Unset
      /\ Len(u.scopes) = Len(s.scopes)
  BY <1>2 DEF Becomes, Touches
<1>4. Cell(u, n).value = Unset /\ Cell(u, n).exported = FALSE /\ Cell(u, n).readonly = FALSE
  BY <1>3, NilRead
<1> DEFINE c == Cell(s, n)
           d == Cell(u, n)
<1>5. Fine(L, q, u.environ[n]) /\ \A h : Kept(L, q, h, d.value, d.exported)
  BY <1>3, <1>4 DEF Kept, Fine
<1>6. Clean(u, st, n, L, q)
  <2>1. Held(s, u, n) /\ Len(u.scopes) = Len(s.scopes) /\ d.readonly = FALSE
    BY <1>3, <1>4
  <2>2. \A h : Kept(L, q, h, c.value, c.exported) => Kept(L, q, h, d.value, d.exported)
    BY <1>5
  <2> QED
    BY <1>1, <1>2, <1>5, <2>1, <2>2, ChangeClean
<1>7. ASSUME NEW m \in Names \ {n} PROVE Clean(u, st, m, L, q)
  <2>1. Same(s, u, m)
    BY <1>3, TouchesSame
  <2> QED
    BY <1>2, <1>3, <2>1, SameClean
<1> QED
  BY <1>2, <1>6, <1>7 DEF u

(* A command starts: its assignments are expanded, and then pushed or made *)
(* local.                                                                  *)
LEMMA FunctionClean ==
  ASSUME NEW s \in Stores, NEW as \in Seq(Prefix), NEW F, NEW st \in Seq(F), st # <<>>,
         NEW f \in F, f.kind = "function", f.slots = <<>>, NEW L, NEW q,
         \A n \in Names : Clean(s, st, n, L, q)
  PROVE  LET u == Locals(VarsPushScope(s), as)
         IN  \A n \in Names : Clean(u, <<f>> \o st, n, L, q)
<1> DEFINE w == VarsPushScope(s)
           u == Locals(w, as)
<1>1. /\ w \in Stores /\ Len(w.scopes) = Len(s.scopes) + 1 /\ w.environ = s.environ
      /\ DOMAIN w.scopes[1] = {}
      /\ \A j \in 1 .. Len(s.scopes) : w.scopes[j + 1] = s.scopes[j]
  BY PushScopeView
<1> HIDE DEF w
<1>2. /\ u \in Stores /\ Len(u.scopes) = Len(w.scopes) /\ u.environ = w.environ
      /\ \A n \in DOMAIN u.scopes[1] : Mild(u.scopes[1][n])
      /\ \A j \in 1 .. Len(w.scopes) : j # 1 => u.scopes[j] = w.scopes[j]
  BY <1>1, LocalsView
<1> HIDE DEF u
<1>3. Len(s.scopes) \in Nat
  BY StoreRead
<1>4. \A j \in 1 .. Len(s.scopes) : u.scopes[j + 1] = s.scopes[j]
  <2>1. \A j \in 1 .. Len(s.scopes) : j + 1 \in 1 .. Len(w.scopes) /\ j + 1 # 1
    BY <1>1, <1>3
  <2> QED
    BY <1>1, <1>2, <2>1
<1>5. Len(u.scopes) = Len(s.scopes) + 1 /\ u.environ = s.environ
  BY <1>1, <1>2
<1>6. Deep(f) = 1
  BY DEF Deep
<1>7. ASSUME NEW n \in Names PROVE Clean(u, <<f>> \o st, n, L, q)
  <2>1. Outer(s, u, n, Len(s.scopes)) /\ Told(u, Len(u.scopes), n) = Entry(u, 1, n)
    BY <1>2, <1>4, <1>5, ScopeOuter
  <2>2. Mild(Entry(u, 1, n))
    BY <1>2, NilRead DEF Entry, Mild
  <2>3. ~Covers(f, n)
    BY DEF Covers
  <2>4. Clean(s, st, n, L, q) /\ u.environ[n] = s.environ[n]
    BY <1>5
  <2> QED
    BY <1>2, <1>5, <1>6, <2>1, <2>2, <2>3, <2>4, PushClean DEF Mild
<1> QED
  BY <1>7 DEF u, w

(* overlay_push leaves every name clean, under the frame that has its      *)
(* slots.                                                                  *)
LEMMA OverlayClean ==
  ASSUME NEW s \in Stores, NEW as \in Seq(Prefix), Assignable(s, as), NEW F, NEW st \in Seq(F), st # <<>>,
         NEW f \in F, Deep(f) = 0, NEW L, NEW q,
         \A n \in Names : Clean(s, st, n, L, q),
         f.slots = OverlayPush(s, as, TRUE).slots
  PROVE  LET u == OverlayPush(s, as, TRUE).store
         IN  \A n \in Names : Clean(u, <<f>> \o st, n, L, q)
<1>0. PICK x \in BOOLEAN : x = TRUE
  OBVIOUS
<1> DEFINE p == OverlayPush(s, as, x)
           u == p.store
           l == Len(as)
<1>1. /\ u \in Stores /\ Len(u.scopes) = Len(s.scopes)
      /\ \A n \in Names : Pushed(s, u, as, l, x, n)
      /\ Len(p.slots) = l
      /\ \A i \in 1 .. l : Saved(s, as, i, x, p.slots[i])
  BY PushView
<1>2. f.slots = p.slots /\ OverlayPush(s, as, TRUE).store = u
  BY <1>0
<1> HIDE DEF u, p
<1>3. Len(f.slots) = l /\ \A i \in 1 .. l : Saved(s, as, i, x, f.slots[i])
  BY <1>1, <1>2
<1>4. l \in Nat
  BY LenProperties
<1> HIDE DEF l
<1>5. ASSUME NEW n \in Names, ~Covers(f, n) PROVE Clean(u, <<f>> \o st, n, L, q)
  <2>1. \A j \in 1 .. l : as[j].name # n
    BY <1>3, <1>5 DEF Saved, Covers
  <2>2. Same(s, u, n)
    BY <1>1, <2>1 DEF Pushed
  <2>3. Len(s.scopes) \in Nat
    BY StoreRead
  <2>4. Outer(s, u, n, Len(s.scopes)) /\ u.environ[n] = s.environ[n]
    BY <1>1, <2>2, <2>3, SameOuter DEF Same
  <2>5. Len(u.scopes) = Len(s.scopes) + Deep(f) /\ Deep(f) # 1
    BY <1>1, <2>3
  <2>6. Clean(s, st, n, L, q)
    OBVIOUS
  <2> QED
    BY <1>1, <1>5, <2>4, <2>5, <2>6, PushClean
<1>6. ASSUME NEW n \in Names, Covers(f, n) PROVE Clean(u, <<f>> \o st, n, L, q)
  <2>1. PICK j \in 1 .. l : as[j].name = n
    BY <1>3, <1>6 DEF Saved, Covers
  <2>2. Abides(s, u, n) /\ Cell(u, n).exported = (Cell(s, n).exported \/ x)
    BY <1>1, <2>1 DEF Pushed
  <2>3. Clean(s, st, n, L, q) /\ Cell(s, n).readonly = FALSE
    BY CleanCell
  <2>4. Held(s, u, n) /\ Cell(u, n).exported /\ ~Cell(u, n).readonly
    BY <1>0, <2>2, <2>3 DEF Abides
  <2>5. Records(s, f, n)
    <3> SUFFICES ASSUME NEW i \in 1 .. l, First(f, i, n)
                 PROVE  f.slots[i].had = Cell(s, n).value /\ f.slots[i].wasexp = Cell(s, n).exported
      BY <1>3 DEF Records
    <3>1. Saved(s, as, i, x, f.slots[i]) /\ as[i].name = n
      BY <1>3 DEF Saved, First
    <3>2. \A k \in 1 .. i - 1 : k \in 1 .. l
      BY <1>4
    <3>3. \A k \in 1 .. i - 1 : as[k].name # as[i].name
      BY <1>3, <3>1, <3>2 DEF First, Saved
    <3> QED
      BY <3>1, <3>3 DEF Saved
  <2> QED
    BY <1>1, <1>6, <2>3, <2>4, <2>5, CoverClean
<1> QED
  BY <1>2, <1>5, <1>6

(* Every name is clean; a frame has been opened over clean names.           *)
AllClean(s, st, L, q) == \A n \in Names : Clean(s, st, n, L, q)

PlainKinds == {"function", "builtin", "applet"}

Opened(e, kind, st, L, q) ==
  /\ \A n \in Names : Clean(e.store, <<e.frame>> \o st, n, L, q)
  /\ e.frame.kind = kind /\ (kind = "function" => e.frame.slots = <<>>)

(* A command starts over clean names.                                      *)
LEMMA EnteredClean ==
  ASSUME NEW s \in Stores, NEW kind \in PlainKinds, NEW as \in Seq(Prefix),
         Assignable(s, as), NEW F, NEW st \in Seq(F), st # <<>>,
         NEW L, Unset \in L, NEW q \in BOOLEAN, AllClean(s, st, L, q),
         Entered(s, kind, as).frame \in F
  PROVE  Opened(Entered(s, kind, as), kind, st, L, q)
<1>0. kind \in {"function", "builtin", "applet"} /\ \A n \in Names : Clean(s, st, n, L, q)
  BY DEF PlainKinds, AllClean
<1>9. SUFFICES LET e == Entered(s, kind, as)
               IN  /\ \A n \in Names : Clean(e.store, <<e.frame>> \o st, n, L, q)
                   /\ e.frame.kind = kind /\ (kind = "function" => e.frame.slots = <<>>)
  BY DEF Opened
<1> DEFINE w == Expanded(s, as)
           e == Entered(s, kind, as)
<1>1. w \in Stores /\ Len(w.scopes) = Len(s.scopes) /\ \A n \in Names : Untraced(s, w, n)
  BY ExpandedView
<1>2. Len(st) \in Nat
  BY LenProperties
<1>3. \A n \in Names : Clean(w, st, n, L, q)
  <2> HIDE DEF w
  <2> QED
    BY <1>0, <1>1, <1>2, ExpandedClean
<1>4. Assignable(w, as)
  <2> HIDE DEF w
  <2> SUFFICES ASSUME NEW i \in DOMAIN as PROVE ~VarsIsReadonly(w, as[i].name)
    BY DEF Assignable
  <2>1. as[i] \in Prefix
    BY ElementOfSeq, LenProperties
  <2>2. as[i].name \in Names
    BY <2>1 DEF Prefix
  <2>3. Clean(w, st, as[i].name, L, q)
    BY <1>3, <2>2
  <2> QED
    BY <1>1, <2>3, CleanCell, CellRead
<1>5. CASE kind = "function"
  <2> DEFINE u == Locals(VarsPushScope(w), as)
             f == Frame(kind, <<>>)
  <2>1. e = [store |-> u, frame |-> f]
    BY <1>5 DEF Entered
  <2> HIDE DEF w
  <2>2. f.kind = "function" /\ f.slots = <<>>
    BY <1>5 DEF Frame
  <2>3. e.store = u /\ e.frame = f
    <3> HIDE DEF u, f, e
    <3> QED
      BY <2>1
  <2> HIDE DEF f, e
  <2>4. f \in F
    BY <2>3 DEF e
  <2>5. \A n \in Names : Clean(u, <<f>> \o st, n, L, q)
    BY <1>1, <1>3, <2>2, <2>4, FunctionClean
  <2> HIDE DEF u
  <2> QED
    BY <1>5, <2>2, <2>3, <2>5 DEF e
<1>6. CASE kind # "function"
  <2> DEFINE p == OverlayPush(w, as, TRUE)
             f == Frame(kind, p.slots)
  <2>1. e = [store |-> p.store, frame |-> f]
    BY <1>6 DEF Entered
  <2> HIDE DEF w
  <2>2. f.kind = kind /\ f.slots = p.slots /\ Deep(f) = 0
    <3> HIDE DEF p
    <3> QED
      BY <1>6 DEF Frame, Deep
  <2>3. e.store = p.store /\ e.frame = f
    <3> HIDE DEF p, f, e
    <3> QED
      BY <2>1
  <2> HIDE DEF f, e
  <2>4. f \in F
    BY <2>3 DEF e
  <2>5. \A n \in Names : Clean(p.store, <<f>> \o st, n, L, q)
    BY <1>1, <1>3, <1>4, <2>2, <2>4, OverlayClean
  <2> HIDE DEF p
  <2> QED
    BY <1>6, <2>2, <2>3, <2>5 DEF e
<1> QED
  BY <1>5, <1>6

(* A command is over.                                                      *)
LEMMA LeftClean ==
  ASSUME NEW s \in Stores, NEW F, NEW st \in Seq(F), Len(st) > 1, NEW L, Unset \in L, NEW q \in BOOLEAN,
         \A n \in Names : Clean(s, st, n, L, q),
         Head(st).kind \in {"function", "builtin", "applet"}, Head(st).slots \in Seq(Slot),
         Head(st).kind = "function" => Head(st).slots = <<>> /\ Len(s.scopes) > 1
  PROVE  LET u == Left(s, Head(st))
         IN  \A n \in Names : Clean(u, Tail(st), n, L, q)
<1> DEFINE f == Head(st)
           slots == f.slots
           u == Left(s, f)
<1>1. slots \in Seq(Slot) /\ Len(slots) \in Nat /\ Len(s.scopes) \in Nat
      /\ \A i \in 1 .. Len(slots) : slots[i] \in Slot
  BY LenProperties, ElementOfSeq, StoreRead
<1>2. \A i \in 1 .. Len(slots) : slots[i].name \in Names /\ slots[i].wasexp \in BOOLEAN
  <2> HIDE DEF slots
  <2> QED
    BY <1>1 DEF Slot
<1>3. \A i \in 1 .. Len(slots) : ~Cell(s, slots[i].name).readonly
  BY <1>2, CleanCell
<1>4. CASE f.kind = "function"
  <2>1. u = VarsPopScope(s)
    BY <1>4 DEF Left
  <2>2. /\ u \in Stores /\ Len(u.scopes) = Len(s.scopes) - 1 /\ u.environ = s.environ
        /\ \A j \in 1 .. Len(s.scopes) - 1 : u.scopes[j] = s.scopes[j + 1]
    BY <1>4, <2>1, PopScopeView
  <2> HIDE DEF u
  <2>3. /\ Len(s.scopes) = Len(u.scopes) + 1
        /\ \A j \in 1 .. Len(u.scopes) : s.scopes[j + 1] = u.scopes[j]
    BY <1>1, <2>2
  <2>4. Deep(Head(st)) = 1 /\ \A n : ~Covers(Head(st), n)
    BY <1>4 DEF Deep, Covers
  <2>5. ASSUME NEW n \in Names PROVE Clean(u, Tail(st), n, L, q)
    <3>1. Outer(s, u, n, Len(u.scopes))
      BY <2>2, <2>3, ScopeOuter
    <3>2. u.environ[n] = s.environ[n] /\ Clean(s, st, n, L, q)
      BY <2>2
    <3> QED
      BY <2>2, <2>3, <2>4, <3>1, <3>2, PopClean
  <2> QED
    BY <2>5 DEF u
<1>5. ASSUME f.kind # "function", u \in Stores, Len(u.scopes) = Len(s.scopes),
             \A n \in Names : /\ Abides(s, u, n) /\ PutBack(u, f, n)
                              /\ ~Covers(f, n) => Same(s, u, n)
      PROVE  \A n \in Names : Clean(u, Tail(st), n, L, q)
  <2>1. Deep(Head(st)) = 0
    BY <1>5 DEF Deep
  <2> HIDE DEF u
  <2> SUFFICES ASSUME NEW n \in Names PROVE Clean(u, Tail(st), n, L, q)
    OBVIOUS
  <2>2. Clean(s, st, n, L, q)
    OBVIOUS
  <2>3. CASE Covers(Head(st), n)
    <3>1. Abides(s, u, n) /\ PutBack(u, Head(st), n)
      BY <1>5
    <3>2. /\ Len(Head(st).slots) \in Nat
          /\ \A i \in 1 .. Len(Head(st).slots) : Head(st).slots[i].wasexp \in BOOLEAN
      BY <1>1, <1>2
    <3> QED
      BY <1>5, <2>1, <2>2, <2>3, <3>1, <3>2, UncoverClean
  <2>4. CASE ~Covers(Head(st), n)
    <3>1. Same(s, u, n)
      BY <1>5, <2>4
    <3>2. Outer(s, u, n, Len(s.scopes)) /\ u.environ[n] = s.environ[n]
      BY <1>1, <1>5, <3>1, SameOuter DEF Same
    <3>3. Len(s.scopes) = Len(u.scopes) + Deep(Head(st)) /\ Outer(s, u, n, Len(u.scopes))
      BY <1>1, <1>5, <2>1, <3>2
    <3> QED
      BY <1>5, <2>2, <2>4, <3>2, <3>3, PopClean
  <2> QED
    BY <2>3, <2>4
<1>6. \A n : \A i \in 1 .. Len(slots) : First(f, i, n) =>
        slots[i].name = n /\ \A k \in 1 .. i - 1 : slots[k].name # n
  BY DEF First
<1>7. \A n : ~Covers(f, n) => \A j \in 1 .. Len(slots) : slots[j].name # n
  BY DEF Covers
<1>8. CASE f.kind = "applet"
  <2>0. PICK x \in BOOLEAN : x = TRUE
    OBVIOUS
  <2> DEFINE w == OverlayRestore(s, slots, x, FALSE)
  <2>1. u = w
    BY <1>8, <2>0 DEF Left
  <2>2. /\ w \in Stores /\ Len(w.scopes) = Len(s.scopes)
        /\ \A n \in Names : Restored(s, w, slots, 1, x, FALSE, n)
    BY <1>1, <1>3, RestoreView
  <2> HIDE DEF u, w
  <2>3. ASSUME NEW n \in Names
        PROVE  Abides(s, u, n) /\ PutBack(u, f, n) /\ (~Covers(f, n) => Same(s, u, n))
    <3>1. Restored(s, u, slots, 1, x, FALSE, n)
      BY <2>1, <2>2
    <3>2. PutBack(u, f, n)
      BY <1>6, <2>0, <3>1 DEF PutBack, Restored
    <3> QED
      BY <1>7, <3>1, <3>2 DEF Restored
  <2> QED
    BY <1>5, <1>8, <2>1, <2>2, <2>3 DEF u
<1>9. CASE f.kind = "builtin"
  <2> DEFINE w == OverlayRestore(s, slots, FALSE, FALSE)
  <2>1. u = OverlayUnexport(w, slots)
    BY <1>9 DEF Left
  <2>2. /\ w \in Stores /\ Len(w.scopes) = Len(s.scopes)
        /\ \A n \in Names : Restored(s, w, slots, 1, FALSE, FALSE, n)
    BY <1>1, <1>3, RestoreView
  <2> HIDE DEF w
  <2>3. /\ u \in Stores /\ Len(u.scopes) = Len(s.scopes)
        /\ \A n \in Names : Withdrawn(w, u, slots, Len(slots), n)
    BY <1>1, <2>1, <2>2, UnexportView
  <2> HIDE DEF u
  <2>4. ASSUME NEW n \in Names
        PROVE  Abides(s, u, n) /\ PutBack(u, f, n) /\ (~Covers(f, n) => Same(s, u, n))
    <3>1. Restored(s, w, slots, 1, FALSE, FALSE, n) /\ Withdrawn(w, u, slots, Len(slots), n)
      BY <2>2, <2>3
    <3>2. Abides(s, u, n)
      BY <2>2, <3>1, AbidesOn DEF Restored, Withdrawn
    <3>3. ~Covers(f, n) => Same(s, u, n)
      BY <1>7, <2>2, <3>1, SameOn DEF Restored, Withdrawn
    <3>4. PutBack(u, f, n)
      <4> SUFFICES ASSUME NEW i \in 1 .. Len(slots), First(f, i, n)
                   PROVE  /\ Cell(u, n).value = slots[i].had
                          /\ Cell(u, n).exported => slots[i].wasexp /\ u.environ[n] = slots[i].had
        BY DEF PutBack
      <4>1. slots[i].name = n /\ \A k \in 1 .. i - 1 : slots[k].name # n
        BY <1>6
      <4>2. Cell(w, n).value = slots[i].had /\ (Cell(w, n).exported => w.environ[n] = slots[i].had)
        BY <3>1, <4>1 DEF Restored
      <4>3. /\ Cell(u, n).value = Cell(w, n).value
            /\ Cell(u, n).exported => Cell(w, n).exported /\ u.environ[n] = w.environ[n]
            /\ ~slots[i].wasexp => ~Cell(u, n).exported
        BY <3>1, <4>1 DEF Withdrawn
      <4> QED
        BY <4>2, <4>3
    <3> QED
      BY <3>2, <3>3, <3>4
  <2> QED
    BY <1>5, <1>9, <2>3, <2>4 DEF u
<1> QED
  BY <1>4, <1>8, <1>9

-----------------------------------------------------------------------------
(* Plain scripts, as every step leaves them.                               *)
Framed(st) ==
  \A k \in 1 .. Len(st) : /\ st[k].kind \in {"function", "script"} => st[k].slots = <<>>
                          /\ st[k].kind = "script" => k = Len(st)

Tidy(s, st, L, q) == Framed(st) /\ \A n \in Names : Clean(s, st, n, L, q)

(* A frame more.                                                           *)
LEMMA FramedPush ==
  ASSUME NEW F, NEW st \in Seq(F), NEW f \in F, Framed(st), f.kind # "script",
         f.kind = "function" => f.slots = <<>>
  PROVE  Framed(<<f>> \o st)
<1> DEFINE ts == <<f>> \o st
<1>1. Len(st) \in Nat
  BY LenProperties
<1>2. Len(ts) = Len(st) + 1 /\ ts[1] = f /\ \A i \in 1 .. Len(st) : ts[i + 1] = st[i]
  OBVIOUS
<1> HIDE DEF ts
<1>3. ASSUME NEW k \in 1 .. Len(ts)
      PROVE  /\ ts[k].kind \in {"function", "script"} => ts[k].slots = <<>>
             /\ ts[k].kind = "script" => k = Len(ts)
  <2>1. CASE k = 1
    BY <1>2, <2>1
  <2>2. CASE k # 1
    <3>1. k - 1 \in 1 .. Len(st) /\ (k - 1) + 1 = k
      BY <1>1, <1>2, <2>2
    <3>2. ts[k] = st[k - 1]
      BY <1>2, <3>1
    <3> QED
      BY <1>1, <1>2, <3>1, <3>2 DEF Framed
  <2> QED
    BY <2>1, <2>2
<1> QED
  BY <1>3 DEF Framed, ts

(* A frame less.                                                           *)
LEMMA FramedPop ==
  ASSUME NEW F, NEW st \in Seq(F), st # <<>>, Framed(st)
  PROVE  Framed(Tail(st))
<1> DEFINE ts == Tail(st)
<1>1. Len(st) \in Nat
  BY LenProperties
<1>2. Len(ts) = Len(st) - 1 /\ \A i \in 1 .. Len(st) - 1 : ts[i] = st[i + 1]
  BY <1>1
<1> HIDE DEF ts
<1>3. ASSUME NEW k \in 1 .. Len(ts)
      PROVE  /\ ts[k].kind \in {"function", "script"} => ts[k].slots = <<>>
             /\ ts[k].kind = "script" => k = Len(ts)
  <2>1. k + 1 \in 1 .. Len(st) /\ ts[k] = st[k + 1] /\ (k + 1 = Len(st) => k = Len(ts))
    BY <1>1, <1>2
  <2> QED
    BY <2>1 DEF Framed
<1> QED
  BY <1>3 DEF Framed, ts

(* With no frame but the script's.                                         *)
LEMMA AloneRead ==
  ASSUME NEW s \in Stores, NEW st, Len(st) = 1, st[1].slots = <<>>, NEW n, NEW L, NEW q,
         Clean(s, st, n, L, q)
  PROVE  /\ Len(s.scopes) = 1 /\ Fine(L, q, s.environ[n])
         /\ Kept(L, q, 1, Cell(s, n).value, Cell(s, n).exported)
<1>1. PICK lv, hm : /\ Marked(s, st, n, lv, hm) /\ SlotsKept(st, n, hm, L, q)
                    /\ EntriesKept(s, st, n, hm, L, q) /\ EnvironFine(s, st, n, hm, L, q)
  BY DEF Clean
<1>2. Len(s.scopes) = 1
  BY <1>1 DEF Marked
<1>3. \A d \in 1 .. 1 : ~Covers(Nth(st, d), n)
  BY DEF Nth, Covers
<1>4. Fine(L, q, s.environ[n])
  BY <1>1, <1>3 DEF EnvironFine
<1>5. Home(s, n) = 1 /\ Told(s, 1, n) = Cell(s, n)
  <2>1. Home(s, n) \in 1 .. 1 /\ Told(s, Home(s, n), n) = Cell(s, n)
    BY <1>2, HomeRead
  <2>2. Home(s, n) = 1
    BY <2>1
  <2> QED
    BY <2>1, <2>2
<1>6. ~Covered(st, n, hm, 1, 1)
  BY <1>3 DEF Covered
<1>7. Kept(L, q, 1, Cell(s, n).value, Cell(s, n).exported)
  <2>1. 1 \in 1 .. Len(s.scopes)
    BY <1>2
  <2> QED
    BY <1>1, <1>5, <1>6, <2>1 DEF EntriesKept
<1> QED
  BY <1>2, <1>4, <1>7

(* What lasts is what may be inherited, assigned or unset.                 *)
LEMMA LastingRead ==
  ASSUME Sound
  PROVE  /\ Unset \in Lasting /\ script.assigned \subseteq Lasting /\ Unexported \in BOOLEAN
         /\ script.allexport => ~Unexported
         /\ \A e \in script.inherited : \A n \in Names :
              e[n] \in Lasting /\ (Unexported => e[n] = Unset)
<1>1. script.allexport \in BOOLEAN
  BY VariablesAssumption DEF Sound
<1> QED
  BY <1>1 DEF Lasting, Unexported

(* The script starts with what it inherits.                                *)
LEMMA InitTidy ==
  ASSUME Init
  PROVE  Tidy(store, stack, Lasting, Unexported)
<1>1. Sound
  BY InitSound
<1>2. PICK environ \in script.inherited : store = VarsImportEnv(environ)
  BY DEF Init
<1>3. /\ Unset \in Lasting
      /\ \A n \in Names : environ[n] \in Lasting /\ (Unexported => environ[n] = Unset)
  BY <1>1, LastingRead
<1> DEFINE D == {m \in Names : environ[m] # Unset}
           scope == [n \in D |-> Bound(environ[n], TRUE, FALSE)]
           f == Frame("script", <<>>)
<1>4. store = [scopes |-> <<scope>>, environ |-> environ] /\ stack = <<f>> /\ store \in Stores
  BY <1>1, <1>2 DEF VarsImportEnv, Init, Sound
<1>5. f.kind = "script" /\ f.slots = <<>>
  BY DEF Frame
<1> HIDE DEF scope, f
<1>6. /\ Len(store.scopes) = 1 /\ store.scopes[1] = scope /\ store.environ = environ
      /\ Len(stack) = 1 /\ stack[1] = f
  BY <1>4
<1>7. Framed(stack)
  BY <1>5, <1>6 DEF Framed
<1>8. ASSUME NEW n \in Names PROVE Clean(store, stack, n, Lasting, Unexported)
  <2> DEFINE one == [d \in {1} |-> 1]
             c == Entry(store, 1, n)
  <2>1. Told(store, 1, n) = c /\ 1 + 1 - 1 = 1
    BY <1>6 DEF Told
  <2>2. /\ ~c.readonly /\ c.value \in {environ[n], Unset}
        /\ c.exported => environ[n] # Unset
    <3>1. CASE n \in D
      <4>1. c = Bound(environ[n], TRUE, FALSE)
        BY <1>6, <3>1 DEF Entry, scope
      <4> QED
        BY <3>1, <4>1 DEF Bound
    <3>2. CASE n \notin D
      <4>1. c = Nil
        BY <1>6, <3>2 DEF Entry, scope
      <4> QED
        BY <4>1, NilRead
    <3> QED
      BY <3>1, <3>2
  <2> HIDE DEF c
  <2>3. one[1] = 1
    OBVIOUS
  <2> HIDE DEF one
  <2>4. Marked(store, stack, n, one, one)
    <3>1. IsHome(store, n, 1, 1)
      BY DEF IsHome
    <3> QED
      BY <1>6, <2>3, <3>1 DEF Marked
  <2>5. SlotsKept(stack, n, one, Lasting, Unexported)
    <3>1. Nth(stack, 1).slots = <<>>
      BY <1>5, <1>6 DEF Nth
    <3>2. \A d \in 1 .. 1 : d = 1
      OBVIOUS
    <3>3. \A i \in 1 .. Len(<<>>) : FALSE
      OBVIOUS
    <3> QED
      BY <1>6, <3>1, <3>2, <3>3 DEF SlotsKept
  <2>6. Kept(Lasting, Unexported, 1, c.value, c.exported)
    BY <1>3, <2>2 DEF Kept
  <2>7. EntriesKept(store, stack, n, one, Lasting, Unexported)
    <3>1. \A h \in 1 .. 1 : h = 1
      OBVIOUS
    <3> QED
      BY <1>6, <2>1, <2>2, <2>6, <3>1 DEF EntriesKept
  <2>8. EnvironFine(store, stack, n, one, Lasting, Unexported)
    BY <1>3, <1>6 DEF EnvironFine, Fine
  <2> QED
    BY <2>4, <2>5, <2>7, <2>8 DEF Clean
<1> QED
  BY <1>7, <1>8 DEF Tidy

(* A command starts.                                                       *)
LEMMA EnteredTidy ==
  ASSUME NEW s \in Stores, NEW K, NEW kind \in K \cap {"function", "builtin", "applet"},
         NEW as \in Seq(Prefix), Assignable(s, as),
         NEW st \in Seq([kind : K, slots : Seq(Slot)]), st # <<>>,
         NEW L, Unset \in L, NEW q \in BOOLEAN, Tidy(s, st, L, q)
  PROVE  LET e == Entered(s, kind, as)
         IN  Tidy(e.store, <<e.frame>> \o st, L, q)
<1> DEFINE F == [kind : K, slots : Seq(Slot)]
           e == Entered(s, kind, as)
<1>1. kind \in K /\ kind \in PlainKinds /\ st \in Seq(F)
  BY DEF PlainKinds
<1>2. Framed(st) /\ AllClean(s, st, L, q)
  BY DEF Tidy, AllClean
<1>3. /\ e.frame.kind = kind /\ e.frame.slots \in Seq(Slot)
      /\ e.frame = [kind |-> kind, slots |-> e.frame.slots]
      /\ e.store \in Stores /\ Guards(s, e.store)
      /\ kind = "function" => Len(e.store.scopes) = Len(s.scopes) + 1
      /\ kind # "function" => Follows(s, e.store)
  BY EnteredFollows, Zenon
<1>4. e.frame \in F
  <2> HIDE DEF e
  <2> QED
    BY <1>1, <1>3
<1> HIDE DEF F
<1>7. Opened(e, kind, st, L, q)
  BY <1>1, <1>2, <1>4, EnteredClean
<1> HIDE DEF e
<1>5. /\ \A n \in Names : Clean(e.store, <<e.frame>> \o st, n, L, q)
      /\ e.frame.kind = kind /\ (kind = "function" => e.frame.slots = <<>>)
  BY <1>7 DEF Opened
<1>6. Framed(<<e.frame>> \o st)
  BY <1>1, <1>2, <1>3, <1>4, <1>5, FramedPush DEF PlainKinds
<1> QED
  BY <1>5, <1>6 DEF Tidy, e

(* Commands start in plain scripts: functions, ordinary builtins and       *)
(* applets.                                                                *)
LEMMA EnterTidy ==
  ASSUME Sound, Plain, Tidy(store, stack, Lasting, Unexported),
         NEW kind \in script.kinds, NEW as \in script.prefixes, Enter(kind, as)
  PROVE  Tidy(store', stack', Lasting, Unexported)
<1> DEFINE e == Entered(store, kind, as)
           K == script.kinds \cup {"script"}
           L == Lasting
           q == Unexported
<1>1. /\ store \in Stores /\ as \in Seq(Prefix) /\ kind \in AllKinds
      /\ stack \in Seq([kind : K, slots : Seq(Slot)]) /\ stack # <<>>
  BY ScriptRead DEF Sound, Frames
<1>2. kind \in K \cap {"function", "builtin", "applet"}
  BY <1>1 DEF Plain, AllKinds
<1>3. Unset \in L /\ q \in BOOLEAN /\ Tidy(store, stack, L, q)
  BY LastingRead
<1> HIDE DEF L, q, K
<1>4. CASE ~Assignable(store, as)
  <2>1. store' = store /\ stack' = stack
    BY <1>4 DEF Enter, AssignmentRefused
  <2> QED
    BY <2>1
<1>5. CASE Assignable(store, as)
  <2>1. store' = e.store /\ stack' = <<e.frame>> \o stack
    BY <1>5 DEF Enter
  <2>2. Tidy(e.store, <<e.frame>> \o stack, L, q)
    BY <1>1, <1>2, <1>3, <1>5, EnteredTidy
  <2> HIDE DEF e
  <2> QED
    BY <2>1, <2>2 DEF L, q
<1> QED
  BY <1>4, <1>5

(* They end, by overlay_restore, or by vars_pop_scope.                     *)
LEMMA LeaveTidy ==
  ASSUME Sound, Plain, Tidy(store, stack, Lasting, Unexported), Leave
  PROVE  Tidy(store', stack', Lasting, Unexported)
<1> DEFINE f == Head(stack)
           u == Left(store, f)
           L == Lasting
           q == Unexported
<1>1. store \in Stores /\ stack \in Seq(Frames(script)) /\ stack # <<>> /\ script.kinds \subseteq AllKinds
  BY ScriptRead DEF Sound
<1>2. Unset \in L /\ q \in BOOLEAN /\ Framed(stack) /\ \A n \in Names : Clean(store, stack, n, L, q)
  BY LastingRead DEF Tidy
<1> HIDE DEF L, q
<1>3. store' = u /\ stack' = Tail(stack) /\ f.kind # "script"
  BY DEF Leave, Top
<1>4. /\ Len(stack) \in Nat /\ Len(stack) >= 1 /\ f = stack[1] /\ f \in Frames(script)
      /\ Tail(stack) \in Seq(Frames(script)) /\ stack = <<f>> \o Tail(stack)
  BY TopRead DEF Top
<1>5. f.kind \in {"function", "builtin", "applet"} /\ f.slots \in Seq(Slot)
  <2>1. f.kind \in script.kinds \cup {"script"} /\ f.slots \in Seq(Slot)
    <3> HIDE DEF f
    <3> QED
      BY <1>4 DEF Frames
  <2> QED
    BY <1>1, <1>3, <2>1 DEF Plain, AllKinds
<1>6. Len(stack) > 1
  <2>1. stack[Len(stack)].kind = "script"
    BY DEF Sound
  <2> QED
    BY <1>3, <1>4, <2>1
<1>7. f.kind = "function" => f.slots = <<>> /\ Len(store.scopes) > 1
  <2>1. 1 \in 1 .. Len(stack)
    BY <1>4
  <2>2. f.kind = "function" => f.slots = <<>>
    BY <1>2, <1>4, <2>1 DEF Framed
  <2>3. /\ Cardinality(Calls(stack)) = Cardinality(Calls(Tail(stack))) + IF f.kind = "function" THEN 1 ELSE 0
        /\ Cardinality(Calls(Tail(stack))) \in Nat
    BY <1>4, CallsPushed, CallsCounted
  <2>4. Len(store.scopes) = 1 + Cardinality(Calls(stack))
    BY DEF Sound
  <2>5. f.kind = "function" => Len(store.scopes) > 1
    <3> HIDE DEF f
    <3> QED
      BY <2>3, <2>4
  <2> QED
    BY <2>2, <2>5
<1>8. \A n \in Names : Clean(u, Tail(stack), n, L, q)
  BY <1>1, <1>2, <1>5, <1>6, <1>7, LeftClean
<1>9. Framed(Tail(stack))
  BY <1>1, <1>2, FramedPop
<1> QED
  BY <1>3, <1>8, <1>9 DEF Tidy, L, q

(* An assignment of its own gives a name a value that may last.            *)
LEMMA AssignTidy ==
  ASSUME Sound, Plain, Tidy(store, stack, Lasting, Unexported),
         NEW n \in script.names, NEW v \in script.assigned, Assign(n, v)
  PROVE  Tidy(store', stack', Lasting, Unexported)
<1> DEFINE L == Lasting
           q == Unexported
           x == script.allexport
           w == VarsSet(store, n, v)
           u == IF x THEN VarsExport(w, n) ELSE w
<1>1. /\ store \in Stores /\ n \in Names /\ v \in Values /\ Len(stack) \in Nat /\ x \in BOOLEAN
  BY ScriptRead, TopRead, VariablesAssumption DEF Sound
<1>2. /\ Unset \in L /\ q \in BOOLEAN /\ v \in L /\ (x => ~q) /\ Framed(stack)
      /\ \A m \in Names : Clean(store, stack, m, L, q)
  BY LastingRead DEF Tidy
<1>3. stack' = stack /\ (store' = store \/ store' = u)
  BY DEF Assign, AssignmentRefused, Done
<1> HIDE DEF L, q, x
<1>4. \A m \in Names : Clean(u, stack, m, L, q)
  BY <1>1, <1>2, AssignedClean
<1> HIDE DEF u
<1> QED
  BY <1>2, <1>3, <1>4 DEF Tidy, L, q

(* `unset NAME'.                                                           *)
LEMMA UnsetTidy ==
  ASSUME Sound, Plain, Tidy(store, stack, Lasting, Unexported), NEW n \in script.names, UnsetName(n)
  PROVE  Tidy(store', stack', Lasting, Unexported)
<1> DEFINE L == Lasting
           q == Unexported
           u == VarsUnset(store, n)
<1>1. store \in Stores /\ n \in Names /\ Len(stack) \in Nat
  BY ScriptRead, TopRead
<1>2. /\ Unset \in L /\ q \in BOOLEAN /\ Framed(stack)
      /\ \A m \in Names : Clean(store, stack, m, L, q)
  BY LastingRead DEF Tidy
<1>3. stack' = stack /\ (store' = store \/ store' = u)
  BY DEF UnsetName, BuiltinRefused, Done
<1> HIDE DEF L, q
<1>4. \A m \in Names : Clean(u, stack, m, L, q)
  BY <1>1, <1>2, UnsetClean
<1> HIDE DEF u
<1> QED
  BY <1>2, <1>3, <1>4 DEF Tidy, L, q

(* Plain scripts stay tidy in every step.                                  *)
LEMMA StepTidy ==
  ASSUME Sound, [Next]_vars, Plain => Tidy(store, stack, Lasting, Unexported)
  PROVE  Plain' => Tidy(store', stack', Lasting', Unexported')
<1>1. script' = script
  BY DEF Next, vars
<1>2. Plain' = Plain /\ Lasting' = Lasting /\ Unexported' = Unexported
  BY <1>1 DEF Plain, Lasting, Unexported
<1>3. SUFFICES ASSUME Plain PROVE Tidy(store', stack', Lasting, Unexported)
  BY <1>2
<1> DEFINE Goal == Tidy(store', stack', Lasting, Unexported)
<1>4. ASSUME UNCHANGED vars PROVE Goal
  BY <1>3, <1>4 DEF vars
<1>5. ASSUME Next PROVE Goal
  <2>1. Step
    BY <1>5 DEF Next
  <2>2. /\ ~Runs("export") /\ ~Runs("readonly") /\ ~Runs("local")
    BY <1>3 DEF Runs, Plain
  <2>3. ASSUME NEW n \in script.names, Export(n) \/ UnsetName(n) \/ Readonly(n) \/ Local(n)
        PROVE  Goal
    <3>1. UnsetName(n)
      BY <2>2, <2>3 DEF Export, Readonly, Local
    <3> QED
      BY <1>3, <3>1, UnsetTidy
  <2>4. ASSUME NEW n \in script.names, NEW v \in script.assigned,
               Assign(n, v) \/ ExportValue(n, v) \/ ReadonlyValue(n, v) \/ LocalValue(n, v)
        PROVE  Goal
    <3>1. Assign(n, v)
      BY <2>2, <2>4 DEF ExportValue, ReadonlyValue, LocalValue
    <3> QED
      BY <1>3, <3>1, AssignTidy
  <2>5. ASSUME NEW kind \in script.kinds, NEW as \in script.prefixes, Enter(kind, as) PROVE Goal
    BY <1>3, <2>5, EnterTidy
  <2>6. ASSUME NEW as \in script.prefixes, NEW n \in script.names, PrefixedExport(as, n) PROVE Goal
    BY <2>2, <2>6 DEF PrefixedExport
  <2>7. ASSUME Leave PROVE Goal
    BY <1>3, <2>7, LeaveTidy
  <2> HIDE DEF Goal
  <2> QED
    BY <2>1, <2>3, <2>4, <2>5, <2>6, <2>7 DEF Step
<1> QED
  BY <1>4, <1>5

(* With no command under way, tidy is what the property asks for.          *)
LEMMA TidyEnds ==
  ASSUME Sound, Plain => Tidy(store, stack, Lasting, Unexported)
  PROVE  PrefixesEnd
<1>1. store \in Stores /\ \A as \in script.prefixes : as \in Seq(Prefix)
  BY ScriptRead
<1>2. ExpansionLeavesNoTrace
  BY <1>1, ExpandedSettles DEF ExpansionLeavesNoTrace
<1>3. ASSUME Plain, Top.kind = "script", NEW n \in Names
      PROVE  /\ store.environ[n] \in Lasting
             /\ \A i \in Holding(store, n) : store.scopes[i][n].value \in Lasting
             /\ Unexported => store.environ[n] = Unset /\ ~VarsIsExported(store, n)
  <2>1. /\ Len(stack) = 1 /\ stack[1].slots = <<>>
        /\ Clean(store, stack, n, Lasting, Unexported)
    <3>1. Len(stack) \in Nat /\ Len(stack) >= 1 /\ stack[1].kind = "script"
      BY <1>3, TopRead
    <3>2. Framed(stack) /\ Clean(store, stack, n, Lasting, Unexported) /\ 1 \in 1 .. Len(stack)
      BY <1>3, <3>1 DEF Tidy
    <3> QED
      BY <3>1, <3>2 DEF Framed
  <2>2. /\ Len(store.scopes) = 1 /\ Fine(Lasting, Unexported, store.environ[n])
        /\ Kept(Lasting, Unexported, 1, Cell(store, n).value, Cell(store, n).exported)
    BY <1>1, <2>1, AloneRead
  <2>3. /\ store.environ[n] \in Lasting /\ Cell(store, n).value \in Lasting
        /\ Unexported => store.environ[n] = Unset /\ ~Cell(store, n).exported
    BY <2>2 DEF Fine, Kept
  <2>4. VarsIsExported(store, n) = Cell(store, n).exported
    BY <1>1, CellRead
  <2>5. ASSUME NEW i \in Holding(store, n) PROVE store.scopes[i][n] = Cell(store, n)
    <3>1. i \in 1 .. Len(store.scopes) /\ n \in DOMAIN store.scopes[i]
      BY <1>1, StoreRead DEF Holding
    <3>2. i = 1 /\ Here(store, n) = 1
      BY <1>1, <2>2, <3>1, HereRead
    <3> QED
      BY <3>1, <3>2 DEF Cell, Entry
  <2> QED
    BY <2>3, <2>4, <2>5
<1> QED
  BY <1>2, <1>3 DEF PrefixesEnd, PrefixIsTemporary, PrefixesExportNothing

(* Whatever the assignments in front of commands are, however the commands *)
(* nest and whatever runs in them: when they are over, none of the values  *)
(* is left in a scope or in the environment, and nothing is exported that  *)
(* was not; expanding them leaves no trace even while they run.            *)
THEOREM PrefixesAreTemporary == Spec => []PrefixesEnd
<1> DEFINE Kempt == Plain => Tidy(store, stack, Lasting, Unexported)
<1>1. Init => Kempt
  BY InitTidy
<1>2. Sound /\ Kempt /\ [Next]_vars => Kempt'
  BY StepTidy
<1>3. Sound /\ Kempt => PrefixesEnd
  BY TidyEnds
<1> HIDE DEF Kempt
<1> QED
  BY <1>1, <1>2, <1>3, AlwaysSound, PTL DEF Spec
=============================================================================
