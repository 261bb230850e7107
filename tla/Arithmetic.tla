----------------------------- MODULE Arithmetic -----------------------------
(***************************************************************************)
(* Arithmetic expansion (expand.c, expand_arith): the text between $(( and *)
(* )) has its parameters substituted, and is then evaluated while it is    *)
(* parsed, by recursive descent over its characters.  Nothing is built, so *)
(* every operand is evaluated wherever it stands.                          *)
(*                                                                         *)
(* The text is typed character by character; "$x" stands for the ways to   *)
(* name a parameter with a dollar.  There is one variable, x.              *)
(***************************************************************************)
EXTENDS Integers, Sequences, SequencesExt, Bitwise

CONSTANTS Texts,          \* records: the characters typed, and how many of them
          InitialValues,  \* of x
          Width           \* the bits of a long

VARIABLES expr,           \* the text
          initially       \* the value of x before

arithVars == <<expr, initially>>

Digits == {"0", "1", "2", "3", "4", "5", "6", "7", "8", "9"}
DigitValue == [d \in Digits |-> CHOOSE n \in 0 .. 9 : ToString(n) = d]

-----------------------------------------------------------------------------
(* A long: two's complement; signed overflow wraps.                        *)
Least       == -(2^(Width - 1))
Wrap(n)     == ((n - Least) % 2^Width) + Least
Unsigned(n) == n % 2^Width
Bool(b)     == IF b THEN 1 ELSE 0
Magnitude(n) == IF n < 0 THEN -n ELSE n
Quotient(a, b) == LET q == Magnitude(a) \div Magnitude(b)
                  IN IF (a < 0) = (b < 0) THEN q ELSE -q

LeftShift(a, n)  == IF n \in 0 .. Width - 1 THEN Wrap(a * 2^n) ELSE 0
RightShift(a, n) == IF n \in 0 .. Width - 1 THEN a \div 2^n ELSE 0

Binary(op, a, b) ==
  CASE op = "*"  -> Wrap(a * b)
    [] op = "/"  -> Quotient(a, b)
    [] op = "%"  -> a - b * Quotient(a, b)
    [] op = "+"  -> Wrap(a + b)
    [] op = "-"  -> Wrap(a - b)
    [] op = "<<" -> LeftShift(a, b)
    [] op = ">>" -> RightShift(a, b)
    [] op = "<=" -> Bool(a <= b)
    [] op = ">=" -> Bool(a >= b)
    [] op = "<"  -> Bool(a < b)
    [] op = ">"  -> Bool(a > b)
    [] op = "==" -> Bool(a = b)
    [] op = "!=" -> Bool(a # b)
    [] op = "&"  -> Wrap(Unsigned(a) & Unsigned(b))
    [] op = "^"  -> Wrap(Unsigned(a) ^^ Unsigned(b))
    [] op = "|"  -> Wrap(Unsigned(a) | Unsigned(b))
    [] op = "&&" -> Bool(a # 0 /\ b # 0)
    [] op = "||" -> Bool(a # 0 \/ b # 0)

(* <<= and >>= take the distance as it is; the processor reduces it modulo *)
(* the width.                                                              *)
Assigned(op, a, b) ==
  CASE op = ""   -> b
    [] op = "<<" -> LeftShift(a, b % Width)
    [] op = ">>" -> RightShift(a, b % Width)
    [] OTHER     -> Binary(op, a, b)

(* A division by zero ends the shell with a message, the one quotient that *)
(* does not fit ends it by a signal.                                       *)
Stop(op, a, b) == CASE op \in {"/", "%"} /\ b = 0 -> "zero"
                    [] op \in {"/", "%"} /\ a = Least /\ b = -1 -> "signal"
                    [] OTHER -> ""

-----------------------------------------------------------------------------
(* The text, and what stands at a position of it.                          *)

ValueText(n) == IF n < 0 THEN <<"-", ToString(-n)>> ELSE <<ToString(n)>>
ArithPresubst(s, x) ==
  FlattenSeq([k \in 1 .. Len(s) |-> IF s[k] = "$x" THEN ValueText(x) ELSE <<s[k]>>])

At(s, i) == IF i <= Len(s) THEN s[i] ELSE "end"
Word(s, i, n) == IF i + n - 1 > Len(s) THEN "end"
                 ELSE FoldLeft(LAMBDA a, b : a \o b, "", SubSeq(s, i, i + n - 1))
Is(s, i, op) == Word(s, i, Len(op)) = op
EndOf(s, i, chars) ==
  CHOOSE k \in i .. Len(s) + 1 : /\ \A j \in i .. k - 1 : s[j] \in chars
                                 /\ At(s, k) \notin chars

(* strtol with base 0: a leading 0 makes it octal.                         *)
NumberAt(s, i, j) ==
  FoldLeft(LAMBDA n, d : Wrap(n * (IF s[i] = "0" THEN 8 ELSE 10) + DigitValue[d]),
           0, SubSeq(s, i, j - 1))

(* The first of `ops` that stands at i, "" if none does.                   *)
FirstOf(s, i, ops) == LET there == {k \in 1 .. Len(ops) : Is(s, i, ops[k])}
                      IN IF there = {} THEN ""
                         ELSE ops[CHOOSE k \in there : \A j \in there : k <= j]

MulOp(s, i) == FirstOf(s, i, <<"*", "/", "%">>)
AddOp(s, i) == IF At(s, i + 1) \in {"=", At(s, i)} THEN "" ELSE FirstOf(s, i, <<"+", "-">>)
ShiftOp(s, i) == IF At(s, i + 2) = "=" THEN "" ELSE FirstOf(s, i, <<"<<", ">>">>)
CmpOp(s, i) ==
  IF FirstOf(s, i, <<"<<", ">>">>) # "" THEN ""
  ELSE FirstOf(s, i, <<"<=", ">=", "<", ">", "==", "!=">>)
(* Without the look behind the sign: half of && would do.                  *)
AndOpGreedy(s, i) == FirstOf(s, i, <<"&">>)
AndOp(s, i) == IF At(s, i + 1) \in {"&", "="} THEN "" ELSE FirstOf(s, i, <<"&">>)
XorOp(s, i) == IF At(s, i + 1) = "=" THEN "" ELSE FirstOf(s, i, <<"^">>)
OrOp(s, i)  == IF At(s, i + 1) \in {"|", "="} THEN "" ELSE FirstOf(s, i, <<"|">>)
LogicalAndOp(s, i) == FirstOf(s, i, <<"&&">>)
LogicalOrOp(s, i)  == FirstOf(s, i, <<"||">>)

(* The levels, from the innermost outwards.                                *)
OutermostLevel == 9
LevelOp(k, s, i) ==
  CASE k = 1 -> MulOp(s, i)   [] k = 2 -> AddOp(s, i) [] k = 3 -> ShiftOp(s, i)
    [] k = 4 -> CmpOp(s, i)   [] k = 5 -> AndOp(s, i) [] k = 6 -> XorOp(s, i)
    [] k = 7 -> OrOp(s, i)    [] k = 8 -> LogicalAndOp(s, i)
    [] k = 9 -> LogicalOrOp(s, i)

(* An assignment operator behind a name, without its "="; "none" if none.  *)
AssignOp(s, i) ==
  LET o == FirstOf(s, i, <<"<<=", ">>=", "+=", "-=", "*=", "/=", "%=", "&=", "|=", "^=", "=">>)
  IN CASE o = "" \/ (o = "=" /\ At(s, i + 1) = "=") -> "none"
       [] o = "<<=" -> "<<" [] o = ">>=" -> ">>" [] o = "=" -> ""
       [] OTHER -> At(s, i)

-----------------------------------------------------------------------------
(* Evaluation.  A result is the value, the position after it, the variable *)
(* and what stopped the shell, if anything did.                            *)

Result(v, i, x, stop) == [v |-> v, at |-> i, x |-> x, stop |-> stop]
Operate(op, left, right) ==
  IF right.stop # "" THEN right
  ELSE LET stop == Stop(op, left.v, right.v)
       IN Result(IF stop = "" THEN Binary(op, left.v, right.v) ELSE 0,
                 right.at, right.x, stop)

RECURSIVE ArithExpr(_, _, _), ArithTernary(_, _, _), ArithPrimary(_, _, _)

RECURSIVE LevelRest(_, _, _)
RECURSIVE ArithLevel(_, _, _, _)
ArithLevel(k, s, i, x) == IF k = 0 THEN ArithPrimary(s, i, x)
                          ELSE LevelRest(k, s, ArithLevel(k - 1, s, i, x))
LevelRest(k, s, left) ==
  LET op == LevelOp(k, s, left.at)
  IN IF left.stop # "" \/ op = "" THEN left
     ELSE LevelRest(k, s, Operate(op, left, ArithLevel(k - 1, s, left.at + Len(op), left.x)))

(* ++ and -- in front: of a variable with the name behind, even no name.   *)
ArithPreIncrement(s, i, x) ==
  LET step == IF At(s, i) = "+" THEN 1 ELSE -1
      end  == EndOf(s, i + 2, Digits \cup {"x"})
      isX  == end = i + 3 /\ At(s, i + 2) = "x"
      v    == Wrap((IF isX THEN x ELSE 0) + step)
  IN Result(v, end, IF isX THEN v ELSE x, "")

Store(op, isX, v, rhs) ==
  LET stop == IF rhs.stop # "" THEN rhs.stop ELSE Stop(op, v, rhs.v)
      new  == IF stop = "" THEN Assigned(op, v, rhs.v) ELSE 0
  IN Result(new, rhs.at, IF isX THEN new ELSE rhs.x, stop)

(* A name, and what makes an lvalue of it.  The value read first is the    *)
(* one a compound assignment adds to.                                      *)
ArithOperand(s, i, x) ==
  LET end == EndOf(s, i, Digits \cup {"x"})
      isX == end = i + 1
      v   == IF isX THEN x ELSE 0
      op  == AssignOp(s, end)
  IN CASE Is(s, end, "++") -> Result(v, end + 2, IF isX THEN Wrap(v + 1) ELSE x, "")
       [] Is(s, end, "--") -> Result(v, end + 2, IF isX THEN Wrap(v - 1) ELSE x, "")
       [] op = "none"      -> Result(v, end, x, "")
       [] OTHER            -> Store(op, isX, v, ArithTernary(s, end + Len(op) + 1, x))

ArithUnary(op, r) ==
  [r EXCEPT !.v = CASE op = "-" -> Wrap(-@) [] op = "+" -> @
                    [] op = "!" -> Bool(@ = 0) [] op = "~" -> Wrap(-@ - 1)]

(* Anything else is an operand of value 0 that takes no character.         *)
ArithPrimary(s, i, x) ==
  LET c == At(s, i)
  IN CASE c = "("                     -> [ArithExpr(s, i + 1, x) EXCEPT !.at = IF At(s, @) = ")" THEN @ + 1 ELSE @]
       [] Is(s, i, "++") \/ Is(s, i, "--") -> ArithPreIncrement(s, i, x)
       [] c \in {"-", "+", "!", "~"} -> ArithUnary(c, ArithPrimary(s, i + 1, x))
       [] c = "x"                     -> ArithOperand(s, i, x)
       [] c \in Digits                -> LET j == EndOf(s, i, Digits)
                                         IN Result(NumberAt(s, i, j), j, x, "")
       [] OTHER                       -> Result(0, i, x, "")

(* Both branches are evaluated.                                            *)
OtherBranch(s, cond, t) ==
  IF t.stop # "" THEN t
  ELSE [ArithTernary(s, IF At(s, t.at) = ":" THEN t.at + 1 ELSE t.at, t.x) EXCEPT
          !.v = IF cond.v # 0 THEN t.v ELSE @]
Branches(s, cond) ==
  IF cond.stop # "" \/ At(s, cond.at) # "?" THEN cond
  ELSE OtherBranch(s, cond, ArithTernary(s, cond.at + 1, cond.x))
ArithTernary(s, i, x) == Branches(s, ArithLevel(OutermostLevel, s, i, x))

RECURSIVE CommaRest(_, _)
CommaRest(s, r) == IF r.stop # "" \/ At(s, r.at) # "," THEN r
                   ELSE CommaRest(s, ArithTernary(s, r.at + 1, r.x))
ArithExpr(s, i, x) == CommaRest(s, ArithTernary(s, i, x))

(* expand_arith: text that is left over is an error.                       *)
AtTheEnd(s, r) == IF r.stop = "" /\ r.at <= Len(s) THEN [r EXCEPT !.stop = "syntax"] ELSE r
ExpandArith(s, x) == AtTheEnd(s, ArithExpr(s, 1, x))

-----------------------------------------------------------------------------
Type == /\ \E T \in Texts : \E c \in T.chars :
             /\ ToSet(expr) \subseteq T.chars
             /\ Len(expr) < T.max
             /\ expr' = Append(expr, c)
        /\ UNCHANGED initially

Init == expr = <<>> /\ initially \in InitialValues
Next == Type
Spec == Init /\ [][Next]_arithVars

-----------------------------------------------------------------------------
(* The language C defines: the tokens of a text, the trees the grammar     *)
(* gives a sequence of tokens, and what a tree means.                      *)

Operators == <<"<<=", ">>=", "+=", "-=", "*=", "/=", "%=", "&=", "|=", "^=",
               "<<", ">>", "<=", ">=", "==", "!=", "&&", "||", "++", "--",
               "+", "-", "*", "/", "%", "&", "|", "^", "<", ">", "=", "!", "~",
               "?", ":", ",", "(", ")">>

RECURSIVE Tokens(_, _)
Tokens(s, i) ==
  LET end == EndOf(s, i, Digits \cup {"x"})
      op  == FirstOf(s, i, Operators)
  IN CASE i > Len(s) -> <<>>
       [] end > i    -> <<IF s[i] = "x" THEN <<"name", end = i + 1>>
                          ELSE IF ToSet(SubSeq(s, i, end - 1)) \subseteq Digits
                                 THEN <<"number", NumberAt(s, i, end)>> ELSE <<"bad">>>>
                        \o Tokens(s, end)
       [] OTHER      -> <<<<op>>>> \o Tokens(s, i + Len(op))

Precedence == <<{"*", "/", "%"}, {"+", "-"}, {"<<", ">>"}, {"<", ">", "<=", ">="},
                {"==", "!="}, {"&"}, {"^"}, {"|"}, {"&&"}, {"||"}>>
AssignTokens == {"=", "+=", "-=", "*=", "/=", "%=", "&=", "|=", "^=", "<<=", ">>="}
Bare(op) == CASE op = "="   -> "" [] op = "+="  -> "+"  [] op = "-=" -> "-"
              [] op = "*="  -> "*" [] op = "/="  -> "/"  [] op = "%=" -> "%"
              [] op = "&="  -> "&" [] op = "|="  -> "|"  [] op = "^=" -> "^"
              [] op = "<<=" -> "<<" [] op = ">>=" -> ">>"

RECURSIVE Trees(_, _)
Front1(t, k) == SubSeq(t, 1, k - 1)
After(t, k)  == SubSeq(t, k + 1, Len(t))
Assignments(t) ==
  UNION {{<<"assign", Bare(t[2][1]), r>> : r \in Trees(After(t, 2), 12)} :
         k \in {2} \cap {n \in 1 .. Len(t) : t[1] = <<"name", TRUE>> /\ t[n][1] \in AssignTokens}}
Conditionals(t) ==
  UNION {{<<"?", p[1], p[2], p[3]>> :
            p \in Trees(Front1(t, k[1]), 10) \X Trees(SubSeq(t, k[1] + 1, k[2] - 1), 13)
                  \X Trees(After(t, k[2]), 11)} :
         k \in {p \in (1 .. Len(t)) \X (1 .. Len(t)) :
                  p[1] < p[2] /\ t[p[1]][1] = "?" /\ t[p[2]][1] = ":"}}
Unaries(t) ==
  CASE t[1][1] \in {"-", "+", "!", "~"} -> {<<"unary", t[1][1], r>> : r \in Trees(Tail(t), 0)}
    [] t[1][1] \in {"++", "--"} /\ Tail(t) = <<<<"name", TRUE>>>> -> {<<"pre", t[1][1]>>}
    [] t[1] = <<"name", TRUE>> /\ Len(t) = 2 /\ t[2][1] \in {"++", "--"} -> {<<"post", t[2][1]>>}
    [] Len(t) = 1 /\ t[1][1] \in {"name", "number"} -> {t[1]}
    [] t[1][1] = "(" /\ Last(t)[1] = ")" /\ Len(t) > 2 -> Trees(Front(Tail(t)), 13)
    [] OTHER -> {}
(* Level 0 is unary, 1 to 10 the binary operators, 11 the conditional, 12  *)
(* assignment, 13 the comma.                                               *)
Trees(t, level) ==
  IF t = <<>> THEN {}
  ELSE CASE level = 0  -> Unaries(t)
         [] level = 11 -> Trees(t, 10) \cup Conditionals(t)
         [] level = 12 -> Trees(t, 11) \cup Assignments(t)
         [] OTHER ->
              LET ops == IF level = 13 THEN {","} ELSE Precedence[level]
              IN Trees(t, level - 1) \cup
                 UNION {{<<"binary", t[k][1], p[1], p[2]>> :
                           p \in Trees(Front1(t, k), level) \X Trees(After(t, k), level - 1)} :
                        k \in {n \in 1 .. Len(t) : t[n][1] \in ops}}

(* What a tree means: <<value, x, stop>>.  If `lazy`, the operands that C  *)
(* does not evaluate are not.                                              *)
RECURSIVE Meaning(_, _, _)
Then(a, b) == IF a[3] # "" THEN a ELSE b
Applied(op, a, b) == LET stop == Stop(op, a[1], b[1])
                     IN Then(b, <<IF stop = "" THEN Binary(op, a[1], b[1]) ELSE 0, b[2], stop>>)
Meaning(t, x, lazy) ==
  CASE t[1] = "number" -> <<t[2], x, "">>
    [] t[1] = "name"   -> <<IF t[2] THEN x ELSE 0, x, "">>
    [] t[1] = "pre"    -> LET v == Wrap(IF t[2] = "++" THEN x + 1 ELSE x - 1) IN <<v, v, "">>
    [] t[1] = "post"   -> <<x, Wrap(IF t[2] = "++" THEN x + 1 ELSE x - 1), "">>
    [] t[1] = "unary"  -> LET a == Meaning(t[3], x, lazy)
                          IN <<ArithUnary(t[2], [v |-> a[1]]).v, a[2], a[3]>>
    [] t[1] = "assign" -> LET a == Meaning(t[3], x, lazy)
                              stop == Stop(t[2], x, a[1])
                              v == IF stop # "" THEN 0
                                   ELSE IF t[2] = "" THEN a[1] ELSE Binary(t[2], x, a[1])
                          IN Then(a, <<v, v, stop>>)
    [] t[1] = "?"      -> LET c == Meaning(t[2], x, lazy)
                              a == Meaning(t[3], c[2], lazy)
                              b == Meaning(t[4], IF lazy THEN c[2] ELSE a[2], lazy)
                          IN Then(c, IF lazy THEN IF c[1] # 0 THEN a ELSE b
                                     ELSE Then(a, Then(b, <<IF c[1] # 0 THEN a[1] ELSE b[1],
                                                            b[2], "">>)))
    [] OTHER           -> LET a == Meaning(t[3], x, lazy)
                              b == Meaning(t[4], a[2], lazy)
                          IN Then(a, IF t[2] = "," THEN b
                                     ELSE IF lazy /\ ((t[2] = "&&" /\ a[1] = 0)
                                                      \/ (t[2] = "||" /\ a[1] # 0))
                                       THEN <<Bool(t[2] = "||"), a[2], "">>
                                     ELSE Applied(t[2], a, b))

-----------------------------------------------------------------------------
(* Properties.                                                             *)

Text   == ArithPresubst(expr, initially)
Got    == ExpandArith(Text, initially)
Outcome(r) == IF r.stop = "" THEN <<r.v, r.x, "">> ELSE <<0, 0, r.stop>>
Meant(t, lazy) == LET m == Meaning(t, initially, lazy)
                  IN IF m[3] = "" THEN m ELSE <<0, 0, m[3]>>

RECURSIVE Nodes(_)
Nodes(t) == {t} \cup UNION {Nodes(t[k]) : k \in
              CASE t[1] = "binary" -> {3, 4} [] t[1] = "unary" -> {3}
                [] t[1] = "assign" -> {3} [] t[1] = "?" -> {2, 3, 4} [] OTHER -> {}}

(* An equality and a comparison in one expression: CmpOp has them at one   *)
(* level.                                                                  *)
MixesEquality(t) == /\ \E n \in Nodes(t) : n[1] = "binary" /\ n[2] \in {"==", "!="}
                    /\ \E n \in Nodes(t) : n[1] = "binary" /\ n[2] \in {"<", ">", "<=", ">="}
(* A shift assignment whose distance is out of range.                      *)
ShiftAssigns(t) == \E n \in Nodes(t) : n[1] = "assign" /\ n[2] \in {"<<", ">>"}

(* An expression of the language has the value the language gives it and   *)
(* leaves x with the value it says, every operand being evaluated from     *)
(* left to right: precedence, associativity, the lookahead that tells +    *)
(* from ++ and += and < from << and <=, and the two ways to name x.        *)
ValuesAreTheLanguages ==
  \A t \in Trees(Tokens(Text, 1), 13) :
    ~MixesEquality(t) /\ ~ShiftAssigns(t) => Outcome(Got) = Meant(t, FALSE)

(* The same with the operands left out that C does not evaluate: what      *)
(* OPTIMISATIONS.md calls short-circuit.                                   *)
ShortCircuits == \A t \in Trees(Tokens(Text, 1), 13) :
                   ~MixesEquality(t) /\ ~ShiftAssigns(t) => Outcome(Got) = Meant(t, TRUE)

(* x <<= n is x = x << n.                                                  *)
ShiftAssignsShift == \A t \in Trees(Tokens(Text, 1), 13) :
                       ShiftAssigns(t) => Outcome(Got) = Meant(t, FALSE)

(* Equality binds less than a comparison.                                  *)
EqualityBindsLess == \A t \in Trees(Tokens(Text, 1), 13) :
                       MixesEquality(t) => Outcome(Got) = Meant(t, FALSE)

(* A text that is no expression is an error and never silently a value.    *)
MalformedIsDiagnosed ==
  Got.stop = "" /\ expr # <<>> => Trees(Tokens(Text, 1), 13) # {}

(* A parameter is one operand, whatever its sign.                          *)
ParametersAreOperands ==
  LET named == [k \in 1 .. Len(expr) |-> IF expr[k] = "$x" THEN "x" ELSE expr[k]]
      glued == \E k \in 1 .. Len(expr) - 1 : {expr[k], expr[k + 1]} \subseteq Digits \cup {"x", "$x"}
      kinds(t) == {n[1] : n \in Nodes(t)}
  IN ~glued => \A t \in Trees(Tokens(named, 1), 13) :
       kinds(t) \cap {"pre", "post", "assign"} = {} /\ ~MixesEquality(t)
         => Outcome(Got) = Meant(t, FALSE)
=============================================================================
