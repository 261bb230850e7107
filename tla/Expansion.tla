----------------------------- MODULE Expansion -----------------------------
(***************************************************************************)
(* Word expansion (expand.c).  A word is walked once, from left to right,  *)
(* into a buffer of bytes; what the walk knows and the later passes need - *)
(* which bytes were quoted, where one positional parameter ends and the    *)
(* next begins - is written into the same buffer, as marker bytes.  Data   *)
(* that holds such a byte is escaped, and unescaped at the end.            *)
(*                                                                         *)
(* Texts and values are sequences of characters.  A parameter expansion is *)
(* one token of the text: "$v", and "${u-" with its own "}".  A token      *)
(* taken literally is a character of the value.  The properties compare    *)
(* the passes with the language of POSIX 2.6, at the end of the module.    *)
(***************************************************************************)
EXTENDS Integers, Sequences, SequencesExt, FiniteSets, TLC

CONSTANTS Words,    \* records: the tokens typed, how many, and the environments
          Files     \* the names in the working directory

VARIABLES word,     \* the text of the word
          env       \* IFS, HOME, the positional parameters, the variables

wordVars == <<word, env>>

(* The bytes that are markers, and what an escaped one looks like.         *)
BOUND == "01"  OPEN == "02"  CLOSE == "03"  PP_ESC == "04"  NULL == "05"
Reserved == {BOUND, OPEN, CLOSE, PP_ESC, NULL}
Masked   == [c \in Reserved |-> c \o "+40"]
Unmask(c) == IF \E r \in Reserved : Masked[r] = c THEN CHOOSE r \in Reserved : Masked[r] = c
             ELSE "garbled"

Params == {"$v", "$u", "$@", "$*"}
Braces == {"${v+", "${u-", "${u=", "${v#", "${v##", "${v%", "${v%%", "${v/", "${v//"}
Dollars == Params \cup Braces
NameOf(t) == IF t \in {"$u", "${u-", "${u="} THEN "u" ELSE "v"
Shortest(t) == t \in {"${v#", "${v%"}

Concat(ss) == FoldLeft(LAMBDA a, b : a \o b, <<>>, ss)
JoinedBy(ss, sep) ==
  IF ss = <<>> THEN <<>> ELSE FoldLeft(LAMBDA a, b : a \o sep \o b, ss[1], Tail(ss))
From(s, i) == SubSeq(s, i, Len(s))
(* The first of cs at or behind i; behind the text if there is none.       *)
Find(s, i, cs) == CHOOSE k \in i .. Len(s) + 1 : /\ \A j \in i .. k - 1 : s[j] \notin cs
                                                 /\ k <= Len(s) => s[k] \in cs
Past(s, k) == IF k <= Len(s) THEN k + 1 ELSE k

-----------------------------------------------------------------------------
(* Scanners: where a construct ends.                                       *)

(* The end of a "${...}", as if no quote could hide its "}".               *)
ScanBracedEndFlat(s, i, innerDq) == Find(s, i, {"}"})

(* scan_braced_end: quotes, escapes and inner expansions hide a "}".       *)
RECURSIVE ScanBracedEnd(_, _, _)
ScanBracedEnd(s, i, innerDq) ==
  CASE i > Len(s)                   -> Len(s) + 1
    [] s[i] = "\\"                  -> ScanBracedEnd(s, i + 2, innerDq)
    [] s[i] = "'" /\ ~innerDq       -> ScanBracedEnd(s, Past(s, Find(s, i + 1, {"'"})), innerDq)
    [] s[i] = "\""                  -> ScanBracedEnd(s, i + 1, ~innerDq)
    [] s[i] \in Braces              -> ScanBracedEnd(s, Past(s, ScanBracedEnd(s, i + 1, FALSE)),
                                                     innerDq)
    [] s[i] = "}" /\ ~innerDq       -> i
    [] OTHER                        -> ScanBracedEnd(s, i + 1, innerDq)

RECURSIVE SkipDquoteEnd(_, _)
SkipDquoteEnd(s, i) ==
  CASE i > Len(s)        -> Len(s) + 1
    [] s[i] = "\""       -> i + 1
    [] s[i] = "\\"       -> SkipDquoteEnd(s, i + 2)
    [] s[i] \in Braces   -> SkipDquoteEnd(s, Past(s, ScanBracedEnd(s, i + 1, FALSE)))
    [] OTHER             -> SkipDquoteEnd(s, i + 1)

(* skip_construct: what the pattern builder and the assignment step over.  *)
RECURSIVE SkipConstruct(_, _), SkipToClose(_, _, _)
SkipToClose(s, q, close) ==
  CASE q > Len(s)                      -> Len(s) + 1
    [] s[q] = close                    -> q + 1
    [] s[q] = "\\" /\ q < Len(s)       -> SkipToClose(s, q + 2, close)
    [] s[q] \in Braces \/ (close = "}" /\ s[q] \in {"'", "\""})
                                       -> SkipToClose(s, SkipConstruct(s, q), close)
    [] OTHER                           -> SkipToClose(s, q + 1, close)
SkipConstruct(s, i) ==
  CASE s[i] = "\\" /\ i < Len(s) -> i + 2
    [] s[i] = "'"                -> Past(s, Find(s, i + 1, {"'"}))
    [] s[i] = "\""               -> SkipToClose(s, i + 1, "\"")
    [] s[i] \in Braces           -> SkipToClose(s, i + 1, "}")
    [] OTHER                     -> i

(* Where the pattern of ${v/pattern/replacement} ends: at a "/" that is not *)
(* quoted and not the first character.                                     *)
RECURSIVE PatternEnd(_, _, _)
PatternEnd(s, i, quote) ==
  CASE i > Len(s)                                         -> Len(s) + 1
    [] quote = "" /\ s[i] = "\\" /\ i < Len(s)           -> PatternEnd(s, i + 2, "")
    [] quote = "" /\ s[i] \in {"'", "\""}                 -> PatternEnd(s, i + 1, s[i])
    [] quote = "" /\ s[i] = "/" /\ i > 1                  -> i
    [] OTHER -> PatternEnd(s, i + 1, IF s[i] = quote THEN "" ELSE quote)

(* has_unquoted_expansion and has_unquoted_glob: is one of cs outside all  *)
(* quotes?                                                                 *)
RECURSIVE Unquoted(_, _, _, _, _)
Unquoted(s, i, cs, sq, dq) ==
  CASE i > Len(s)                      -> FALSE
    [] s[i] = "\\" /\ ~sq              -> Unquoted(s, i + 2, cs, sq, dq)
    [] s[i] = "'" /\ ~dq               -> Unquoted(s, i + 1, cs, ~sq, dq)
    [] s[i] = "\"" /\ ~sq              -> Unquoted(s, i + 1, cs, sq, ~dq)
    [] ~sq /\ ~dq /\ s[i] \in cs       -> TRUE
    [] dq /\ s[i] \in Braces           -> Unquoted(s, ScanBracedEnd(s, i + 1, FALSE) + 1, cs, sq, dq)
    [] OTHER                           -> Unquoted(s, i + 1, cs, sq, dq)
HasUnquotedExpansion(s) == Unquoted(s, 1, Dollars, FALSE, FALSE)
HasUnquotedGlob(s)      == Unquoted(s, 1, {"*"}, FALSE, FALSE)

-----------------------------------------------------------------------------
(* The buffer.  `f` holds the flags of the context that the walk sets and  *)
(* restores around what it calls, `st` what it leaves behind.              *)

Plain == [guards |-> FALSE, subst |-> FALSE, join |-> FALSE, wordDq |-> FALSE,
          assign |-> FALSE, heredoc |-> FALSE]
Fresh(vars) == [out |-> <<>>, vars |-> vars, noParams |-> FALSE, noParamsAtOpen |-> FALSE,
                boundary |-> FALSE, guarded |-> FALSE, depth |-> 0]

PpEscape(s) == Concat([k \in 1 .. Len(s) |->
                 IF s[k] \in Reserved THEN <<PP_ESC, Masked[s[k]]>> ELSE <<s[k]>>])
RECURSIVE PpDecode(_, _)
PpDecode(s, strip) ==
  CASE s = <<>>                          -> <<>>
    [] s[1] = PP_ESC /\ Len(s) > 1       -> <<Unmask(s[2])>> \o PpDecode(From(s, 3), strip)
    [] s[1] \in strip                    -> PpDecode(Tail(s), strip)
    [] OTHER                             -> <<s[1]>> \o PpDecode(Tail(s), strip)
Decode(s)     == PpDecode(s, {NULL})
DecodeFull(s) == PpDecode(s, {BOUND, OPEN, CLOSE, NULL})

Emit(st, s) == [st EXCEPT !.out = @ \o s]
Encoded(f, s) == IF f.guards THEN PpEscape(s) ELSE s
EmitData(f, st, s) == Emit(st, Encoded(f, s))

GuardOpen(f, st) ==
  IF ~f.guards THEN st
  ELSE IF st.depth > 0 THEN [st EXCEPT !.depth = @ + 1]
  ELSE [Emit(st, <<OPEN>>) EXCEPT !.depth = 1, !.guarded = TRUE, !.noParamsAtOpen = st.noParams]
(* As it was before an empty region left its placeholder.                  *)
GuardCloseBare(f, st) ==
  IF ~f.guards THEN st
  ELSE IF st.depth > 1 THEN [st EXCEPT !.depth = @ - 1]
  ELSE [Emit(st, <<CLOSE>>) EXCEPT !.depth = 0]

GuardClose(f, st) ==
  LET empty == Last(st.out) = OPEN /\ st.noParams = st.noParamsAtOpen
  IN IF ~f.guards THEN st
     ELSE IF st.depth > 1 THEN [st EXCEPT !.depth = @ - 1]
     ELSE [Emit(st, IF empty THEN <<NULL, CLOSE>> ELSE <<CLOSE>>) EXCEPT !.depth = 0]

EmitLiteral(f, st, c) ==
  IF f.guards /\ st.depth = 0 /\ ~f.subst /\ c \in ToSet(env.ifs)
  THEN GuardClose(f, Emit(GuardOpen(f, st), <<c>>))
  ELSE Emit(st, <<c>>)

Separator == IF env.ifs = <<>> THEN <<>> ELSE <<env.ifs[1]>>
Joined    == JoinedBy(env.params, Separator)
Escaped(ps, f) == IF Len(env.params) >= 2 \/ f.guards
                  THEN [k \in 1 .. Len(ps) |-> PpEscape(ps[k])] ELSE ps
Separate(f, st, ps) == [Emit(st, JoinedBy(Escaped(ps, f), <<BOUND>>))
                          EXCEPT !.boundary = @ \/ Len(ps) > 1]

(* $@ and $*.                                                              *)
Positionals(f, st, t, dq) ==
  CASE f.heredoc \/ f.assign -> Emit(st, Joined)
    [] t = "$@" /\ dq        -> Separate(f, [st EXCEPT !.noParams = @ \/ env.params = <<>>],
                                         env.params)
    [] (t = "$*" /\ dq) \/ f.join \/ env.ifs # <<>> -> EmitData(f, st, Joined)
    [] OTHER                 -> Separate(f, st, SelectSeq(env.params, LAMBDA p : p # <<>>))

Value(st, n) == IF n \in DOMAIN st.vars THEN st.vars[n] ELSE <<>>

-----------------------------------------------------------------------------
(* fnmatch over a pattern whose characters are active unless escaped.      *)

RECURSIVE Atoms(_)
Atoms(p) == CASE p = <<>>                        -> <<>>
              [] p[1] = "\\" /\ Len(p) > 1       -> <<<<p[2], FALSE>>>> \o Atoms(From(p, 3))
              [] OTHER                           -> <<<<p[1], TRUE>>>> \o Atoms(Tail(p))
RECURSIVE AtomsMatch(_, _)
AtomsMatch(p, s) ==
  CASE p = <<>>             -> s = <<>>
    [] p[1] = <<"*", TRUE>> -> \E k \in 1 .. Len(s) + 1 : AtomsMatch(Tail(p), From(s, k))
    [] OTHER                -> s # <<>> /\ s[1] = p[1][1] /\ AtomsMatch(Tail(p), Tail(s))
Fnmatch(p, s) == AtomsMatch(Atoms(p), s)

(* A pattern without metacharacters is compared as it is.                  *)
Literal(p) == {"*", "\\"} \cap ToSet(p) = {}
PrefixMatches(p, s) == IF Literal(p) THEN {Len(p)} \cap {k \in 0 .. Len(s) : SubSeq(s, 1, k) = p}
                       ELSE {k \in 0 .. Len(s) : Fnmatch(p, SubSeq(s, 1, k))}
SuffixMatches(p, s) == IF Literal(p) THEN {Len(s) - Len(p)} \cap {k \in 0 .. Len(s) : From(s, k + 1) = p}
                       ELSE {k \in 0 .. Len(s) : Fnmatch(p, From(s, k + 1))}
Smallest(S) == CHOOSE k \in S : \A j \in S : k <= j
Largest(S)  == CHOOSE k \in S : \A j \in S : k >= j
StripPrefix(s, p, short) ==
  LET ks == PrefixMatches(p, s)
  IN IF ks = {} THEN s ELSE From(s, (IF short THEN Smallest(ks) ELSE Largest(ks)) + 1)
StripSuffix(s, p, short) ==
  LET ks == SuffixMatches(p, s)
  IN IF ks = {} THEN s ELSE SubSeq(s, 1, IF short THEN Largest(ks) ELSE Smallest(ks))

(* ${v/p/r} and ${v//p/r}: the longest match at each position, none empty  *)
(* unless the subject is.                                                  *)
RECURSIVE Substituted(_, _, _, _)
Substituted(s, p, r, all) ==
  LET least == IF s = <<>> THEN 0 ELSE 1
      ks == {k \in least .. Len(s) : IF Literal(p) THEN SubSeq(s, 1, k) = p
                                     ELSE Fnmatch(p, SubSeq(s, 1, k))}
      rest == From(s, Largest(ks) + 1)
  IN CASE ks = {} /\ s = <<>>   -> <<>>
       [] ks = {}               -> <<s[1]>> \o Substituted(Tail(s), p, r, all)
       [] ~all \/ rest = <<>>   -> r \o rest
       [] OTHER                 -> r \o Substituted(rest, p, r, all)

-----------------------------------------------------------------------------
(* The walk.                                                               *)

RECURSIVE ExpandInto(_, _, _, _), ExpandBraced(_, _, _, _, _), ExpandWordPattern(_, _, _)

EscapableInDq(f, t) == \/ t \in Dollars \cup {"\\"}
                       \/ t = "}" /\ f.wordDq
                       \/ t = "\"" /\ ~f.heredoc
(* A word inside braces has a buffer of its own.                           *)
Apart(st, f, text, dq) == ExpandInto(text, dq, f, [st EXCEPT !.out = <<>>])

ExpandInto(s, dq, f, st) ==
  LET c == s[1]
      close == Find(s, 2, {"'"})
      brace == ScanBracedEnd(s, 2, FALSE)
      val   == ExpandBraced(c, SubSeq(s, 2, brace - 1), dq, f, st)
      quoted == ExpandInto(Tail(s), TRUE, f, GuardOpen(f, st))
  IN CASE s = <<>> -> st
       [] c = "'" /\ ~dq ->
            ExpandInto(From(s, Past(s, close)), dq, f,
                       GuardClose(f, Emit(GuardOpen(f, st), SubSeq(s, 2, close - 1))))
       [] c = "\"" /\ ~dq ->
            ExpandInto(From(s, SkipDquoteEnd(s, 2)), dq, f, GuardClose(f, quoted))
       [] c = "\"" /\ dq /\ f.wordDq -> ExpandInto(Tail(s), dq, f, st)
       [] c = "\"" /\ dq /\ ~f.wordDq /\ ~f.heredoc -> st
       [] c = "\\" /\ Len(s) = 1 -> st
       [] c = "\\" /\ Len(s) > 1 ->
            ExpandInto(From(s, 3), dq, f,
                       IF ~dq THEN EmitLiteral(f, st, s[2])
                       ELSE Emit(st, IF EscapableInDq(f, s[2]) THEN <<s[2]>> ELSE <<c, s[2]>>))
       [] c \in Braces ->
            ExpandInto(From(s, Past(s, brace)), dq, f, [val EXCEPT !.out = st.out \o @])
       [] c \in {"$@", "$*"} -> ExpandInto(Tail(s), dq, f, Positionals(f, st, c, dq))
       [] c \in Params \ {"$@", "$*"} ->
            ExpandInto(Tail(s), dq, f, EmitData(f, st, Value(st, NameOf(c))))
       [] OTHER -> ExpandInto(Tail(s), dq, f, EmitLiteral(f, st, c))

BracedData(f, s, st) == [st EXCEPT !.out = Encoded(f, s)]
BracedWord(text, dq, f, st) == Apart(st, [f EXCEPT !.join = ~dq, !.wordDq = dq], text, dq)

BracedDefault(t, body, dq, f, st) ==
  LET n     == NameOf(t)
      w     == BracedWord(body, dq, f, st)
      value == IF f.guards THEN DecodeFull(w.out) ELSE w.out
  IN IF n \in DOMAIN st.vars
     THEN IF t = "${v+" THEN w ELSE BracedData(f, st.vars[n], st)
     ELSE CASE t = "${v+" -> [st EXCEPT !.out = <<>>]
            [] t = "${u-" -> w
            [] t = "${u=" -> [w EXCEPT !.vars = (n :> value) @@ @]

BracedStrip(t, body, f, st) ==
  LET pat == ExpandWordPattern(body, f, st)
      v   == Value(st, NameOf(t))
  IN BracedData(f, IF t \in {"${v#", "${v##"} THEN StripPrefix(v, pat.out, Shortest(t))
                   ELSE StripSuffix(v, pat.out, Shortest(t)), pat)

BracedSubst(t, body, dq, f, st) ==
  LET sep  == PatternEnd(body, 1, "")
      pat  == ExpandWordPattern(SubSeq(body, 1, sep - 1), f, st)
      repl == BracedWord(From(body, Past(body, sep)), dq, f, pat)
      v    == Value(st, NameOf(t))
  IN IF pat.out = <<>> THEN BracedData(f, v, pat)
     ELSE [repl EXCEPT !.out = Substituted(v, pat.out, repl.out, t = "${v//")]

(* Everything between the braces is part of a result.  In a here-document  *)
(* quotes are quotes again, and the parameters are joined.                 *)
ExpandBraced(t, body, dqOutside, fOutside, st) ==
  LET inDoc == fOutside.heredoc
      dq    == dqOutside /\ ~inDoc
      f     == [fOutside EXCEPT !.subst = TRUE, !.heredoc = FALSE, !.assign = @ \/ inDoc]
  IN CASE t \in {"${v+", "${u-", "${u="}              -> BracedDefault(t, body, dq, f, st)
       [] t \in {"${v#", "${v##", "${v%", "${v%%"}   -> BracedStrip(t, body, f, st)
       [] t \in {"${v/", "${v//"}                    -> BracedSubst(t, body, dq, f, st)

(* A word as a pattern: what is quoted is escaped - or, as a flat string   *)
(* would have it, is not.                                                  *)
PatFlat(s) == s
PatLiteral(s) == Concat([k \in 1 .. Len(s) |->
                   IF s[k] \in {"\\", "*", ":"} THEN <<"\\", s[k]>> ELSE <<s[k]>>])
RECURSIVE EndOfRun(_, _), PatternSpans(_, _, _)
EndOfRun(s, i) == CASE i > Len(s) \/ s[i] \in {"'", "\"", "\\"} -> i
                    [] s[i] \in Braces -> EndOfRun(s, SkipConstruct(s, i))
                    [] OTHER -> EndOfRun(s, i + 1)
PatternSpans(s, f, st) ==
  LET close == Find(s, 2, {"'"})
      end   == EndOfRun(s, 1)
      quoted == Apart(st, f, Tail(s), TRUE)
      run    == Apart(st, f, SubSeq(s, 1, end - 1), FALSE)
      With(st1, out) == [st1 EXCEPT !.out = st.out \o out]
  IN CASE s = <<>>    -> st
       [] s[1] = "'"  -> PatternSpans(From(s, Past(s, close)), f,
                                      With(st, PatLiteral(SubSeq(s, 2, close - 1))))
       [] s[1] = "\"" -> PatternSpans(From(s, SkipDquoteEnd(s, 2)), f,
                                      With(quoted, PatLiteral(quoted.out)))
       [] s[1] = "\\" -> IF Len(s) = 1 THEN With(st, <<"\\">>)
                         ELSE PatternSpans(From(s, 3), f, With(st, PatLiteral(<<s[2]>>)))
       [] OTHER       -> PatternSpans(From(s, end), f, With(run, run.out))
ExpandWordPattern(s, f, st) == PatternSpans(s, f, [st EXCEPT !.out = <<>>])

(* The value of an assignment, and the text of a here-document.            *)
ExpandWordAssign(s, vars)  == ExpandInto(s, FALSE, [Plain EXCEPT !.assign = TRUE], Fresh(vars))
ExpandWordHeredoc(s, vars) == ExpandInto(s, TRUE, [Plain EXCEPT !.heredoc = TRUE], Fresh(vars))

-----------------------------------------------------------------------------
(* The fields of a word (expand_word_full).  The bytes inside the guards   *)
(* are protected; a byte of the word is paired with whether it is.         *)

Protect(s) ==
  FoldLeft(LAMBDA a, c : IF c = OPEN THEN [a EXCEPT !.depth = @ + 1]
                         ELSE IF c = CLOSE THEN [a EXCEPT !.depth = @ - 1]
                         ELSE [a EXCEPT !.bytes = Append(@, <<c, a.depth > 0>>)],
           [bytes |-> <<>>, depth |-> 0], s).bytes

Bytes(bs) == [k \in 1 .. Len(bs) |-> bs[k][1]]
IsIfs(b) == ~b[2] /\ b[1] \in ToSet(env.ifs)
IsWs(b)  == IsIfs(b) /\ b[1] = " "
IsBound(b, boundary) == boundary /\ b[1] = BOUND
EndOfWs(bs, i) == CHOOSE k \in i .. Len(bs) + 1 : /\ \A j \in i .. k - 1 : IsWs(bs[j])
                                                  /\ k <= Len(bs) => ~IsWs(bs[k])

(* The splitter: the fields from position i on.                            *)
RECURSIVE SplitFrom(_, _, _, _)
SplitFrom(bs, i, boundary, lastWasBound) ==
  LET end   == CHOOSE k \in i .. Len(bs) + 1 :
                 /\ \A j \in i .. k - 1 : ~IsIfs(bs[j]) /\ ~IsBound(bs[j], boundary)
                 /\ k <= Len(bs) => IsIfs(bs[k]) \/ IsBound(bs[k], boundary)
      field == <<SubSeq(bs, i, end - 1)>>
      ws    == EndOfWs(bs, end)
      nws   == ws <= Len(bs) /\ IsIfs(bs[ws])
  IN CASE i > Len(bs)                 -> IF lastWasBound THEN <<<<>>>> ELSE <<>>
       [] i <= Len(bs) /\ end > Len(bs) -> field
       [] IsBound(bs[end], boundary)  -> field \o SplitFrom(bs, end + 1, boundary, TRUE)
       [] OTHER -> (IF nws \/ end > i THEN field ELSE <<>>)
                   \o SplitFrom(bs, IF nws THEN EndOfWs(bs, ws + 1) ELSE ws, boundary, FALSE)

(* As if every separator collapsed like blanks.                            *)
SplitCollapsing(bs, boundary) ==
  SelectSeq(SplitFrom(bs, EndOfWs(bs, 1), boundary, FALSE), LAMBDA b : b # <<>>)
Split(bs, boundary) == SplitFrom(bs, EndOfWs(bs, 1), boundary, FALSE)

RECURSIVE SplitAt(_, _)
SplitAt(s, c) == LET k == Find(s, 1, {c})
                 IN <<SubSeq(s, 1, k - 1)>> \o (IF k > Len(s) THEN <<>> ELSE SplitAt(From(s, k + 1), c))

(* Pathname expansion: a pattern without a match stands for itself.        *)
Sorted(S) == SetToSortSeq(S, LAMBDA a, b : Len(a) <= Len(b))
Glob(pattern, field) == LET names == {n \in Files : Fnmatch(pattern, n)}
                        IN IF names = {} THEN <<field>> ELSE Sorted(names)

Named(s, vars, f, globbed) ==
  LET escaped == "\\" \in ToSet(s) /\ ToSet(s) \cap Dollars = {}
  IN IF ~globbed THEN <<f>>
     ELSE Glob(IF escaped THEN ExpandWordPattern(s, Plain, Fresh(vars)).out ELSE f, f)
HasActiveStar(bs) == <<"*", FALSE>> \in ToSet(bs)

(* The three ways out of a walk: parameters to tell apart and nothing to   *)
(* split, one field, everything.                                           *)
SeparatedFields(parts) == [k \in 1 .. Len(parts) |-> <<Decode(parts[k])>>]
SplitFields(s, vars, parts) ==
  [k \in 1 .. Len(parts) |->
     Named(s, vars, Decode(Bytes(parts[k])), HasUnquotedGlob(s) \/ HasActiveStar(parts[k]))]
WalkedBytes(st) == IF st.guarded THEN Protect(st.out)
                   ELSE [k \in 1 .. Len(st.out) |-> <<st.out[k], FALSE>>]
FieldsOfWalk(s, vars, split, st) ==
  CASE split                     -> SplitFields(s, vars, Split(WalkedBytes(st), st.boundary))
    [] ~split /\ st.boundary       -> SeparatedFields(SplitAt(st.out, BOUND))
    [] ~split /\ ~st.boundary      -> IF st.noParams /\ st.out = <<>> THEN <<>>
                                      ELSE <<Named(s, vars, st.out, HasUnquotedGlob(s))>>
Finished(s, vars, split, st) ==
  [fields |-> Concat(FieldsOfWalk(s, vars, split, st)), vars |-> st.vars]
ExpandWordFull(s, vars) ==
  LET split == HasUnquotedExpansion(s)
  IN Finished(s, vars, split, ExpandInto(s, FALSE, [Plain EXCEPT !.guards = split], Fresh(vars)))

-----------------------------------------------------------------------------
Type == /\ \E W \in Words : \E t \in W.tokens :
             /\ env \in W.envs /\ ToSet(word) \subseteq W.tokens /\ Len(word) < W.max
             /\ word' = Append(word, t)
        /\ UNCHANGED env

Init == word = <<>> /\ env \in UNION {W.envs : W \in Words}
Next == Type
Spec == Init /\ [][Next]_wordVars

-----------------------------------------------------------------------------
(* The language.  A text denotes a sequence of elements: a character, is   *)
(* it quoted, does it come from an unquoted expansion.  Two elements are   *)
(* no characters: `null` stands for a quoted nothing and keeps its field,  *)
(* `break` lies between two positional parameters.                         *)
(*                                                                         *)
(* A context is what the text stands in: the word itself ("top"), double   *)
(* quotes ("dq"), the word of an expansion outside and inside of them      *)
(* ("word", "dqword"), a here-document ("doc").                            *)

El(s, q, x)  == [k \in 1 .. Len(s) |-> [c |-> s[k], q |-> q, x |-> x]]
NullEl  == El(<<"null">>, TRUE, FALSE)
BreakEl == El(<<"break">>, TRUE, FALSE)
InDq(ctx)    == ctx \in {"dq", "dqword", "doc"}
Denotes(ok, el, at, vars) == [ok |-> ok, el |-> el, at |-> at, vars |-> vars]
Chars(el) == LET cs == SelectSeq(el, LAMBDA e : e.c # "null")
             IN Concat([k \in 1 .. Len(cs) |->
                  IF cs[k].c = "break" THEN Separator ELSE <<cs[k].c>>])
PatternOf(el) == LET cs == SelectSeq(el, LAMBDA e : e.c # "null")
                 IN [k \in 1 .. Len(cs) |-> <<cs[k].c, cs[k].c = "*" => ~cs[k].q>>]

Positional(t, ctx) ==
  LET each == [k \in 1 .. Len(env.params) |->
                 IF InDq(ctx) /\ env.params[k] = <<>> THEN NullEl
                 ELSE El(env.params[k], InDq(ctx), ~InDq(ctx))]
  IN IF ctx = "doc" \/ (t = "$*" /\ InDq(ctx)) THEN El(Joined, TRUE, FALSE)
     ELSE JoinedBy(each, BreakEl)

(* What a strip removes: the shortest or longest prefix the pattern has.   *)
Stripped(t, s, p) ==
  LET pre == {k \in 0 .. Len(s) : AtomsMatch(p, SubSeq(s, 1, k))}
      suf == {k \in 0 .. Len(s) : AtomsMatch(p, From(s, k + 1))}
  IN CASE t \in {"${v#", "${v##"} /\ pre # {} ->
            From(s, 1 + IF t = "${v#" THEN Smallest(pre) ELSE Largest(pre))
       [] t \in {"${v%", "${v%%"} /\ suf # {} ->
            SubSeq(s, 1, IF t = "${v%" THEN Largest(suf) ELSE Smallest(suf))
       [] OTHER -> s

(* What a replacement leaves: the leftmost longest match, or every one, is *)
(* exchanged.                                                              *)
RECURSIVE Replaced(_, _, _, _, _)
Replaced(s, p, r, all, q) ==
  LET hits == {h \in (0 .. Len(s)) \X (0 .. Len(s)) :
                 /\ h[1] < h[2] \/ (s = <<>> /\ h[1] = h[2])
                 /\ AtomsMatch(p, SubSeq(s, h[1] + 1, h[2]))}
      hit  == CHOOSE h \in hits : \A g \in hits : h[1] < g[1] \/ (h[1] = g[1] /\ h[2] >= g[2])
      rest == From(s, hit[2] + 1)
  IN IF hits = {} THEN El(s, q, ~q)
     ELSE El(SubSeq(s, 1, hit[1]), q, ~q) \o r
          \o (IF all /\ rest # <<>> THEN Replaced(rest, p, r, all, q) ELSE El(rest, q, ~q))

RECURSIVE Text(_, _, _, _, _), Quotes(_, _, _), Expanded(_, _, _, _)
(* The text from i on, to the end of its context; `el` stands before it.   *)
Text(s, i, ctx, vars, el) ==
  LET c == s[i]
      q == InDq(ctx)
      k == Find(s, i + 1, {"'"})
      Go(more, at, vars1) == Text(s, at, ctx, vars1, el \o more)
      Then1(r) == IF r.ok THEN Go(r.el, r.at, r.vars) ELSE r
      fail == Denotes(FALSE, <<>>, i, vars)
  IN CASE i > Len(s) -> Denotes(ctx \in {"top", "doc"}, el, i, vars)
       [] c = "'" /\ ~q -> IF k > Len(s) THEN fail
                           ELSE Go(IF k = i + 1 THEN NullEl ELSE El(SubSeq(s, i + 1, k - 1), TRUE, FALSE),
                                   k + 1, vars)
       [] c = "\"" /\ ctx = "dqword" -> fail
       [] c = "\"" /\ ctx = "dq" -> Denotes(TRUE, el, i + 1, vars)
       [] c = "\"" /\ ~q -> Then1(Quotes(s, i + 1, vars))
       [] (c = "}" /\ ctx \in {"word", "dqword", "pat"}) \/ (c = "/" /\ ctx = "pat") -> Denotes(TRUE, el, i + 1, vars)
       [] c = "\\" /\ i = Len(s) -> fail
       [] c = "\\" /\ i < Len(s) ->
            LET escapes == ~q \/ s[i + 1] \in Dollars \cup {"\\"}
                           \/ (s[i + 1] = "\"" /\ ctx # "doc") \/ (s[i + 1] = "}" /\ ctx = "dqword")
            IN Go(El(IF escapes THEN <<s[i + 1]>> ELSE <<c, s[i + 1]>>, TRUE, FALSE), i + 2, vars)
       [] c \in {"$@", "$*"} -> Go(Positional(c, ctx), i + 1, vars)
       [] c \in {"$v", "$u"} ->
            Go(El(IF NameOf(c) \in DOMAIN vars THEN vars[NameOf(c)] ELSE <<>>, q, ~q), i + 1, vars)
       [] c \in Braces /\ ctx = "pat" -> fail
       [] c \in Braces -> Then1(Expanded(s, i, ctx, vars))
       [] OTHER -> Go(El(<<c>>, q, ctx \in {"word", "pat"}), i + 1, vars)

(* A quoted region is a field even if it is empty, unless it is "$@" of no *)
(* parameters.                                                             *)
Quotes(s, i, vars) ==
  LET r == Text(s, i, "dq", vars, <<>>)
  IN [r EXCEPT !.el = IF r.ok /\ @ = <<>>
                         /\ ~(env.params = <<>> /\ "$@" \in ToSet(SubSeq(s, i, r.at - 1)))
                      THEN NullEl ELSE @]

Expanded(s, i, ctx, vars) ==
  LET t == s[i]
      n == NameOf(t)
      q == InDq(ctx) /\ ctx # "doc"
      value == IF n \in DOMAIN vars THEN vars[n] ELSE <<>>
      w == Text(s, i + 1, IF q /\ t \in {"${v+", "${u-", "${u="} THEN "dqword" ELSE "word", vars, <<>>)
      p == Text(s, i + 1, "pat", vars, <<>>)
      r == IF s[p.at - 1] = "}" THEN [p EXCEPT !.el = <<>>]
           ELSE Text(s, p.at, IF q THEN "dqword" ELSE "word", p.vars, <<>>)
      Is(el) == [w EXCEPT !.el = el, !.vars = vars]
      own == El(value, q, ~q)
  IN CASE t \in {"${v/", "${v//"} ->
            IF ~p.ok \/ p.el = <<>> THEN [p EXCEPT !.ok = FALSE]
            ELSE IF ~r.ok THEN r
            ELSE IF PatternOf(p.el) = <<>> THEN [r EXCEPT !.el = own, !.vars = p.vars]
            ELSE [r EXCEPT !.el = Replaced(value, PatternOf(p.el), r.el, t = "${v//", q)]
       [] ~w.ok -> w
       [] t = "${v+" -> IF n \in DOMAIN vars THEN w ELSE Is(<<>>)
       [] t = "${u-" -> IF n \in DOMAIN vars THEN Is(own) ELSE w
       [] t = "${u=" -> IF n \in DOMAIN vars THEN Is(own)
                        ELSE [w EXCEPT !.vars = (n :> Chars(w.el)) @@ @]
       [] OTHER -> [w EXCEPT !.el = El(Stripped(t, value, PatternOf(w.el)), q, ~q)]

Meaning(ctx) == Text(word, 1, ctx, env.vars, <<>>)

(* Field splitting: a break or a separator that is no blank ends a field,  *)
(* blanks lie between fields.  A field ended by such a separator may be    *)
(* empty.                                                                  *)
Splits(e)   == e.x /\ e.c \in ToSet(env.ifs)
EndsHard(e) == e.c = "break" \/ (Splits(e) /\ e.c # " ")
Pieces(el, Cut(_)) ==
  LET cuts == {0, Len(el) + 1} \cup {k \in DOMAIN el : Cut(el[k])}
      Next1(k) == Smallest({j \in cuts : j > k})
      starts == SelectSeq([k \in 1 .. Len(el) + 1 |-> k - 1], LAMBDA k : k \in cuts)
  IN [n \in 1 .. Len(starts) |-> SubSeq(el, starts[n] + 1, Next1(starts[n]) - 1)]
FieldsOf(el) ==
  LET parts == Pieces(el, EndsHard)
      chunks(n) == SelectSeq(Pieces(parts[n], Splits), LAMBDA p : p # <<>>)
      ended(n)  == LET at == n + FoldLeft(LAMBDA a, p : a + Len(p), 0, SubSeq(parts, 1, n))
                   IN at <= Len(el) /\ el[at].c # "break"
  IN Concat([n \in 1 .. Len(parts) |->
               IF chunks(n) = <<>> /\ ended(n) THEN <<<<>>>> ELSE chunks(n)])
NamedBy(el) == IF \E k \in DOMAIN el : el[k].c = "*" /\ ~el[k].q
               THEN LET names == {n \in Files : AtomsMatch(PatternOf(el), n)}
                    IN IF names = {} THEN <<Chars(el)>> ELSE Sorted(names)
               ELSE <<Chars(el)>>
(* A quoted character that a pattern gives a meaning, in a field or a word *)
(* where expand_word_full loses track of it: behind a backslash, next to   *)
(* an active star, in a word whose expansion has one.                      *)
Exposed(el) ==
  LET Quoted(e) == e.q /\ e.c \in {"*", "\\"}
      mixed == \E n \in DOMAIN FieldsOf(el) : LET f == ToSet(FieldsOf(el)[n]) IN
                 \E e, g \in f : Quoted(e) /\ g.c = "*" /\ ~g.q
      loose == HasUnquotedExpansion(word) /\ (HasUnquotedGlob(word) \/ "\\" \in ToSet(word))
  IN (\E e \in ToSet(el) : Quoted(e)) /\ (mixed \/ loose)
PosixFields(el) == Concat([n \in 1 .. Len(FieldsOf(el)) |-> NamedBy(FieldsOf(el)[n])])

-----------------------------------------------------------------------------
(* Properties.                                                             *)

(* A complete word expands to the fields of the language, and leaves the   *)
(* variable it assigns with the value the language says: what was quoted   *)
(* is not split and is no pattern, what was expanded is split, empty       *)
(* fields are there or not, data that looks like a marker is data.         *)
FieldsArePosix ==
  LET m == Meaning("top")
  IN m.ok /\ word # <<>> /\ ~Exposed(m.el) =>
       ExpandWordFull(word, env.vars) = [fields |-> PosixFields(m.el), vars |-> m.vars]

(* An assigned word and a here-document are one value, nothing is split,   *)
(* and no marker gets into it.                                             *)
ValuesArePosix ==
  /\ LET m == Meaning("top")
         st == ExpandWordAssign(word, env.vars)
     IN m.ok => <<st.out, st.vars>> = <<Chars(m.el), m.vars>>
  /\ LET m == Meaning("doc")
         st == ExpandWordHeredoc(word, env.vars)
     IN m.ok => <<st.out, st.vars>> = <<Chars(m.el), m.vars>>

(* As a pattern, the quoted characters of a word are themselves.           *)
PatternsArePosix ==
  LET m  == Meaning("top")
      st == ExpandWordPattern(word, Plain, Fresh(env.vars))
  IN m.ok /\ {"$@", "$*"} \cap ToSet(word) = {} =>
       <<[k \in 1 .. Len(Atoms(st.out)) |->
                 <<Atoms(st.out)[k][1], Atoms(st.out)[k][1] = "*" => Atoms(st.out)[k][2]>>], st.vars>>
               = <<PatternOf(m.el), m.vars>>

(* A comment of expand_word_full: "a quoted star (protected) still never   *)
(* globs even when the word also has an unquoted expansion".               *)
QuotedNeverGlobs ==
  LET m == Meaning("top")
  IN m.ok /\ word # <<>> /\ (\A e \in ToSet(m.el) : e.q \/ e.c # "*") =>
       ExpandWordFull(word, env.vars).fields = PosixFields(m.el)

(* A comment of the splitter: a boundary between two positional parameters *)
(* ends the field whatever IFS says, and an empty one is kept.             *)
EmptyParametersStay ==
  LET m == Meaning("top")
  IN m.ok /\ word # <<>> =>
       Len(ExpandWordFull(word, env.vars).fields) = Len(PosixFields(m.el))

(* Markers are seen by nothing but the passes: not by a variable that a    *)
(* word assigns.                                                           *)
MarkersStayInside ==
  Meaning("top").ok =>
    LET vars == ExpandWordFull(word, env.vars).vars
    IN \A n \in DOMAIN vars : ToSet(vars[n]) \cap Reserved = {}
=============================================================================
