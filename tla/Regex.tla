-------------------------------- MODULE Regex --------------------------------
(***************************************************************************)
(* The regular expressions of grep (util/regex): a pattern is classified;  *)
(* a literal one is searched for by Boyer-Moore-Horspool or compared; any  *)
(* other is tokenised, put into postfix order and built into a program of  *)
(* Thompson's, which is run over the text in one of two ways: all starts   *)
(* at once when the caller wants to know only whether there is a match,    *)
(* else start by start, with a cache of the state lists met.  What this    *)
(* engine cannot take goes to regcomp, which is not modelled.              *)
(*                                                                         *)
(* A character is a string of length one, or the Bell.  `regexp` is what   *)
(* the user means, grown construct by construct, and spelt as a pattern.   *)
(***************************************************************************)
EXTENDS Integers, Sequences, FiniteSets, SequencesExt

CONSTANTS Vocabularies, \* the trees that grow and the texts: see RxInit
          Alphabet,     \* every character
          CacheMax      \* DFA_CACHE_MAX

VARIABLES vocab, regexp, mode, compiled, subject

rxVars == <<vocab, regexp, mode, compiled, subject>>

NotCompiled == [class |-> "none"]
Nowhere == [found |-> FALSE, from |-> 0, to |-> 0]
Found(from, to) == [found |-> TRUE, from |-> from, to |-> to]

Lower(c) == IF c = "A" THEN "a" ELSE IF c = "B" THEN "b" ELSE c
Cased(c, icase)  == IF icase THEN Lower(c) ELSE c
Folded(s, icase) == [i \in DOMAIN s |-> Cased(s[i], icase)]

---------------------------------------------------------------------------
(* A pattern is read in units: a character, or a backslash with the one    *)
(* behind it.                                                              *)
RECURSIVE UnitsFrom(_, _)
UnitsFrom(pat, i) ==
  IF i > Len(pat) THEN <<>>
  ELSE IF pat[i] = "\\" /\ i < Len(pat)
       THEN <<[esc |-> TRUE, c |-> pat[i + 1]]>> \o UnitsFrom(pat, i + 2)
       ELSE <<[esc |-> FALSE, c |-> pat[i]]>> \o UnitsFrom(pat, i + 1)
Units(pat) == UnitsFrom(pat, 1)

Bol(pat) == pat # <<>> /\ pat[1] = "^"
Eol(pat) == /\ pat # <<>> /\ pat[Len(pat)] = "$"
            /\ ~(Len(pat) >= 2 /\ pat[Len(pat) - 1] = "\\")

IsMeta(u, last, ere) ==
  \/ u.esc /\ ~ere /\ u.c \in {"(", ")", "{", "}", "|", "+", "?"}
  \/ ~u.esc /\ u.c \in {".", "*", "["}
  \/ ~u.esc /\ ere /\ u.c \in {"+", "?", "|", "{", "}", "(", ")"}
  \/ ~u.esc /\ u.c = "$" /\ ~last

(* mb_classify.                                                            *)
Classify(pat, ere) ==
  LET body == Units(IF Bol(pat) THEN Tail(pat) ELSE pat)
      meta == \E i \in DOMAIN body : IsMeta(body[i], i = Len(body), ere)
  IN IF pat = <<>> THEN "simple"
     ELSE IF \E i \in DOMAIN body : body[i].esc /\ body[i].c = "1" THEN "posix"
     ELSE IF meta THEN "simple"
     ELSE CASE Bol(pat) /\ Eol(pat)  -> "anchored"
            [] Bol(pat) /\ ~Eol(pat) -> "prefix"
            [] ~Bol(pat) /\ ~Eol(pat) -> "fixed"
            [] OTHER -> "simple"

(* mb_extract_fixed.                                                       *)
ExtractFixed(pat, class) ==
  LET a == IF class \in {"prefix", "anchored"} THEN Tail(pat) ELSE pat
      b == IF class = "anchored" THEN Front(a) ELSE a
      us == Units(b)
  IN [i \in DOMAIN us |-> us[i].c]

---------------------------------------------------------------------------
(* Tokens.                                                                 *)
Tok(t) == [t |-> t, cs |-> {}, c |-> ""]
Literal(c) == [Tok("lit") EXCEPT !.c = c, !.cs = {c}]

(* What a backslash makes of the character behind it: for \n, \t, \r, \a,  *)
(* \f and \v a control character, here the Bell stands for all; in a       *)
(* bracket \a, \f and \v are the letters.                                  *)
Bell == "BEL"
Escaped(c) == IF c = "a" THEN Bell ELSE c

(* tokenize_class: where the bracket that opens at i ends, and its token.  *)
(* A "]" that comes first is a member.                                     *)
ClassEnd(us, i) ==
  LET a == IF i <= Len(us) /\ us[i] = [esc |-> FALSE, c |-> "^"] THEN i + 1 ELSE i
      b == IF a <= Len(us) /\ us[a] = [esc |-> FALSE, c |-> "]"] THEN a + 1 ELSE a
      ends == {k \in b .. Len(us) : us[k] = [esc |-> FALSE, c |-> "]"]}
  IN IF ends = {} THEN Len(us) + 1 ELSE CHOOSE k \in ends : \A l \in ends : k <= l
ClassToken(us, i, icase) ==
  LET not == i <= Len(us) /\ us[i] = [esc |-> FALSE, c |-> "^"]
      members == {Cased(us[k].c, icase) : k \in (IF not THEN i + 1 ELSE i) .. ClassEnd(us, i) - 1}
  IN [Tok("class") EXCEPT !.cs = IF not THEN Alphabet \ members ELSE members]

(* An interval counts for one or more.                                     *)
IntervalEnd(us, i, ere) ==
  LET ends == {k \in i .. Len(us) : us[k].c = "}" /\ us[k].esc = ~ere}
  IN IF ends = {} THEN Len(us) ELSE CHOOSE k \in ends : \A l \in ends : k <= l

Operator(c) == CASE c = "(" -> "(" [] c = ")" -> ")" [] c = "|" -> "|"
                 [] c = "+" -> "+" [] c = "?" -> "?"
Operators == {"(", ")", "|", "+", "?"}

(* tokenize.                                                               *)
RECURSIVE TokensFrom(_, _, _, _)
TokensFrom(us, i, ere, icase) ==
  IF i > Len(us) THEN <<>>
  ELSE LET u == us[i]
           Then(tok, next) == <<tok>> \o TokensFrom(us, next, ere, icase)
       IN
    IF u.esc # ere /\ u.c \in Operators THEN Then(Tok(Operator(u.c)), i + 1)
    ELSE IF u.esc # ere /\ u.c = "{" THEN Then(Tok("+"), IntervalEnd(us, i, ere) + 1)
    ELSE IF u.esc THEN Then(Literal(Cased(Escaped(u.c), icase)), i + 1)
    ELSE IF u.c \in {"*", ".", "^", "$"} THEN Then(Tok(u.c), i + 1)
    ELSE IF u.c = "[" THEN Then(ClassToken(us, i + 1, icase), ClassEnd(us, i + 1) + 1)
    ELSE Then(Literal(Cased(u.c, icase)), i + 1)
Tokenize(pat, ere, icase) == TokensFrom(Units(pat), 1, ere, icase)

(* insert_concat.                                                          *)
LeftAtoms  == {"lit", "class", ".", "$", ")", "*", "+", "?"}
RightAtoms == {"lit", "class", ".", "^", "("}
InsertConcat(ts) ==
  FlattenSeq([i \in DOMAIN ts |->
    IF i < Len(ts) /\ ts[i].t \in LeftAtoms /\ ts[i + 1].t \in RightAtoms
    THEN <<ts[i], Tok("cat")>> ELSE <<ts[i]>>])

(* Broken: alternation binds as tightly as concatenation.                  *)
PrecFlat(t) == CASE t \in {"*", "+", "?"} -> 3 [] t \in {"cat", "|"} -> 2 [] OTHER -> 0
Prec(t) == CASE t \in {"*", "+", "?"} -> 3 [] t = "cat" -> 2 [] t = "|" -> 1 [] OTHER -> 0

(* infix_to_postfix: a token at a time, over the output and the stack of   *)
(* operators (top first).                                                  *)
MoveOver(s, n) == [s EXCEPT !.out = @ \o SubSeq(s.ops, 1, n),
                            !.ops = SubSeq(@, n + 1, Len(@))]
Leading(ops, Goes(_)) ==
  LET stays == {k \in DOMAIN ops : ~Goes(ops[k].t)}
  IN IF stays = {} THEN Len(ops) ELSE (CHOOSE k \in stays : \A l \in stays : k <= l) - 1
Shunt(s, tok) ==
  IF ~s.ok THEN s
  ELSE IF tok.t \in {"lit", "class", ".", "^", "$"} THEN [s EXCEPT !.out = Append(@, tok)]
  ELSE IF tok.t = "(" THEN [s EXCEPT !.ops = <<tok>> \o @]
  ELSE IF tok.t = ")"
    THEN LET m == MoveOver(s, Leading(s.ops, LAMBDA t : t # "("))
         IN IF m.ops = <<>> THEN [s EXCEPT !.ok = FALSE] ELSE [m EXCEPT !.ops = Tail(@)]
  ELSE LET m == MoveOver(s, Leading(s.ops, LAMBDA t : t # "(" /\ Prec(t) >= Prec(tok.t)))
       IN [m EXCEPT !.ops = <<tok>> \o @]
Postfix(ts) ==
  LET s == FoldLeft(Shunt, [out |-> <<>>, ops |-> <<>>, ok |-> TRUE], ts)
  IN [out |-> s.out \o s.ops,
      ok |-> s.ok /\ \A i \in DOMAIN s.ops : s.ops[i].t # "("]

---------------------------------------------------------------------------
(* The program.  An instruction has up to two exits, and the entry is an   *)
(* index (the code puts a jump in front).                                  *)
Instr(op, cs, x, y) == [op |-> op, cs |-> cs, x |-> x, y |-> y]

(* hl_patch: the unpatched exits `holes` lead to `target`.                 *)
Patched(prog, holes, target) ==
  [i \in DOMAIN prog |->
     [prog[i] EXCEPT !.x = IF <<i, "x">> \in holes THEN target ELSE @,
                     !.y = IF <<i, "y">> \in holes THEN target ELSE @]]

(* build_nfa: a token of the postfix, over program and stack of fragments  *)
(* (top first).                                                            *)
Operands(t) == CASE t \in {"cat", "|"} -> 2 [] t \in {"*", "+", "?"} -> 1 [] OTHER -> 0
Build(b, tok) ==
  IF ~b.ok \/ Len(b.frags) < Operands(tok.t) THEN [b EXCEPT !.ok = FALSE]
  ELSE LET new == Len(b.prog) + 1
           e2 == b.frags[1]
           e1 == b.frags[Operands(tok.t)]
           rest == SubSeq(b.frags, Operands(tok.t) + 1, Len(b.frags))
           Put(prog, start, holes) ==
             [b EXCEPT !.prog = prog, !.frags = <<[start |-> start, holes |-> holes]>> \o rest]
           Split == Instr("split", {}, e1.start, 0)
       IN CASE Operands(tok.t) = 0 ->
                 Put(Append(b.prog, Instr(tok.t, tok.cs, 0, 0)), new, {<<new, "x">>})
            [] tok.t = "cat" ->
                 Put(Patched(b.prog, e1.holes, e2.start), e1.start, e2.holes)
            [] tok.t = "|" ->
                 Put(Append(b.prog, Instr("split", {}, e1.start, e2.start)), new,
                     e1.holes \cup e2.holes)
            [] tok.t = "*" ->
                 Put(Patched(Append(b.prog, Split), e1.holes, new), new, {<<new, "y">>})
            [] tok.t = "+" ->
                 Put(Patched(Append(b.prog, Split), e1.holes, new), e1.start, {<<new, "y">>})
            [] tok.t = "?" ->
                 Put(Append(b.prog, Split), new, {<<new, "y">>} \cup e1.holes)

(* mb_parse.                                                               *)
NoProgram == [ok |-> FALSE, code |-> <<>>, entry |-> 0]
MatchNow  == Instr("match", {}, 0, 0)
Parse(pat, ere, icase) ==
  IF pat = <<>> THEN [ok |-> TRUE, code |-> <<MatchNow>>, entry |-> 1]
  ELSE LET post == Postfix(InsertConcat(Tokenize(pat, ere, icase)))
           b == FoldLeft(Build, [prog |-> <<>>, frags |-> <<>>, ok |-> TRUE], post.out)
       IN IF ~post.ok \/ ~b.ok \/ Len(b.frags) # 1 THEN NoProgram
          ELSE [ok |-> TRUE, entry |-> b.frags[1].start,
                code |-> Append(Patched(b.prog, b.frags[1].holes, Len(b.prog) + 1), MatchNow)]

(* mb_regex_compile.                                                       *)
Compile(pat, flags) ==
  LET class == Classify(pat, "ere" \in flags)
      prog == Parse(pat, "ere" \in flags, "icase" \in flags)
  IN CASE class = "posix" -> [class |-> "posix", icase |-> FALSE, fixed |-> <<>>, prog |-> NoProgram]
       [] class = "simple" ->
            [class |-> IF prog.ok THEN "simple" ELSE "posix",
             icase |-> "icase" \in flags, fixed |-> <<>>, prog |-> prog]
       [] OTHER ->
            [class |-> class, icase |-> "icase" \in flags,
             fixed |-> ExtractFixed(pat, class), prog |-> NoProgram]

---------------------------------------------------------------------------
(* Lists of states.  addstate follows the splits; `seen` is state_last.    *)
RECURSIVE AddState(_, _, _)
AddState(prog, l, s) ==
  IF s = 0 \/ s \in l.seen THEN l
  ELSE LET in == prog.code[s]
           m == [l EXCEPT !.seen = @ \cup {s}]
       IN IF in.op = "split" THEN AddState(prog, AddState(prog, m, in.x), in.y)
          ELSE [m EXCEPT !.list = Append(@, s)]
NoStates == [list |-> <<>>, seen |-> {}]
Listed(list) == [list |-> list, seen |-> ToSet(list)]

(* step.                                                                   *)
Takes(in, c) == in.op = "." \/ (in.op \in {"lit", "class"} /\ c \in in.cs)
Step(prog, list, c) ==
  FoldLeft(LAMBDA l, s : IF Takes(prog.code[s], c) THEN AddState(prog, l, prog.code[s].x) ELSE l,
           NoStates, list)

(* process_assertions: the list grows while it is walked.                  *)
RECURSIVE AssertFrom(_, _, _, _, _)
AssertFrom(prog, l, i, bol, eol) ==
  IF i > Len(l.list) THEN l
  ELSE LET in == prog.code[l.list[i]] IN
       AssertFrom(prog, IF (in.op = "^" /\ bol) \/ (in.op = "$" /\ eol)
                        THEN AddState(prog, l, in.x) ELSE l, i + 1, bol, eol)
Asserted(prog, l, bol, eol) == AssertFrom(prog, l, 1, bol, eol)

HasMatch(prog, list) == \E i \in DOMAIN list : prog.code[list[i]].op = "match"

(* thompson_search_nosub: every position starts a thread, threads run on   *)
(* together.                                                               *)
Joined(prog, l, first) ==
  LET joined == AddState(prog, l, prog.entry)
  IN IF first THEN Asserted(prog, joined, TRUE, FALSE) ELSE joined
RECURSIVE NosubFrom(_, _, _, _), NosubOn(_, _, _, _)
NosubFrom(prog, text, i, l) ==
  IF i > Len(text) THEN HasMatch(prog, Asserted(prog, l, FALSE, TRUE).list)
  ELSE NosubOn(prog, text, i,
         Asserted(prog, Step(prog, Joined(prog, l, i = 1).list, text[i]), FALSE, i = Len(text)))
NosubOn(prog, text, i, l) == HasMatch(prog, l.list) \/ NosubFrom(prog, text, i + 1, l)
SearchNosub(prog, text) ==
  \/ HasMatch(prog, Asserted(prog, AddState(prog, NoStates, prog.entry), TRUE, text = <<>>).list)
  \/ text # <<>> /\ NosubFrom(prog, text, 1, NoStates)

---------------------------------------------------------------------------
(* The cache: an open table of state lists, each with the slots its        *)
(* characters lead to.  The hash of the model is the sum of the states.    *)
Slots == 0 .. CacheMax - 1
FreeSlot == [used |-> FALSE, list |-> <<>>, next |-> [c \in {} |-> 0]]
EmptyCache == [slots |-> [k \in Slots |-> FreeSlot], count |-> 0]
Hash(list) == FoldLeft(LAMBDA h, s : (h + s) % CacheMax, 0, list)

(* dfa_find_or_create: a full table is emptied, whoever holds a slot.      *)
Probed(cache, list) ==
  LET At(n) == (Hash(list) + n) % CacheMax
      hits == {n \in Slots : ~cache.slots[At(n)].used \/ cache.slots[At(n)].list = list}
  IN At(CHOOSE k \in hits : \A m \in hits : k <= m)
Entered(cache, list, id) ==
  [id |-> id,
   cache |-> IF cache.slots[id].used THEN cache
             ELSE [slots |-> [cache.slots EXCEPT ![id] = [FreeSlot EXCEPT !.used = TRUE, !.list = list]],
                   count |-> cache.count + 1]]
RoomIn(cache) == IF cache.count >= CacheMax THEN EmptyCache ELSE cache
FindOrCreate(cache, list) == Entered(RoomIn(cache), list, Probed(RoomIn(cache), list))

(* A step of the walk, from the slot it is `at': by the entry for the      *)
(* character, or to the slot of the next list, which is entered into the   *)
(* slot the walk came from.                                                *)
Remembered(at, c, to) ==
  [to EXCEPT !.cache.slots[at.id].next =
     [k \in DOMAIN @ \cup {c} |-> IF k = c THEN to.id ELSE @[k]]]
Following(prog, at, c, last) ==
  LET slot == at.cache.slots[at.id] IN
  IF c \in DOMAIN slot.next THEN [at EXCEPT !.id = slot.next[c]]
  ELSE Remembered(at, c,
         FindOrCreate(at.cache, Asserted(prog, Step(prog, slot.list, c), FALSE, last).list))
ListAt(at) == at.cache.slots[at.id].list

RECURSIVE WalkFrom(_, _, _, _, _), WalkOn(_, _, _, _, _)
WalkFrom(prog, text, start, i, at) ==
  IF i <= Len(text)
  THEN WalkOn(prog, text, start, i, Following(prog, at, text[i], i = Len(text)))
  ELSE [cache |-> at.cache,
        span |-> IF HasMatch(prog, Asserted(prog, Listed(ListAt(at)), FALSE, TRUE).list)
                 THEN Found(start, Len(text)) ELSE Nowhere]
WalkOn(prog, text, start, i, at) ==
  IF HasMatch(prog, ListAt(at)) THEN [cache |-> at.cache, span |-> Found(start, i)]
  ELSE WalkFrom(prog, text, start, i + 1, at)

(* mb_thompson_search: each start in its turn, or the first alone.  Texts  *)
(* count from 1; a span is what lies behind `from` up to `to`.             *)
RECURSIVE SearchFrom(_, _, _, _), SearchAt(_, _, _, _, _), SearchOn(_, _, _, _)
SearchFrom(prog, text, start, cache) ==
  IF start > (IF prog.code[prog.entry].op = "^" THEN 0 ELSE Len(text)) THEN Nowhere
  ELSE SearchAt(prog, text, start, cache,
         Asserted(prog, AddState(prog, NoStates, prog.entry), start = 0, FALSE).list)
SearchAt(prog, text, start, cache, list) ==
  IF HasMatch(prog, list) THEN Found(start, start)
  ELSE IF list = <<>> THEN SearchFrom(prog, text, start + 1, cache)
  ELSE SearchOn(prog, text, start,
         WalkFrom(prog, text, start, start + 1, FindOrCreate(cache, list)))
SearchOn(prog, text, start, walk) ==
  IF walk.span.found THEN walk.span ELSE SearchFrom(prog, text, start + 1, walk.cache)
ThompsonSearch(prog, text) == SearchFrom(prog, text, 0, EmptyCache)

---------------------------------------------------------------------------
(* Boyer-Moore-Horspool: how far a character allows to move on.            *)
(* Broken: the first occurrence of the character in the needle counts.     *)
SkipFar(needle, c) ==
  LET at == {i \in 1 .. Len(needle) - 1 : needle[i] = c}
  IN IF at = {} THEN Len(needle) ELSE Len(needle) - (CHOOSE i \in at : \A j \in at : i <= j)
Skip(needle, c) ==
  LET at == {i \in 1 .. Len(needle) - 1 : needle[i] = c}
  IN IF at = {} THEN Len(needle) ELSE Len(needle) - (CHOOSE i \in at : \A j \in at : j <= i)
RECURSIVE HorspoolFrom(_, _, _)
HorspoolFrom(text, needle, i) ==
  IF i > Len(text) THEN Nowhere
  ELSE IF SubSeq(text, i - Len(needle) + 1, i) = needle THEN Found(i - Len(needle), i)
  ELSE HorspoolFrom(text, needle, i + Skip(needle, text[i]))
Horspool(text, needle) ==
  IF needle = <<>> THEN Found(0, 0) ELSE HorspoolFrom(text, needle, Len(needle))

(* mb_regex_search, with and without a place for the span.                 *)
SearchSpan(re, given) ==
  LET text == Folded(given, re.icase)
      needle == Folded(re.fixed, re.icase)
  IN CASE re.class = "fixed" -> Horspool(text, needle)
       [] re.class = "prefix" ->
            IF IsPrefix(needle, text) THEN Found(0, Len(needle)) ELSE Nowhere
       [] re.class = "anchored" -> IF needle = text THEN Found(0, Len(text)) ELSE Nowhere
       [] re.class = "simple" -> ThompsonSearch(re.prog, text)
SearchOnly(re, given) ==
  IF re.class = "simple" /\ re.prog.code[re.prog.entry].op # "^"
  THEN SearchNosub(re.prog, Folded(given, re.icase))
  ELSE SearchSpan(re, given).found

(* mb_regex_first_char, if the pattern has one; grep asks for it unless -i *)
(* is given.                                                               *)
FirstChar(re) ==
  LET code == re.prog.code IN
  CASE re.class \in {"fixed", "prefix", "anchored"} ->
         IF re.fixed = <<>> THEN {} ELSE {re.fixed[1]}
    [] re.class = "simple" /\ re.prog.entry = 1 ->
         IF code[1].op = "lit" THEN code[1].cs
         ELSE IF code[1].op = "^" /\ code[1].x > 0 /\ code[code[1].x].op = "lit"
              THEN code[code[1].x].cs ELSE {}
    [] OTHER -> {}
Prefilter(re) == IF re.icase THEN {} ELSE FirstChar(re)

---------------------------------------------------------------------------
(* What grep makes of a search: -x, -w and -o, in a regular expression and *)
(* (-F) in a literal pattern.  What follows a match is searched as a text  *)
(* of its own.                                                             *)
WordChar(line, i) == i \in DOMAIN line /\ line[i] # "-"
WordAt(line, from, to) == ~WordChar(line, from) /\ ~WordChar(line, to + 1)
Behind(line, p) == SubSeq(line, p + 1, Len(line))
(* Broken: one character is skipped after every match.                     *)
ResumeLate(p, s) == p + s.to + 1
Resume(p, s) == p + (IF s.to = 0 THEN 1 ELSE s.to)

(* regex_match.                                                            *)
RECURSIVE WordFrom(_, _, _), WordOn(_, _, _, _)
WordFrom(re, line, p) == WordOn(re, line, p, SearchSpan(re, Behind(line, p)))
WordOn(re, line, p, s) ==
  IF ~s.found THEN FALSE
  ELSE \/ WordAt(line, p + s.from, p + s.to)
       \/ Resume(p, s) <= Len(line) /\ WordFrom(re, line, Resume(p, s))
WordMatch(re, line) == WordFrom(re, line, 0)
LineMatch(re, line) == SearchSpan(re, line) = Found(0, Len(line))

(* grep_print_only_match.                                                  *)
RECURSIVE OnlyFrom(_, _, _), OnlyOn(_, _, _, _)
OnlyFrom(re, line, p) == OnlyOn(re, line, p, SearchSpan(re, Behind(line, p)))
OnlyOn(re, line, p, s) ==
  IF ~s.found THEN <<>>
  ELSE <<Found(p + s.from, p + s.to)>>
       \o (IF Resume(p, s) <= Len(line) THEN OnlyFrom(re, line, Resume(p, s)) ELSE <<>>)
OnlyMatches(re, line) == OnlyFrom(re, line, 0)

(* fixed_match.                                                            *)
RECURSIVE LiteralFrom(_, _, _, _)
LiteralFrom(line, needle, w, p) ==
  IF p + Len(needle) > Len(line) THEN FALSE
  ELSE \/ /\ SubSeq(line, p + 1, p + Len(needle)) = needle
          /\ w => WordAt(line, p, p + Len(needle))
       \/ LiteralFrom(line, needle, w, p + 1)
FixedMatch(line, pattern, icase, w, x) ==
  LET text == Folded(line, icase)
      needle == Folded(pattern, icase)
  IN IF pattern = <<>> THEN TRUE
     ELSE IF x THEN text = needle ELSE LiteralFrom(text, needle, w, 0)

---------------------------------------------------------------------------
(* What the user means, as a tree, and its spelling: a construct that      *)
(* binds more loosely than its place asks for stands in parentheses.       *)
Node(op, l, r) == [op |-> op, l |-> l, r |-> r]
Leaf(c) == [op |-> "leaf", c |-> c]

RECURSIVE Shown(_, _, _)
Shown(t, level, ere) ==
  LET o(c) == IF ere THEN <<c>> ELSE <<"\\", c>>
      In(mine, text) == IF mine < level THEN o("(") \o text \o o(")") ELSE text
  IN CASE t.op = "leaf"  -> t.c
       [] t.op = "cat"   -> In(2, Shown(t.l, 2, ere) \o Shown(t.r, 2, ere))
       [] t.op = "|"     -> In(1, Shown(t.l, 1, ere) \o o("|") \o Shown(t.r, 1, ere))
       [] t.op = "*"     -> In(3, Shown(t.l, 3, ere) \o <<"*">>)
       [] t.op = "twice" -> In(3, Shown(t.l, 3, ere) \o o("{") \o <<"2">> \o o("}"))
       [] OTHER          -> In(3, Shown(t.l, 3, ere) \o o(t.op))
Spelling(t, flags) == Shown(t, 0, "ere" \in flags)

(* The language: the ends of the matches of t that start behind position i *)
(* of the text, by the definition of each construct.                       *)
LeafTakes(spelt, c) ==
  \/ spelt = <<".">>
  \/ spelt = <<c>> \/ spelt = <<"\\", c>>
  \/ Len(spelt) = 3 /\ spelt[1] = "[" /\ spelt[2] = c
  \/ Len(spelt) = 4 /\ spelt[1] = "[" /\ spelt[2] = "^" /\ spelt[3] # c
RECURSIVE Ends(_, _, _), EndsOfMany(_, _, _), EndsOfMore(_, _, _, _)
Ends(t, text, i) ==
  CASE t.op = "leaf" /\ t.c = <<"^">> -> IF i = 0 THEN {0} ELSE {}
    [] t.op = "leaf" /\ t.c = <<"$">> -> IF i = Len(text) THEN {i} ELSE {}
    [] t.op = "leaf" /\ t.c \notin {<<"^">>, <<"$">>} ->
         IF i < Len(text) /\ LeafTakes(t.c, text[i + 1]) THEN {i + 1} ELSE {}
    [] t.op = "cat"   -> UNION {Ends(t.r, text, k) : k \in Ends(t.l, text, i)}
    [] t.op = "|"     -> Ends(t.l, text, i) \cup Ends(t.r, text, i)
    [] t.op = "*"     -> EndsOfMany(t.l, text, {i})
    [] t.op = "+"     -> EndsOfMany(t.l, text, Ends(t.l, text, i))
    [] t.op = "?"     -> {i} \cup Ends(t.l, text, i)
    [] t.op = "twice" -> UNION {Ends(t.l, text, k) : k \in Ends(t.l, text, i)}
EndsOfMany(t, text, reached) ==
  EndsOfMore(t, text, reached, reached \cup UNION {Ends(t, text, k) : k \in reached})
EndsOfMore(t, text, before, now) == IF now = before THEN now ELSE EndsOfMany(t, text, now)

Matches(t, text) == {<<i, k>> \in (0 .. Len(text)) \X (0 .. Len(text)) : k \in Ends(t, text, i)}

RECURSIVE Uses(_, _)
Uses(t, c) == IF t.op = "leaf" THEN t.c = <<c>>
              ELSE t.op = c \/ Uses(t.l, c) \/ (t.op \in {"cat", "|"} /\ Uses(t.r, c))

---------------------------------------------------------------------------
(* Patterns grow, are compiled, and are searched for in every text.  A      *)
(* vocabulary says of what: `leaves' to start from, `wraps' to grow by up  *)
(* to `growth' times, `modes' of flags, and texts of up to `length' of its *)
(* `chars'.                                                                *)
RxInit ==
  /\ vocab \in Vocabularies
  /\ regexp \in {Leaf(c) : c \in vocab.leaves}
  /\ mode \in vocab.modes
  /\ compiled = NotCompiled
  /\ subject = <<>>

RECURSIVE Size(_)
Size(t) == IF t.op = "leaf" THEN 0
           ELSE 1 + Size(t.l) + (IF t.op \in {"cat", "|"} THEN Size(t.r) ELSE 0)
Grow ==
  /\ compiled = NotCompiled /\ Size(regexp) < vocab.growth
  /\ \/ \E op \in vocab.wraps \ {"cat", "|"} : regexp' = Node(op, regexp, regexp)
     \/ \E op \in vocab.wraps \cap {"cat", "|"}, c \in vocab.leaves :
          \/ regexp' = Node(op, regexp, Leaf(c))
          \/ regexp' = Node(op, Leaf(c), regexp)
          \/ regexp' = Node(op, Node("*", Leaf(c), Leaf(c)), regexp)
  /\ UNCHANGED <<vocab, mode, compiled, subject>>

CompileIt ==
  /\ compiled = NotCompiled
  /\ compiled' = Compile(Spelling(regexp, mode), mode)
  /\ UNCHANGED <<vocab, regexp, mode, subject>>

Type(c) ==
  /\ compiled # NotCompiled /\ compiled.class # "posix" /\ Len(subject) < vocab.length
  /\ subject' = Append(subject, c)
  /\ UNCHANGED <<vocab, regexp, mode, compiled>>

RxNext == Grow \/ CompileIt \/ \E c \in vocab.chars : Type(c)

---------------------------------------------------------------------------
(* ^ in front of what it is joined to, and $ behind it: elsewhere POSIX    *)
(* makes them characters of a BRE, and the code makes them whatever its    *)
(* class of pattern does.                                                  *)
RECURSIVE Placed(_)
Placed(t) == \/ t.op = "leaf"
             \/ t.op \in {"*", "+", "?", "twice"} /\ Placed(t.l)
             \/ t.op = "|" /\ Placed(t.l) /\ Placed(t.r)
             \/ /\ t.op = "cat" /\ Placed(t.l) /\ Placed(t.r)
                /\ ~Uses(t.l, "$") /\ ~Uses(t.r, "^")
Searching == compiled # NotCompiled /\ compiled.class # "posix"
ControlEscape ==
  LET s == Spelling(regexp, mode)
  IN \E i \in 1 .. Len(s) - 1 : s[i] = "\\" /\ Escaped(s[i + 1]) # s[i + 1]
Plain == Placed(regexp) /\ ~Uses(regexp, "twice") /\ ~ControlEscape
Meant == Matches(regexp, Folded(subject, compiled.icase))
RegexMin(S) == CHOOSE x \in S : \A y \in S : x <= y
Leftmost(spans, span) ==
  /\ span.found <=> spans # {}
  /\ span.found => span.from = RegexMin({s[1] : s \in spans})
Shortest(spans, span) ==
  span.found => span.to = RegexMin({s[2] : s \in {s \in spans : s[1] = span.from}})

(* Whatever way a search takes (comparison, skipping, all starts at once,  *)
(* start by start through the cache), it finds a match where the language  *)
(* of the pattern has one, and nowhere else; the span is the leftmost, and *)
(* of these the shortest; and a text without the first character the       *)
(* prefilter asks for has none.  (All starts at once and $, and control    *)
(* escapes: below.)                                                        *)
MatchesAreTheLanguages ==
  Searching /\ Plain =>
    LET spans == Meant
        span == SearchSpan(compiled, subject)
        only == SearchOnly(compiled, subject)
    IN /\ Leftmost(spans, span) /\ Shortest(spans, span)
       /\ only => spans # {}
       /\ spans # {} /\ ~Uses(regexp, "$") => only
       /\ spans # {} => Prefilter(compiled) \subseteq ToSet(subject)

(* -x and -w say yes only where the whole line, or a match that stands as *)
(* a word, is in the language; of a literal pattern they say so always,    *)
(* also with -F.  The pieces of -o are matches, the leftmost ones in what  *)
(* the previous left.  (What the shortest match misses: below.)            *)
WordsOf(spans) == {s \in spans : WordAt(subject, s[1], s[2])}
Literally == compiled.class = "fixed" /\ compiled.fixed = Spelling(regexp, mode)
PiecesAre(spans, pieces) ==
  /\ \A k \in DOMAIN pieces :
       LET from == IF k = 1 THEN 0 ELSE pieces[k - 1].to
       IN /\ <<pieces[k].from, pieces[k].to>> \in spans
          /\ \A s \in spans : s[1] >= from => s[1] >= pieces[k].from
  /\ \A s \in spans : s[1] < (IF pieces = <<>> THEN 0 ELSE Last(pieces).to)
FixedIs(spans) ==
  LET F(w, x) == FixedMatch(subject, Spelling(regexp, mode), compiled.icase, w, x)
  IN /\ F(FALSE, FALSE) <=> spans # {}
     /\ F(TRUE, FALSE) <=> WordsOf(spans) # {}
     /\ F(FALSE, TRUE) <=> <<0, Len(subject)>> \in spans
GrepsWhatIsMeant ==
  Searching /\ Plain /\ ~Uses(regexp, "^") /\ ~Uses(regexp, "$") =>
    LET spans == Meant
    IN /\ LineMatch(compiled, subject) => <<0, Len(subject)>> \in spans
       /\ WordMatch(compiled, subject) => WordsOf(spans) # {}
       /\ Literally => FixedIs(spans)
       /\ (\A s \in spans : s[1] < s[2]) => PiecesAre(spans, OnlyMatches(compiled, subject))

(* "Drop-in replacement for POSIX regcomp()/regexec()" (regex.h): a span   *)
(* is the longest of the leftmost.                                         *)
LongestIsFound ==
  Searching /\ SearchSpan(compiled, subject).found =>
    LET span == SearchSpan(compiled, subject)
    IN \A s \in Meant : s[1] = span.from => s[2] <= span.to

(* "-w ... word boundaries checked manually" (comment of regex_match): a   *)
(* word in the language makes a line match.                                *)
WordsAreFound == Searching /\ WordsOf(Meant) # {} => WordMatch(compiled, subject)

(* -o of a pattern that is anchored shows what stands at the anchor only.  *)
PiecesAreMatches ==
  Searching /\ Placed(regexp) =>
    LET pieces == OnlyMatches(compiled, subject)
    IN \A k \in DOMAIN pieces : <<pieces[k].from, pieces[k].to>> \in Meant

(* "Test whether re matches anywhere" (regex.h).                           *)
FoundAnywhere == Searching => (SearchOnly(compiled, subject) <=> Meant # {})

(* "\x -> x (plain escape)" (classify.c:158): what an escape means does not *)
(* hang on what else is in the pattern.                                    *)
EscapesAreOneThing ==
  Searching /\ Placed(regexp) /\ ~Uses(regexp, "twice") =>
    (SearchSpan(compiled, subject).found <=> Meant # {})

(* The cache maps a list of states and a character to the next list        *)
(* (thompson.c): it changes no answer.                                     *)
RECURSIVE PlainFrom(_, _, _, _)
PlainFrom(prog, text, i, list) ==
  IF i > Len(text) THEN HasMatch(prog, Asserted(prog, Listed(list), FALSE, TRUE).list)
  ELSE LET next == Asserted(prog, Step(prog, list, text[i]), FALSE, i = Len(text)).list
       IN HasMatch(prog, next) \/ PlainFrom(prog, text, i + 1, next)
CacheIsExact ==
  Searching /\ compiled.class = "simple" =>
    LET text == Folded(subject, compiled.icase)
        prog == compiled.prog
        Start(i) == Asserted(prog, AddState(prog, NoStates, prog.entry), i = 0, FALSE).list
    IN ThompsonSearch(prog, text).found =
         \E i \in IF prog.code[prog.entry].op = "^" THEN {0} ELSE 0 .. Len(text) :
            HasMatch(prog, Start(i)) \/ PlainFrom(prog, text, i + 1, Start(i))

=============================================================================
