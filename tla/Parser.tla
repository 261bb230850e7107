------------------------------- MODULE Parser -------------------------------
(***************************************************************************)
(* The shell's parser (parser.c): recursive descent over the tokens the    *)
(* lexer hands out, building the tree that exec.c runs.  A parse function  *)
(* of the source is an operator here; it takes the position of the next    *)
(* token and returns the node it built, the position after it, and whether *)
(* p->error was set.  A node is NULL in two ways that the callers tell     *)
(* apart: with the error flag, and without it.                             *)
(*                                                                         *)
(* A token is its type.  "w" is a word that is a NAME, "$w" a word that    *)
(* holds an expansion, "2" a word of digits with no blank behind it, "a="  *)
(* an assignment, ">" any redirection operator, "nl" a newline.            *)
(*                                                                         *)
(* There are two kinds of input: scripts typed token by token, well formed *)
(* or not, and trees grown construct by construct and printed.             *)
(***************************************************************************)
EXTENDS Naturals, Sequences, SequencesExt

CONSTANTS Vocabularies,   \* records: the tokens typed, and how many of them
          Constructs,     \* what trees are grown with
          MaxGrowth       \* trees with a print this long are not grown

VARIABLES tokens,         \* the input
          tree            \* the tree it is the print of, None if it was typed

parserVars == <<tokens, tree>>

Words     == {"w", "$w", "2"}
Reserved  == {"if", "then", "elif", "else", "fi", "while", "until", "do",
              "done", "for", "in", "case", "esac", "function", "!", "{", "}"}
Names     == {"w"} \cup (Reserved \ {"!", "{", "}"})
Closers   == {"fi", "done", "esac", "then", "else", "elif", "do", ")", "}", ";;"}
HasText(t) == t \in Words \cup Reserved \cup {"a="}

None == <<"none">>
Got(node, i) == [node |-> node, at |-> i, bad |-> FALSE]
Null(i)      == Got(None, i)
Error(i)     == [node |-> None, at |-> i, bad |-> TRUE]
Stuck(r)     == r.bad \/ r.node = None

Peek(i) == IF i <= Len(tokens) THEN tokens[i] ELSE "EOF"

RECURSIVE SkipNewlines(_)
SkipNewlines(i) == IF Peek(i) = "nl" THEN SkipNewlines(i + 1) ELSE i

-----------------------------------------------------------------------------
(* Simple commands.                                                        *)

Command0(i) == [assigns |-> <<>>, words |-> <<>>, redirs |-> <<>>,
                at |-> i, bad |-> FALSE]
CommandNode(c) == <<"cmd", c.assigns, c.words, c.redirs>>

(* Digits in front of a redirection operator name its descriptor.          *)
IoNumber(i) == Peek(i) = "2" /\ Peek(i + 1) = ">"

(* A redirection whose operator is at position i; `fd` is what stood       *)
(* before the operator.                                                    *)
ParseRedirect(c, i, fd) ==
  IF HasText(Peek(i + 1))
    THEN [c EXCEPT !.redirs = Append(@, <<fd, Peek(i + 1)>>), !.at = i + 2]
    ELSE [c EXCEPT !.bad = TRUE]

AddWord(c)   == [c EXCEPT !.words = Append(@, Peek(c.at)), !.at = @ + 1]
AddAssign(c) == IF c.words = <<>>
                  THEN [c EXCEPT !.assigns = Append(@, Peek(c.at)), !.at = @ + 1]
                  ELSE AddWord(c)

(* The rest of a simple command.  A reserved word is an argument once      *)
(* there is a command word, and, only if the command did not begin with a  *)
(* word, after an assignment too.                                          *)
BegunByWord(c, wordFirst) == c.words # <<>>
Begun(c, wordFirst) == c.words # <<>> \/ (~wordFirst /\ c.assigns # <<>>)
RECURSIVE Collect(_, _)
Collect(c, wordFirst) ==
  LET t == Peek(c.at)
  IN CASE c.bad             -> c
       [] t = "a="          -> Collect(AddAssign(c), wordFirst)
       [] IoNumber(c.at)    -> Collect(ParseRedirect(c, c.at + 1, "2"), wordFirst)
       [] t = ">"           -> Collect(ParseRedirect(c, c.at, ">"), wordFirst)
       [] t \in Words       -> Collect(AddWord(c), wordFirst)
       [] t \in Reserved /\ Begun(c, wordFirst) -> Collect(AddWord(c), wordFirst)
       [] t = "(" /\ (c.words # <<>> \/ c.assigns # <<>>)
                            -> [c EXCEPT !.bad = TRUE]
       [] OTHER             -> c

FinishCommand(c) == IF c.bad THEN Error(c.at) ELSE Got(CommandNode(c), c.at)

ParseSimpleCommand(i) ==
  LET c == Collect(Command0(i), FALSE)
  IN IF c.words = <<>> /\ Peek(c.at) \in {"for", "if", "while", "until", "case"}
       THEN Error(c.at)
       ELSE FinishCommand(c)

WordFirstCommand(i) ==
  FinishCommand(Collect(IF IoNumber(i) THEN ParseRedirect(Command0(i), i + 1, "2")
                                       ELSE AddWord(Command0(i)), TRUE))

-----------------------------------------------------------------------------
(* Redirections after a compound command.  A word is taken to see whether  *)
(* it is a descriptor, and stays taken if it is not.                       *)
RECURSIVE CollectTrailing(_)
CollectTrailing(c) ==
  CASE c.bad                 -> c
    [] Peek(c.at) = ">"      -> CollectTrailing(ParseRedirect(c, c.at, ">"))
    [] IoNumber(c.at)        -> CollectTrailing(ParseRedirect(c, c.at + 1, "2"))
    [] Peek(c.at) \in Words  -> [c EXCEPT !.at = @ + 1]
    [] OTHER                 -> c

Wrapped(node, c) ==
  IF c.bad THEN Error(c.at)
  ELSE Got(IF c.redirs = <<>> THEN node ELSE <<"redir", node, c.redirs>>, c.at)
WrapTrailing(r) == Wrapped(r.node, CollectTrailing(Command0(r.at)))

-----------------------------------------------------------------------------
(* Lists.  The mutually recursive part of the grammar starts here.         *)
RECURSIVE ParseAndOr(_)

Join(seq, unit) == CASE unit = None -> seq
                     [] seq = None  -> unit
                     [] OTHER       -> <<"seq", seq, unit>>

(* A unit is made asynchronous by the & right behind it, then joined.      *)
SeparatedUnit(seq, unit, sep) ==
  Join(seq, IF sep = "&" THEN <<"async", unit>> ELSE unit)

(* The list before an & as a whole (what an earlier version did).          *)
SeparatedWhole(seq, unit, sep) ==
  IF sep = "&" THEN <<"async", Join(seq, unit)>> ELSE Join(seq, unit)

Separated(seq, unit, sep) == SeparatedUnit(seq, unit, sep)

(* parse_list: a newline separates.                                        *)
RECURSIVE ListRest(_, _, _)
ListMore(s, u) == IF Stuck(u) THEN [u EXCEPT !.node = s] ELSE ListRest(s, u.node, u.at)
ListBehind(s, j) == IF Peek(j) \in Closers \cup {"EOF"} THEN Got(s, j)
                    ELSE ListMore(s, ParseAndOr(j))
ListRest(seq, unit, i) ==
  IF Peek(i) \notin {"&", ";", "nl"} THEN Got(Join(seq, unit), i)
  ELSE ListBehind(Separated(seq, unit, Peek(i)), SkipNewlines(i + 1))

ListFrom(u) == IF Stuck(u) THEN u ELSE ListRest(None, u.node, u.at)
ParseList(i) == ListFrom(ParseAndOr(i))

PastNewlines(r) == IF r.bad THEN r ELSE [r EXCEPT !.at = SkipNewlines(@)]
CompoundList(i) == PastNewlines(ParseList(SkipNewlines(i)))

(* parse_line: a newline ends the line; two separators in a row are an     *)
(* error.                                                                  *)
RECURSIVE LineRest(_, _, _)
LineMore(s, u) == IF Stuck(u) THEN [u EXCEPT !.node = s] ELSE LineRest(s, u.node, u.at)
LineRest(seq, unit, i) ==
  IF Peek(i) \notin {"&", ";"} THEN Got(Join(seq, unit), i)
  ELSE IF Peek(i + 1) \in {"&", ";"} THEN Error(i + 1)
  ELSE IF Peek(i + 1) \in Closers \cup {"EOF", "nl"}
    THEN Got(Separated(seq, unit, Peek(i)), i + 1)
  ELSE LineMore(Separated(seq, unit, Peek(i)), ParseAndOr(i + 1))

LineFrom(u)  == IF Stuck(u) THEN u ELSE LineRest(None, u.node, u.at)
ParseLine(i) == LineFrom(ParseAndOr(i))

-----------------------------------------------------------------------------
(* Compound commands.  The keyword that opens one has been consumed.       *)

(* A list and the token that must follow it.  An empty list is an error    *)
(* where the code says so; elsewhere it is NULL without one.               *)
ClosedBy(r, closer, emptyIsError) ==
  CASE r.bad                -> Error(r.at)
    [] r.node = None        -> IF emptyIsError THEN Error(r.at) ELSE Null(r.at)
    [] Peek(r.at) # closer  -> Error(r.at)
    [] OTHER                -> Got(r.node, r.at + 1)
Part(i, closer, emptyIsError) == ClosedBy(CompoundList(i), closer, emptyIsError)

(* elif chains nest; the else belongs to the last of them.                 *)
RECURSIVE Chain(_, _)
Chain(arms, last) ==
  IF arms = <<>> THEN None
  ELSE <<"if", Head(arms)[1], Head(arms)[2], Chain(Tail(arms), last),
         IF Len(arms) = 1 THEN last ELSE None>>

(* The branches from a then on, `arms` being those before it.              *)
RECURSIVE ParseArms(_, _, _)
ArmsBehindElif(arms, c) == IF Stuck(c) THEN c ELSE ParseArms(arms, c.node, c.at)
ArmsBehindElse(arms, e) == IF Stuck(e) THEN e ELSE Got(Chain(arms, e.node), e.at)
ArmsBehind(arms, b) ==
  CASE Peek(b.at) = "elif" -> ArmsBehindElif(arms, Part(b.at + 1, "then", FALSE))
    [] Peek(b.at) = "else" -> ArmsBehindElse(arms, Part(b.at + 1, "fi", FALSE))
    [] Peek(b.at) = "fi"   -> Got(Chain(arms, None), b.at + 1)
    [] OTHER               -> Error(b.at)
ArmsFrom(arms, cond, b) == IF Stuck(b) THEN [b EXCEPT !.node = None]
                           ELSE ArmsBehind(Append(arms, <<cond, b.node>>), b)
ParseArms(arms, cond, i) == ArmsFrom(arms, cond, CompoundList(i))

ParseIf(i) == ArmsBehindElif(<<>>, Part(i, "then", TRUE))

LoopNode(kind, cond, b) == IF Stuck(b) THEN b ELSE Got(<<kind, cond, b.node>>, b.at)
LoopBody(kind, c) == IF Stuck(c) THEN c ELSE LoopNode(kind, c.node, Part(c.at, "done", FALSE))
ParseLoop(kind, i) == LoopBody(kind, Part(i, "do", TRUE))

(* The words of a for: everything up to a separator.  A token without text *)
(* is consumed and ends them.                                              *)
RECURSIVE ForWords(_, _)
ForWords(ws, i) ==
  CASE Peek(i) \in {";", "nl", ";;", "&", "|", "&&", "||", "(", ")", "EOF"} -> <<ws, i>>
    [] ~HasText(Peek(i)) -> <<ws, i + 1>>
    [] OTHER -> ForWords(Append(ws, Peek(i)), i + 1)

ForNode(name, words, b) == IF Stuck(b) THEN b ELSE Got(<<"for", name, words, b.node>>, b.at)
ForBody(name, words, d) == IF Peek(d) # "do" THEN Error(d)
                           ELSE ForNode(name, words, Part(d + 1, "done", FALSE))
ForBehind(name, ws) ==
  ForBody(name, ws[1], SkipNewlines(IF Peek(ws[2]) \in {";", "nl"} THEN ws[2] + 1 ELSE ws[2]))
ForIn(name, k) ==
  ForBehind(name, IF Peek(k) = "in" THEN ForWords(<<>>, k + 1) ELSE <<None, k>>)
ParseFor(i) == IF Peek(i) \notin Names THEN Error(i) ELSE ForIn(Peek(i), SkipNewlines(i + 1))

(* The patterns of a case item; position 0 stands for an error.            *)
RECURSIVE Patterns(_, _)
Patterns(ps, i) ==
  CASE ~HasText(Peek(i))  -> <<ps, 0>>
    [] Peek(i + 1) = "|"  -> Patterns(Append(ps, Peek(i)), i + 2)
    [] OTHER              -> <<Append(ps, Peek(i)), i + 1>>

RECURSIVE CaseItems(_, _)
ItemBad(items, i) == [items |-> items, at |-> i, bad |-> TRUE]
ItemBehind(items, pats, i, body) ==
  IF body.bad THEN ItemBad(items, i)
  ELSE CaseItems(Append(items, <<pats, body.node>>),
                 SkipNewlines(IF Peek(body.at) = ";;" THEN body.at + 1 ELSE body.at))
ItemBody(items, pats, i, j) ==
  ItemBehind(items, pats, i, IF Peek(j) \in {";;", "esac"} THEN Null(j) ELSE CompoundList(j))
ItemFrom(items, i, ps) ==
  IF ps[2] = 0 \/ Peek(ps[2]) # ")" THEN ItemBad(items, i)
  ELSE ItemBody(items, ps[1], i, SkipNewlines(ps[2] + 1))
CaseItems(items, i) ==
  CASE Peek(i) = "esac" -> [items |-> items, at |-> i, bad |-> FALSE]
    [] Peek(i) = "EOF"  -> ItemBad(items, i)
    [] OTHER            -> ItemFrom(items, i, Patterns(<<>>, IF Peek(i) = "(" THEN i + 1 ELSE i))

CaseNode(subject, i, is) ==
  IF is.bad THEN Error(i) ELSE Got(<<"case", subject, is.items>>, is.at + 1)
CaseIn(i, k) ==
  IF ~HasText(Peek(i)) \/ Peek(k) # "in" THEN Error(i)
  ELSE CaseNode(Peek(i), i, CaseItems(<<>>, SkipNewlines(k + 1)))
ParseCase(i) == CaseIn(i, SkipNewlines(i + 1))

GroupNode(kind, b) == IF Stuck(b) THEN b ELSE Got(<<kind, b.node>>, b.at)
ParseGroup(kind, i, closer) == GroupNode(kind, Part(i, closer, TRUE))

ParseCompound(i) ==
  CASE Peek(i) = "if"                  -> ParseIf(i + 1)
    [] Peek(i) \in {"while", "until"}  -> ParseLoop(Peek(i), i + 1)
    [] Peek(i) = "for"                 -> ParseFor(i + 1)
    [] Peek(i) = "case"                -> ParseCase(i + 1)
    [] Peek(i) = "("                   -> ParseGroup("subshell", i + 1, ")")
    [] Peek(i) = "{"                   -> ParseGroup("brace", i + 1, "}")
    [] OTHER                           -> Null(i)

(* The body of a function, after its name and parentheses.                 *)
FunctionNode(name, w) == IF w.bad THEN w ELSE Got(<<"func", name, w.node>>, w.at)
FunctionWrapped(name, b) ==
  IF Stuck(b) THEN Error(b.at) ELSE FunctionNode(name, WrapTrailing(b))
FunctionBody(name, i) == FunctionWrapped(name, ParseCompound(SkipNewlines(i)))

(* name ( ), or function name with or without parentheses.  The name of    *)
(* the former must not hold an expansion.                                  *)
FunctionDef(i) ==
  IF Peek(i + 2) # ")" \/ Peek(i) = "$w" THEN Error(i + 2)
  ELSE FunctionBody(Peek(i), i + 3)
FunctionKeyword(i) ==
  IF Peek(i + 1) \notin Words THEN Error(i + 1)
  ELSE IF Peek(i + 2) = "(" /\ Peek(i + 3) # ")" THEN Error(i + 3)
  ELSE FunctionBody(Peek(i + 1), IF Peek(i + 2) = "(" THEN i + 4 ELSE i + 2)

SimpleFrom(j) ==
  CASE Peek(j) \in Words       -> IF Peek(j + 1) = "(" THEN FunctionDef(j)
                                  ELSE WordFirstCommand(j)
    [] Peek(j) \in {"a=", ">"} -> ParseSimpleCommand(j)
    [] OTHER                   -> Null(j)
CommandFrom(compound) ==
  CASE compound.bad         -> compound
    [] compound.node # None -> WrapTrailing(compound)
    [] OTHER                -> SimpleFrom(compound.at)
ParseCommand(i) == IF Peek(i) = "function" THEN FunctionKeyword(i)
                   ELSE CommandFrom(ParseCompound(i))

RECURSIVE PipeRest(_, _)
Piped(left, right) == IF Stuck(right) THEN Error(right.at)
                      ELSE PipeRest(<<"pipe", left, right.node>>, right.at)
PipeRest(left, i) == IF Peek(i) # "|" THEN Got(left, i)
                     ELSE Piped(left, ParseCommand(SkipNewlines(i + 1)))

PipeFrom(left) ==
  IF Stuck(left) THEN [left EXCEPT !.node = None] ELSE PipeRest(left.node, left.at)
Negated(all) == IF all.node = None THEN all ELSE Got(<<"not", all.node>>, all.at)
ParsePipeline(i) ==
  IF Peek(i) = "!" THEN Negated(PipeFrom(ParseCommand(i + 1))) ELSE PipeFrom(ParseCommand(i))

AndOrNode(t, left, right) == <<IF t = "&&" THEN "and" ELSE "or", left, right>>

RECURSIVE AndOrRest(_, _)
AndOrJoined(t, left, right) ==
  IF Stuck(right) THEN Error(right.at)
  ELSE AndOrRest(AndOrNode(t, left, right.node), right.at)
AndOrRest(left, i) ==
  IF Peek(i) \notin {"&&", "||"} THEN Got(left, i)
  ELSE AndOrJoined(Peek(i), left, ParsePipeline(SkipNewlines(i + 1)))

AndOrFrom(left) == IF Stuck(left) THEN left ELSE AndOrRest(left.node, left.at)
ParseAndOr(i)   == AndOrFrom(ParsePipeline(i))

(* parser_parse: one line.  The result runs before the next call.          *)
LineEnded(r) ==
  CASE r.bad                                -> r
    [] Peek(r.at) \in Closers               -> Error(r.at)
    [] r.node = None /\ Peek(r.at) # "EOF"  -> Error(r.at)
    [] OTHER                                -> r
LineAt(j) == CASE Peek(j) = ";"   -> Error(j)
               [] Peek(j) = "EOF" -> Null(j)
               [] OTHER           -> LineEnded(ParseLine(j))
ParserParse(i) == LineAt(SkipNewlines(i))

-----------------------------------------------------------------------------
(* Trees and their print.                                                  *)

RECURSIVE Unparse(_)
RedirTokens(rs) == FlattenSeq([k \in 1 .. Len(rs) |->
                     IF rs[k][1] = ">" THEN <<">", rs[k][2]>>
                                       ELSE <<"2", ">", rs[k][2]>>])

RECURSIVE EndsAsync(_)
EndsAsync(t) == t[1] = "async" \/ (t[1] = "seq" /\ EndsAsync(t[3]))

(* A list before the token that closes it.                                 *)
Closed(t) == IF EndsAsync(t) THEN Unparse(t) ELSE Append(Unparse(t), ";")

RECURSIVE Arms(_)
Arms(t) == Closed(t[2]) \o <<"then">> \o Closed(t[3])
           \o (IF t[4] = None THEN <<>> ELSE <<"elif">> \o Arms(t[4]))
           \o (IF t[5] = None THEN <<>> ELSE <<"else">> \o Closed(t[5]))

UnparseItem(it) ==
  FlattenSeq([k \in 1 .. Len(it[1]) |-> IF k = 1 THEN <<it[1][k]>> ELSE <<"|", it[1][k]>>])
  \o <<")">> \o (IF it[2] = None THEN <<>> ELSE Unparse(it[2])) \o <<";;">>

Unparse(t) ==
  CASE t[1] = "cmd"      -> t[2] \o t[3] \o RedirTokens(t[4])
    [] t[1] = "redir"    -> Unparse(t[2]) \o RedirTokens(t[3])
    [] t[1] = "pipe"     -> Unparse(t[2]) \o <<"|">> \o Unparse(t[3])
    [] t[1] = "not"      -> <<"!">> \o Unparse(t[2])
    [] t[1] = "and"      -> Unparse(t[2]) \o <<"&&">> \o Unparse(t[3])
    [] t[1] = "or"       -> Unparse(t[2]) \o <<"||">> \o Unparse(t[3])
    [] t[1] = "async"    -> Unparse(t[2]) \o <<"&">>
    [] t[1] = "seq"      -> (IF EndsAsync(t[2]) THEN Unparse(t[2]) ELSE Closed(t[2]))
                            \o Unparse(t[3])
    [] t[1] = "if"       -> <<"if">> \o Arms(t) \o <<"fi">>
    [] t[1] \in {"while", "until"} -> <<t[1]>> \o Closed(t[2]) \o <<"do">>
                            \o Closed(t[3]) \o <<"done">>
    [] t[1] = "for"      -> <<"for", t[2]>>
                            \o (IF t[3] = None THEN <<>> ELSE <<"in">> \o t[3])
                            \o <<";", "do">> \o Closed(t[4]) \o <<"done">>
    [] t[1] = "case"     -> <<"case", t[2], "in">>
                            \o FlattenSeq([k \in 1 .. Len(t[3]) |-> UnparseItem(t[3][k])])
                            \o <<"esac">>
    [] t[1] = "subshell" -> <<"(">> \o Closed(t[2]) \o <<")">>
    [] t[1] = "brace"    -> <<"{">> \o Closed(t[2]) \o <<"}">>
    [] t[1] = "func"     -> <<t[2], "(", ")">> \o Unparse(t[3])

(* What the grammar lets stand where.                                      *)
Simple     == {<<"cmd", <<>>, <<"w", "do">>, <<>>>>,
               <<"cmd", <<"a=">>, <<>>, <<<<"2", "w">>>>>>}
Compound   == {"if", "while", "until", "for", "case", "subshell", "brace"}
IsCompound(t) == t[1] \in Compound
IsCommand(t)  == t[1] \in Compound \cup {"cmd", "redir", "func"}
IsPipe(t)     == IsCommand(t) \/ t[1] = "pipe"
IsPipeline(t) == IsPipe(t) \/ t[1] = "not"
IsAndOr(t)    == IsPipeline(t) \/ t[1] \in {"and", "or"}
IsUnit(t)     == IsAndOr(t) \/ t[1] = "async"

(* The trees one construct larger than t, s being a simple command.        *)
Grown(t, s) ==
     {<<"if", t, s, None, None>>, <<"if", s, t, None, s>>,
      <<"if", s, s, <<"if", s, t, None, None>>, None>>,
      <<"if", s, s, <<"if", s, t, <<"if", t, s, None, None>>, None>>, None>>,
      <<"if", s, s, <<"if", t, s, None, t>>, None>>,
      <<"while", t, s>>, <<"until", s, t>>,
      <<"for", "w", <<"w", "done">>, t>>, <<"for", "in", None, t>>,
      <<"for", "w", <<>>, t>>,
      <<"case", "w", <<<<<<"w", "esac">>, t>>, <<<<"in">>, None>>>>>>,
      <<"subshell", t>>, <<"brace", t>>}
  \cup (IF IsCompound(t) THEN {<<"func", "w", t>>, <<"redir", t, <<<<">", "w">>, <<"2", "w">>>>>>} ELSE {})
  \cup (IF IsPipe(t) THEN {<<"pipe", t, s>>, <<"not", t>>} ELSE {})
  \cup (IF IsCommand(t) THEN {<<"pipe", s, t>>} ELSE {})
  \cup (IF IsAndOr(t) THEN {<<"and", t, s>>, <<"or", t, s>>, <<"async", t>>} ELSE {})
  \cup (IF IsPipeline(t) THEN {<<"and", s, t>>, <<"or", s, t>>} ELSE {})
  \cup (IF IsUnit(t) THEN {<<"seq", s, t>>, <<"seq", <<"async", s>>, t>>} ELSE {})
  \cup {<<"seq", t, s>>, <<"seq", t, <<"async", s>>>>}

-----------------------------------------------------------------------------
Typed == tree = None

Type == /\ Typed
        /\ \E V \in Vocabularies : \E t \in V.tokens :
             /\ Len(tokens) < V.max
             /\ ToSet(tokens) \subseteq V.tokens
             /\ tokens' = Append(tokens, t)
        /\ UNCHANGED tree

Grow == /\ ~Typed /\ Len(tokens) < MaxGrowth
        /\ \E s \in Simple : \E t \in Grown(tree, s) :
             /\ t[1] \in Constructs
             /\ tree' = t
             /\ tokens' = Unparse(t)

Init == /\ tree \in Simple \cup {None}
        /\ tokens = IF tree = None THEN <<>> ELSE Unparse(tree)

Next == Type \/ Grow

Spec == Init /\ [][Next]_parserVars

-----------------------------------------------------------------------------
(* The grammar of the shell's language, for tokens that hold no for, case, *)
(* until or elif: which sequences of tokens are a line.                    *)

From(s, k)   == SubSeq(s, k, Len(s))
Upto(s, k)   == SubSeq(s, 1, k)
RECURSIVE DropNewlines(_)
DropNewlines(s) == IF s # <<>> /\ Head(s) = "nl" THEN DropNewlines(Tail(s)) ELSE s

IsRedir(s) == \/ Len(s) = 2 /\ s[1] = ">" /\ HasText(s[2])
              \/ Len(s) = 3 /\ s[1] = "2" /\ s[2] = ">" /\ HasText(s[3])

(* Assignments, words and redirections; a reserved word is one of them     *)
(* after the first assignment or word.                                     *)
RECURSIVE DerivesElements(_, _)
DerivesElements(s, begun) ==
  \/ s = <<>>
  \/ \E n \in {2, 3} \cap 1 .. Len(s) :
       IsRedir(Upto(s, n)) /\ DerivesElements(From(s, n + 1), begun)
  \/ /\ s[1] \in {"a="} \cup Words \cup (IF begun THEN Reserved ELSE {})
     /\ ~(Len(s) > 1 /\ s[1] = "2" /\ s[2] = ">")
     /\ DerivesElements(Tail(s), TRUE)

RECURSIVE DerivesAndOr(_)

RECURSIVE DerivesList(_)
DerivesList(s) ==
  \/ DerivesAndOr(s)
  \/ \E k \in 2 .. Len(s) : /\ s[k] \in {";", "&", "nl"}
                            /\ DerivesAndOr(Upto(s, k - 1))
                            /\ LET rest == DropNewlines(From(s, k + 1))
                               IN rest = <<>> \/ DerivesList(rest)

RECURSIVE DerivesCompound(_)

(* A list before a closing word, which is one only where a command may     *)
(* start: after a separator or a compound command.                         *)
ClosesList(s) ==
  /\ DerivesList(DropNewlines(s))
  /\ \/ Last(s) \in {";", "&", "nl"}
     \/ \E k \in 1 .. Len(s) :
          /\ k = 1 \/ s[k - 1] \in {";", "&", "nl", "|", "&&", "||", "!", ")"}
          /\ DerivesCompound(From(s, k))

(* opening list middle list closing                                        *)
TwoParts(s, opening, middle, closing) ==
  /\ Len(s) > 4 /\ s[1] = opening /\ Last(s) = closing
  /\ \E k \in 3 .. Len(s) - 2 : /\ s[k] = middle
                                /\ ClosesList(SubSeq(s, 2, k - 1))
                                /\ ClosesList(SubSeq(s, k + 1, Len(s) - 1))

DerivesCompound(s) ==
  \/ /\ Len(s) > 2 /\ s[1] = "(" /\ Last(s) = ")"
     /\ DerivesList(DropNewlines(Front(Tail(s))))
  \/ Len(s) > 2 /\ s[1] = "{" /\ Last(s) = "}" /\ ClosesList(Front(Tail(s)))
  \/ TwoParts(s, "while", "do", "done")
  \/ TwoParts(s, "if", "then", "fi")
  \/ \E n \in {2, 3} \cap 1 .. (Len(s) - 1) :
       /\ IsRedir(From(s, Len(s) - n + 1))
       /\ DerivesCompound(Upto(s, Len(s) - n))

DerivesCommand(s) ==
  /\ s # <<>>
  /\ \/ DerivesElements(s, FALSE)
     \/ DerivesCompound(s)
     \/ /\ Len(s) > 4 /\ s[1] \in Words \ {"$w"} /\ s[2] = "(" /\ s[3] = ")"
        /\ DerivesCompound(DropNewlines(From(s, 4)))

RECURSIVE DerivesPipe(_)
DerivesPipe(s) ==
  \/ DerivesCommand(s)
  \/ \E k \in 2 .. Len(s) : /\ s[k] = "|"
                            /\ DerivesPipe(Upto(s, k - 1))
                            /\ DerivesCommand(DropNewlines(From(s, k + 1)))

DerivesPipeline(s) == /\ s # <<>>
                      /\ DerivesPipe(IF s[1] = "!" THEN Tail(s) ELSE s)

DerivesAndOr(s) ==
  \/ DerivesPipeline(s)
  \/ \E k \in 2 .. Len(s) : /\ s[k] \in {"&&", "||"}
                            /\ DerivesAndOr(Upto(s, k - 1))
                            /\ DerivesPipeline(DropNewlines(From(s, k + 1)))

RECURSIVE DerivesUnits(_)
DerivesUnits(s) ==
  \/ DerivesAndOr(s)
  \/ \E k \in 2 .. Len(s) : /\ s[k] \in {";", "&"}
                            /\ DerivesUnits(Upto(s, k - 1))
                            /\ DerivesAndOr(From(s, k + 1))

DerivesLine(s) == /\ s # <<>>
                  /\ \/ DerivesUnits(s)
                     \/ Last(s) \in {";", "&"} /\ DerivesUnits(Front(s))

-----------------------------------------------------------------------------
(* Properties.                                                             *)

Parsed   == ParserParse(1)
Runs(r)  == ~r.bad /\ r.node # None
IsEnd(i) == Peek(i) \in {"nl", "EOF"}

(* Every tree the grammar can build comes back from its own print, whole:  *)
(* an elif chain keeps its else, & takes the unit before it and no more,   *)
(* && and | lean to the left, and a reserved word is a word where it       *)
(* stands as one.                                                          *)
TreesRoundTrip == ~Typed => Parsed = Got(tree, Len(tokens) + 1)

(* A word right behind a token that closes a compound command is lost;     *)
(* NothingIsLost is the claim that none is.                                *)
WordBehindCloser ==
  \E k \in 1 .. Len(tokens) - 1 :
    tokens[k] \in {")", "}", "fi", "done", "esac"} /\ tokens[k + 1] \in Words

(* A ! with no command on its line, and a do, then or else at the end of   *)
(* the input, are dropped without an error; UnfinishedIsDiagnosed is the   *)
(* claim that they are not.                                                *)
Bare(s) == SelectSeq(s, LAMBDA t : t \notin {";", "nl"})
Dangling == \/ \E k \in 1 .. Len(tokens) : Peek(k) = "!" /\ IsEnd(k + 1)
            \/ Bare(tokens) # <<>> /\ Last(Bare(tokens)) \in {"do", "then", "else"}

(* A line that the parser takes to its end is a line of the grammar, and   *)
(* every line of the grammar is taken to its end.                          *)
LinesAreTheGrammars ==
  Typed /\ ~WordBehindCloser /\ ~Dangling =>
    LET start  == SkipNewlines(1)
        line(i) == SubSeq(tokens, start, i - 1)
        ends   == {i \in start .. Len(tokens) + 1 : IsEnd(i)}
    IN IF Runs(Parsed) /\ IsEnd(Parsed.at)
         THEN DerivesLine(line(Parsed.at))
         ELSE \A i \in ends : ~DerivesLine(line(i))

(* What runs is what was written: the words, assignments and redirections  *)
(* a line was read from are those of its tree, in their order.             *)
NothingIsLost ==
  Typed /\ Runs(Parsed) =>
    Bare(SubSeq(tokens, 1, Parsed.at - 1)) = Bare(Unparse(Parsed.node))

(* A redirection never stands before a compound command: nothing runs with *)
(* one in front of the rest of its line.                                   *)
NoRedirectedPrefix ==
  Typed /\ Runs(Parsed) =>
    Peek(Parsed.at) \notin {"for", "if", "while", "until", "case"}

(* An input with an error in its line is diagnosed before any of it runs.  *)
DiagnosedFirst == Typed /\ Runs(Parsed) => IsEnd(Parsed.at)

(* An input that ends inside a construct is an error.                      *)
UnfinishedIsDiagnosed ==
  Typed /\ Parsed.node = None /\ ~Parsed.bad => ToSet(tokens) \subseteq {"nl"}
=============================================================================
