-------------------------------- MODULE Find -------------------------------
(* The find applet: its expression is parsed, compiled and evaluated for     *)
(* every entry of a walk, while another process may remove entries.          *)
(*                                                                          *)
(* A path is a sequence of names and a name a sequence of characters; the    *)
(* tree maps the paths there are to what stat says of them: a type, the      *)
(* target of a link, and the numbers in Fields.                              *)
EXTENDS Integers, FiniteSets, VcsIgnore

CONSTANTS
    Finds,       \* what may be run: see FindInit
    MaxNames     \* names in the longest path (PATH_MAX)

VARIABLES
    find,      \* the command line and the tree it found
    fexpr,     \* the expression, with the options met while it was parsed
    tree,      \* the tree now
    walks,     \* the directories being read, outermost first
    visited,   \* the paths process_entry was called for, in order
    done,      \* what was done: <<"print", path>>, <<"exec", path>>, <<"delete", path>> ...
    fret,      \* the exit status so far
    fphase     \* "parse", "walk", "end"

findVars == <<find, fexpr, tree, walks, visited, done, fret, fphase>>

Fields == {"size", "mtime", "atime", "uid", "gid"}
Zero == [f \in Fields |-> 0]
Root == [type |-> "dir", to |-> <<>>, perm |-> {}, num |-> Zero]

Ids(t) == [q \in DOMAIN t |-> q]
ResolveIn(t, p) == RealIn(Ids(t), t, p)
NamedIn(t, p) == NameIn(Ids(t), t, p)
StatIn(t, p, follow) ==                          \* lstat or stat; Null when it fails
    LET q == IF follow THEN ResolveIn(t, p) ELSE NamedIn(t, p)
    IN  IF q = <<>> THEN Root ELSE IF q \in DOMAIN t THEN t[q] ELSE [type |-> "none"]
ListIn(t, p) == {Append(p, Last(q)) : q \in EntriesIn(t, ResolveIn(t, p))}

---------------------------------------------------------------------------
(* The parser.  A token is a record; a primary keeps its arguments in it.     *)
Null == [t |-> "null"]
Always == [t |-> "true"]
Node(op, l, r) == [t |-> op, l |-> l, r |-> r]
Actions == {"print", "print0", "delete", "exec"}
Primaries == {"true", "name", "iname", "type", "empty", "cmp", "perm"} \cup Actions
Failed(pos) == [e |-> Null, pos |-> pos]
Got(e, pos) == [e |-> e, pos |-> pos]

(* compile_glob: the patterns that need no fnmatch.                           *)
Compile(pat) ==
    LET n == Len(pat)
        stars == {k \in 1..n : pat[k] = "*"}
        other == \E k \in 1..n : pat[k] \in {"?", "["}
        Glob(kind, fixed) == [kind |-> kind, fixed |-> fixed]
    IN  IF stars = {} /\ ~other THEN Glob("literal", pat)
        ELSE IF other THEN Glob("full", pat)
        ELSE IF stars = {1} THEN Glob("suffix", Tail(pat))
        ELSE IF stars = {n} THEN Glob("prefix", Front(pat))
        ELSE IF stars = {1, n} THEN Glob("contains", SubSeq(pat, 2, n - 1))
        ELSE Glob("full", pat)

(* -S: a pattern without capitals is taken as that of -iname.                 *)
Capital == [A |-> "a", B |-> "b"]
LowerOf(s) == [k \in DOMAIN s |-> IF s[k] \in DOMAIN Capital THEN Capital[s[k]] ELSE s[k]]
Primary(tok, smart) ==
    CASE tok.t \in {"name", "iname"} ->
            [t |-> IF smart /\ LowerOf(tok.pat) = tok.pat THEN "iname" ELSE tok.t,
             pat |-> tok.pat, glob |-> Compile(tok.pat)]
      [] tok.t \in {"maxdepth", "mindepth", "vcs", "smart"} -> Always
      [] OTHER -> tok

RECURSIVE ParsePrimary(_, _, _), ParseAnd(_, _, _), ParseOr(_, _, _), AndRest(_, _, _, _),
          OrRest(_, _, _, _)

At0(toks, pos, kinds) == pos <= Len(toks) /\ toks[pos].t \in kinds
Refused(toks, pos) == Failed(IF At0(toks, pos, {")", "word"}) THEN pos ELSE pos + 1)

ParsePrimaryWide(toks, pos, smart) ==
    IF pos > Len(toks) THEN Failed(pos)
    ELSE IF At0(toks, pos, {"("}) THEN
        LET in == ParseOr(toks, pos + 1, smart)
        IN  IF At0(toks, in.pos, {")"}) THEN Got(in.e, in.pos + 1) ELSE in
    ELSE IF At0(toks, pos, {"!"}) THEN
        LET in == ParseAnd(toks, pos + 1, smart)
        IN  Got(Node("not", in.e, Null), in.pos)
    ELSE IF At0(toks, pos, Primaries \cup {"maxdepth", "mindepth", "vcs", "smart"})
    THEN Got(Primary(toks[pos], smart), pos + 1)
    ELSE Refused(toks, pos)

(* What is no primary fails, and is left where it is unless it begins with "-"; *)
(* an operand of ! that failed is not noticed: find goes on with Null.         *)
ParsePrimary(toks, pos, smart) ==
    IF pos > Len(toks) THEN Failed(pos)
    ELSE IF At0(toks, pos, {"("}) THEN
        LET in == ParseOr(toks, pos + 1, smart)
        IN  IF At0(toks, in.pos, {")"}) THEN Got(in.e, in.pos + 1) ELSE in
    ELSE IF At0(toks, pos, {"!"}) THEN
        LET in == ParsePrimary(toks, pos + 1, smart)
        IN  Got(Node("not", in.e, Null), in.pos)
    ELSE IF At0(toks, pos, Primaries \cup {"maxdepth", "mindepth", "vcs", "smart"})
    THEN Got(Primary(toks[pos], smart), pos + 1)
    ELSE Refused(toks, pos)

ParseAnd(toks, pos, smart) ==
    LET left == ParsePrimary(toks, pos, smart)
    IN  IF left.e = Null THEN left ELSE AndRest(toks, left.e, left.pos, smart)
AndRest(toks, left, pos, smart) ==
    IF pos > Len(toks) \/ At0(toks, pos, {"-o", ")"}) THEN Got(left, pos)
    ELSE LET right == ParsePrimary(toks, IF At0(toks, pos, {"-a"}) THEN pos + 1 ELSE pos, smart)
         IN  IF right.e = Null THEN right
             ELSE AndRest(toks, Node("and", left, right.e), right.pos, smart)

ParseOr(toks, pos, smart) ==
    LET left == ParseAnd(toks, pos, smart)
    IN  IF left.e = Null THEN left ELSE OrRest(toks, left.e, left.pos, smart)
OrRest(toks, left, pos, smart) ==
    IF ~At0(toks, pos, {"-o"}) THEN Got(left, pos)
    ELSE LET right == ParseAnd(toks, pos + 1, smart)
         IN  IF right.e = Null THEN right
             ELSE OrRest(toks, Node("or", left, right.e), right.pos, smart)

(* What was consumed sets options; -L, --vcs and -S count wherever they are,   *)
(* the arguments of -exec included.                                            *)
Anywhere(toks, kind) ==
    \E k \in DOMAIN toks : toks[k].t = kind \/ (toks[k].t = "exec" /\ kind \in toks[k].args)
LastOf(toks, n, kind, none) ==
    LET at == {k \in 1..n : toks[k].t = kind}
    IN  IF at = {} THEN none ELSE toks[CHOOSE k \in at : \A j \in at : j <= k].n

---------------------------------------------------------------------------
(* The evaluator.  c is what the evaluation of one entry works on: its path,   *)
(* what is known of it, and the tree.                                          *)
GlobMatches(glob, name) ==
    LET f == glob.fixed
    IN  CASE glob.kind = "literal" -> name = f
          [] glob.kind = "suffix" -> IsSuffix(f, name)
          [] glob.kind = "prefix" -> IsPrefix(f, name)
          [] glob.kind = "contains" -> \E k \in 0..Len(name) : IsPrefix(f, SubSeq(name, k + 1, Len(name)))
          [] OTHER -> Fnmatch(f, name)
NameMatches(e, name, compiled) ==
    LET fold(s) == IF e.t = "iname" THEN LowerOf(s) ELSE s
        glob == [e.glob EXCEPT !.fixed = fold(@)]
    IN  IF compiled THEN GlobMatches(glob, fold(name)) ELSE Fnmatch(fold(e.pat), fold(name))

CmpMatches(sign, want, is) == IF sign < 0 THEN is < want ELSE IF sign > 0 THEN is > want ELSE is = want

Removable(t, p, asDir) ==
    LET q == NamedIn(t, p)
    IN  /\ q \in DOMAIN t
        /\ IF asDir THEN t[q].type = "dir" /\ EntriesIn(t, q) = {} ELSE t[q].type # "dir"
Pruned(t, p) == [q \in DOMAIN t \ {NamedIn(t, p)} |-> t[q]]

Says(c, v) == [c EXCEPT !.v = v]
Does(c, v, what) == [c EXCEPT !.v = v, !.done = Append(@, <<what, c.path>>)]
Simple(e, c) ==
    CASE e.t = "null" \/ e.t = "true" -> Says(c, TRUE)
      [] e.t \in {"name", "iname"} -> Says(c, NameMatches(e, Last(c.path), c.compiled))
      [] e.t = "type" -> Says(c, c.st.type = e.type)
      [] e.t = "empty" ->
            Says(c, \/ c.st.type = "reg" /\ c.st.num["size"] = 0
                    \/ /\ c.st.type = "dir" /\ StatIn(c.tree, c.path, TRUE).type = "dir"
                       /\ ListIn(c.tree, c.path) = {})
      [] e.t = "cmp" -> Says(c, CmpMatches(e.sign, e.n, c.st.num[e.field]))
      [] e.t = "perm" -> Says(c, IF e.exact THEN c.st.perm = e.bits ELSE e.bits \subseteq c.st.perm)
      [] e.t \in {"print", "print0"} -> Does(c, TRUE, e.t)
      [] e.t = "exec" -> Does(c, c.path \in find.yes, "exec")
      [] e.t = "delete" ->
            LET ok == Removable(c.tree, c.path, c.st.type = "dir")
            IN  [Does(c, ok, "delete") EXCEPT !.tree = IF ok THEN Pruned(@, c.path) ELSE @]

RECURSIVE Eval(_, _)
EvalBoth(e, c) ==
    CASE e.t = "and" -> LET l == Eval(e.l, c)
                            r == Eval(e.r, l)
                        IN  Says(r, l.v /\ r.v)
      [] e.t = "or" -> LET l == Eval(e.l, c) IN IF l.v THEN l ELSE Eval(e.r, l)
      [] e.t = "not" -> LET l == Eval(e.l, c) IN Says(l, ~l.v)
      [] OTHER -> Simple(e, c)

Eval(e, c) ==
    CASE e.t = "and" -> LET l == Eval(e.l, c) IN IF l.v THEN Eval(e.r, l) ELSE l
      [] e.t = "or" -> LET l == Eval(e.l, c) IN IF l.v THEN l ELSE Eval(e.r, l)
      [] e.t = "not" -> LET l == Eval(e.l, c) IN Says(l, ~l.v)
      [] OTHER -> Simple(e, c)

Entry(path, st, t, compiled) ==
    [path |-> path, st |-> st, tree |-> t, compiled |-> compiled, v |-> TRUE, done |-> <<>>]

(* With no action in the expression, what it holds for is printed.             *)
Evaluated(c) ==
    LET r == Eval(fexpr.e, c)
    IN  IF r.v /\ ~fexpr.acts THEN Does(r, TRUE, "print") ELSE r

(* The fields stat is asked for; without any, the type that readdir gives is   *)
(* taken for a stat.  What statx is not asked for it may leave 0.              *)
OperandsLeft(e) == IF e.t \in {"not", "and", "or"} THEN {e.l} ELSE {}
Operands(e) == IF e.t = "not" THEN {e.l} ELSE IF e.t \in {"and", "or"} THEN {e.l, e.r} ELSE {}
RECURSIVE NeededMask(_)
NeededMask(e) ==
    (CASE e.t = "cmp" -> {e.field} [] e.t = "empty" -> {"size"} [] OTHER -> {})
    \cup UNION {NeededMask(f) : f \in Operands(e)}
StatFor(mask, node) ==
    IF node.type = "none" THEN node
    ELSE [node EXCEPT !.num = [f \in Fields |-> IF f \in mask THEN @[f] ELSE 0]]
Unstatted(type) == [type |-> type, perm |-> {}, num |-> Zero]
DTypeSufficient == ~fexpr.follow /\ fexpr.mask = {}

---------------------------------------------------------------------------
(* The walk.                                                                *)
Walk(path, depth) ==
    [path |-> path, depth |-> depth, open |-> FALSE, snap |-> <<>>, read |-> {}]
Inner == Last(walks)
Outer == Front(walks)
Walking == fphase = "walk" /\ Len(walks) > 1

FindParse ==
    /\ fphase = "parse"
    /\ LET toks == find.toks
           smart == find.smart \/ Anywhere(toks, "smart")
           vcs == find.smart \/ Anywhere(toks, "vcs")
           r == ParseOr(toks, 1, smart)
           n == r.pos - 1
           bad == toks # <<>> /\ r.e = Null
       IN  /\ fexpr' = [e |-> r.e, follow |-> Anywhere(toks, "follow"), vcs |-> vcs,
                        max |-> LastOf(toks, n, "maxdepth", -1), min |-> LastOf(toks, n, "mindepth", 0),
                        acts |-> \E k \in 1..n : toks[k].t \in Actions, mask |-> NeededMask(r.e),
                        rules |-> IF vcs THEN VcsIgnoreLoad(find.starts[1], find.repos, find.ignores)
                                  ELSE <<>>]
           /\ fphase' = IF bad THEN "end" ELSE "walk"
           /\ fret' = IF bad THEN 1 ELSE 0
           /\ walks' = <<[Walk(<<>>, 0) EXCEPT !.snap = find.starts]>>
    /\ UNCHANGED <<find, tree, visited, done>>

(* process_entry: the entry is evaluated, and then its directory walked; rest   *)
(* are the walks it is met in.                                                  *)
ProcessEntry(path, st, depth, rest) ==
    LET tooDeep == depth >= fexpr.min /\ fexpr.max >= 0 /\ depth > fexpr.max
        goes == depth >= fexpr.min /\ ~tooDeep
        r == Evaluated(Entry(path, st, tree, TRUE))
        enters == st.type = "dir" /\ ~tooDeep /\ (fexpr.max < 0 \/ depth < fexpr.max)
    IN  /\ visited' = IF goes THEN Append(visited, path) ELSE visited
        /\ done' = IF goes THEN done \o r.done ELSE done
        /\ tree' = IF goes THEN r.tree ELSE tree
        /\ walks' = IF enters THEN Append(rest, Walk(path, depth + 1)) ELSE rest
        /\ UNCHANGED fret

Passes(rest) == walks' = rest /\ UNCHANGED <<tree, visited, done, fret>>
Complains(rest) == walks' = rest /\ fret' = 1 /\ UNCHANGED <<tree, visited, done>>

FindOperand ==
    LET rest == <<[walks[1] EXCEPT !.snap = Tail(@)]>>
        start == walks[1].snap[1]
        st == StatFor(fexpr.mask, StatIn(tree, start, fexpr.follow))
    IN  /\ fphase = "walk" /\ Len(walks) = 1 /\ walks[1].snap # <<>>
        /\ IF st.type = "none" THEN Complains(rest) ELSE ProcessEntry(start, st, 0, rest)
        /\ UNCHANGED <<find, fexpr, fphase>>

OpenWalkQuietly ==
    /\ Walking /\ ~Inner.open
    /\ IF StatIn(tree, Inner.path, TRUE).type = "dir" /\ Inner.path \notin find.locked
       THEN Passes(Append(Outer, [Inner EXCEPT !.open = TRUE,
                  !.snap = [q \in ListIn(tree, Inner.path) |-> StatIn(tree, q, FALSE).type]]))
       ELSE Passes(Outer)
    /\ UNCHANGED <<find, fexpr, fphase>>

OpenWalk ==
    /\ Walking /\ ~Inner.open
    /\ IF StatIn(tree, Inner.path, TRUE).type = "dir" /\ Inner.path \notin find.locked
       THEN Passes(Append(Outer, [Inner EXCEPT !.open = TRUE,
                  !.snap = [q \in ListIn(tree, Inner.path) |-> StatIn(tree, q, FALSE).type]]))
       ELSE Complains(Outer)
    /\ UNCHANGED <<find, fexpr, fphase>>

(* readdir may still return an entry that is gone.                              *)
Gone(q) == StatIn(tree, q, FALSE).type = "none"
Hides(name, isDir) ==
    fexpr.vcs /\ (Head(name) = "." \/ VcsIgnoreMatch(fexpr.rules, name, isDir))

NextEntryAgain ==
    /\ Walking /\ Inner.open
    /\ \E q \in DOMAIN Inner.snap :
        IF StatIn(tree, q, FALSE).type = "dir"
        THEN ProcessEntry(q, Unstatted(Inner.snap[q]), Inner.depth, walks)
        ELSE Passes([walks EXCEPT ![Len(walks)].read = @ \cup {q}])
    /\ UNCHANGED <<find, fexpr, fphase>>

NextEntry ==
    /\ Walking /\ Inner.open
    /\ \E q \in DOMAIN Inner.snap \ Inner.read :
        LET rest == Append(Outer, [Inner EXCEPT !.read = @ \cup {q}])
            dtype == Inner.snap[q]
            isDir == IF find.dtypes THEN dtype = "dir" ELSE StatIn(tree, q, FALSE).type = "dir"
            st == StatFor(fexpr.mask, StatIn(tree, q, fexpr.follow))
        IN  \/ (Gone(q) \/ Hides(Last(q), isDir)) /\ Passes(rest)
            \/ /\ ~Hides(Last(q), isDir)
               /\ IF Len(q) > MaxNames THEN Complains(rest)
                  ELSE IF DTypeSufficient /\ find.dtypes
                  THEN ProcessEntry(q, Unstatted(dtype), Inner.depth, rest)
                  ELSE IF st.type = "none" THEN Complains(rest)
                  ELSE ProcessEntry(q, st, Inner.depth, rest)
    /\ UNCHANGED <<find, fexpr, fphase>>

CloseWalk ==
    /\ Walking /\ Inner.open /\ Inner.read = DOMAIN Inner.snap
    /\ Passes(Outer)
    /\ UNCHANGED <<find, fexpr, fphase>>

FindEnd ==
    /\ fphase = "walk" /\ Len(walks) = 1 /\ walks[1].snap = <<>>
    /\ fphase' = "end"
    /\ UNCHANGED <<find, fexpr, tree, walks, visited, done, fret>>

(* Another process removes a file or an empty directory.                        *)
Removed ==
    /\ fphase = "walk"
    /\ \E q \in find.gone \cap DOMAIN tree :
        EntriesIn(tree, q) = {} /\ tree' = Pruned(tree, q)
    /\ UNCHANGED <<find, fexpr, walks, visited, done, fret, fphase>>

FindInit ==
    /\ find \in Finds     \* [starts, toks, smart, tree, repos, ignores, dtypes, yes, locked, gone, shown]
    /\ tree = find.tree /\ fexpr = Null /\ walks = <<>> /\ visited = <<>> /\ done = <<>>
    /\ fret = 0 /\ fphase = "parse"
FindNext ==
    FindParse \/ FindOperand \/ OpenWalk \/ NextEntry \/ CloseWalk \/ FindEnd \/ Removed

FindStopped == fphase = "end"
FindRunsOn == []<>FindStopped \/ []<><<TRUE>>_findVars
FindSpec == FindInit /\ [][FindNext]_findVars /\ FindRunsOn

---------------------------------------------------------------------------
(* Properties.                                                             *)

(* What a walk of tree t should come to: <<path, depth>>, entered from p, if   *)
(* all directories but those in shut can be read.                             *)
RECURSIVE Reached(_, _, _, _)
Reached(t, p, depth, shut) ==
    LET st == StatIn(t, p, fexpr.follow)
        shown == {q \in ListIn(t, p) :
                    LET isDir == StatIn(t, q, FALSE).type = "dir"
                    IN  ~(fexpr.vcs /\ (Head(Last(q)) = "." \/ SkipName(Last(q), isDir)
                                        \/ HiddenBy(fexpr.rules, Last(q), isDir)))}
    IN  IF st.type = "none" \/ Len(p) > MaxNames \/ (fexpr.max >= 0 /\ depth > fexpr.max) THEN {}
        ELSE {<<p, depth>>} \cup
             IF st.type # "dir" \/ p \in shut THEN {}
             ELSE UNION {Reached(t, q, depth + 1, shut) : q \in shown}
DueBut(t, shut) ==
    {r[1] : r \in {r \in UNION {Reached(t, p, 0, shut) : p \in ToSet(find.starts)} :
                      r[2] >= fexpr.min}}
Due(t) == DueBut(t, find.locked)

(* What the expression says of an entry: -a and -o are "and" and "or", and an    *)
(* operand acts when what stands before it has not decided yet.                 *)
RECURSIVE Told(_, _), ToDo(_, _)
Told(e, c) ==
    CASE e.t = "and" -> Told(e.l, c) /\ Told(e.r, c)
      [] e.t = "or" -> Told(e.l, c) \/ Told(e.r, c)
      [] e.t = "not" -> ~Told(e.l, c)
      [] OTHER -> Simple(e, c).v
ToDo(e, c) ==
    CASE e.t \in {"and", "or"} ->
            ToDo(e.l, c) \o (IF Told(e.l, c) = (e.t = "and") THEN ToDo(e.r, c) ELSE <<>>)
      [] e.t = "not" -> ToDo(e.l, c)
      [] OTHER -> Simple(e, c).done
Meant(p) ==
    LET c == Entry(p, StatIn(find.tree, p, fexpr.follow), find.tree, FALSE)
    IN  ToDo(fexpr.e, c) \o (IF ~fexpr.acts /\ Told(fexpr.e, c) THEN <<<<"print", p>>>> ELSE <<>>)
Parsed == fphase # "parse" /\ ~(fexpr.e = Null /\ find.toks # <<>>)
Alone == find.gone = {} /\ ~Anywhere(find.toks, "delete")

(* The shortcuts of find (patterns compiled, only the needed fields asked for,  *)
(* the type taken from readdir, names hidden rule by rule) change nothing: for   *)
(* each entry there is, find does just what its expression says of it.           *)
FindsExactly ==
    fphase = "end" /\ Parsed /\ Alone =>
        /\ ToSet(visited) = Due(find.tree)
        /\ \A p \in Due(find.tree) : SelectSeq(done, LAMBDA d : d[2] = p) = Meant(p)

(* Whatever is removed meanwhile, by -delete or by others, no entry is taken     *)
(* twice, and with exit status 0 none of those left was missed: a directory that *)
(* cannot be read is told.                                                       *)
VisitsOnce ==
    /\ IsInjective(visited)
    /\ fphase = "end" /\ fret = 0 =>
            (DueBut(find.tree, {}) \cap DueBut(tree, {})) \subseteq ToSet(visited)

(* -delete removes nothing its tests do not hold for, and nothing behind a link. *)
DeletesOnly ==
    Parsed => \A q \in DOMAIN find.tree \ (DOMAIN tree \cup find.gone) :
                \E p \in Due(find.tree) :
                    NamedIn(find.tree, p) = q /\ <<"delete", p>> \in ToSet(Meant(p))

(* An expression written out is read back as it was: ! binds tighter than -a,    *)
(* which binds tighter than -o, and both group to the left.                      *)
ParserUndoesPrinter == Parsed /\ find.shown # Null => fexpr.e = find.shown

(* The documented flags -L, -H and -P are understood (docs/COMPATIBILITY.md).    *)
KnowsFollow ==
    fphase = "end" /\ (\E k \in DOMAIN find.toks : find.toks[k].t = "follow") => Parsed

(* Links are followed only if an operand of find says so.                        *)
FollowsIfAsked ==
    Parsed /\ fexpr.follow => \E k \in DOMAIN find.toks : find.toks[k].t = "follow"

(* A rule with a slash in front is about the names beside its file alone, as      *)
(* gitignore has it.                                                             *)
RootedAtTopOnly ==
    fphase = "end" /\ Parsed /\ (\A i \in DOMAIN fexpr.rules : fexpr.rules[i].rooted) =>
        \A q \in DOMAIN find.tree :
            Front(q) \in ToSet(visited) /\ Front(q) \notin ToSet(find.starts) => q \in ToSet(visited)

(* Every walk ends.                                                             *)
FindEnds == <>FindStopped
=============================================================================
