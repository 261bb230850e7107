------------------------------ MODULE MCTools ------------------------------
(* The file applets and find on small trees, and the registry of the modules *)
(* that add options to applets, model-checked side by side: `part' says      *)
(* which of them a behaviour is about.                                       *)
EXTENDS FileOps, Find, ModuleRegistry

VARIABLE part

---------------------------------------------------------------------------
(* Trees: names, some of them hard links to others.                         *)
Inode0(type, data, to, mtime) == [type |-> type, data |-> data, to |-> to, mtime |-> mtime]
Reg(data) == Inode0("reg", data, <<>>, 5)
Old(data) == Inode0("reg", data, <<>>, 1)
Dir == Inode0("dir", <<>>, <<>>, 5)
Lnk(to) == Inode0("link", <<>>, to, 5)

A == <<"a">>
B == <<"b">>
C == <<"c">>
E == <<"e">>
K == <<"k">>
M == <<"m">>
In(p, n) == Append(p, n)

Order(found) == FoldSet(LAMBDA p, s : Append(s, p), <<>>, DOMAIN found)
Run(cmd, opts, srcs, dst, found, hard) ==
    LET all == Order(found)
        ino(p) == CHOOSE i \in DOMAIN all : all[i] = p
    IN  [cmd |-> cmd, opts |-> opts, srcs |-> srcs, dst |-> dst,
         names |-> [p \in DOMAIN found \cup DOMAIN hard |->
                       IF p \in DOMAIN found THEN ino(p) ELSE ino(hard[p])],
         inodes |-> [i \in DOMAIN all |-> found[all[i]]]]
NoHard == [p \in {} |-> p]

Base == M :> Dir @@ K :> Dir @@ In(K, "x") :> Reg(<<"kx">>)
Empty == Reg(<<>>)
Fa == Reg(<<"a1", "a2">>)
Fb == Reg(<<"b1", "b2", "b3">>)
Fc == Reg(<<"c1">>)
Full == E :> Dir @@ In(E, "f") :> Reg(<<"f1">>) @@ In(E, "l") :> Lnk(K)
        @@ In(E, "s") :> Dir @@ In(In(E, "s"), "g") :> Reg(<<"g1">>)

(* One file to another place: nothing there, a file, a link, a directory.     *)
There0(p) == {<<>>, p :> Fb, p :> Old(<<"o1">>), p :> Lnk(C), p :> Dir}
OneFile(cmd, opts, d) ==
    {Run(cmd, opts, <<A>>, d, A :> Fa @@ C :> Fc @@ (IF t = <<>> THEN Base ELSE t @@ Base), NoHard) :
        t \in There0(d)}
Alike(cmd, opts) == Run(cmd, opts, <<A>>, B, A :> Fa @@ Base, B :> A)
FileOpts == {{}, {"n"}, {"u"}, {"i"}, {"T"}}
MB == In(M, "b")

MvOps ==
    UNION {OneFile("mv", o, d) : o \in FileOpts, d \in {B, MB}}
    \cup {Run("mv", o, <<E>>, M, t @@ Full @@ Base, NoHard) :
            o \in {{}, {"i"}},
            t \in {M :> Dir, In(M, "e") :> Dir @@ In(In(M, "e"), "f") :> Fb}}
    \cup {Run("mv", {}, <<A, C>>, K, A :> Fa @@ C :> Fc @@ Base, NoHard),
          Run("mv", {}, <<A, C>>, M, A :> Fa @@ C :> Lnk(K) @@ Base, NoHard),
          Run("mv", {}, <<A, C>>, B, A :> Fa @@ C :> Fc @@ Base, NoHard),
          Run("mv", {}, <<K>>, In(K, "d"), Base, NoHard),
          Run("mv", {}, <<A>>, MB, In(M, "b") :> Fb @@ Base, NoHard),
          Alike("mv", {})}
CpOps ==
    UNION {OneFile("cp", o, B) : o \in FileOpts}
    \cup {Run("cp", o, <<C>>, B, C :> Lnk(A) @@ A :> Fa @@ B :> Fb @@ Base, NoHard) :
            o \in {{}, {"L"}, {"H", "i"}, {"r", "H"}}}
    \cup {Run("cp", o, <<E>>, C, t @@ Full @@ Base, NoHard) :
            o \in {{"r"}, {"r", "n"}, {"r", "L"}, {}},
            t \in {M :> Dir, C :> Dir, C :> Dir @@ In(C, "e") :> Dir @@ In(In(C, "e"), "f") :> Dir}}
    \cup {Run("cp", {}, <<A, C>>, M, A :> Empty @@ C :> Fc @@ Base, NoHard),
          Run("cp", {"r"}, <<K>>, K, Base, NoHard),
          Run("cp", {"r"}, <<K>>, C, C :> Lnk(K) @@ Base, NoHard),
          Run("cp", {"f"}, <<A>>, B, A :> Fa @@ B :> Fc @@ Base, NoHard)}
RmOps ==
    {Run("rm", o, <<E, C>>, <<>>, In(E, "r") :> Lnk(<<>>) @@ C :> Lnk(K) @@ Full @@ Base, NoHard) :
        o \in {{"r"}, {"r", "f"}, {"r", "i"}}}
    \cup {Run("rm", o, <<E, C>>, <<>>, C :> Lnk(K) @@ Full @@ Base, NoHard) :
            o \in {{"r"}, {"r", "f"}, {"r", "i"}, {}}}
    \cup {Run("rm", o, <<A, B, <<>>, In(A, "x")>>, <<>>, B :> Lnk(<<>>) @@ Base, A :> In(K, "x")) :
            o \in {{}, {"f"}, {"i"}}}
LnOps ==
    UNION {OneFile("ln", o, B) : o \in {{}, {"f"}, {"i"}, {"s"}, {"s", "f"}, {"T"}}}
    \cup {Run("ln", o, <<C>>, B, C :> Lnk(A) @@ A :> Fa @@ B :> Lnk(K) @@ Base, NoHard) :
            o \in {{}, {"f"}, {"L"}, {"n", "f"}, {"n"}, {"s", "n", "f"}}}
    \cup {Run("ln", {}, <<A, C>>, K, A :> Fa @@ C :> Dir @@ Base, NoHard),
          Run("ln", {}, <<A, C>>, B, A :> Fa @@ C :> Fc @@ B :> Lnk(K) @@ Base, NoHard)}
InstallOps ==
    UNION {OneFile("install", o, B) : o \in {{}, {"S"}, {"s"}}}
    \cup {Run("install", {"S"}, <<A>>, B, A :> Fa @@ B :> Fb @@ <<"b~">> :> t @@ Base, NoHard) :
            t \in {Fc, Dir}}
    \cup {Run("install", {"D"}, <<s>>, In(In(t, "y"), "b"), A :> Fa @@ Base, NoHard) :
            s \in {A, B}, t \in {C, K, A}}
    \cup {Run("install", {"S", "D"}, <<K, A>>, M, A :> Fa @@ In(M, "a") :> Fb @@ Base, NoHard)}

ForcedRuns == {Run("cp", o, <<A>>, B, A :> Fc @@ B :> Fb @@ Base, NoHard) : o \in {{}, {"f"}}}
              \cup {Run("cp", {}, <<A>>, B, A :> Fa @@ Base, B :> A)}
LinkRuns == {Run("cp", {"n"}, <<C>>, B, C :> Lnk(K) @@ B :> Fb @@ Base, NoHard)}
LostRuns == {Run("ln", {"f"}, <<C>>, B, B :> Fb @@ Base, NoHard)}
DeviatingOps == ForcedRuns \cup LinkRuns \cup LostRuns
FileRuns == MvOps \cup CpOps \cup RmOps \cup LnOps \cup InstallOps

---------------------------------------------------------------------------
(* find: names are characters, "a" also written "A".                          *)
N(type, to, size, mtime, uid, perm) ==
    [type |-> type, to |-> to, perm |-> perm,
     num |-> [f \in Fields |-> CASE f = "size" -> size [] f = "mtime" -> mtime
                                 [] f = "atime" -> 1 [] OTHER -> uid]]
Folder == N("dir", <<>>, 3, 2, 0, {"r", "x"})
Leaf(size) == N("reg", <<>>, size, 1, 1, {"r"})
ToDir(p) == N("link", p, 1, 2, 1, {"r"})
S == <<"s">>
NA == <<"a">>
NAB == <<"A", "b">>
NB == <<"b", "o">>
ND == <<".", "a">>
Tree0 == <<S>> :> Folder @@ <<S, NA>> :> Leaf(0) @@ <<S, NB>> :> Folder
         @@ <<S, NB, NAB>> :> Leaf(2) @@ <<S, NB, <<"b">>>> :> ToDir(<<<<"k">>>>)
         @@ <<<<"k">>>> :> Folder @@ <<<<"k">>, NA>> :> Leaf(1)
Hidden0 == <<S, ND>> :> Leaf(1) @@ <<S, <<"x", ".o">>>> :> Leaf(1) @@ Tree0

P(t) == [t |-> t]
Name(t, pat) == [t |-> t, pat |-> pat]
Typed(ty) == [t |-> "type", type |-> ty]
Cmp(f, sign, n) == [t |-> "cmp", field |-> f, sign |-> sign, n |-> n]
Exec(args) == [t |-> "exec", args |-> args]
Depth(t, n) == [t |-> t, n |-> n]
Perm(bits, exact) == [t |-> "perm", bits |-> bits, exact |-> exact]

Line(neg, lead, trail, comps) == [neg |-> neg, lead |-> lead, trail |-> trail, comps |-> comps]
NoIgnores == [d \in {} |-> <<>>]
Look(toks) ==
    [starts |-> <<<<S>>>>, toks |-> toks, smart |-> FALSE, tree |-> Tree0, repos |-> {},
     ignores |-> NoIgnores, dtypes |-> TRUE, yes |-> {<<S, NA>>}, locked |-> {}, gone |-> {},
     shown |-> Null]

Tests == {Typed("reg"), Typed("dir"), P("empty"), Cmp("size", 1, 1), Cmp("mtime", -1, 2),
          Cmp("uid", 0, 1), Name("name", NA), Exec({}), P("print")}
Patterns == {NA, NAB, <<"*", "b">>, <<"b", "*">>, <<"*", "o", "*">>, <<"?">>, <<"*">>, <<"?", "*">>,
             <<"*", "*">>, <<"*", "b", "*", "b">>}
Patterned == {Look(<<Name(t, pat), P("print")>>) : t \in {"name", "iname"}, pat \in Patterns}
             \cup {[Look(<<Name("name", pat)>>) EXCEPT !.smart = sm] : pat \in {NAB, <<"a", "b">>, <<"B", "*">>},
                      sm \in BOOLEAN}
Combined ==
    UNION {{Look(<<x, P("-o"), y>>), Look(<<x, y, P("print")>>), Look(<<P("!"), x, P("-a"), y>>)} :
              x \in Tests, y \in Tests \ {P("print")}}
Bounded == {Look(<<Depth("mindepth", lo), Depth("maxdepth", hi), P("print0")>>) : lo \in 0..2, hi \in 0..2}
Plain0 == {Look(<<>>), [Look(<<Typed("link")>>) EXCEPT !.dtypes = FALSE],
           [Look(<<>>) EXCEPT !.starts = <<<<NB>>, <<S>>>>],
           Look(<<P("(")>>), Look(<<P("true"), P("-o")>>), Look(<<P("(" ), P("true"), P(")"), P(")")>>),
           Look(<<P("follow")>>), Look(<<Typed("link"), P("bad")>>), Look(<<P("!")>>),
           Look(<<P("!"), P("bad")>>), Look(<<P("!"), P("bad"), P("-o"), Typed("link")>>),
           Look(<<P("!"), P("word")>>), Look(<<P("("), P("!"), P(")"), P("print")>>),
           Look(<<Exec({"follow"})>>), [Look(<<Exec({"follow"}), P("print")>>) EXCEPT !.yes = {<<S, NB>>},
              !.tree = <<S, NA>> :> ToDir(<<S>>) @@ Tree0]}
IgnoreLines == {Line(n, FALSE, t, <<pat>>) : n \in BOOLEAN, t \in BOOLEAN, pat \in {<<"*">>, NA, <<"b", "*">>}}
Ignoring ==
    {[Look(<<P("vcs"), P("print")>>) EXCEPT !.tree = Hidden0, !.starts = <<<<S>>>>,
        !.ignores = <<S>> :> <<l1, l2>>, !.dtypes = d] :
            l1 \in IgnoreLines, l2 \in IgnoreLines, d \in BOOLEAN}
    \cup {[Look(<<P("vcs")>>) EXCEPT !.tree = Hidden0, !.starts = <<<<S, NB>>>>, !.repos = r,
             !.ignores = <<S>> :> <<Line(FALSE, FALSE, FALSE, <<AnyDirs, c>>)>>
                         @@ <<S, NB>> :> <<Line(TRUE, FALSE, FALSE, <<NAB>>)>>] :
            r \in {{}, {<<S, NB>>}}, c \in {NAB, <<"b">>}}
All0 == DOMAIN Tree0
Raced ==
    {[Look(toks) EXCEPT !.gone = g, !.locked = l, !.dtypes = d] :
        toks \in {<<>>, <<Cmp("size", 1, 0)>>, <<P("delete")>>}, g \in {All0, {<<S, NA>>}},
        l \in {{}, {<<S, NB>>}}, d \in BOOLEAN}
Deleting ==
    {Look(<<x, P("delete")>>) : x \in Tests \ {P("print")}}
    \cup {Look(<<Typed("link"), P("-o"), Typed("dir"), P("delete"), P("print")>>), Look(<<P("delete")>>),
          Look(<<Exec({"follow"}), P("-o"), P("delete")>>)}

(* Every expression of two levels over two tests, and how it is written.        *)
Leaves == {P("true"), P("empty")}
Level(es) == es \cup {Node("not", e, Null) : e \in es} \cup {Node(o, l, r) : o \in {"and", "or"}, l \in es, r \in es}
Parens(toks) == <<P("(")>> \o toks \o <<P(")")>>
RECURSIVE Shown(_)
Shown(e) ==
    LET Sub(f, loose) == IF f.t \in loose THEN Parens(Shown(f)) ELSE Shown(f)
    IN  CASE e.t = "or" -> Sub(e.l, {}) \o <<P("-o")>> \o Sub(e.r, {"or"})
          [] e.t = "and" -> Sub(e.l, {"or"}) \o <<P("-a")>> \o Sub(e.r, {"or", "and"})
          [] e.t = "not" -> <<P("!")>> \o Sub(e.l, {"or", "and"})
          [] OTHER -> <<e>>
Written == {[Look(Shown(e)) EXCEPT !.shown = e, !.tree = <<S>> :> Folder] : e \in Level(Level(Leaves))}

FindRuns == Patterned \cup Combined \cup Bounded \cup Plain0 \cup Ignoring \cup Raced \cup Deleting \cup Written
PermRuns == {Look(<<Perm({"r"}, FALSE)>>)}
EscapeRuns == {[Look(<<Name("name", <<"\\", "*">>)>>) EXCEPT !.tree = <<S, <<"*">>>> :> Leaf(1) @@ Tree0]}
FollowRuns == {Look(<<P("follow")>>)}
ArgumentRuns == {Look(<<Exec({"follow"})>>)}
RootedRuns ==
    {[Look(<<P("vcs")>>) EXCEPT !.ignores = <<S>> :> <<Line(FALSE, TRUE, FALSE, <<NAB>>)>>]}
DeviatingFinds == PermRuns \cup EscapeRuns \cup FollowRuns \cup ArgumentRuns \cup RootedRuns

Dirs0 == {<<"node_modules">>}
Files0 == {<<"Thumbs.db">>}
Exts0 == {<<".o">>}

---------------------------------------------------------------------------
(* Libraries: one that offers an option, one that offers it and another, and *)
(* one that has to be unloaded again.                                        *)
Library(flags, sound) == [tool |-> "cp", flags |-> flags, safe |-> TRUE, sound |-> sound]
Libraries0 ==
    "one" :> Library({"x"}, TRUE) @@ "two" :> Library({"x", "y"}, TRUE) @@ "old" :> Library({"y"}, FALSE)
Requests0 == {<<"cp", "x">>, <<"cp", "y">>}
Dirs1 == {"d", "e"}
OneAndBoth == {<<"d">>, <<"d", "e">>}
---------------------------------------------------------------------------
NoFiles ==
    /\ op = [cmd |-> "rm", opts |-> {}, srcs |-> <<>>, dst |-> <<>>, names |-> NoHard, inodes |-> <<>>]
    /\ names = NoHard /\ inodes = <<>> /\ stack = <<>> /\ status = -1 /\ agreed = {}
NoFind ==
    /\ find = Look(<<>>) /\ fexpr = Null /\ tree = Tree0 /\ walks = <<>> /\ visited = <<>>
    /\ done = <<>> /\ fret = 0 /\ fphase = "end"

NoModules == RegistryInit /\ modulePath = <<"d">> /\ content = [d \in ModuleDirs |-> {}]

MCInit ==
    \/ part = "files" /\ FileInit /\ NoFind /\ NoModules
    \/ part = "find" /\ FindInit /\ NoFiles /\ NoModules
    \/ part = "modules" /\ RegistryInit /\ NoFiles /\ NoFind

(* A part that is going does not stutter: the deadlock check tells that it can   *)
(* go on, which FileRunsOn and FindRunsOn take for granted.  The registry never  *)
(* stops.                                                                        *)
Ended ==
    /\ part # "modules" /\ FileStopped /\ FindStopped
    /\ UNCHANGED <<part, fileVars, findVars, registryVars>>
MCNext ==
    \/ part = "files" /\ FileNext /\ UNCHANGED <<part, findVars, registryVars>>
    \/ part = "find" /\ FindNext /\ UNCHANGED <<part, fileVars, registryVars>>
    \/ part = "modules" /\ RegistryNext /\ UNCHANGED <<part, fileVars, findVars>>
    \/ Ended
MCSpec ==
    /\ MCInit /\ [][MCNext]_<<part, fileVars, findVars, registryVars>>
    /\ FileRunsOn /\ FindRunsOn

(* The properties of the three modules.                                      *)
MCNothingLost == part = "files" => NothingLost
MCSuccessIsComplete == part = "files" => SuccessIsComplete
MCNoClobber == part = "files" => NoClobber
MCAskedFirst == part = "files" => AskedFirst
MCRmStaysInside == part = "files" => RmStaysInside
MCBackupHolds == part = "files" => BackupHolds
MCMvReplacesAtOnce == part = "files" => MvReplacesAtOnce
MCFilesEnd == part = "files" => FilesEnd
MCFindsExactly == part = "find" => FindsExactly
MCVisitsOnce == part = "find" => VisitsOnce
MCDeletesOnly == part = "find" => DeletesOnly
MCParserUndoesPrinter == part = "find" => ParserUndoesPrinter
MCSuccessIsAlwaysComplete == part = "files" => SuccessIsAlwaysComplete
MCNoClobberHoldsForLinks == part = "files" => NoClobberHoldsForLinks
MCDestinationKept == part = "files" => DestinationKept
MCKnowsFollow == part = "find" => KnowsFollow
MCFollowsIfAsked == part = "find" => FollowsIfAsked
MCRootedAtTopOnly == part = "find" => RootedAtTopOnly
MCFindEnds == part = "find" => FindEnds
MCNegativeMeansNobody == part = "modules" => NegativeMeansNobody
MCNewModulesArePickedUp == part = "modules" => NewModulesArePickedUp
MCDescriptorsNeverCollide == part = "modules" => DescriptorsNeverCollide

(* Whatever fails, and whenever the applet is stopped, content is not lost:   *)
(* of what is moved, of what mv replaces, and of what install -S replaces.    *)
ContentSurvives == MCNothingLost /\ MCMvReplacesAtOnce /\ MCBackupHolds

(* Status 0 means that all was done; nothing is overwritten against -n,       *)
(* nothing without the answer of -i, and nothing removed that was not named.  *)
DoesWhatWasAsked == MCSuccessIsComplete /\ MCNoClobber /\ MCAskedFirst /\ MCRmStaysInside

(* find reads an expression as it was written, and does what it says of each  *)
(* entry.                                                                     *)
ExpressionsHold == MCParserUndoesPrinter /\ MCFindsExactly

(* find comes to every entry once, also when others remove some meanwhile,    *)
(* and removes those that were meant.                                         *)
WalkIsSound == MCVisitsOnce /\ MCDeletesOnly

(* The file applets and find come to an end.                                  *)
ToolsEnd == MCFilesEnd /\ MCFindEnds
=============================================================================
