----------------------------- MODULE MCStreams -----------------------------
(* The sed, xargs and grep applets and the regular expressions of grep,     *)
(* model-checked side by side: `part' says which of them a behaviour is     *)
(* about.                                                                   *)
EXTENDS Sed, Xargs

CONSTANTS Vocabularies, CacheMax, Calls, LaterCalls

VARIABLES part,
          vocab, regexp, mode, compiled, subject,
          call, place, stream, printed, final, hadError, matchedAny, exit, nth

Rx == INSTANCE Regex WITH Alphabet <- {"a", "b", "A", "-", ".", "BEL"}
G == INSTANCE Grep
rxVars == <<vocab, regexp, mode, compiled, subject>>
gVars == <<call, place, stream, printed, final, hadError, matchedAny, exit, nth>>

---------------------------------------------------------------------------
(* sed.                                                                    *)
Addr(t, n, k, re) == [type |-> t, n |-> n, step |-> k, re |-> re]
Everywhere == Addr(None, 1, 0, NoExpression)
At(n) == Addr("line", n, 0, NoExpression)
Dollar == Addr("last", 1, 0, NoExpression)
Step(n, k) == Addr("step", n, k, NoExpression)
Plus(n) == Addr("plus", n, 0, NoExpression)
Mult(n) == Addr("mult", n, 0, NoExpression)
Re(k, c) == [kind |-> k, char |-> c]
On(re) == Addr("regex", 1, 0, re)

C(name) == [cmd |-> name, a1 |-> Everywhere, a2 |-> Everywhere, neg |-> FALSE, jump |-> 0,
            text |-> <<>>, file |-> None, map |-> <<>>, code |-> 0, re |-> NoExpression,
            repl |-> <<>>, g |-> FALSE, nth |-> 1, p |-> None, e |-> FALSE]
Of(a, c) == [c EXCEPT !.a1 = a]
From(a, b, c) == [c EXCEPT !.a1 = a, !.a2 = b]
Not(c) == [c EXCEPT !.neg = TRUE]
Lit(t) == [tok |-> "lit", text |-> t]
Amp == [tok |-> "match"]
Case(o) == [tok |-> "case", op |-> o]
S(re, repl) == [C("s") EXCEPT !.re = re, !.repl = repl]
Text(name) == [C(name) EXCEPT !.text = <<"t">>]
File(name, f) == [C(name) EXCEPT !.file = f]
To(name, l) == [C(name) EXCEPT !.jump = l]

L(t) == [text |-> t, nl |-> TRUE]
U(t) == [text |-> t, nl |-> FALSE]
Plain == [quiet |-> FALSE, posix |-> FALSE, inplace |-> FALSE, separate |-> FALSE, suffix |-> FALSE]
Silent == [Plain EXCEPT !.quiet = TRUE]
Disk(f1, f2) == [n \in {"f1", "f2", "f1~", "f2~", "tmp"} |->
                    IF n = "f1" THEN f1 ELSE IF n = "f2" THEN f2 ELSE Absent]
Tilde == "f1" :> "f1~" @@ "f2" :> "f2~"
Three == Holding(<<L(<<"a">>), L(<<"b">>), U(<<"a", "b">>)>>)
Two == Disk(Three, Holding(<<L(<<"b">>), U(<<"a">>)>>))
Alone(lines) == Disk(Holding(lines), Holding(<<>>))
Run1(script, opts, d) == [script |-> script, opts |-> opts, files |-> <<"f1">>, disk |-> d]
Run2(script, opts, d) == [script |-> script, opts |-> opts, files |-> <<"f1", "f2">>, disk |-> d]

Quick == {C("p"), C("P"), C("="), Text("i"), Text("a"), File("r", "f2"), File("R", "f2"),
          C("g"), C("h"), C("x"), C("H"), C("z"), Text("e"), C("e"),
          [C("y") EXCEPT !.map = "a" :> "b" @@ "b" :> "a"],
          [S(Re("char", "a"), <<Lit(<<"b">>)>>) EXCEPT !.p = "before", !.file = "f1~"],
          [S(Re("char", "a"), <<Lit(<<"b">>)>>) EXCEPT !.p = "after", !.e = TRUE],
          Of(On(Re("char", "a")), S(Re("empty", "a"), <<>>)),
          File("w", "f1~"), File("W", "f2~"), File("w", "/dev/stdout"),
          To("b", 0), To("t", 0), To("T", 0),
          Of(Dollar, C("p")), Not(Of(Dollar, C("N"))), C("n"), C("N"), C("G")}
Ending == Quick \cup {C("d"), Text("c"), C("D"), Of(At(2), [C("q") EXCEPT !.code = 5]), Of(At(2), C("Q"))}
Grows(c) == c.cmd \in {"G", "H"}
Pairs == {Run1(<<c, d>>, o, Two) : c \in Quick, d \in Ending, o \in {Plain}}
Finite == {j \in Pairs : ~(j.script[2].cmd = "D" /\ Grows(j.script[1]))}
Few == {C("p"), File("r", "f2"), Text("a"), C("x"), C("h"), C("n"), C("N"), Not(Of(Dollar, C("N"))), C("G"),
        File("w", "f1~"), Of(Dollar, C("p")), S(Re("empty", "a"), <<>>)}
Streams == {Run2(<<c, d>>, o, d12) : c \in Few, d \in Few,
               o \in {Silent, [Plain EXCEPT !.posix = TRUE], [Plain EXCEPT !.separate = TRUE]},
               d12 \in {Two, Disk(Absent, Three), Disk(Holding(<<>>), Three)}}
Loops == {Run1(s, o, Two) : o \in {Plain, Silent}, s \in
            {<<C(":"), S(Re("char", "a"), <<Lit(<<"b">>)>>), To("t", 1)>>,
             <<C(":"), C("N"), Not(Of(Dollar, To("b", 1))), C("p")>>,
             <<Not(Of(Dollar, C("N"))), C("P"), C("D")>>,
             <<Of(On(Re("char", "b")), To("{", 3)), C("p"), C("}"), C("=")>>,
             <<Of(At(0), File("r", "f2")), C("p")>>}}
Starts == {At(1), At(2), At(3), Dollar, On(Re("char", "a")), Step(1, 2), Step(0, 2)}
Ends2 == {At(1), At(3), Plus(1), Mult(2), Dollar, On(Re("char", "b")), On(Re("char", "a"))}
Inputs(k) == {[i \in 1..n |-> L(<<f[i]>>)] : f \in [1..k -> {"a", "b"}], n \in {k}}
Ranges ==
    {Run1(<<From(a, b, C("p"))>>, Silent, Alone(x)) : a \in Starts, b \in Ends2, x \in Inputs(4)}
    \cup {Run1(<<From(At(0), b, C("p"))>>, Silent, Alone(x)) :
             b \in {On(Re("char", "a"))}, x \in Inputs(4)}
    \cup {Run1(<<c, From(a, b, d)>>, Plain, Alone(x)) :
             c \in {Of(At(2), C("n")), C("N")}, d \in {Text("c"), Not(C("p"))}, a \in Starts, b \in Ends2,
             x \in {[i \in 1..5 |-> L(<<f[i]>>)] : f \in {<<"a", "b", "a", "b", "a">>}}}
Words(k) == UNION {[1..n -> {"a", "b"}] : n \in 0..k}
Substs ==
    {Run1(<<[S(Re(k, "a"), r) EXCEPT !.g = g, !.nth = n]>>, Plain, Alone(<<U(w)>>)) :
        k \in {"char", "star", "head"}, g \in BOOLEAN, n \in 1..3, w \in Words(4),
        r \in {<<Lit(<<"x">>)>>, <<Case("U"), Case("l"), Amp, Amp, Case("E"), Amp>>}}
InPlaces ==
    {Run2(s, [Plain EXCEPT !.inplace = TRUE, !.suffix = b], d) :
        b \in BOOLEAN, d \in {Two, Disk(Absent, Three)},
        s \in {<<S(Re("char", "a"), <<>>)>>, <<C("d")>>, <<C("N"), C("p")>>, <<Of(At(2), C("q"))>>,
               <<S(Re("empty", "a"), <<>>)>>, <<Text("a"), File("r", "f1")>>}}
SedJobs == Finite \cup Streams \cup Loops \cup Ranges \cup Substs \cup InPlaces
GluedJobs == {Run2(<<C("p")>>, [Silent EXCEPT !.separate = TRUE], Two)}
EditedJobs == {j \in InPlaces : ~j.opts.suffix}
AppendJobs == {Run1(<<Text("a"), Text("a"), Text("a"), Text("a")>>, Plain, Two)}
DeviatingJobs == GluedJobs \cup EditedJobs \cup AppendJobs

---------------------------------------------------------------------------
(* xargs.                                                                  *)
T(w) == [w |-> w, len |-> IF w = "long" THEN 3 ELSE 1]
Inp(k) == UNION {[1..n -> {T("x"), T("y"), T("long")}] : n \in 0..k}
          \cup {Append(s, T(Broken)) : s \in {<<>>} \cup [1..2 -> {T("x"), T("y")}]}
Xr(n, room, p, repl, always, shell, in) ==
    [n |-> n, room |-> room, procs |-> p, repl |-> repl, always |-> always, shell |-> shell,
     trap |-> "none", input |-> in]
Trapping(r) == [r EXCEPT !.trap = "plain"]
Reaping(r) == [r EXCEPT !.trap = "reaps"]
XargsRuns ==
    {Xr(n, room, p, FALSE, TRUE, FALSE, in) : n \in 1..3, room \in {3, 6}, p \in {1, 2}, in \in Inp(3)}
    \cup {Xr(1, 6, p, TRUE, FALSE, FALSE, in) : p \in {1, 2}, in \in Inp(2)}
    \cup {Xr(1, 6, p, FALSE, FALSE, TRUE, [i \in 1..4 |-> T("x")]) : p \in {1, 2}}
    \cup {Reaping(Xr(1, 6, 1, FALSE, TRUE, TRUE, [i \in 1..3 |-> T("x")]))}
    \cup {Trapping(Xr(1, 6, p, repl, TRUE, repl, [i \in 1..3 |-> T("x")])) : p \in {1, 2}, repl \in BOOLEAN}
NoRuns == {}
FailingRuns == {Xr(1, 6, 2, FALSE, TRUE, FALSE, [i \in 1..4 |-> T("x")])}
SharedRuns ==
    {Xr(1, 6, 2, FALSE, TRUE, TRUE, [i \in 1..3 |-> T("x")]),
     Trapping(Xr(1, 6, 1, FALSE, TRUE, FALSE, [i \in 1..2 |-> T("x")])),
     Reaping(Xr(1, 6, 2, FALSE, TRUE, FALSE, [i \in 1..3 |-> T("x")]))}
Background == 0
NextRuns ==
    {Xr(1, 6, 2, FALSE, FALSE, FALSE, [i \in 1..3 |-> T("x")]), Xr(1, 6, 1, TRUE, FALSE, FALSE, <<T("y")>>)}

---------------------------------------------------------------------------
(* The regular expressions: characters, dot and classes; anchors; case     *)
(* ignored; words; escapes; long literals.                                 *)
Vocab(leaves, wraps, growth, modes, chars, length) ==
    [leaves |-> leaves, wraps |-> wraps, growth |-> growth, modes |-> modes,
     chars |-> chars, length |-> length]
AB == {<<"a">>, <<"b">>}
NotA == <<"[", "^", "a", "]">>
Syntaxes == {{}, {"ere"}}
Constructs == {"cat", "|", "*", "+", "?"}
ManyPatterns ==
    {Vocab(AB \cup {NotA}, Constructs, 2, Syntaxes, {"a", "b"}, 3),
     Vocab({<<"a">>, <<"^">>, <<"$">>}, Constructs, 2, Syntaxes, {"a", "b"}, 3),
     Vocab(AB, Constructs, 2, {{"icase"}, {"icase", "ere"}}, {"A", "b"}, 3),
     Vocab({<<"a">>, <<"-">>, <<".">>}, {"cat", "*"}, 2, {{}}, {"a", "-"}, 4),
     Vocab({<<"a">>, <<".">>, <<"\\", ".">>}, {"cat", "*"}, 2, Syntaxes, {"a", "."}, 3),
     Vocab(AB, {"cat"}, 3, {{}}, {"a", "b"}, 5)}
FewPatterns ==
    {Vocab({<<"a">>, <<"-">>, <<"$">>, <<"^">>}, Constructs \cup {"twice"}, 2, Syntaxes, {"a", "-"}, 4),
     Vocab({<<"a">>, <<"\\", "a">>}, {"cat", "*"}, 2, {{}}, {"a"}, 3),
     Vocab(AB \cup {NotA}, Constructs, 2, {{}}, {"a", "b"}, 3)}

---------------------------------------------------------------------------
(* grep: texts of lines that match, that only hold the character of the    *)
(* prefilter, and of others.                                               *)
GLine(hit, char) == [hit |-> hit, char |-> char, nul |-> FALSE]
Found == GLine(TRUE, TRUE)
Near == GLine(FALSE, TRUE)
Far == GLine(FALSE, FALSE)
WithNul(l) == [l EXCEPT !.nul = TRUE]
GOpts(m, a, b, limit, v, pre, r) ==
    [mode |-> m, A |-> a, B |-> b, m |-> limit, v |-> v, pre |-> pre, r |-> r]
GFile(kind, lines) == [kind |-> kind, lines |-> lines]
Named(f) == [dir |-> FALSE, files |-> <<f>>]
Tree(fs) == [dir |-> TRUE, files |-> fs]
Asked(opts, operands) == [opts |-> opts, operands |-> operands]
Contexts ==
    {Asked(GOpts("lines", a, b, limit, FALSE, FALSE, FALSE), <<Named(GFile("regular", t))>>) :
        a \in 0..2, b \in 0..2, limit \in 0..2, t \in [1..6 -> {Found, Near}]}
    \cup {Asked(GOpts("lines", a, b, limit, v, ~v, FALSE), <<Named(GFile("regular", t))>>) :
        a \in 0..1, b \in {0, 2}, limit \in {0, 1}, v \in BOOLEAN, t \in [1..4 -> {Found, Near, Far}]}
GFiles == {GFile("regular", t) : t \in {<<>>, <<Found>>, <<Near, Found>>, <<Found, Far, Found>>}}
          \cup {GFile("unreadable", <<>>), GFile("link", <<Found>>), GFile("excluded", <<Found>>),
                GFile("regular", <<Found, WithNul(Far)>>), GFile("regular", <<WithNul(Found)>>),
                GFile("stdin", <<Far, Found>>), GFile("stdin", <<Far>>)}
OnTheDisk == {f \in GFiles : f.kind # "stdin"}
GrepOperands == {Named(f) : f \in GFiles}
            \cup {Tree(<<>>)} \cup {Tree(<<f, GFile("regular", <<Found>>)>>) : f \in OnTheDisk}
            \cup {Tree(<<GFile("regular", <<Far>>), f>>) : f \in OnTheDisk}
GModes == {"lines", "c", "q", "l", "L"}
ManyCalls ==
    Contexts
    \cup {Asked(GOpts(m, 0, 2, limit, v, FALSE, r), <<x>>) :
              m \in GModes, limit \in {0, 1}, v \in BOOLEAN, r \in BOOLEAN, x \in GrepOperands}
    \cup {Asked(GOpts(m, 0, 0, 0, FALSE, TRUE, TRUE), <<x, Named(f)>>) :
              m \in GModes, x \in GrepOperands, f \in GFiles}
FewCalls ==
    {Asked(GOpts("lines", 1, b, 0, FALSE, pre, FALSE), <<Named(GFile("regular", t))>>) :
        b \in 0..1, pre \in BOOLEAN, t \in [1..3 -> {Found, Far}]}
    \cup {Asked(GOpts(m, 0, 0, 1, FALSE, FALSE, TRUE), <<x>>) : m \in GModes, x \in GrepOperands}
SameShell ==
    {Asked(GOpts(m, 0, 0, 0, FALSE, FALSE, FALSE), <<Named(GFile("regular", t))>>) :
        m \in {"q", "lines"}, t \in {<<Far>>, <<Found>>}}
---------------------------------------------------------------------------
Nothing == [script |-> <<>>, opts |-> Plain, files |-> <<>>, disk |-> <<>>]
NoSed == job = Nothing /\ st = Started(job) /\ phase = "idle" /\ disk = <<>> /\ stdout = <<>> /\ seen = <<>>
NoXargs == /\ run = Xr(1, 0, 1, FALSE, FALSE, FALSE, <<>>) /\ items = <<>> /\ got = 0 /\ eof = 0
           /\ made = <<>> /\ abandoned = {} /\ kids = <<>> /\ child = Shell /\ slots = <<>> /\ status = 0 /\ ended = <<>> /\ at = "idle"
NoRegex == vocab = <<>> /\ regexp = <<>> /\ mode = {} /\ compiled = Rx!NotCompiled /\ subject = <<>>
NoGrep == /\ call = <<>> /\ place = <<1, 1>> /\ stream = G!Closed /\ printed = <<>> /\ final = 1
          /\ hadError = FALSE /\ matchedAny = FALSE /\ exit = G!Running /\ nth = 1

MCInit ==
    \/ part = "sed" /\ Init /\ NoXargs /\ NoRegex /\ NoGrep
    \/ part = "xargs" /\ XInit /\ NoSed /\ NoRegex /\ NoGrep
    \/ part = "regex" /\ Rx!RxInit /\ NoSed /\ NoXargs /\ NoGrep
    \/ part = "grep" /\ G!GInit /\ NoSed /\ NoXargs /\ NoRegex

(* No stuttering for a sed or a grep that is going: the deadlock check then    *)
(* tells that it can always go on, which RunsOn takes for granted.             *)
Ended ==
    /\ part = "sed" => Stopped
    /\ part = "grep" => exit # G!Running
    /\ UNCHANGED <<part, sedVars, xVars, rxVars, gVars>>

MCNext ==
    \/ part = "sed" /\ Next /\ UNCHANGED <<part, xVars, rxVars, gVars>>
    \/ part = "xargs" /\ XNext /\ UNCHANGED <<part, sedVars, rxVars, gVars>>
    \/ part = "regex" /\ Rx!RxNext /\ UNCHANGED <<part, sedVars, xVars, gVars>>
    \/ part = "grep" /\ G!GNext /\ UNCHANGED <<part, sedVars, xVars, rxVars>>
    \/ Ended

MCSpec ==
    /\ MCInit /\ [][MCNext]_<<part, sedVars, xVars, rxVars, gVars>>
    /\ part = "sed" => RunsOn
    /\ WF_xVars(XStep) /\ WF_xVars(ChildEnds)

(* The properties of the four modules; ArgumentsAccounted is as Xargs has it. *)
MCRangesAreIntervals == part = "sed" => RangesAreIntervals
MCSubstitutesMatches == part = "sed" => SubstitutesMatches
MCStops == part = "sed" => Stops
MCOutputStaysApart == part = "sed" => OutputStaysApart
MCNoTextDropped == part = "sed" => NoTextDropped
MCReplacedInFull == part = "sed" => ReplacedInFull
MCReturns == part = "xargs" => Returns
MCStatusTellsFailure == part = "xargs" => StatusTellsFailure
MCShellChildKept == part = "xargs" => ShellChildKept
MCNothingAdrift == part = "xargs" => NothingAdrift
MCNothingUnread == part = "xargs" => NothingUnread
MCSlotsAreChildren == part = "xargs" => SlotsAreChildren
MCMatchesAreTheLanguages == part = "regex" => Rx!MatchesAreTheLanguages
MCGrepsWhatIsMeant == part = "regex" => Rx!GrepsWhatIsMeant
MCLongestIsFound == part = "regex" => Rx!LongestIsFound
MCFoundAnywhere == part = "regex" => Rx!FoundAnywhere
MCWordsAreFound == part = "regex" => Rx!WordsAreFound
MCPiecesAreMatches == part = "regex" => Rx!PiecesAreMatches
MCEscapesAreOneThing == part = "regex" => Rx!EscapesAreOneThing
MCCacheIsExact == part = "regex" => Rx!CacheIsExact
MCContextIsExact == part = "grep" => G!ContextIsExact
MCSummaryIsExact == part = "grep" => G!SummaryIsExact
MCStatusTellsTheMatch == part = "grep" => G!StatusTellsTheMatch
MCPrefilterChangesNothing == part = "grep" => G!PrefilterChangesNothing
MCSeparatorsAreGaps == part = "grep" => G!SeparatorsAreGaps
MCQuietTellsTheTruth == part = "grep" => G!QuietTellsTheTruth
MCAlwaysCounts == part = "grep" => G!AlwaysCounts
MCErrorsAreTold == part = "grep" => G!ErrorsAreTold
MCPrintedIsTold == part = "grep" => G!PrintedIsTold

(* A command applies where its addresses say, and s to what matches.          *)
EditsWhereAddressed == MCRangesAreIntervals /\ MCSubstitutesMatches

(* Every way of searching finds what the pattern means, in a line, a word, a   *)
(* piece or as a whole.                                                        *)
SearchesFindTheMeant == MCMatchesAreTheLanguages /\ MCGrepsWhatIsMeant

(* grep names, counts and returns what it selected.                           *)
SelectionIsReported == MCSummaryIsExact /\ MCStatusTellsTheMatch

(* sed and xargs come to an end.                                              *)
StreamsEnd == MCStops /\ MCReturns
=============================================================================
