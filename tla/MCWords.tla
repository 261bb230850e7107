------------------------------ MODULE MCWords ------------------------------
(* Word expansion, arithmetic and command search, model-checked side by    *)
(* side: `part` says which of them a behaviour is about.                   *)
EXTENDS Integers, Lookup

CONSTANTS Texts, Words

VARIABLES part, expr, initially, word, env

A == INSTANCE Arithmetic WITH Width <- 4, InitialValues <- {-8, 0}
X == INSTANCE Expansion WITH Files <- {<<"a">>, <<"a", "b">>}

-----------------------------------------------------------------------------
(* Expressions.                                                            *)
Typed(cs, n) == [chars |-> cs, max |-> n]
Signs   == Typed({"x", "$x", "+", "-", "=", "!"}, 5)
Logic   == Typed({"x", "&", "|", "="}, 6)
Choices == Typed({"x", "?", ":", "="}, 6)
Compare == Typed({"x", "1", "<", ">", "="}, 5)
Factors == Typed({"x", "*", "/", "(", ")", "-"}, 5)
AllTexts == {Signs, Logic, Choices, Compare, Factors}
DeviatingTexts == AllTexts \cup {Typed({"x", "<", "="}, 6), Typed({"x", "|", "+"}, 6)}

(* Words.                                                                  *)
W(ts, n, es) == [tokens |-> ts, max |-> n, envs |-> es]
Envs(ifs, params, values) ==
  {[ifs |-> i, params |-> ps, vars |-> [n \in {"v"} |-> v]] : i \in ifs, ps \in params, v \in values}
Blank == <<" ">>

Quoting   == W({"'", "\"", "\\", "$v", "a", " ", "}"}, 5, Envs({Blank}, {<<>>}, {<<>>, <<" ", "a", " ">>}))
Globs     == W({"a", "*", "\\", "'"}, 5, Envs({Blank}, {<<>>}, {<<>>}))
Patterns  == W({"a", "$v", "'", " "}, 5, Envs({Blank}, {<<>>}, {<<"*">>}))
Splitting == W({"$v", "\"", "a", ":"}, 4,
               Envs({<<":", " ">>, <<" ", ":">>, <<":">>, <<>>}, {<<>>},
                    {<<>>, <<":">>, <<" ", ":", " ">>, <<" ", "a", " ">>, <<":", "a", ":">>,
                     <<"a", ":", ":", "a">>, <<" ", ":", ":", "a", " ", " ", "a", ":">>}))
Lists     == W({"$@", "$*", "\"", "a", "$v"}, 4,
               Envs({Blank}, {<<>>, <<<<"a">>>>, <<<<>>, <<"a">>>>, <<<<"a">>, <<>>, <<"a", " ", "a">>>>},
                    {<<>>, <<" ">>, <<"a", " ", " ", "a">>})
               \cup Envs({<<":">>, <<>>}, {<<<<"a">>, <<"a", " ", "a">>>>},
                         {<<":">>, <<"a", ":", " ", "a">>}))
Defaults  == W({"${u-", "${v+", "}", "\"", "a", " ", "$v", "$@"}, 5,
               Envs({Blank}, {<<<<"a">>, <<"b">>>>}, {<<" ", "a">>}))
Assigns   == W({"${u=", "}", "$u", "\"", "a", " ", "$v"}, 5, Envs({Blank}, {<<>>}, {<<"01", " ", "04">>}))
Strips    == W({"${v#", "${v%%", "}", "'", "a", "*", "\\", "$v"}, 5,
               Envs({Blank}, {<<>>}, {<<"a", "*", "b", "a", "*">>}))
Substs    == W({"${v/", "${v//", "}", "'", "a", "*", "/"}, 5,
               Envs({Blank}, {<<>>}, {<<>>, <<"a", "*", "/", "a">>}))
AllWords  == {Quoting, Globs, Patterns, Splitting, Lists, Defaults, Assigns, Strips, Substs}

QuotedStars == {W({"$v", "\"", "*", "${v#", "}", "\\"}, 5, Envs({Blank}, {<<>>}, {<<>>}))}
EmptyParams == {W({"$@", "$v", "\""}, 4, Envs({Blank}, {<<<<"a">>, <<>>>>}, {<<" ", "a">>}))}
AssignList  == {W({"${u=", "$@", "\"", "}"}, 5, Envs({Blank}, {<<<<"a">>, <<"b">>>>}, {<<>>}))}
DeviatingWords == QuotedStars \cup EmptyParams \cup AssignList

(* The search: a name of each sort, and one of none.                       *)
Paths == {<<"p", "q">>, <<"q">>, <<".", "q">>}
SystemPath == <<"q">>
World(n, ks) == [names |-> {n}, kinds |-> ks]
AllWorlds == {World("tool", {"none", "exec", "dir"})}
             \cup {World(n, {"none", "exec"}) : n \in {"cp", "eval", "cd", "if"}}
DeviatingWorlds == {World(n, {"none", "exec"}) : n \in {"tool", "eval"}}

-----------------------------------------------------------------------------
textVars == <<expr, initially>>
wordVars == <<word, env>>
vars     == <<part, textVars, wordVars, lookupVars>>

NoText == expr = <<>> /\ initially = 0
NoWord == word = <<>> /\ env = <<>>
NoLook == /\ names = {} /\ kinds = {} /\ path = {} /\ there = {} /\ cwd = {} /\ functions = {}
          /\ aliases = {} /\ suppressed = {} /\ hashing = {} /\ cache = {} /\ label = {}
          /\ touched = {} /\ misfiled = {} /\ ran = NothingRan

MCInit ==
        \/ part = "arith" /\ A!Init /\ NoWord /\ NoLook
        \/ part = "word" /\ X!Init /\ NoText /\ NoLook
        \/ part = "lookup" /\ Init /\ NoText /\ NoWord

MCNext ==
        \/ part = "arith" /\ A!Next /\ UNCHANGED <<part, wordVars, lookupVars>>
        \/ part = "word" /\ X!Next /\ UNCHANGED <<part, textVars, lookupVars>>
        \/ part = "lookup" /\ Next /\ UNCHANGED <<part, textVars, wordVars>>

MCSpec == MCInit /\ [][MCNext]_vars

(* The properties of expressions and words; Lookup's hold where no name is *)
(* in use.                                                                 *)
ValuesAreTheLanguages == part = "arith" => A!ValuesAreTheLanguages
ShortCircuits         == part = "arith" => A!ShortCircuits
ShiftAssignsShift     == part = "arith" => A!ShiftAssignsShift
EqualityBindsLess     == part = "arith" => A!EqualityBindsLess
MalformedIsDiagnosed  == part = "arith" => A!MalformedIsDiagnosed
ParametersAreOperands == part = "arith" => A!ParametersAreOperands
FieldsArePosix        == part = "word" => X!FieldsArePosix
ValuesArePosix        == part = "word" => X!ValuesArePosix
PatternsArePosix      == part = "word" => X!PatternsArePosix
(* A word becomes the fields, the value or the pattern that POSIX says.    *)
ExpandsAsPosix == FieldsArePosix /\ ValuesArePosix /\ PatternsArePosix

QuotedNeverGlobs      == part = "word" => X!QuotedNeverGlobs
EmptyParametersStay   == part = "word" => X!EmptyParametersStay
MarkersStayInside     == part = "word" => X!MarkersStayInside
MCCacheFollowsPath    == part = "lookup" => CacheFollowsPath
MCTypeFollowsSearch   == part = "lookup" => TypeFollowsSearch
=============================================================================
