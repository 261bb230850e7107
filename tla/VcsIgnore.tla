----------------------------- MODULE VcsIgnore -----------------------------
(* The .gitignore rules of find --vcs and grep --vcs: which rules a walk     *)
(* takes into account, and which names they hide.  A name is a sequence of   *)
(* characters; a pattern is a sequence of components, itself of characters,  *)
(* where "*" and "?" are the wildcards and <<"*", "*">> matches directories. *)
EXTENDS Naturals, Paths

CONSTANTS SkipDirs, SkipFiles, SkipExts     \* the names hidden without a rule

(* fnmatch, by what it promises: "*" stands for any characters, and a          *)
(* backslash makes the next one itself.                                        *)
RECURSIVE Fnmatch(_, _)
Fnmatch(pat, s) ==
    IF pat = <<>> THEN s = <<>>
    ELSE IF Head(pat) = "*" THEN
        \E k \in 0..Len(s) : Fnmatch(Tail(pat), SubSeq(s, k + 1, Len(s)))
    ELSE IF Head(pat) = "\\" /\ Len(pat) > 1 THEN
        s # <<>> /\ pat[2] = Head(s) /\ Fnmatch(Tail(Tail(pat)), Tail(s))
    ELSE s # <<>> /\ Head(pat) \in {"?", Head(s)} /\ Fnmatch(Tail(pat), Tail(s))

(* A line of a .gitignore file: ! and the slashes around the pattern.         *)
Rule(line) ==
    [pat |-> line.comps, negate |-> line.neg, rooted |-> line.lead, dirOnly |-> line.trail,
     slash |-> Len(line.comps) > 1]

AnyDirs == <<"*", "*">>
Text(pat) == FoldLeft(LAMBDA s, c : IF s = <<>> THEN c ELSE s \o <<"/">> \o c, <<>>, pat)

(* vcs_glob_match, for the name without a slash that its callers pass.        *)
RECURSIVE VcsGlobMatch(_, _)
VcsGlobMatch(pat, name) ==
    LET n == Len(pat)
        starred == {k \in 2..(n - 1) : pat[k] = AnyDirs}
    IN  IF n > 1 /\ pat[1] = AnyDirs THEN VcsGlobMatch(Tail(pat), name)
        ELSE IF n > 1 /\ pat[n] = AnyDirs THEN Text(Front(pat)) = name
        ELSE IF starred # {} THEN
            LET k == CHOOSE i \in starred : \A j \in starred : i <= j
                prefix == Text(SubSeq(pat, 1, k - 1))
            IN  /\ IsStrictPrefix(prefix, name)
                /\ VcsGlobMatch(SubSeq(pat, k + 1, n), SubSeq(name, Len(prefix) + 2, Len(name)))
        ELSE n = 1 /\ Fnmatch(pat[1], name)

RuleMatches(rule, name, isDir) ==
    /\ rule.dirOnly => isDir
    /\ IF rule.slash \/ rule.rooted THEN VcsGlobMatch(rule.pat, name)
       ELSE Fnmatch(rule.pat[1], name)

SkipName(name, isDir) ==
    IF isDir THEN name \in SkipDirs
    ELSE name \in SkipFiles \/ \E e \in SkipExts : IsSuffix(e, name)

(* The rules are gone through in order; the last that matches decides.        *)
VcsIgnoreMatch(rules, name, isDir) ==
    \/ SkipName(name, isDir)
    \/ FoldLeft(LAMBDA ignored, r : IF RuleMatches(r, name, isDir) THEN ~r.negate ELSE ignored,
                FALSE, rules)

(* The directories whose .gitignore is read: the start and those named before *)
(* it, up to one that holds .git; the root is not reached.                    *)
Read(start, repos) ==
    {SubSeq(start, 1, k) : k \in {k \in 1..Len(start) :
        \A j \in (k + 1)..Len(start) : SubSeq(start, 1, j) \notin repos}}
VcsIgnoreLoad(start, repos, files) ==
    FoldLeft(LAMBDA rules, k :
                LET d == SubSeq(start, 1, k)
                IN  IF d \in Read(start, repos) /\ d \in DOMAIN files
                    THEN rules \o [i \in DOMAIN files[d] |-> Rule(files[d][i])] ELSE rules,
             <<>>, [k \in 1..Len(start) |-> k])

(* Declaratively: hidden is what a rule hides and no later rule shows.        *)
HiddenBy(rules, name, isDir) ==
    \E i \in DOMAIN rules :
        /\ RuleMatches(rules[i], name, isDir) /\ ~rules[i].negate
        /\ \A j \in (i + 1)..Len(rules) : RuleMatches(rules[j], name, isDir) => ~rules[j].negate
=============================================================================
