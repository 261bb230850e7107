-------------------------------- MODULE Sed --------------------------------
(***************************************************************************)
(* The sed applet at run time (core/sed.c): addresses and ranges, the      *)
(* pattern and hold spaces, the append queue, the delayed delimiter of an  *)
(* unterminated record, streams shared by file name, and the replacement   *)
(* of a file edited in place.  `script', `opts' and `files' are what       *)
(* parse_script and the option loop leave; `st' is the code's exec_t.      *)
(*                                                                         *)
(* A character is a model string; a record is [text, nl], nl telling       *)
(* whether its delimiter was there.  Output is a sequence of pieces        *)
(* <<kind, text>>, the delimiter being the piece Delim, so that two        *)
(* records on one line are visible.                                        *)
(***************************************************************************)
EXTENDS Integers, FiniteSets, SequencesExt

CONSTANTS
    Jobs,          \* what may be run: records [script, opts, files, disk]
    Backups,       \* backup_name: what each operand's backup is called
    MaxAppends,    \* room in the append queue (512 in the code)
    MaxStreams     \* room for `w' streams (64)

(* A file is there or not, and holds lines: [there, lines].                  *)
Absent == [there |-> FALSE, lines |-> <<>>]
Holding(lines) == [there |-> TRUE, lines |-> lines]
IsFile(f) ==
    \/ f = Absent
    \/ f = Holding(f.lines) /\ f.lines \in Seq(Range(f.lines))

(* Every name a job uses is one of its disk, mkstemp finds a name that is     *)
(* free, and parse_script leaves a branch inside the script.                  *)
ASSUME SedAssumption ==
    /\ MaxAppends \in Nat \ {0} /\ MaxStreams \in Nat \ {0}
    /\ \A j \in Jobs :
          /\ j.script \in Seq(Range(j.script)) /\ j.files \in Seq(DOMAIN j.disk)
          /\ \A i \in DOMAIN j.script :
                /\ j.script[i].jump \in Nat
                /\ j.script[i].cmd \in {"r", "R"} => j.script[i].file \in DOMAIN j.disk
          /\ \A f \in DOMAIN j.disk : IsFile(j.disk[f])
          /\ j.opts.inplace =>
                /\ "tmp" \in DOMAIN j.disk /\ j.disk["tmp"] = Absent
                /\ \A i \in DOMAIN j.files : Backups[j.files[i]] \in DOMAIN j.disk

VARIABLES
    job,      \* the job being run
    st,       \* exec_t, with the range state of every command
    phase,    \* "open", "run", "cycle", "end", "backup", "replace", "done", "panic"
    disk,     \* what every file holds
    stdout,   \* pieces written to standard output by the streams before
    seen      \* history: for each command with a range, the lines it was tried on

sedVars == <<job, st, phase, disk, stdout, seen>>

Put(f, k, v) == [x \in DOMAIN f \cup {k} |-> IF x = k THEN v ELSE f[x]]

Delim == <<"delim", <<>>>>
NewLine == "nl"                  \* the delimiter inside a pattern space
None == "none"

Script == job.script
Quiet == job.opts.quiet
Posix == job.opts.posix
InPlace == job.opts.inplace
Separate == job.opts.separate \/ InPlace

---------------------------------------------------------------------------
(* Output.                                                                 *)

FlushPendingForgets(s) == [s EXCEPT !.pend = FALSE]

FlushPending(s) ==
    IF s.pend THEN [s EXCEPT !.out = Append(@, Delim), !.pend = FALSE] ELSE s

OutRecord(s, kind, l) ==
    LET f == FlushPending(s)
        o == Append(f.out, <<kind, l.text>>)
    IN  IF l.nl THEN [f EXCEPT !.out = Append(o, Delim)]
                ELSE [f EXCEPT !.out = o, !.pend = TRUE]

OutText(s, kind, t) == OutRecord(s, kind, [text |-> t, nl |-> TRUE])

(* w FILE: one stream per name, opened at the first write; past the table  *)
(* the stream is standard error.                                           *)
WriteFile(s, name, l) ==
    IF name = "/dev/stdout" THEN OutRecord(s, "rec", l)
    ELSE IF name \notin DOMAIN s.w /\ Cardinality(DOMAIN s.w) >= MaxStreams
    THEN s
    ELSE LET old == IF name \in DOMAIN s.w THEN s.w[name]
                    ELSE [out |-> <<>>, pend |-> FALSE]
             new == OutRecord(old, "rec", l)
         IN  [s EXCEPT !.w = Put(@, name, new)]

---------------------------------------------------------------------------
(* Input.  `at' is <<file, record>> of the last record fetched.            *)

Readable(s, f) == disk[s.files[f]].there
Records(s, f) == disk[s.files[f]].lines

(* open_input and getdelim over the operands: the next record, opening (and *)
(* complaining about) every operand on the way.                             *)
Fetch(s) ==
    LET here == <<s.at[1], s.at[2] + 1>>
        inHere == s.at[1] > 0 /\ here[2] <= Len(Records(s, s.at[1]))
        later == {f \in (s.at[1] + 1)..Len(s.files) : Records(s, f) # <<>>}
        next == Min(later)
        opened == IF inHere THEN s.at[1]
                  ELSE IF later # {} THEN next ELSE Len(s.files)
        missed == \E f \in (s.at[1] + 1)..opened : ~Readable(s, f)
    IN  [ok |-> inHere \/ later # {},
         at |-> IF inHere THEN here
                ELSE IF later # {} THEN <<next, 1>>
                ELSE <<Len(s.files), IF s.files = <<>> THEN 0
                                     ELSE Len(Records(s, Len(s.files)))>>,
         failed |-> s.failed \/ missed]

RecordAt(s, at) == Records(s, at[1])[at[2]]

Took(s, f) == [s EXCEPT !.at = f.at, !.failed = f.failed]

NeedLookahead ==
    \E i \in DOMAIN Script :
        Script[i].a1.type = "last" \/ Script[i].a2.type = "last"

(* next_record: the peeked record or the next one, then one more record of  *)
(* lookahead when the script mentions $.                                    *)
Advance(s, l) ==
    LET t == [s EXCEPT !.ps = l, !.line = @ + 1, !.peek = <<>>,
                       !.tflag = FALSE, !.more = TRUE]
        f == Fetch(t)
    IN  IF ~NeedLookahead THEN t
        ELSE IF f.ok THEN [Took(t, f) EXCEPT !.peek = <<RecordAt(t, f.at)>>,
                                             !.last = FALSE]
        ELSE [Took(t, f) EXCEPT !.last = TRUE]

NextRecordUnpeeked(s) ==
    LET f == Fetch(s)
    IN  IF f.ok THEN Advance(Took(s, f), RecordAt(s, f.at)) ELSE [Took(s, f) EXCEPT !.more = FALSE]

NextRecord(s) ==
    IF s.peek # <<>> THEN Advance(s, s.peek[1])
    ELSE LET f == Fetch(s)
         IN  IF f.ok THEN Advance(Took(s, f), RecordAt(s, f.at))
             ELSE [Took(s, f) EXCEPT !.more = FALSE]

---------------------------------------------------------------------------
(* The append queue.                                                       *)

Queue(s, entry) ==
    IF Len(s.aq) >= MaxAppends THEN s ELSE [s EXCEPT !.aq = Append(@, entry)]

(* R: the next line of a stream shared by every R naming that file.         *)
ReadLine(s, name) ==
    LET n == IF name \in DOMAIN s.r THEN s.r[name] + 1 ELSE 1
        lines == disk[name].lines
        t == [s EXCEPT !.r = Put(@, name, n)]
    IN  IF n <= Len(lines) THEN OutText(t, "file", lines[n].text) ELSE t

(* r: the whole file, as it is on the disk; only its last line may lack the  *)
(* delimiter.                                                               *)
Whole(lines) ==
    LET n == Len(lines)
        bare == n > 0 /\ ~lines[n].nl
    IN  [k \in 1..(IF bare THEN 2 * n - 1 ELSE 2 * n) |->
            IF k % 2 = 0 THEN Delim ELSE <<"file", lines[(k + 1) \div 2].text>>]

FlushOne(s, e) ==
    CASE e.type = "text" -> OutText(s, "text", e.text)
      [] e.type = "r" ->
            IF ~disk[e.file].there THEN s
            ELSE LET f == FlushPending(s)
                 IN  [f EXCEPT !.out = @ \o Whole(disk[e.file].lines)]
      [] e.type = "R" -> ReadLine(s, e.file)

Flushed(s) ==
    LET flushed[k \in 0..Len(s.aq)] ==
          IF k = 0 THEN s ELSE FlushOne(flushed[k - 1], s.aq[k])
    IN  flushed[Len(s.aq)]

FlushAppendsAgain(s) == Flushed(s)

FlushAppends(s) == [Flushed(s) EXCEPT !.aq = <<>>]

---------------------------------------------------------------------------
(* Regular expressions: a character anywhere ("a"), only at the start       *)
(* ("^a"), or any run of it ("a*").                                         *)

Run(text, c, p) ==           \* where the run of c that starts at p ends
    CHOOSE e \in p..(Len(text) + 1) :
        /\ \A i \in p..(e - 1) : text[i] = c
        /\ e = Len(text) + 1 \/ text[e] # c

(* regexec over text[p..]: the leftmost longest match [so, eo), if any.     *)
MatchFrom(re, text, p) ==
    CASE re.kind = "star" -> {<<p, Run(text, re.char, p)>>}
      [] re.kind = "char" ->
            LET hits == {i \in p..Len(text) : text[i] = re.char}
            IN  {<<i, i + 1>> : i \in {h \in hits : \A g \in hits : h <= g}}
      [] re.kind = "head" ->
            IF p = 1 /\ text # <<>> /\ text[1] = re.char
            THEN {<<1, 2>>} ELSE {}

Matches(re, text) == MatchFrom(re, text, 1) # {}

(* effective_re: an empty expression recalls the last one executed.         *)
Effective(s, re) == IF re.kind = "empty" THEN s.re ELSE re
NoExpression == [kind |-> None, char |-> None]

---------------------------------------------------------------------------
(* Addresses.                                                              *)

From0(c) == c.a1.type = "line" /\ c.a1.n = 0      \* 0,/re/

AddrHolds(s, a) ==
    CASE a.type = "line" -> s.line = a.n
      [] a.type = "last" -> s.last
      [] a.type = "step" ->
            IF a.step = 0 THEN s.line = a.n
            ELSE s.line >= a.n /\ (s.line - a.n) % a.step = 0
      [] a.type = "regex" -> Matches(Effective(s, a.re), s.ps.text)
      [] OTHER -> FALSE

RoundUp(line, n) == IF n = 0 THEN line ELSE ((line + n - 1) \div n) * n

(* cmd_matches: whether the command runs, whether this is the last line of   *)
(* its range (for c), and the range state it leaves.                         *)
Opened(s, c, rg) ==
    LET end == CASE c.a2.type = "plus" -> s.line + c.a2.n
                 [] c.a2.type = "mult" -> RoundUp(s.line, c.a2.n)
                 [] OTHER -> rg.end
        closed == CASE c.a2.type = "line" -> c.a2.n <= s.line
                    [] c.a2.type \in {"plus", "mult"} -> end <= s.line
                    [] c.a2.type = "last" -> s.last
                    [] c.a2.type = "regex" -> From0(c) /\ AddrHolds(s, c.a2)
                    [] OTHER -> FALSE
        latch == c.a2.type = "regex" /\ From0(c) /\ closed
    IN  [hit |-> TRUE, last |-> closed,
         rg |-> [active |-> ~closed, end |-> IF latch THEN 1 ELSE end]]

ContinuedPast(s, c, rg) ==
    LET closed == CASE c.a2.type = "line" -> s.line > c.a2.n
                    [] c.a2.type \in {"plus", "mult"} -> s.line >= rg.end
                    [] OTHER -> AddrHolds(s, c.a2)
    IN  [hit |-> TRUE, last |-> closed, rg |-> [active |-> ~closed /\ ~s.last, end |-> rg.end]]

Continued(s, c, rg) ==
    LET closed == CASE c.a2.type = "line" -> s.line >= c.a2.n
                    [] c.a2.type \in {"plus", "mult"} -> s.line >= rg.end
                    [] OTHER -> AddrHolds(s, c.a2)
    IN  [hit |-> TRUE, last |-> closed,
         rg |-> [active |-> ~closed /\ ~s.last,
                 end |-> IF closed /\ From0(c) /\ c.a2.type = "regex" THEN 1
                         ELSE rg.end]]

Select(s, c, rg) ==
    LET starts == IF From0(c) THEN rg.end = 0 ELSE AddrHolds(s, c.a1)
        plain(h) == [hit |-> h, last |-> TRUE, rg |-> rg]
    IN  CASE c.a1.type = None -> plain(TRUE)
          [] c.a1.type # None /\ c.a2.type = None -> plain(AddrHolds(s, c.a1))
          [] c.a2.type # None /\ rg.active -> Continued(s, c, rg)
          [] c.a2.type # None /\ ~rg.active ->
                IF starts THEN Opened(s, c, rg) ELSE plain(FALSE)

(* The address tried at this moment; its expression becomes the one an empty *)
(* expression recalls.                                                       *)
NoAddr == [type |-> None]
Tried(c, rg) ==
    CASE c.a2.type # None /\ rg.active -> c.a2
      [] ~rg.active /\ c.a2.type # None /\ From0(c) ->
            IF rg.end = 0 THEN c.a2 ELSE NoAddr
      [] OTHER -> c.a1

Recalled(s, re) == re.kind = "empty" /\ s.re = NoExpression
LastRe(s, a) == IF a.type = "regex" THEN Effective(s, a.re) ELSE s.re

---------------------------------------------------------------------------
(* s///: do_subst.                                                         *)

Upper == "a" :> "A" @@ "b" :> "B"
Cased(mode, c) ==
    CASE mode = "U" -> IF c \in DOMAIN Upper THEN Upper[c] ELSE c
      [] mode = "L" -> IF \E l \in DOMAIN Upper : Upper[l] = c
                       THEN CHOOSE l \in DOMAIN Upper : Upper[l] = c ELSE c
      [] OTHER -> c

(* append_cased: a one-shot \u or \l wins over \U and \L, for one character. *)
AppendCased(b, text) ==
    FoldLeft(LAMBDA r, c :
                [r EXCEPT !.out = Append(@, Cased(IF r.once # None THEN r.once
                                                  ELSE r.mode, c)),
                          !.once = None], b, text)

Replacement(toks, whole) ==
    FoldLeft(LAMBDA b, t :
                CASE t.tok = "lit" -> AppendCased(b, t.text)
                  [] t.tok = "match" -> AppendCased(b, whole)
                  [] t.tok = "case" /\ t.op = "E" ->
                        [b EXCEPT !.mode = None, !.once = None]
                  [] t.tok = "case" /\ t.op \in {"U", "L"} ->
                        [b EXCEPT !.mode = t.op]
                  [] t.tok = "case" /\ t.op = "u" -> [b EXCEPT !.once = "U"]
                  [] t.tok = "case" /\ t.op = "l" -> [b EXCEPT !.once = "L"],
             [out |-> <<>>, mode |-> None, once |-> None], toks).out

AfterMatchAnyway(so, eo, prev) == FALSE
AfterMatch(so, eo, prev) == eo = so /\ so = prev

(* The loop from position p, after n matches the last of which ended at      *)
(* prev: an empty match right after a match does not count.                  *)
Substitute(c, re, text) ==
    LET loop[p \in 1..(Len(text) + 1), n \in 0..(Len(text) + 1),
             prev \in 0..(Len(text) + 1)] ==
          LET m == MatchFrom(re, text, p)
              so == (CHOOSE x \in m : TRUE)[1]
              eo == (CHOOSE x \in m : TRUE)[2]
              rest(q) == SubSeq(text, q, Len(text))
              replace == IF c.g THEN n + 1 >= c.nth ELSE n + 1 = c.nth
              piece == IF replace
                       THEN SubSeq(text, p, so - 1)
                            \o Replacement(c.repl, SubSeq(text, so, eo - 1))
                       ELSE SubSeq(text, p, eo - 1)
              step(q) == <<text[q]>>
              go(pre, q, k, e, made) ==
                  LET r == loop[q, k, e]
                  IN  [text |-> pre \o r.text, made |-> made \/ r.made]
          IN  IF m = {} THEN [text |-> rest(p), made |-> FALSE]
              ELSE IF AfterMatch(so, eo, prev)
              THEN IF so > Len(text) THEN [text |-> rest(p), made |-> FALSE]
                   ELSE go(step(so), so + 1, n, prev, FALSE)
              ELSE IF eo = so /\ eo > Len(text)
              THEN [text |-> piece, made |-> replace]
              ELSE IF ~c.g /\ n + 1 >= c.nth
              THEN [text |-> piece \o rest(eo), made |-> replace]
              ELSE IF eo = so
              THEN go(piece \o step(eo), eo + 1, n + 1, eo, replace)
              ELSE go(piece, eo, n + 1, eo, replace)
    IN  loop[1, 0, 0]

---------------------------------------------------------------------------
(* One stream: run_stream.                                                 *)

Cur == Script[st.pc]
Rg == st.ranges[st.pc]
Sel == Select(st, Cur, Rg)
Hit == Sel.hit # Cur.neg
Fresh == [active |-> FALSE, end |-> 0]

Chosen ==
    [st EXCEPT !.ranges[st.pc] = Sel.rg, !.re = LastRe(st, Tried(Cur, Rg))]

FirstLine(t) ==
    LET nls == {i \in DOMAIN t : t[i] = NewLine}
    IN  IF nls = {} THEN Len(t) ELSE (CHOOSE i \in nls : \A j \in nls : i <= j) - 1
OneLine(t) == FirstLine(t) = Len(t)

Trace ==
    seen' = [seen EXCEPT ![st.pc] =
                IF Cur.a2.type = None THEN @
                ELSE Append(@, [line |-> st.line, last |-> st.last,
                                text |-> st.ps.text, hit |-> Sel.hit])]

Tries(a) == phase = "run" /\ st.pc <= Len(Script) /\ a
Settled == ~(LET a == Tried(Cur, Rg) IN a.type = "regex" /\ Recalled(st, a.re))

(* Skipped: the address does not hold; a block is skipped to its brace.      *)
Skip ==
    /\ Tries(Settled) /\ ~Hit
    /\ st' = [Chosen EXCEPT !.pc = IF Cur.cmd = "{" THEN Cur.jump + 1 ELSE @ + 1]
    /\ Trace
    /\ UNCHANGED <<job, phase, disk, stdout>>

(* A command that goes on to the next one, having turned s into Effect(s).   *)
Do(cmds, Effect(_)) ==
    /\ Tries(Settled) /\ Cur.cmd \in cmds /\ Hit
    /\ st' = [Effect(Chosen) EXCEPT !.pc = @ + 1]
    /\ Trace
    /\ UNCHANGED <<job, phase, disk, stdout>>

(* A command that ends the cycle, printing the pattern space or not.         *)
Ends(cmds, Effect(_), print) ==
    /\ Tries(Settled) /\ Cur.cmd \in cmds /\ Hit
    /\ st' = [Effect(Chosen) EXCEPT !.print = print]
    /\ phase' = "cycle"
    /\ Trace
    /\ UNCHANGED <<job, disk, stdout>>

Mark == Do({"{", "}", ":"}, LAMBDA s : s)
PrintAll == Do({"p"}, LAMBDA s : OutRecord(s, "rec", s.ps))
PrintFirst ==
    Do({"P"}, LAMBDA s : OutText(s, "rec", SubSeq(s.ps.text, 1, FirstLine(s.ps.text))))
Say == Do({"=", "F", "l"}, LAMBDA s : OutText(s, "text", <<Cur.cmd>>))
Insert == Do({"i"}, LAMBDA s : OutText(s, "text", Cur.text))
AppendText == Do({"a"}, LAMBDA s : Queue(s, [type |-> "text", text |-> Cur.text]))
ReadCmd == Do({"r", "R"}, LAMBDA s : Queue(s, [type |-> Cur.cmd, file |-> Cur.file]))

Get == Do({"g"}, LAMBDA s : [s EXCEPT !.ps = s.hs])
Hold == Do({"h"}, LAMBDA s : [s EXCEPT !.hs = s.ps])
Exchange == Do({"x"}, LAMBDA s : [s EXCEPT !.ps = s.hs, !.hs = s.ps])
Joined(a, b) == [text |-> Append(a.text, NewLine) \o b.text, nl |-> b.nl]
GetAppend == Do({"G"}, LAMBDA s : [s EXCEPT !.ps = Joined(s.ps, s.hs)])
HoldAppend == Do({"H"}, LAMBDA s : [s EXCEPT !.hs = Joined(s.hs, s.ps)])
Zap == Do({"z"}, LAMBDA s : [s EXCEPT !.ps.text = <<>>])
Translate(t, map) == [i \in DOMAIN t |-> IF t[i] \in DOMAIN map THEN map[t[i]] ELSE t[i]]
Transliterate == Do({"y"}, LAMBDA s : [s EXCEPT !.ps.text = Translate(@, Cur.map)])

Write ==
    Do({"w", "W"},
       LAMBDA s : LET n == FirstLine(s.ps.text)
                      all == Cur.cmd = "w" \/ n = Len(s.ps.text)
                  IN  WriteFile(s, Cur.file,
                                [text |-> IF Cur.cmd = "w" THEN s.ps.text
                                          ELSE SubSeq(s.ps.text, 1, n),
                                 nl |-> ~all \/ s.ps.nl]))

(* e COMMAND: run_shell_into writes straight to the stream.                  *)
ShellText == <<"a">>           \* what the command prints
Execute ==
    Do({"e"}, LAMBDA s : IF Cur.text # <<>>
                         THEN [s EXCEPT !.out = @ \o <<<<"text", ShellText>>, Delim>>]
                         ELSE [s EXCEPT !.ps.text = ShellText])

(* s///: print, execute and write as its flags say, if anything was replaced. *)
SubstEffect(s) ==
    LET re == Effective(s, Cur.re)
        r == Substitute(Cur, re, s.ps.text)
        When(b, t, u) == IF b THEN u ELSE t
        s1 == [s EXCEPT !.re = re, !.ps.text = r.text, !.tflag = TRUE]
        whole(t) == OutText(t, "rec", t.ps.text)
        s2 == When(Cur.p = "before", s1, whole(s1))
        s3 == When(Cur.e, s2, [s2 EXCEPT !.ps.text = ShellText])
        s4 == When(Cur.p = "after", s3, whole(s3))
    IN  IF ~r.made THEN [s EXCEPT !.re = re]
        ELSE When(Cur.file # None, s4, WriteFile(s4, Cur.file, s4.ps))
Subst == Tries(Cur.cmd = "s" /\ ~Recalled(Chosen, Cur.re)) /\ Do({"s"}, SubstEffect)

JumpKeepsFlag(s, taken) ==
    [s EXCEPT !.pc = IF ~taken THEN @ ELSE IF Cur.jump = 0 THEN Len(Script) ELSE Cur.jump]

(* Branches: to the mark, or to the end of the script.                       *)
Jump(s, taken) ==
    [s EXCEPT !.tflag = FALSE,
              !.pc = IF ~taken THEN @ ELSE IF Cur.jump = 0 THEN Len(Script) ELSE Cur.jump]
Branch == Do({"b"}, LAMBDA s : [Jump(s, TRUE) EXCEPT !.tflag = s.tflag])
BranchIf == Do({"t"}, LAMBDA s : Jump(s, s.tflag))
BranchUnless == Do({"T"}, LAMBDA s : Jump(s, ~s.tflag))

Delete == Ends({"d"}, LAMBDA s : s, FALSE)
Change ==
    Ends({"c"}, LAMBDA s : IF Sel.last THEN OutText(s, "text", Cur.text) ELSE s, FALSE)
Quit == Ends({"q"}, LAMBDA s : [s EXCEPT !.quit = Cur.code], TRUE)
QuitSilently == Ends({"Q"}, LAMBDA s : [s EXCEPT !.quit = Cur.code], FALSE)

(* D: the first line goes, and the script restarts without reading.          *)
DeleteFirst ==
    LET t == st.ps.text
    IN  \/ OneLine(t) /\ Ends({"D"}, LAMBDA s : s, FALSE)
        \/ /\ ~OneLine(t)
           /\ Do({"D"}, LAMBDA s : [s EXCEPT !.pc = 0,
                    !.ps.text = SubSeq(t, FirstLine(t) + 2, Len(t))])

(* n: print, flush, and read on; without input the stream ends there.        *)
NextCmd ==
    LET shown(s) == FlushAppends(IF Quiet THEN s ELSE OutRecord(s, "rec", s.ps))
        s1 == NextRecord(shown(Chosen))
    IN  /\ Tries(Settled) /\ Cur.cmd = "n" /\ Hit
        /\ st' = [s1 EXCEPT !.pc = @ + 1]
        /\ phase' = IF s1.more THEN "run" ELSE "end"
        /\ Trace
        /\ UNCHANGED <<job, disk, stdout>>

(* N: flush, and append the next record; without one, print and stop.        *)
NextAppend ==
    LET s1 == NextRecord(FlushAppends(Chosen))
    IN  /\ Tries(Settled) /\ Cur.cmd = "N" /\ Hit
        /\ IF s1.more
           THEN st' = [s1 EXCEPT !.ps = Joined(st.ps, s1.ps), !.pc = @ + 1]
           ELSE st' = [s1 EXCEPT !.print = ~Posix]
        /\ phase' = IF s1.more THEN "run" ELSE "cycle"
        /\ Trace
        /\ UNCHANGED <<job, disk, stdout>>

(* No previous regular expression: sed_jmp, the temporary file removed.      *)
Panic ==
    /\ Tries(~Settled \/ (Hit /\ Cur.cmd = "s" /\ Recalled(Chosen, Cur.re)))
    /\ phase' = "panic"
    /\ st' = [st EXCEPT !.exit = 1]
    /\ disk' = IF InPlace THEN [disk EXCEPT !.tmp = Absent] ELSE disk
    /\ UNCHANGED <<job, stdout, seen>>

Fallthrough ==
    /\ phase = "run" /\ st.pc > Len(Script)
    /\ phase' = "cycle"
    /\ st' = [st EXCEPT !.print = TRUE]
    /\ UNCHANGED <<job, disk, stdout, seen>>

(* The end of a cycle: autoprint, the queued text, and the next record.      *)
EndCycle ==
    LET shown == FlushAppends(IF st.print /\ ~Quiet THEN OutRecord(st, "rec", st.ps)
                              ELSE st)
        stop == st.quit >= 0 \/ ~st.more
        s1 == IF stop THEN shown ELSE NextRecord(shown)
    IN  /\ phase = "cycle"
        /\ st' = [s1 EXCEPT !.pc = 1]
        /\ phase' = IF stop \/ ~s1.more THEN "end" ELSE "run"
        /\ UNCHANGED <<job, disk, stdout, seen>>

---------------------------------------------------------------------------
(* The operands: one continuous stream, or one stream per file.            *)

Operands == job.files

Streamed(files) ==
    [st EXCEPT !.files = files, !.at = <<0, 0>>, !.peek = <<>>, !.line = 0,
               !.last = FALSE, !.aq = <<>>, !.pend = FALSE, !.out = <<>>,
               !.pc = 1, !.more = TRUE, !.fi = @ + 1,
               !.ranges = [i \in DOMAIN Script |-> Fresh],
               !.hs.text = IF Separate THEN <<>> ELSE @]

(* GNU's 0r: the file comes before the first record.                         *)
Early(c) ==
    c.cmd \in {"r", "R"} /\ ~c.neg /\ c.a2.type = None /\ c.a1.type = "line" /\ c.a1.n = 0
EarlyQueued(s) ==
    LET queued[k \in 0..Len(Script)] ==
          IF k = 0 THEN s
          ELSE IF Early(Script[k])
          THEN Queue(queued[k - 1], [type |-> Script[k].cmd, file |-> Script[k].file])
          ELSE queued[k - 1]
    IN  queued[Len(Script)]
Prologue(s) == FlushAppends(EarlyQueued(s))

LastStream == st.fi = IF Separate THEN Len(Operands) ELSE 1

Open ==
    LET files == IF Separate THEN <<Operands[st.fi + 1]>> ELSE Operands
        s1 == NextRecord(Prologue(Streamed(files)))
        missing == InPlace /\ ~disk[files[1]].there
    IN  /\ phase = "open" /\ ~LastStream /\ st.quit < 0
        /\ IF missing
           THEN st' = [st EXCEPT !.failed = TRUE, !.fi = @ + 1] /\ UNCHANGED phase
           ELSE st' = s1 /\ phase' = IF s1.more THEN "run" ELSE "end"
        /\ seen' = [i \in DOMAIN Script |-> <<>>]
        /\ disk' = IF InPlace /\ ~missing THEN [disk EXCEPT !.tmp = Holding(<<>>)] ELSE disk
        /\ UNCHANGED <<job, stdout>>

(* What pieces come to on a disk.                                            *)
Laid(lines, p) ==
    LET open == lines # <<>> /\ ~Last(lines).nl
        line == IF open THEN Last(lines) ELSE [text |-> <<>>, nl |-> FALSE]
        rest == IF open THEN Front(lines) ELSE lines
    IN  Append(rest, IF p = Delim THEN [line EXCEPT !.nl = TRUE]
                     ELSE [line EXCEPT !.text = @ \o p[2]])
OnDisk(out) ==
    LET laid[k \in 0..Len(out)] ==
          IF k = 0 THEN <<>> ELSE Laid(laid[k - 1], out[k])
    IN  Holding(laid[Len(out)])

(* History: what the script made of an operand, and whether its writing fell  *)
(* short.                                                                     *)
Result(n) == [of |-> st.fi, file |-> OnDisk(st.out), short |-> n < Len(st.out)]

(* Mutant: the temporary file is never closed, and what is buffered is lost.  *)
EndStreamUnflushed ==
    /\ phase = "end"
    /\ IF InPlace
       THEN /\ disk' = [disk EXCEPT !.tmp = OnDisk(SubSeq(st.out, 1, Len(st.out) \div 2))]
            /\ st' = [st EXCEPT !.pend = FALSE, !.edits = @ \cup {Result(Len(st.out))}]
            /\ phase' = IF job.opts.suffix THEN "backup" ELSE "replace"
            /\ UNCHANGED stdout
       ELSE /\ stdout' = stdout \o st.out
            /\ st' = [st EXCEPT !.pend = FALSE]
            /\ phase' = "open"
            /\ UNCHANGED disk
    /\ UNCHANGED <<job, seen>>

(* The end of a stream.  What a full disk leaves of the temporary file is not *)
(* noticed: the results of fflush and fclose are not looked at.               *)
EndStream ==
    /\ phase = "end"
    /\ IF InPlace
       THEN /\ \E n \in {Len(st.out), Len(st.out) \div 2} :
                  /\ disk' = [disk EXCEPT !.tmp = OnDisk(SubSeq(st.out, 1, n))]
                  /\ st' = [st EXCEPT !.pend = FALSE, !.edits = @ \cup {Result(n)}]
            /\ phase' = IF job.opts.suffix THEN "backup" ELSE "replace"
            /\ UNCHANGED stdout
       ELSE /\ stdout' = stdout \o st.out
            /\ st' = [st EXCEPT !.pend = FALSE]
            /\ phase' = "open"
            /\ UNCHANGED disk
    /\ UNCHANGED <<job, seen>>

Name == st.files[1]
BackupOf(f) == Backups[f]
Moved(from, to) == [disk EXCEPT ![to] = disk[from], ![from] = Absent]

RenameFailsLitters ==
    /\ phase \in {"backup", "replace"}
    /\ phase' = "panic"
    /\ st' = [st EXCEPT !.exit = 4]
    /\ UNCHANGED <<job, disk, stdout, seen>>

(* A rename that fails leaves sed with status 4 and no temporary file.       *)
RenameFails ==
    /\ phase \in {"backup", "replace"}
    /\ disk' = [disk EXCEPT !.tmp = Absent]
    /\ phase' = "panic"
    /\ st' = [st EXCEPT !.exit = 4]
    /\ UNCHANGED <<job, stdout, seen>>

Backup ==
    /\ phase = "backup"
    /\ disk' = IF BackupOf(Name) = Name THEN disk ELSE Moved(Name, BackupOf(Name))
    /\ phase' = "replace"
    /\ UNCHANGED <<job, st, stdout, seen>>

Replace ==
    /\ phase = "replace"
    /\ disk' = Moved("tmp", Name)
    /\ phase' = "open"
    /\ UNCHANGED <<job, st, stdout, seen>>

Finish ==
    /\ phase = "open" /\ (LastStream \/ st.quit >= 0)
    /\ phase' = "done"
    /\ st' = [st EXCEPT !.exit = IF st.quit > 0 THEN st.quit
                                 ELSE IF st.failed THEN 2 ELSE 0]
    /\ UNCHANGED <<job, disk, stdout, seen>>

---------------------------------------------------------------------------
Started(j) ==
    [ps |-> [text |-> <<>>, nl |-> TRUE], hs |-> [text |-> <<>>, nl |-> TRUE],
    line |-> 0, last |-> FALSE, tflag |-> FALSE, peek |-> <<>>,
    at |-> <<0, 0>>, files |-> <<>>, failed |-> FALSE, out |-> <<>>,
    pend |-> FALSE, aq |-> <<>>, w |-> <<>>, r |-> <<>>,
    re |-> NoExpression, quit |-> -1, pc |-> 1, print |-> TRUE,
    ranges |-> [i \in DOMAIN j.script |-> Fresh], more |-> TRUE,
    fi |-> 0, exit |-> 0, edits |-> {}]

Init ==
    /\ job \in Jobs
    /\ st = Started(job)
    /\ phase = "open"
    /\ disk = job.disk
    /\ stdout = <<>>
    /\ seen = [i \in DOMAIN job.script |-> <<>>]

Command ==
    \/ Skip \/ Mark \/ PrintAll \/ PrintFirst \/ Say \/ Insert \/ AppendText \/ ReadCmd
    \/ Get \/ Hold \/ Exchange \/ GetAppend \/ HoldAppend \/ Zap \/ Transliterate
    \/ Write \/ Execute \/ Subst \/ Branch \/ BranchIf \/ BranchUnless
    \/ Delete \/ Change \/ Quit \/ QuitSilently \/ DeleteFirst \/ NextCmd \/ NextAppend
    \/ Panic

Next ==
    \/ Command \/ Fallthrough \/ EndCycle
    \/ Open \/ EndStream \/ RenameFails \/ Backup \/ Replace \/ Finish

(* sed runs on until it stops: WF_sedVars(Next), Next being enabled exactly    *)
(* while it is going.                                                         *)
Stopped == phase \in {"done", "panic"}
RunsOn == []<>Stopped \/ []<><<TRUE>>_sedVars

Spec == Init /\ [][Next]_sedVars /\ RunsOn
---------------------------------------------------------------------------
(* Properties.                                                             *)

Pieces == stdout \o IF InPlace THEN <<>> ELSE st.out

UnfinishedIn(out) ==
    \E i \in 1..(Len(out) - 1) :
        out[i][1] \in {"rec", "text"} /\ out[i + 1] # Delim

(* A record that came without its delimiter is printed without one only when  *)
(* nothing follows: its delimiter is written before whatever comes next, on   *)
(* the output of a stream and in every w file (pending_nl, pending_delim).    *)
RecordsStayApart ==
    \/ \E i \in DOMAIN Script : Script[i].cmd = "e"
    \/ /\ ~UnfinishedIn(st.out)
       /\ \A f \in DOMAIN st.w : ~UnfinishedIn(st.w[f].out)

(* The comment of wfile_write: "the same delayed-delimiter rule as the main   *)
(* output: [...] written without one, unless more output follows".            *)
OutputStaysApart == ~UnfinishedIn(Pieces)

(* No record is fetched before it is needed: without $ the input consumed is  *)
(* the lines processed, and with it one more, so that a reader of the same    *)
(* descriptor finds the rest.                                                 *)
FirstOf(f, n) == {f} \X (1..n)
Fetched(s) ==
    (UNION {FirstOf(f, Len(Records(s, f))) : f \in 1..(s.at[1] - 1)})
        \cup FirstOf(s.at[1], s.at[2])
ReadsNoFurther ==
    phase \in {"run", "cycle"} =>
        /\ Cardinality(Fetched(st)) = st.line + Len(st.peek)
        /\ st.peek # <<>> => NeedLookahead /\ ~st.last

(* The lines a command's addresses select are intervals: from a line where    *)
(* the first address holds to the first line that satisfies the second,       *)
(* counted over the lines the command was tried on.  A line number or a count *)
(* may end the interval where it begins; an expression only later, unless the *)
(* first address is 0.                                                        *)
Closes(c, h, s, j) ==
    CASE c.a2.type = "line" -> h[j].line >= c.a2.n
      [] c.a2.type = "plus" -> h[j].line >= h[s].line + c.a2.n
      [] c.a2.type = "mult" -> h[j].line >= RoundUp(h[s].line, c.a2.n)
      [] c.a2.type = "last" -> h[j].last
      [] c.a2.type = "regex" -> (j > s \/ From0(c)) /\ Matches(c.a2.re, h[j].text)
Begins(c, h, j) ==
    IF From0(c) THEN j = 1
    ELSE CASE c.a1.type = "line" -> h[j].line = c.a1.n
           [] c.a1.type = "last" -> h[j].last
           [] c.a1.type = "step" -> h[j].line >= c.a1.n
                                    /\ \E k \in 0..h[j].line :
                                          h[j].line = c.a1.n + k * c.a1.step
           [] c.a1.type = "regex" -> Matches(c.a1.re, h[j].text)

Interval(c, h, s, j) ==      \* j is in the interval that begins at s
    s <= j /\ \A k \in s..(j - 1) : ~Closes(c, h, s, k)
Openings(c, h) ==
    LET open[j \in 0..Len(h)] ==
          IF j = 0 THEN {}
          ELSE IF Begins(c, h, j) /\ \A s \in open[j - 1] : ~Interval(c, h, s, j)
          THEN open[j - 1] \cup {j} ELSE open[j - 1]
    IN  open[Len(h)]
NamedRe(a) == a.type = "regex" => a.re.kind # "empty"
RangesAreIntervals ==
    phase = "end" =>
        \A i \in DOMAIN Script :
            LET c == Script[i]
                h == seen[i]
            IN  c.a2.type # None /\ NamedRe(c.a1) /\ NamedRe(c.a2) =>
                    \A j \in DOMAIN h :
                        h[j].hit <=> \E s \in Openings(c, h) : Interval(c, h, s, j)

(* What s/// does is what its matches say: taken from the left, none          *)
(* overlapping another and none empty at the end of another, those the flags  *)
(* name are replaced and everything else stays.                               *)
Occurrences(re, text) ==
    LET first(p) == {m \in MatchFrom(re, text, p) : TRUE}
        from[p \in 1..(Len(text) + 2), e \in 0..(Len(text) + 1)] ==
            IF p > Len(text) + 1 THEN <<>>
            ELSE LET ms == first(p)
                     m == CHOOSE x \in ms : TRUE
                 IN  IF ms = {} THEN <<>>
                     ELSE IF m[2] > m[1] THEN <<m>> \o from[m[2], m[2]]
                     ELSE IF m[1] = e THEN from[m[1] + 1, e]
                     ELSE <<m>> \o from[m[1] + 1, m[1]]
    IN  from[1, 0]
Replaced(c, re, text) ==
    LET ms == Occurrences(re, text)
        mine == {k \in DOMAIN ms : IF c.g THEN k >= c.nth ELSE k = c.nth}
        at(i) == {k \in mine : ms[k][1] = i}
        gone(i) == \E k \in mine : ms[k][1] <= i /\ i < ms[k][2]
        put(i) == IF at(i) = {} THEN <<>>
                  ELSE LET m == ms[CHOOSE k \in at(i) : TRUE]
                       IN  Replacement(c.repl, SubSeq(text, m[1], m[2] - 1))
    IN  FlattenSeq([i \in 1..(Len(text) + 1) |->
            put(i) \o IF i > Len(text) \/ gone(i) THEN <<>> ELSE <<text[i]>>])
SubstitutesMatches ==
    phase = "run" /\ st.pc <= Len(Script) /\ Cur.cmd = "s" /\ Cur.re.kind # "empty" =>
        Substitute(Cur, Cur.re, st.ps.text).text = Replaced(Cur, Cur.re, st.ps.text)

(* The operands are different files, and what -i writes besides them (the     *)
(* temporary file, the backups) is none of them: "sed -i s f f" and           *)
(* "sed -i.bak s f f.bak" edit twice or save over a file still to be edited.  *)
OperandsApart ==
    \A i, k \in DOMAIN Operands :
        /\ Operands[i] # "tmp"
        /\ i # k => Operands[i] # Operands[k]
        /\ job.opts.suffix =>
              /\ BackupOf(Operands[i]) \notin {"tmp", Operands[k]}
              /\ i # k => BackupOf(Operands[i]) # BackupOf(Operands[k])

(* A file edited in place is, at every moment, either what it was or all of   *)
(* what the script made of it, unless writing that fell short, and then its   *)
(* backup, if one is asked for, holds what it was; it is missing only between *)
(* the two renames and after a second one that failed, the backup being there.*)
(* No temporary file stays behind.                                            *)
InPlaceIsSafe ==
    InPlace =>
        /\ \A i \in DOMAIN Operands :
              LET f == Operands[i]
                  saved == disk[BackupOf(f)] = job.disk[f]
              IN \/ disk[f] = job.disk[f]
                 \/ /\ \E m \in st.edits : m.of = i /\ (m.short \/ disk[f] = m.file)
                    /\ disk[f].there
                    /\ job.opts.suffix => saved
                 \/ /\ job.opts.suffix /\ saved
                    /\ i = st.fi /\ phase \in {"replace", "panic"}
        /\ phase \in {"done", "panic"} => disk.tmp = Absent

(* A file just replaced holds everything the script wrote.                    *)
ReplacedInFull ==
    InPlace /\ phase = "open" /\ st.files # <<>> /\ job.disk[Name].there
    /\ Name = Operands[st.fi] => disk[Name] = OnDisk(st.out)

(* Queued text comes out before the next record is read: nothing is queued    *)
(* when a new cycle starts, and when sed stops.                               *)
NothingStaysQueued ==
    /\ phase \in {"end", "backup", "replace", "done"} => st.aq = <<>>
    /\ phase = "open" => st.aq = <<>>

(* sed keeps its records: each is read when it is needed and not before, comes*)
(* out apart from the next, and takes what was queued for it along.           *)
RecordsKept == RecordsStayApart /\ ReadsNoFurther /\ NothingStaysQueued

(* The text of an executed a command is never dropped.                        *)
NoTextDropped == phase = "run" => Len(st.aq) < MaxAppends

(* sed stops: every turn of a loop of the script, and every restart by D,     *)
(* uses up a match, a line of the pattern space or a record of the input.     *)
Stops == <>Stopped
=============================================================================
