--------------------------------- MODULE Grep ---------------------------------
(***************************************************************************)
(* The grep applet (core/grep.c) around its patterns: the operands and     *)
(* directories it walks, the stream it reads line by line with its ring    *)
(* of before-context, its limits and its ways of reporting, and the        *)
(* status, over several calls in one shell: grep is a builtin, and what it *)
(* keeps in a static outlives a call.                                      *)
(*                                                                         *)
(* A line is what the loop asks about it: does a pattern match (Regex),    *)
(* does it hold the character the prefilter looks for, has it a NUL.       *)
(***************************************************************************)
EXTENDS Integers, Sequences, FiniteSets, SequencesExt

CONSTANTS Calls,     \* what a call may be: [opts, operands]
          LaterCalls \* ... when it is not the first of its shell

VARIABLES call,       \* grep_opts_t, and the operands
          place,      \* the operand and the entry of it grep is at
          stream,     \* the locals of grep_stream, while it runs
          printed,    \* standard output, as events
          final, hadError,
          matchedAny, \* g_matched_any
          exit,       \* the status of the call, or Running
          nth         \* the number of the call in its shell

gVars == <<call, place, stream, printed, final, hadError, matchedAny, exit, nth>>

Running == -1
Closed == [open |-> FALSE]

---------------------------------------------------------------------------
(* An operand is a file, or a directory with its entries; every file has a *)
(* kind and lines.                                                         *)
o == call.opts
Operand == call.operands[place[1]]
File == Operand.files[place[2]]
Text == File.lines
Line == Text[stream.at]
Quietly == o.mode # "lines"

Event(what, n) == [what |-> what, at |-> place, n |-> n]
Says(events) == printed' = printed \o events

(* The start of a call: option parsing is left out.                        *)
Begin(c) ==
  /\ call' = c /\ place' = <<1, 1>> /\ stream' = Closed
  /\ printed' = <<>> /\ final' = 1 /\ hadError' = FALSE /\ exit' = Running

GInit ==
  /\ call \in Calls /\ place = <<1, 1>> /\ stream = Closed
  /\ printed = <<>> /\ final = 1 /\ hadError = FALSE /\ exit = Running
  /\ matchedAny = FALSE /\ nth = 1

(* The result of a file, accounted for by grep_dir or by the applet.       *)
NextPlace == IF place[2] < Len(Operand.files)
             THEN <<place[1], place[2] + 1>> ELSE <<place[1] + 1, 1>>
(* Broken: a later file's result replaces an earlier one's.                *)
AccountLast(r) ==
  /\ final' = r
  /\ hadError' = (hadError \/ (r = 2 /\ ~Operand.dir))
  /\ place' = NextPlace
Account(r) ==
  /\ final' = IF r = 0 THEN 0 ELSE final
  /\ hadError' = (hadError \/ (r = 2 /\ ~Operand.dir))
  /\ place' = NextPlace

(* grep_path up to the stream.                                             *)
Opens == File.kind \in {"regular", "stdin"} \/ (File.kind = "link" /\ ~Operand.dir)
Refuses == Operand.dir /\ ~o.r
AtFile == exit = Running /\ ~stream.open /\ place[1] <= Len(call.operands)

EmptyRing == [k \in 0 .. o.B - 1 |-> 0]
Fresh == [open |-> TRUE, at |-> 1, count |-> 0, binary |-> FALSE, inBinary |-> FALSE,
          result |-> 1, after |-> 0, last |-> 0,
          ring |-> EmptyRing, pos |-> 0, full |-> FALSE]
OpenFile ==
  /\ AtFile /\ ~Refuses /\ Operand.files # <<>> /\ Opens
  /\ stream' = Fresh
  /\ UNCHANGED <<call, place, printed, final, hadError, matchedAny, exit, nth>>
PassFile ==
  /\ AtFile /\ ~Refuses /\ Operand.files # <<>> /\ ~Opens
  /\ Account(IF File.kind = "unreadable" THEN 2 ELSE 1)
  /\ UNCHANGED <<call, stream, printed, matchedAny, exit, nth>>
PassDirectory ==
  /\ AtFile /\ (Refuses \/ Operand.files = <<>>)
  /\ place' = <<place[1] + 1, 1>>
  /\ hadError' = (hadError \/ Refuses)
  /\ UNCHANGED <<call, stream, printed, final, matchedAny, exit, nth>>

---------------------------------------------------------------------------
(* grep_stream.                                                            *)
(* Broken: the ring is never known to be full.                             *)
KeepPartly(s, n) ==
  IF o.B = 0 THEN s
  ELSE [s EXCEPT !.ring[s.pos] = n, !.pos = (s.pos + 1) % o.B]
Keep(s, n) ==
  IF o.B = 0 THEN s
  ELSE LET next == (s.pos + 1) % o.B
       IN [s EXCEPT !.ring[s.pos] = n, !.pos = next, !.full = @ \/ next = 0]
Before(s) ==
  LET n == IF s.full THEN o.B ELSE s.pos
      start == IF s.full THEN s.pos ELSE 0
      held == [k \in 1 .. n |-> s.ring[(start + k - 1) % o.B]]
  IN SelectSeq(held, LAMBDA l : l # 0 /\ l > s.last)

Reading == exit = Running /\ stream.open /\ stream.at <= Len(Text)
Past(s) == [s EXCEPT !.at = @ + 1]
Binary == stream.binary \/ Line.nul
Filtered == o.pre /\ ~Line.char
Selected == Line.hit # o.v
GoesOn(s) == stream' = Past(s) /\ UNCHANGED <<call, place, final, hadError, exit, nth>>

(* done: the result goes to grep_path, which lists the files of -L.        *)
Done(s, events) ==
  /\ Says(IF o.mode = "L" /\ s.result = 1 /\ File.kind # "stdin"
          THEN Append(events, Event("name", 0)) ELSE events)
  /\ stream' = Closed
  /\ Account(s.result)
  /\ UNCHANGED <<call, exit, nth>>

BinaryLine ==
  /\ Reading /\ Binary
  /\ GoesOn([stream EXCEPT !.binary = TRUE, !.inBinary = @ \/ Line.hit])
  /\ UNCHANGED <<printed, matchedAny>>

FilteredLine ==
  /\ Reading /\ ~Binary /\ Filtered
  /\ GoesOn(Keep(stream, stream.at))
  /\ UNCHANGED <<printed, matchedAny>>

AsContext == stream.after > 0 /\ ~Quietly
Unselected ==
  /\ Reading /\ ~Binary /\ ~Filtered /\ ~Selected
  /\ LET s == IF AsContext THEN [stream EXCEPT !.last = stream.at, !.after = @ - 1] ELSE stream
     IN GoesOn(Keep(s, stream.at))
  /\ Says(IF AsContext THEN <<Event("context", stream.at)>> ELSE <<>>)
  /\ UNCHANGED matchedAny

(* A selected line, by what is asked for.                                  *)
(* Broken: one line more than the limit counts.                            *)
OverLimitLate == o.m > 0 /\ stream.count > o.m
OverLimit == o.m > 0 /\ stream.count + 1 > o.m
Counted == [stream EXCEPT !.count = @ + 1, !.result = 0]
(* Broken: a gap of one line has no separator.                             *)
SeparatorLate == /\ o.A > 0 \/ o.B > 0
                 /\ stream.last > 0 /\ stream.last < stream.at - 2
Separator == /\ o.A > 0 \/ o.B > 0
             /\ stream.last > 0 /\ stream.last < stream.at - 1
Group ==
  (IF Separator THEN <<Event("separator", stream.at)>> ELSE <<>>)
  \o [k \in DOMAIN Before(stream) |-> Event("context", Before(stream)[k])]
  \o <<Event("line", stream.at)>>
Hit == Reading /\ ~Binary /\ ~Filtered /\ Selected

AtLimit ==
  /\ Hit /\ OverLimit
  /\ Done(stream, <<>>)
  /\ matchedAny' = TRUE
Stops ==
  /\ Hit /\ ~OverLimit /\ o.mode \in {"q", "l"}
  /\ Done(Counted, IF o.mode = "l" THEN <<Event("name", 0)>> ELSE <<>>)
  /\ matchedAny' = TRUE
Tallies ==
  /\ Hit /\ ~OverLimit /\ o.mode \in {"L", "c"}
  /\ GoesOn(IF o.mode = "c" THEN Keep(Counted, stream.at) ELSE Counted)
  /\ matchedAny' = TRUE /\ UNCHANGED printed
Prints ==
  /\ Hit /\ ~OverLimit /\ ~Quietly
  /\ Says(Group)
  /\ GoesOn(Keep([Counted EXCEPT !.last = stream.at, !.after = o.A,
                                 !.ring = EmptyRing, !.pos = 0, !.full = FALSE], stream.at))
  /\ matchedAny' = TRUE

(* The end of the file: what a binary one comes to, and the count.         *)
BinaryHit == stream.binary /\ (stream.inBinary # o.v)
Ending ==
  LET b == IF stream.binary THEN IF BinaryHit THEN 0 ELSE 1 ELSE stream.result
  IN [stream EXCEPT !.result = IF o.mode = "c" /\ stream.count > 0 THEN 0 ELSE b]
EndOfFile ==
  /\ exit = Running /\ stream.open /\ stream.at > Len(Text)
  /\ Done(Ending,
          (IF ~BinaryHit THEN <<>>
           ELSE IF o.mode = "l" THEN <<Event("name", 0)>>
           ELSE IF o.mode \in {"q", "c"} THEN <<>> ELSE <<Event("binary", 0)>>)
          \o (IF o.mode = "c" THEN <<Event("count", stream.count)>> ELSE <<>>))
  /\ matchedAny' = (matchedAny \/ BinaryHit)

(* The end of the applet, and another call in the same shell.              *)
Status == IF o.mode = "q" /\ matchedAny THEN 0 ELSE IF hadError THEN 2 ELSE final
Return ==
  /\ exit = Running /\ ~stream.open /\ place[1] > Len(call.operands)
  /\ exit' = Status
  /\ UNCHANGED <<call, place, stream, printed, final, hadError, matchedAny, nth>>
Again ==
  /\ exit # Running /\ nth = 1
  /\ \E c \in LaterCalls : Begin(c)
  /\ nth' = 2 /\ UNCHANGED matchedAny

GNext ==
  \/ OpenFile \/ PassFile \/ PassDirectory
  \/ BinaryLine \/ FilteredLine \/ Unselected
  \/ AtLimit \/ Stops \/ Tallies \/ Prints
  \/ EndOfFile \/ Return \/ Again

---------------------------------------------------------------------------
(* What a call should do, from its operands alone.                         *)
Places == {p \in (1 .. Len(call.operands)) \X (1 .. 4) :
             p[2] <= Len(call.operands[p[1]].files)}
FileAt(p) == call.operands[p[1]].files[p[2]]
Searched(p) ==
  LET d == call.operands[p[1]].dir
  IN /\ d => o.r
     /\ FileAt(p).kind \in {"regular", "stdin"} \/ (FileAt(p).kind = "link" /\ ~d)
HasNul(p) == \E i \in DOMAIN FileAt(p).lines : FileAt(p).lines[i].nul
Wanted(p) == {i \in DOMAIN FileAt(p).lines : FileAt(p).lines[i].hit # o.v}

(* The lines that -m leaves, and where it stops.                           *)
Rank(p, i) == Cardinality({j \in Wanted(p) : j <= i})
Within(p) == {i \in Wanted(p) : o.m = 0 \/ Rank(p, i) <= o.m}
Reach(p) == {i \in DOMAIN FileAt(p).lines : \A j \in Wanted(p) \ Within(p) : i < j}
ContextOf(p) == {i \in Reach(p) \ Wanted(p) :
                   \E s \in Within(p) : s - o.B <= i /\ i <= s + o.A}
Near(p) == Within(p) \cup ContextOf(p)

Printed(p, whats) == SelectSeq(printed, LAMBDA e : e.at = p /\ e.what \in whats)
ContextComes == ~(o.pre /\ o.A > 0)
Over == exit # Running

(* The lines shown are the selected ones as far as -m goes and those       *)
(* within the distances asked for around them, each once and in order, and *)
(* whatever ring, counter and limit they came by, a gap between them has   *)
(* its separator.  (The prefilter and -A, and -B and separators: below.)   *)
ShownExactly(p) ==
  LET shown == Printed(p, {"line", "context"})
      marked == Printed(p, {"line", "context", "separator"})
  IN /\ [k \in DOMAIN shown |-> shown[k].n] = SetToSortSeq(Near(p), <)
     /\ \A k \in DOMAIN shown : (shown[k].what = "line") <=> (shown[k].n \in Wanted(p))
     /\ o.A + o.B > 0 => \A k \in 2 .. Len(marked) :
          marked[k].what # "separator" /\ marked[k - 1].what # "separator"
            => marked[k].n = marked[k - 1].n + 1
ContextIsExact ==
  Over /\ o.mode = "lines" /\ ContextComes =>
    \A p \in Places : IF Searched(p) /\ ~HasNul(p) THEN ShownExactly(p) ELSE TRUE

(* -l and -L part the files between them, and -c tells how many lines are  *)
(* selected.  (A limit that is exceeded, standard input, NULs: below.)     *)
SummaryIsExact ==
  Over => \A p \in {p \in Places : Searched(p) /\ ~HasNul(p)} :
    /\ o.mode = "l" => (Len(Printed(p, {"name"})) = IF Wanted(p) # {} THEN 1 ELSE 0)
    /\ o.mode = "L" /\ FileAt(p).kind # "stdin" =>
         (Len(Printed(p, {"name"})) = IF Wanted(p) = {} THEN 1 ELSE 0)
    /\ o.mode = "c" /\ Wanted(p) = Within(p) =>
         LET counts == Printed(p, {"count"})
         IN Len(counts) = 1 /\ counts[1].n = Cardinality(Wanted(p))

(* The status of a call tells an error of an operand, else whether a line  *)
(* was selected; -q tells the latter first.  (Errors below a directory,    *)
(* NULs, and -q in a later call: below.)                                   *)
OperandFails(op) == (op.dir /\ ~o.r) \/ (~op.dir /\ op.files[1].kind = "unreadable")
SelectedAny == \E p \in Places : Searched(p) /\ Wanted(p) # {}
Failed == \E j \in DOMAIN call.operands : OperandFails(call.operands[j])
StatusTellsTheMatch ==
  Over /\ (o.mode = "q" => nth = 1) /\ (\A p \in Places : ~HasNul(p)) =>
    exit = IF o.mode = "q" /\ SelectedAny THEN 0
           ELSE IF Failed THEN 2
           ELSE IF SelectedAny THEN 0 ELSE 1

---------------------------------------------------------------------------
(* What the code does not do.                                              *)

(* The prefilter is for lines that cannot match (comment in grep_stream):  *)
(* the lines around a match are shown all the same.                        *)
PrefilterChangesNothing ==
  Over /\ o.mode = "lines" =>
    \A p \in Places : IF Searched(p) /\ ~HasNul(p) THEN ShownExactly(p) ELSE TRUE

(* "--" comes "between context groups" (comment in grep_stream).           *)
SeparatorsAreGaps ==
  Over /\ o.mode = "lines" => \A p \in Places :
    LET marked == Printed(p, {"line", "context", "separator"})
    IN \A k \in 2 .. Len(marked) - 1 :
         marked[k].what = "separator" => marked[k + 1].n > marked[k - 1].n + 1

(* "-q reports only whether something matched" (comment in applet_grep).   *)
QuietTellsTheTruth ==
  Over /\ o.mode = "q" /\ ~SelectedAny => exit # 0

(* -c prints a count for every file.                                       *)
AlwaysCounts ==
  Over /\ o.mode = "c" =>
    \A p \in Places : Searched(p) => Printed(p, {"count"}) # <<>>

(* "any error is exit 2, even with matches" (comment in applet_grep).      *)
ErrorsAreTold ==
  Over /\ o.mode # "q" /\ o.r =>
    ((\E p \in Places : FileAt(p).kind = "unreadable") => exit = 2)

(* A line that was printed makes the status 0, whatever comes after it.    *)
PrintedIsTold ==
  Over /\ o.mode = "lines" /\ ~hadError =>
    ((\E k \in DOMAIN printed : printed[k].what = "line") => exit = 0)
=============================================================================
