----------------------------- MODULE ControlFlow -----------------------------
(***************************************************************************)
(* exec_node: how a script's commands follow one another.  Lists, tests,   *)
(* loops, functions, eval and `.`, subshells, pipelines and command        *)
(* substitutions, `break`, `return`, `exit`, `set -e`, the EXIT trap, and  *)
(* the trap action a signal runs between any two steps.                    *)
(*                                                                         *)
(* There is no script.  eval lets a script go on as it likes, so the next  *)
(* node is chosen when the shell gets to it, from `vocab`, the kinds of    *)
(* node this script contains.  `stack` is the C call stack seen from       *)
(* exec_node, innermost frame first.  `at` says what happens next: "run",  *)
(* the frame on top takes its next node; "ret", a node has returned rc to  *)
(* it; "over", the shell has ended with status rc.  A fork follows the     *)
(* child; its frame holds the context the parent waits with.               *)
(***************************************************************************)
EXTENDS Naturals, Sequences, FiniteSets

CONSTANTS
  Vocabularies,  \* which kinds of node a script may contain, one set a script
  Operands,      \* operands of exit and return
  MaxLevel,      \* bound: the operand of break and continue
  MaxCallDepth,  \* SHELL_MAX_CALL_DEPTH
  Pipefail,      \* set -o pipefail
  NonLexical,    \* set -o nonlexicalctrl
  MaxSignals,    \* bound: trapped signals delivered
  MaxDepth       \* bound: frames on the stack

ASSUME ControlFlowAssumption ==
  /\ Operands \subseteq 0 .. 255
  /\ {MaxLevel, MaxCallDepth, MaxSignals, MaxDepth} \subseteq Nat
  /\ {NonLexical, Pipefail} \subseteq BOOLEAN

VARIABLES
  vocab,    \* the kinds of node this script contains
  ctx,      \* the fields of shell_ctx_t that control flow reads and writes
  stack,    \* what exec_node is in the middle of
  at, rc,   \* what happens next, and with which result
  signals,  \* signals delivered so far
  ignored,  \* ghost: the failure rc reports is of a command that is tested
  goal      \* ghost: the height of the stack below the loop being left

vars == <<vocab, ctx, stack, at, rc, signals, ignored, goal>>

BREAK == 1000  CONTINUE == 1001  RETURN == 1002   \* the FLOW_ sentinels
Flow(r) == r >= BREAK
Byte(r) == IF r \in 0 .. 255 THEN r ELSE 0

Default == "default"  Armed == "armed"  Inherited == "inherited"

Start == [last |-> 0, inCond |-> FALSE, exempt |-> FALSE, errexit |-> FALSE,
          loops |-> 0, level |-> 0, calls |-> 0, command |-> FALSE,
          inTrap |-> 0, entry |-> 0, fired |-> FALSE, parseError |-> FALSE,
          exitTrap |-> Default, usrTrap |-> Default]


Init ==
  /\ vocab \in Vocabularies
  /\ ctx = Start
  /\ stack = <<[k |-> "text", for |-> "script", command |-> FALSE]>>
  /\ at = "run" /\ rc = 0 /\ signals = 0
  /\ ignored = FALSE /\ goal = 0

Top == Head(stack)
Push(f) == stack' = <<f>> \o stack
Pop     == stack' = Tail(stack)
Swap(f) == stack' = <<f>> \o Tail(stack)

(* `command` runs a builtin; a for loop takes its next word first.         *)
Builtins == {"cmd", "break", "continue", "return", "exit", "trap", "set",
             "fatal", "eval", "dot"}
Has(k) == /\ at = "run" /\ k \in vocab
          /\ Top.k = "for" => Top.phase = "body"
          /\ Top.k = "command" => k \in Builtins
Pushes(k) == Has(k) /\ Len(stack) < MaxDepth

IsLoop(f) == f.k \in {"while", "until", "for"}

(* What POSIX ignores -e for: whatever runs as a condition, under `!`, or  *)
(* left of && and ||.                                                      *)
TestedBy(s) == \E i \in 1 .. Len(s) :
                  \/ s[i].k \in {"and", "or", "not", "if"}
                  \/ IsLoop(s[i]) /\ s[i].phase = "cond"

-----------------------------------------------------------------------------
(* Ways on.                                                                *)

(* exec_node returns r: $? is r, unless r is a sentinel.                   *)
Published(c, r) == IF Flow(r) THEN c ELSE [c EXCEPT !.last = r]
Result(c, r) == at' = "ret" /\ rc' = r /\ ctx' = Published(c, r)

(* A command in its own right returns r: its failure is a new one.         *)
Fresh(r) == ignored' = (r # 0 /\ TestedBy(stack'))
Completes(c, r) ==
  /\ Result(c, r) /\ UNCHANGED stack /\ Fresh(r)
  /\ UNCHANGED <<vocab, signals, goal>>

Runs(c) == at' = "run" /\ rc' = 0 /\ ctx' = c

Static == UNCHANGED <<vocab, signals, ignored, goal>>

-----------------------------------------------------------------------------
(* A process ends.  Its EXIT trap runs first, if this process armed it.    *)

Boundary == {"sub", "stage", "subst"}
Boundaries == {i \in 1 .. Len(stack) : stack[i].k \in Boundary}
Innermost == CHOOSE i \in Boundaries : \A j \in Boundaries : i <= j

(* _exit(code), and waitpid in the parent.  The last stage of a pipeline   *)
(* still has to run there.                                                 *)
Gone(code) ==
  IF Boundaries = {}
  THEN /\ at' = "over" /\ rc' = code
       /\ UNCHANGED <<ctx, stack>> /\ ignored' = FALSE
  ELSE LET f    == stack[Innermost]
           rest == SubSeq(stack, Innermost + 1, Len(stack)) IN
       IF f.k = "stage"
       THEN /\ stack' = <<[k |-> "last", status |-> code]>> \o rest
            /\ Runs(f.parent) /\ ignored' = FALSE
       ELSE stack' = rest /\ Result(f.parent, code) /\ Fresh(code)

RunString(c) == [c EXCEPT !.command = FALSE, !.parseError = FALSE]

(* The EXIT action, after which the process ends with `code` if `keep`,    *)
(* else with the status of the action.                                     *)
ExitAction(c, code, keep) ==
  /\ Push([k |-> "text", for |-> "exit", command |-> c.command,
           code |-> code, keep |-> keep])
  /\ Runs(RunString([c EXCEPT !.exitTrap = Default, !.last = code,
                              !.inTrap = @ + 1, !.entry = code]))
  /\ UNCHANGED ignored

(* Mutant of ExitWithTrap: exit(code) wherever the shell stands.           *)
ExitWithoutTrap(c, code) == Gone(code)

ExitWithTrap(c, code) ==
  IF c.exitTrap = Armed THEN ExitAction(c, code, TRUE) ELSE Gone(code)

(* The end of a script, a subshell or a command substitution.              *)
EndsNormally(c, code) ==
  IF c.exitTrap = Armed THEN ExitAction(c, code, FALSE) ELSE Gone(code)

(* The status with which a forked child ends: return is exit.              *)
Normalised(r) == IF r = RETURN THEN ctx.last ELSE IF Flow(r) THEN 0 ELSE r

Child(c) ==
  [c EXCEPT !.inTrap = 0, !.loops = 0, !.level = 0,
            !.exitTrap = IF @ = Armed THEN Inherited ELSE @,
            !.usrTrap  = IF @ = Armed THEN Inherited ELSE @]

SubstChild(c) ==
  [Start EXCEPT !.last = c.last, !.errexit = c.errexit,
                !.exitTrap = Child(c).exitTrap, !.usrTrap = Child(c).usrTrap]

-----------------------------------------------------------------------------
(* Simple commands.                                                        *)

Command == Has("cmd") /\ \E r \in {0, 1} : Completes(ctx, r)

SetErrexit ==
  /\ Has("set")
  /\ \E b \in BOOLEAN : Completes([ctx EXCEPT !.errexit = b], 0)

(* A modification wipes the entries kept for display.                      *)
Wiped(t) == IF t = Inherited THEN Default ELSE t
Trap ==
  /\ Has("trap") /\ Len(stack) < MaxDepth
  /\ \E t \in {Armed, Default} :
        LET c == [ctx EXCEPT !.exitTrap = Wiped(@), !.usrTrap = Wiped(@)] IN
        \/ Completes([c EXCEPT !.exitTrap = t], 0)
        \/ MaxSignals > 0 /\ Completes([c EXCEPT !.usrTrap = t], 0)

Operand == Operands \cup {ctx.last}

Return ==
  /\ Has("return")
  /\ \E code \in Operand :
        /\ at' = "ret" /\ rc' = RETURN
        /\ ctx' = [ctx EXCEPT !.last = code]
  /\ UNCHANGED stack /\ Static

(* The `exit` whose operand is missing, in a trap action and out of one.   *)
NakedExitCode == IF ctx.inTrap > 0 THEN ctx.entry ELSE ctx.last

Exit ==
  /\ Has("exit")
  /\ \E code \in Operands \cup {NakedExitCode} : ExitWithTrap(ctx, code)
  /\ UNCHANGED <<vocab, signals, goal>>

(* A usage error (2) or a failed redirection (1) of a special builtin; a   *)
(* file `.` cannot open, which spares neither `command` nor a trap.        *)
Fatal ==
  /\ Has("fatal")
  /\ \E code \in {1, 2} :
        IF ctx.command \/ ctx.inTrap > 0
        THEN Result(ctx, 1) /\ UNCHANGED stack /\ Fresh(1)
        ELSE ExitWithTrap(ctx, code)
  /\ UNCHANGED <<vocab, signals, goal>>

DotMissing ==
  /\ Has("dot") /\ ExitWithTrap([ctx EXCEPT !.last = 1], 1)
  /\ UNCHANGED <<vocab, signals, goal>>

(* The frame n loops out, as the script reads: a function and a forked     *)
(* process hide the loops around them.                                     *)
Hides(f) == f.k \in Boundary \/ (f.k = "call" /\ ~NonLexical)
LoopsIn(s) == {i \in 1 .. Len(s) : /\ IsLoop(s[i])
                                   /\ \A j \in 1 .. i : ~Hides(s[j])}
Goal(n) == LET ls == LoopsIn(stack)
               nth(m) == CHOOSE i \in ls : Cardinality({j \in ls : j <= i}) = m
               m == IF n < Cardinality(ls) THEN n ELSE Cardinality(ls)
           IN IF ls = {} THEN 0 ELSE Len(stack) - nth(m) + 1

(* Mutant of BreakLevel: the operand counts the loops to pass.             *)
BreakLevelN(n) == n
BreakLevel(n) == n - 1

Break(kind, flow) ==
  /\ Has(kind)
  /\ IF ctx.loops = 0 THEN Completes(ctx, 0)
     ELSE /\ \E n \in 1 .. MaxLevel :
               /\ ctx' = [ctx EXCEPT !.level = BreakLevel(n)]
               /\ goal' = Goal(n)
          /\ at' = "ret" /\ rc' = flow
          /\ UNCHANGED <<vocab, stack, signals, ignored>>

-----------------------------------------------------------------------------
(* The nodes that run other nodes, on the way in.                          *)

Testing(kind) ==
  /\ Pushes(kind)
  /\ Push([k |-> kind, inCond |-> ctx.inCond])
  /\ Runs([ctx EXCEPT !.inCond = TRUE]) /\ Static

Sequence == Pushes("seq") /\ Push([k |-> "seq"]) /\ Runs(ctx) /\ Static

(* A while or until starts with its condition, a for with its first word.  *)
Loop(kind) ==
  /\ Pushes(kind)
  /\ Push([k |-> kind, phase |-> IF kind = "for" THEN "head" ELSE "cond",
           inCond |-> ctx.inCond, rc |-> 0, ign |-> FALSE])
  /\ Runs([ctx EXCEPT !.loops = @ + 1, !.inCond = @ \/ kind # "for"])
  /\ Static

Subshell ==
  /\ Pushes("sub")
  /\ Push([k |-> "sub", parent |-> ctx]) /\ Runs(Child(ctx)) /\ Static

Pipeline ==
  /\ Pushes("pipe")
  /\ Push([k |-> "stage", parent |-> ctx]) /\ Runs(Child(ctx)) /\ Static

Substitution ==
  /\ Pushes("subst") /\ Len(stack) + 1 < MaxDepth
  /\ stack' = <<[k |-> "text", for |-> "subst", command |-> FALSE],
                [k |-> "subst", parent |-> ctx]>> \o stack
  /\ Runs(SubstChild(ctx)) /\ Static

CallFunction ==
  /\ Has("call")
  /\ IF ctx.calls >= MaxCallDepth THEN Completes(ctx, 1)
     ELSE /\ Len(stack) < MaxDepth
          /\ Push([k |-> "call", loops |-> ctx.loops, level |-> ctx.level])
          /\ Runs([ctx EXCEPT !.calls = @ + 1,
                     !.loops = IF NonLexical THEN @ ELSE 0,
                     !.level = IF NonLexical THEN @ ELSE 0])
          /\ Static

CommandPrefix ==
  /\ Pushes("command") /\ Top.k # "command"
  /\ Push([k |-> "command", command |-> ctx.command])
  /\ Runs([ctx EXCEPT !.command = TRUE]) /\ Static

Eval ==
  /\ Pushes("eval")
  /\ Push([k |-> "text", for |-> "eval", command |-> ctx.command])
  /\ Runs(RunString(ctx)) /\ Static

Dot ==
  /\ Pushes("dot")
  /\ Push([k |-> "text", for |-> "dot", command |-> ctx.command])
  /\ Runs([ctx EXCEPT !.command = FALSE]) /\ Static

-----------------------------------------------------------------------------
(* The nodes that run other nodes, when one of these has returned.         *)

Returned(k) == at = "ret" /\ Top.k = k

(* Whether -e ends the script here; the look consumes and_or_exempt.       *)
(* Mutants: and_or_exempt is not asked; it outlives the look.              *)
StopsAnyway(c, r) == c.errexit /\ r # 0 /\ ~c.inCond
LookedNot(c)      == c

Stops(c, r) == c.errexit /\ r # 0 /\ ~c.inCond /\ ~c.exempt
Looked(c)   == [c EXCEPT !.exempt = FALSE]

(* A result that is also the result of the node around it.                 *)
Passes(c) == Result(c, rc) /\ Pop /\ Static

AfterAndOr ==
  /\ at = "ret" /\ Top.k \in {"and", "or"}
  /\ LET c == [ctx EXCEPT !.inCond = Top.inCond] IN
     IF Flow(rc) THEN Passes(c)
     ELSE /\ Pop /\ UNCHANGED <<vocab, signals, goal>>
          /\ IF (rc = 0) = (Top.k = "and")
             THEN Runs([c EXCEPT !.exempt = FALSE]) /\ UNCHANGED ignored
             ELSE /\ Result([c EXCEPT !.exempt = Top.k = "and"], rc)
                  /\ ignored' = (rc # 0)

AfterNot ==
  /\ Returned("not")
  /\ LET c == [ctx EXCEPT !.inCond = Top.inCond] IN
     IF Flow(rc) THEN Passes(c)
     ELSE /\ Result([c EXCEPT !.exempt = TRUE], IF rc = 0 THEN 1 ELSE 0)
          /\ Pop /\ ignored' = (rc = 0) /\ UNCHANGED <<vocab, signals, goal>>

AfterLeft ==
  /\ Returned("seq") /\ Pop
  /\ IF Flow(rc) THEN Result(ctx, rc)
     ELSE LET c == Looked(Published(ctx, rc)) IN
          IF Stops(ctx, rc) THEN Result(c, rc) ELSE Runs(c)
  /\ Static

(* A branch that is not there has status 0.                                *)
AfterIf ==
  /\ Returned("if") /\ Pop
  /\ LET c == [ctx EXCEPT !.inCond = Top.inCond] IN
     \/ Flow(rc) /\ Result(c, rc) /\ UNCHANGED ignored
     \/ ~Flow(rc) /\ Runs(c) /\ UNCHANGED ignored
     \/ ~Flow(rc) /\ rc # 0 /\ Result(c, 0) /\ ignored' = FALSE
  /\ UNCHANGED <<vocab, signals, goal>>

(* The loop is left with r, or goes on with its next turn.                 *)
LeaveWith(c, r, i) ==
  /\ Pop /\ Result([c EXCEPT !.loops = @ - 1], r) /\ ignored' = i
Leave(c, r) == LeaveWith(c, r, FALSE)

Turn(c, r, i) ==
  /\ Swap([Top EXCEPT !.phase = IF Top.k = "for" THEN "head" ELSE "cond",
                      !.rc = r, !.ign = i, !.inCond = c.inCond])
  /\ Runs([c EXCEPT !.inCond = @ \/ Top.k # "for"])
  /\ UNCHANGED ignored

(* break and continue; `r` is what the loop returns if that turn is its    *)
(* last.                                                                   *)
LoopFlow(c, r) ==
  IF rc = RETURN THEN Leave(c, rc)
  ELSE IF c.level > 0 /\ c.loops > 1
       THEN Leave([c EXCEPT !.level = @ - 1], rc)
       ELSE IF rc = BREAK THEN Leave([c EXCEPT !.level = 0], 0)
       ELSE Turn([c EXCEPT !.level = 0], r, FALSE)

AfterCondition ==
  /\ at = "ret" /\ Top.k \in {"while", "until"} /\ Top.phase = "cond"
  /\ LET c == [ctx EXCEPT !.inCond = Top.inCond] IN
     IF Flow(rc) THEN LoopFlow(c, Top.rc)
     ELSE IF (rc = 0) = (Top.k = "while")
          THEN /\ Swap([Top EXCEPT !.phase = "body"])
               /\ Runs(c) /\ UNCHANGED ignored
          ELSE LeaveWith(c, Top.rc, Top.ign)
  /\ UNCHANGED <<vocab, signals, goal>>

AfterBody ==
  /\ at = "ret" /\ IsLoop(Top) /\ Top.phase = "body"
  /\ IF Flow(rc) THEN LoopFlow(ctx, 0)
     ELSE IF Stops(ctx, rc) THEN LeaveWith(Looked(ctx), rc, ignored)
          ELSE Turn(Looked(ctx), rc, ignored)
  /\ UNCHANGED <<vocab, signals, goal>>

(* The next word, no more words, a loop variable that is readonly.         *)
NextWord ==
  /\ at = "run" /\ Top.k = "for" /\ Top.phase = "head"
  /\ \/ /\ Swap([Top EXCEPT !.phase = "body"])
        /\ Runs(ctx) /\ UNCHANGED ignored
     \/ LeaveWith(ctx, Top.rc, Top.ign)
     \/ LeaveWith(ctx, 1, TestedBy(Tail(stack)))
  /\ UNCHANGED <<vocab, signals, goal>>

AfterSubshell ==
  /\ Returned("sub")
  /\ LET r == Normalised(rc) IN EndsNormally([ctx EXCEPT !.last = r], r)
  /\ UNCHANGED <<vocab, signals, goal>>

(* A forked stage ends where its node does.                                *)
AfterStage ==
  /\ Returned("stage") /\ Gone(Normalised(rc))
  /\ UNCHANGED <<vocab, signals, goal>>

AfterLast ==
  /\ Returned("last") /\ Pop
  /\ IF ~Flow(rc) /\ Pipefail /\ Top.status # 0
     THEN Result(ctx, Top.status) /\ Fresh(Top.status)
     ELSE Result(ctx, rc) /\ UNCHANGED ignored
  /\ UNCHANGED <<vocab, signals, goal>>

(* Mutant of Outside: the caller's loops are forgotten.                    *)
OutsideLoops(f, c) == [c EXCEPT !.calls = @ - 1]
Outside(f, c) == [c EXCEPT !.calls = @ - 1,
                    !.loops = IF NonLexical THEN @ ELSE f.loops,
                    !.level = IF NonLexical THEN @ ELSE f.level]

AfterCall ==
  /\ Returned("call") /\ Pop
  /\ LET c == Outside(Top, ctx) IN
     IF rc = RETURN THEN Result(c, ctx.last) /\ Fresh(ctx.last)
     ELSE /\ Result(c, IF Flow(rc) /\ ~NonLexical THEN 0 ELSE rc)
          /\ UNCHANGED ignored
  /\ UNCHANGED <<vocab, signals, goal>>

AfterCommandPrefix ==
  /\ Returned("command") /\ Passes([ctx EXCEPT !.command = Top.command])

-----------------------------------------------------------------------------
(* Text: the script, what eval, `.` and $(...) run, trap actions.          *)

Builtin(c, r) ==
  /\ Pop /\ Result(c, r)
  /\ IF Flow(r) THEN UNCHANGED ignored ELSE Fresh(r)

EvalReturns(c, r) ==
  IF c.parseError /\ ~c.command /\ c.inTrap = 0
  THEN ExitWithTrap([c EXCEPT !.parseError = FALSE], 2)
  ELSE Builtin([c EXCEPT !.parseError = FALSE], r)

(* Mutant of ActionReturns: $? is that of the trap action.                 *)
ActionReturnsLast(c, r) ==
  IF c.fired THEN Gone(IF r % 256 = 0 THEN 1 ELSE r % 256)
  ELSE /\ Pop /\ at' = Top.at /\ rc' = Top.rc /\ ignored' = Top.ign
       /\ ctx' = c

(* A failure under -e ends the shell where it stands.                      *)
ActionReturns(c, r) ==
  IF c.fired THEN Gone(IF r % 256 = 0 THEN 1 ELSE r % 256)
  ELSE /\ Pop /\ at' = Top.at /\ rc' = Top.rc /\ ignored' = Top.ign
       /\ ctx' = [c EXCEPT !.last = Top.last]

TextReturns(c0, r) ==
  LET c == [c0 EXCEPT !.command = Top.command]
      out == [c EXCEPT !.inTrap = @ - 1] IN
  CASE Top.for = "script" -> EndsNormally(c, r)
    [] Top.for = "subst"  -> EndsNormally(c, c.last)
    [] Top.for = "eval"   -> EvalReturns(c, r)
    [] Top.for = "dot"    -> Builtin(c, IF r \in {BREAK, CONTINUE} THEN 0 ELSE r)
    [] Top.for = "signal" -> ActionReturns(out, r)
    [] Top.for = "exit"   -> Gone(IF Top.keep THEN Top.code ELSE Byte(r))

(* What was being left when a trap action began is being left again.      *)
GoalAfter == IF Top.for = "signal" /\ Len(stack') < Len(stack)
             THEN Top.goal ELSE goal

(* The look at -e after each parse unit.                                   *)
UnitReturns(r) ==
  LET c == [Looked(ctx) EXCEPT !.last = r] IN
  IF Stops(ctx, r) THEN TextReturns([c EXCEPT !.fired = TRUE], r)
  ELSE Runs(c) /\ UNCHANGED <<stack, ignored>>

AfterUnit ==
  /\ Returned("text")
  /\ IF ~Flow(rc) THEN UnitReturns(rc)
     ELSE IF rc = RETURN /\ Top.for \in {"script", "dot"}
     THEN TextReturns(ctx, ctx.last)
     ELSE IF Top.for = "script" THEN UnitReturns(ctx.last)
     ELSE TextReturns(ctx, rc)
  /\ goal' = GoalAfter /\ UNCHANGED <<vocab, signals>>

EndOfText ==
  /\ at = "run" /\ Top.k = "text" /\ TextReturns(ctx, ctx.last)
  /\ goal' = GoalAfter /\ UNCHANGED <<vocab, signals>>

ParseError ==
  /\ at = "run" /\ Top.k = "text" /\ "parse" \in vocab
  /\ TextReturns([ctx EXCEPT !.last = 2, !.parseError = @ \/ Top.for # "dot"], 2)
  /\ goal' = GoalAfter /\ UNCHANGED <<vocab, signals>>

(* shell_signal_handler, wherever the shell is; its signal is blocked      *)
(* while it runs.                                                          *)
Signal ==
  /\ at \in {"run", "ret"} /\ signals < MaxSignals /\ ctx.usrTrap = Armed
  /\ \A i \in 1 .. Len(stack) : stack[i].k = "text" => stack[i].for # "signal"
  /\ signals' = signals + 1
  /\ Push([k |-> "text", for |-> "signal", command |-> ctx.command,
           last |-> ctx.last, at |-> at, rc |-> rc, ign |-> ignored,
           goal |-> goal, was |-> ctx])
  /\ Runs(RunString([ctx EXCEPT !.inTrap = @ + 1, !.entry = ctx.last,
                                !.fired = FALSE]))
  /\ UNCHANGED <<vocab, ignored, goal>>

-----------------------------------------------------------------------------
Ended == at = "over" /\ UNCHANGED vars

Enter ==
  \/ Command \/ SetErrexit \/ Trap \/ Return \/ Exit \/ Fatal \/ DotMissing
  \/ Break("break", BREAK) \/ Break("continue", CONTINUE)
  \/ \E kind \in {"and", "or", "not", "if"} : Testing(kind)
  \/ \E kind \in {"while", "until", "for"} : Loop(kind)
  \/ Sequence \/ Subshell \/ Pipeline \/ Substitution
  \/ CallFunction \/ CommandPrefix \/ Eval \/ Dot

After ==
  \/ AfterAndOr \/ AfterNot \/ AfterLeft \/ AfterIf
  \/ AfterCondition \/ AfterBody \/ NextWord
  \/ AfterSubshell \/ AfterStage \/ AfterLast
  \/ AfterCall \/ AfterCommandPrefix
  \/ AfterUnit \/ EndOfText \/ ParseError

Next == Enter \/ After \/ Signal \/ Ended

Spec == Init /\ [][Next]_vars

-----------------------------------------------------------------------------
(* Properties.                                                             *)

Above(P(_)) == LET stops == {i \in 1 .. Len(stack) : P(stack[i])} IN
               IF stops = {} THEN stack
               ELSE SubSeq(stack, 1, (CHOOSE i \in stops :
                                        \A j \in stops : i <= j) - 1)
Count(s, P(_)) == Cardinality({i \in 1 .. Len(s) : P(s[i])})

(* The counters the context carries across calls, loops, forks and trap    *)
(* actions say what the shell is in the middle of: loop_depth counts the   *)
(* loops of this function and process, call_depth and in_trap the calls    *)
(* and the trap actions, and in_cond holds exactly inside a condition.     *)
ContextMatchesNesting ==
  at # "over" =>
    LET forked(f) == f.k \in Boundary
        fresh(f)  == f.k = "subst"
        scoped(f) == forked(f) \/ (f.k = "call" /\ ~NonLexical)
        called(f) == f.k = "call"
        action(f) == f.k = "text" /\ f.for \in {"signal", "exit"}
    IN /\ ctx.loops = Count(Above(scoped), IsLoop)
       /\ ctx.calls = Count(Above(fresh), called)
       /\ ctx.inTrap = Count(Above(forked), action)
       /\ ctx.inCond = TestedBy(Above(fresh))

(* break n and continue n, however they travel through lists, functions,   *)
(* eval and sourced files, take effect at the n-th loop around them (the   *)
(* outermost, if there are fewer) and at no other.                         *)
BreaksLeaveTheirLoop ==
  [][(at = "ret" /\ rc \in {BREAK, CONTINUE} /\ IsLoop(Top)
        /\ Len(stack') <= Len(stack))
     => ((at' = "run" \/ rc' = 0) <=> Len(stack) = goal)]_vars

(* The counters of the context are those of the constructs around the      *)
(* command, and what goes by them ends at the construct it names.          *)
CountersFollowNesting == []ContextMatchesNesting /\ BreaksLeaveTheirLoop

(* Where -e looks: between the commands of a list, after a loop's body,    *)
(* after each unit of a text.                                              *)
Looks == /\ at = "ret" /\ ~Flow(rc) /\ Len(stack') <= Len(stack)
         /\ \/ Top.k \in {"seq", "text"}
            \/ IsLoop(Top) /\ Top.phase = "body"
Goes == at' = "run" /\ stack' # <<>> /\ Len(stack') >= Len(stack) - 1

(* Under -e a failure that nothing tests ends the list it is in.           *)
ErrexitStops ==
  [][(Looks /\ Goes /\ ctx.errexit /\ rc # 0) => ignored]_vars

(* Under -e a failure that something tests, wherever its status travels,   *)
(* ends nothing.                                                           *)
ErrexitSpares ==
  [][(Looks /\ rc # 0 /\ ignored) => Goes]_vars

(* -e acts on the failures that nothing tests, and on no other.            *)
ErrexitIsExact == ErrexitStops /\ ErrexitSpares

(* A process that ends has run the EXIT trap it armed, once.  (What the    *)
(* action itself arms is not run.)                                         *)
InExitAction == LET forked(f) == f.k \in Boundary IN
  Count(Above(forked), LAMBDA f : f.k = "text" /\ f.for = "exit") > 0
ProcessEnds == /\ at # "over"
               /\ \/ at' = "over"
                  \/ Count(stack', LAMBDA f : f.k \in Boundary) < Cardinality(Boundaries)
ExitTrapRuns == [][ProcessEnds => ctx.exitTrap # Armed \/ InExitAction]_vars

(* A trap action leaves $? and every counter of what it interrupted as it  *)
(* found them, and the shell goes on where it was.                         *)
SignalsAreTransparent ==
  [][(at # "over" /\ Top.k = "text" /\ Top.for = "signal" /\ stack' = Tail(stack))
     => /\ at' = Top.at /\ rc' = Top.rc
        /\ \A f \in {"last", "loops", "calls", "inTrap", "inCond", "command"} :
              ctx'[f] = Top.was[f]]_vars

(* A naked exit in the EXIT action ends the shell with the status it was   *)
(* exiting with.                                                           *)
EntryStatusHolds ==
  at # "over" =>
    LET forked(f) == f.k \in Boundary
        s == Above(forked)
        actions == {i \in 1 .. Len(s) : s[i].k = "text" /\ s[i].for \in {"signal", "exit"}}
    IN \A i \in actions : (s[i].for = "exit" /\ \A j \in actions : i <= j)
                          => ctx.entry = s[i].code

(* Only its own parse error lets eval end the shell.                       *)
EvalExitsForItsOwn ==
  [][(at # "over" /\ Top.k = "text" /\ Top.for = "eval" /\ ctx'.parseError = FALSE
        /\ ctx.parseError)
     => stack' = Tail(stack)]_vars

=============================================================================
