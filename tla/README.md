# silex: models, checks and proofs

This directory is a TLA+ development beside the sources of silex, a static
binary that holds a POSIX shell and 27 coreutils applets (`src/core/src`).
The shell is the program's own core logic and is modelled from the characters
of a script to the children it leaves behind; of the applets, those are modelled
that keep a state over many steps: sed, grep, xargs, the ones that change the file
tree, find, and the modules that extend applets.

Paths below are relative to `src/core/src` unless they start with `src/`.

## 1. Inventory of the system

| part | sources | state it keeps | what changes it | here |
|---|---|---|---|---|
| multicall entry | `main.c`, `applets.h` | none; argv[0] picks an applet | | not modelled |
| shell context, main loop | `shell/shell.c`, `core/sh.c` | `shell_ctx_t`: options, `last_exit`, traps, functions, aliases | reading commands, `shell_signal_handler`, `errexit_should_stop` | `ControlFlow`, `JobControl` |
| execution | `shell/exec.c` | loop depth and break level, call depth, errexit flags | every command | `ControlFlow`, and what commands do in the modules below |
| job table | `shell/job.c` | the list of `job_t`, `current`, `previous`, `next_id` | `job_register`, `job_reap`, `job_reap_and_prune`, `job_wait`, `job_remove` | `JobTable` |
| job control | `shell/exec.c` | the children, the waits under way | `&`, wait, jobs, fg, bg, forks | `JobControl` |
| redirections | `shell/redirect.c` | the list of saved descriptors of each command | `redirect_apply`, `redirect_restore`, `redirect_commit` | `Redirect` |
| variables | `shell/vars.c`, the overlays of `exec.c` | a stack of scopes, `environ` | assignment, export, unset, readonly, local, calls, `VAR=val cmd` | `VarStore`, `Variables` |
| lexer | `shell/lexer.c` | push-back, alias values, pending here-documents | one call per token | `Lexer` |
| parser | `shell/parser.c` | one token of look-ahead, the error flag, the tree | recursive descent | `Parser` |
| expansion | `shell/expand.c` | a buffer of bytes and markers per word | one walk per word | `Expansion`, `Arithmetic`; partly |
| lookup | `exec.c:572-701`, `type`, `command`, `hash` | name to path, labelled with a hash of PATH | every external command, `hash`, `set -h` | `Lookup` |
| modules | `module/` | the (tool, flag) registry, retained descriptors | `registry_lookup`, `registry_check_invalidate`, `module_load` | `ModuleRegistry`; partly |
| sed | `core/sed.c` | spaces, append queue, ranges, streams by name | one turn per record | `Sed`: the run, not the option and script parser |
| xargs | `core/xargs.c` | gathered arguments, a table of running commands | tokens, children that end | `Xargs` |
| file applets | `core/cp.c`, `mv.c`, `rm.c`, `ln.c`, `install.c` | the file system | system calls in a fixed order | `FileOps` |
| find, ignore files | `core/find.c`, `util/vcsignore.c` | the expression compiled, the walk | one entry at a time | `Find`, `VcsIgnore` |
| regular expressions | `util/regex` | a compiled pattern, a cache of state lists | `mb_regex_compile`, `mb_regex_search` | `Regex`; partly: not what falls back to regcomp |
| grep | `core/grep.c` | the ring of before-lines, counters, and a static that outlives the call | one line at a time | `Grep`: the run, not the option parser |
| filesystem cache | `cache/` | none: nothing calls `fscache_init`, so it is off | | not modelled |
| arenas, buffers, interning | `util/arena.c`, `util/strbuf.c`, `util/intern.c` | chains of blocks and marks | allocation, reset | not modelled |
| other applets | `core/cut.c`, `tr.c`, `sort.c`, `tail.c`, `printf.c`, ... | a line, a buffer | one pass over the input | not modelled |
| image and action | `src/sdk`, `src/setup-silex` | none of the program's | | packaging, not modelled |

**How the parts meet.**  The lexer hands tokens to the parser, which changes
the lexer's input under it (aliases) and its queue (here-documents).
`exec_node` walks the tree the parser left.  For a command it expands the words
(which may fork for `$( )`), looks the name up, pushes an overlay of assignments
onto the variables, applies redirections to the one descriptor table of the
process, runs a function, builtin or applet *in the same process* or forks, and
then undoes redirections and overlay.  Because builtins, functions, applets and
the last stage of a pipeline share the process, all of that is shared mutable
state with nested owners: an applet such as xargs can collect a child of the
shell.  A forked child starts with copies of the job table, the saved
descriptors and the scopes.  A trapped signal runs a whole script from inside
the signal handler, on top of whatever the shell was doing.

**What is hard**, and the property that makes each part correct:

- *Children.*  `waitpid(-1, WNOHANG)` in three places, `waitpid(pid)` in six,
  a table patched by hand, pids the kernel reuses, signals that interrupt a
  wait, trap actions that run any command inside one, forked shells with a
  stale copy of the table.  A wait must report the true status, end only when
  its child has, leave no child behind, and the marks and numbers of the table
  must stay meaningful.
- *Descriptors.*  Nested commands save, commit and restore the same
  descriptors; a list fails in the middle; pipes land on the lowest number.
  Every command must undo exactly its own changes, no saved copy may be
  visible to the script or inherited, and nothing may leak.
- *Variables.*  Values and export flags are saved by name and put back later,
  while the command between may declare a local, unset or protect the same
  name; functions hide variables; applets read `environ` directly.  A prefix
  must end with its command; readonly must hold.
- *Control flow.*  break, continue, return, exit and `set -e` are counters and
  flags in one context, set by one command and consumed by another, with
  functions, eval, forks and trap actions between the two.  A break leaves its
  loop and no other, -e ends what it should and nothing else, the EXIT trap
  runs once on every way out.
- *Syntax.*  Hand-written descent in which NULL means two things; text spliced
  into the input while it is read; bodies collected long after the operator
  that asked for them.  A tree must come back from its print, a body must
  belong to its operator, no character may be lost.
- *Words.*  Quoting, the boundaries of parameters and data travel as bytes of
  one buffer.  The fields must be those of POSIX 2.6 and data must never be
  taken for a marker.
- *Caches.*  Command search and the module registry remember positive and
  negative answers about directories that others change.
- *Streams.*  Records without their delimiter, ranges, the append queue, files
  replaced in place; children running at once with a limit; a pattern searched in
  five ways that must agree; context kept in a ring beside limits and counts.
- *The file tree.*  Sequences of system calls each of which may fail, over
  links and two file systems: nothing may be lost, and 0 must mean done.

`PROJECT.json` lists each hazard at its line with the properties that cover it.

## 2. Modules

| module | what it is |
|---|---|
| `JobTable` | external: the kernel's view of the children (running, stopped, zombie, reaped; what has been told to the parent); and job.c: the list, its marks and numbering, one operator per function |
| `JobLife` | abstract: a job starts once, runs until its process ends, then may be forgotten |
| `JobControl` | the commands and waits of exec.c over both, with trap actions; implements `JobLife` |
| `JobControlProofs` | their theorems: types and numbers; what the waits promise and the refinement |
| `UndoLog` | abstract: every command logs what it redirects and plays the log back |
| `Redirect` | redirect.c under its callers, over the kernel's descriptor table (external); implements `UndoLog` |
| `RedirectProofs` | its theorems, the refinement among them |
| `VarStore` | vars.c: scopes and `environ`, one operator per function |
| `Variables` | the variable commands and the overlays of exec.c over it |
| `VariablesProofs` | their theorems: what assignments alone may change, `environ` in step; what is left of prefixes |
| `ControlFlow` | exec_node: how commands follow one another |
| `ControlFlowProofs` | its theorems: nesting, break, set -e, the EXIT trap, trap actions |
| `Parser` | parser.c over token types, the print of a tree, the grammar |
| `Lexer` | lexer.c over characters, with alias substitution and here-documents |
| `Expansion` | the walk over a word and its later passes, and POSIX 2.6 to compare |
| `Arithmetic` | `$(( ))`: evaluation while parsing, and C's grammar to compare |
| `Lookup`, `LookupProofs` | command search, its cache, hash, type, command -v; its theorems |
| `Sed`, `SedProofs` | the applet at run time; its theorems |
| `Xargs`, `XargsProofs` | the applet with its commands; its theorem |
| `Regex` | util/regex: classes, tokens, program, every way of searching, and what grep makes of a match; the language of the pattern to compare |
| `Grep` | grep.c around its patterns: operands, directories, context, limits, reports, status |
| `FileOps`, `Paths` | mv, cp, rm, ln, install over an external file tree |
| `Find`, `VcsIgnore` | find with its compiled expression and ignore rules |
| `ModuleRegistry`, `RegistryProofs` | module/: registry and loader; its theorems |
| `MCJobControl`, `MCRedirect`, `MCVariables`, `MCControlFlow` | constants for TLC |
| `MCSyntax`, `MCWords`, `MCStreams`, `MCTools` | run modules side by side: `part` says which of them a behaviour is about |

### JobControl

`jl` is `sh->jobs`; nodes are named by the order of allocation, so a freed
node is one no longer in the list.  `proc` is what the kernel knows of the
children.  `stack` is the C call stack as far as commands and waits go: its
head is what the process does now.  A frame `waitall` holds the `j` and `next`
of `exec_builtin_wait`'s loop, `collect` the pids `exec_pipeline` has still to
wait for and `last_rc`.  Only a command position (`top`, the in-process last
stage `body`, a `trap` action) issues commands.

A wait is two steps, its start and its return, because everything interesting
happens between: children end, stop and continue, and `Signal` pushes a trap
action on top.  `sigaction` is called with `sa_flags` 0, so the interrupted
`waitpid` returns EINTR; which callers retry is `Retries`.  When a wait loop
finds its `job_t` freed, what it reads is undefined and the model stops there
(`ReadFreedJob`).  `EnterSubshell` goes on as the forked child: the table is
its parent's, none of the children are its own.  `fate` and `inherited` are
ghosts: what each job's process really ended with, and which jobs came with a
copied table.

Left out: terminal ownership and process groups, what `jobs` prints, and a
signal that arrives outside a blocked `waitpid`.

### Redirect

`t` is the descriptor table, `stack` the commands under way with what
`redirect_ctx_t` saved for each.  One step is one turn of `redirect_apply`'s
or `redirect_restore`'s loop, so a failure may come after any prefix of a
list, and a command may start at any point of another's life.  A fork goes on
as the child; the parent's table does not change while it waits.  What kind of
file an operator opens, noclobber and a here-document's text come down to one
outcome each: it opens or it fails.  The refinement maps each saved copy to
what it refers to: if a copy is overwritten, closed or restored to the wrong
descriptor the step is no step of `UndoLog`.

### Variables

`store` is the stack of scopes and `environ`; `stack` the commands under way
with what their `env_overlay_t` saved.  A command is entered with a prefix
and left later; between, its body runs any variable command and enters
others, which is where saving by name goes wrong.  `script` says what a
behaviour's script is made of (which kinds of command, operations, prefixes),
so that one run covers several kinds of script.  Applets run no shell code.
Reporting (`export -p`, `set`) changes nothing and is left out, and so is
running out of memory in the overlay.

### ControlFlow

There is no script: eval lets a script go on as it likes, so the next node is
chosen when the shell gets to it, from a vocabulary.  `stack` is the C call
stack seen from `exec_node`; `at` says whether the frame on top takes its next
node, or a node has just returned a status to it, or the shell is over.  The
context holds the code's own fields (`loop_depth`, `break_level`, `in_cond`,
`and_or_exempt`, ...).  A fork follows the child, whose frame keeps the
context its parent waits with.  A signal may come between any two steps; its
action is a frame like any other.  The properties compare the counters and
exemptions with what the stack shows.

### Parser and Lexer

A parse function of the source is an operator that takes the position of the
next token and returns node, position and error flag.  Inputs are of two
kinds: token strings typed one by one, well formed or not, and trees grown
construct by construct and printed, which the parser must read back.  The
grammar the properties use is a definition of its own, with its list of what
the shell accepts beyond POSIX.

The lexer reads characters of small alphabets, each a class of the program's
characters; a keyword or operator stands for its letters.  Push-back, alias
values and their guards, the here-document queue and the parser's look-ahead
are the variables; `Look`, `Substitute` and `Deliver` are `lexer_peek`, a turn of
`expand_command_aliases` and the parser's `consume`.

### Expansion, Arithmetic and Lookup

A word is typed token by token and then expanded by the code's passes: the
walk writes values, guards and markers into one buffer, the later passes split,
glob and unescape it.  At the end of the module stands the language of POSIX
2.6.5 written over tagged characters, where quoting is a tag and not a byte;
the property compares the two.  Arithmetic evaluates while it descends, as the
code does, with integers of `Width` bits that wrap; the reference parses by C's
grammar first.  In `Lookup` the directories change under the shell, the cache
carries the PATH it is labelled with, and two ghosts (`touched`, `misfiled`) say
for which names the cache may legitimately be stale.

### Sed and Xargs

`Sed` takes a parsed script and files and makes one step per command or
record.  Output is a sequence of texts and delimiters, so two records on one
line are visible.  In-place editing opens, writes and renames a temporary, any
call of which may fail; `Backups` is what backup_name makes of each operand's
name, and `edits` a history of what the script made of each and whether writing it
fell short, which the code does not notice (sed.c:2915).  `Xargs` gathers tokens by
the limits -n, -L and -s, starts commands and collects them as `waitpid` returns
them, in the process of a shell that may have a background child of its own.  `g_procs` is static, so
the table outlives the call (`Again`): an ended command's slot keeps its pid, and
the kernel may give that pid to a later command, which then has two slots.
-P is put between 1 and `MaxParallel` (xargs.c:418).

xargs runs in the shell's process under the shell's handlers, which restart no call
(sa_flags 0): with `trap` in `run`, a signal may come at any time.  getchar then
returns EOF (`ReadInterrupted`: what is left is not read, `eof` is where), or
exec_cmd's waitpid fails (`WaitInterrupted`: the command counts as one that returned
1, and runs on among the `abandoned`).  wait_one's loops call it again.  A trap that
ends in `&` has job_reap collect whatever has ended, the children of xargs included
(`TrapReaps`), and exec_cmd finds its own gone (`WaitGone`).  A word that a signal
breaks in two is two tokens of the input.  Signals in the reads of sed and grep are
not modelled.

### Regex and Grep

`regexp` is what the user means: a tree grown construct by construct, spelt as a
BRE or an ERE with parentheses where a looser construct stands inside a tighter
one.  `CompileIt` is `mb_regex_compile` on the spelling, `Type` lengthens the text.
The properties compare every search with the language of the tree, defined
construct by construct (`Ends`), for any tree and text: comparison for `^x` and
`^x$`, Horspool's skipping for literals, all starts at once where no span is asked
for, start by start through the cache otherwise, and the first character the
prefilter asks for.  The cache is the open table of `dfa_find_or_create`, emptied
when full; only the hash is another.  A backslash before a letter is taken apart
twice: the tokenizer makes control characters of `\n`, `\t`, `\r`, `\a`, `\f` and `\v`
(`Escaped`, with `\a` and one control character for all of them), the extraction of a
literal keeps the letter, and so do brackets.  The property leaves patterns with such
an escape out; section 4 has what becomes of them.  Left out: what goes to regcomp
(back-references, and anchors joined to something on their outer side), and
ranges and named classes in brackets.

`Grep` takes a line as three answers: does a pattern match, is the prefilter's
character in it, has it a NUL.  `stream` are the locals of `grep_stream`; one
action is one way through its loop.  `Again` is the next call in the same shell:
grep is a builtin, so `matchedAny`, a static, is not reset.  Left out: options,
globs, colours, prefixes of lines and read errors.

### FileOps, Find and ModuleRegistry

`FileOps` makes one system call a step; the recursive functions of the applets
are frames that hand a return code to the frame below.  `names` maps paths to
inodes, so hard links and links are what they are, and `Mount` is where another
file system begins.  `Find` parses and compiles its expression as the code does
(pattern kinds, the fields it decides to `stat`), walks a tree from which
another process may remove entries, and is compared with the plain reading of
the expression.  A token that is no primary is refused, but an operand of `!` that
was refused is not noticed: find goes on with a NOT of nothing (find.c:298).
`ModuleRegistry` keeps entries found and not found until the
first directory's modification time changes; a library replaced is another
library.  `scan` is the look-up under way: one step of `ReadDir` is one entry of
readdir and the `module_load` it leads to, and between two of them other
processes may install and remove libraries, which readdir may or may not list
(POSIX leaves it open) and open(2) then misses.  A directory or a library may fail to open, always so when
`MaxHeld` descriptors are in use, and the scan passes it over: `missed` is a history
of the requests this happened to.  `held` is the descriptors that the loader keeps,
`named` dlopen's table of names.  Left out: want of memory, an error of readdir, a
full table (1024 entries), and a first directory that does not exist.

## 3. Runs

| run | question | bounds |
|---|---|---|
| `jobs_script` | in a script: does wait tell the truth, is every child answered for by its pipeline or by one job, does a plain wait outlast the jobs it passed? | 3 pids, 3 jobs, 2 stages, 4 frames, no signals |
| `jobs_terminal` | with stops, continues, failing forks and trap actions that start jobs: do types and numbering hold, is a job forgotten only after its process ended (`JobLife`), is the job a wait stands on kept? | 2 pids, 3 jobs, 1 exit code, 1 signal, 3 frames |
| `jobs_live` | does every command end, also when a trap action in the middle of a wait frees jobs? | 2 pids, 2 jobs, 1 signal, 3 frames |
| `redirect_scopes` | is every command undone exactly (`UndoLog`), no copy lost, shared or inherited? | 23 descriptors, 2 redirections a command, 2 commands nested, 1 fork |
| `redirect_pipes` | do pipes connect, do children and last stages see only their own redirections? | the same, 1 fork |
| `vars_scopes` | is the environment an applet reads in step, does a prefix end with its command, do readonly and unset hold, does only assignment give values? | three kinds of script, 1 or 2 names, 1 to 2 values and 2 prefix values, 2 nested |
| `flow` | do counters follow the nesting, is -e exact, does the EXIT trap run once, is a signal transparent? | four vocabularies, 3 constructs deep, break levels up to 2, 1 signal |
| `syntax` | do trees come back from their print, are the lines accepted the grammar's, do words and here-document bodies stay whole, does alias substitution end and lose nothing? | token strings of 4 to 7 over five vocabularies, trees of 9 tokens' growth, texts of 4 to 9 characters |
| `words` | has an expression C's value, a word POSIX's fields; is the command found the first on the PATH asked, do type and command -v tell it? | expressions of 5 or 6 tokens, 4-bit integers; words of 4 or 5 tokens over environments picked for what they split, quote and hide; 2 directories, 3 PATHs |
| `streams` | are records and tokens neither glued, lost nor read early, are ranges and substitutions what their definitions say, is a file edited in place the old or the whole new one, are limits kept, do both applets stop; does every way of searching find the language of the pattern, are context lines and separators exact, does grep's status tell the match? | pairs of every sed command, inputs of 4 records, texts of 4 characters, 2 files; 3 tokens, 1 or 2 commands at a time, 2 pids, 2 slots, 2 calls in a shell, signals at any time; trees of 2 or 3 constructs over six vocabularies, texts of 3 to 5 characters, a cache of 8; files of 6 lines with -A, -B and -m up to 2, 2 operands, directories of 2 files, 2 calls in a shell |
| `xargs_status` | *violated*: a command's failure is told by xargs -P | 3 tokens, 2 at a time |
| `tools` | is nothing moved ever lost, does 0 mean done, do -n, -i and -S hold; do find's shortcuts change nothing and does it visit every entry once; does the registry answer as the directories would, and for what could not be opened only that it found nothing? | trees of up to 8 names, two file systems, every call able to fail; 2 module directories, 3 libraries but 2 descriptors for them, 2 changes |

**Why the bounds are enough to be interesting.**  Two pids and three jobs make
the kernel reuse a pid while its old job is in the table.  Two forked stages
and a job are three children, so a stage can be reaped by the wrong command
while another is collected.  Four frames hold a pipeline, a wait in its last
stage and a command of it.  Two redirections of one descriptor in one command,
twice nested, exercise every order of save and restore; 23 descriptors leave
room for all copies such a nest and one inherited set can need.  A name assigned
twice in one prefix, with values distinct from all the script assigns, tells
every order of restoring apart.  Three constructs hold a loop in a function in a
loop, a break in an eval in a loop, and a trap action over each.  Four-bit
integers reach both ends of the range with one digit.  Pids are symmetric and no
liveness is checked where symmetry is used.

CHECK_DEADLOCK is off where an input comes to its end: an error ends a script
(`vars_scopes`), and a text or word that has been read is done (`syntax`,
`words`).  The last state of the other models stutters (`Ended`, `Done`).

**Fairness.**  `jobs_live`: weak fairness of every child's end, which is what
`wait` may assume and no more, and of the shell's own next step, which the
kernel's scheduler gives a runnable process; nothing makes the script issue
commands, and stops are off, since a stopped child may stall a wait for ever.
`syntax`: a reading in progress goes on (the lexer waits for nobody once its
text is there).  `streams` and `tools`: the applet's own next step, and in xargs
the end of each command it started.  Removals by another process, failures and
signals are never forced.

**What the environment may do.**  Children end, stop and continue at any time,
signals arrive at any blocked wait or between any two nodes, forks,
redirections and file system calls fail at any time, entries vanish under a
walk, libraries and commands come and go.

## 4. Where the code disagrees with its own words

One is a run: `xargs_status`.  docs/COMPATIBILITY.md:291 says that xargs returns 1
when a command returned non-zero.  `exec_cmd_parallel` collects a status to get a
free slot and drops it (xargs.c:261), so `printf '1\n2\n3\n4\n5\n' | xargs -P2 -n1 sh
-c '[ $0 != 1 ]'` returns 0.

The rest was met while modelling and reproduced with the built program.  Each
area has a `...Deviations.cfg` that names properties taken from the code's
comments and documents (or from POSIX and the GNU tools, which
`docs/COMPATIBILITY.md` measures it by); TLC finds every one of them violated.
TLC stops at the first: keep one name to see its trace.

`MCJobsDeviations`

| property | what happens |
|---|---|
| `SignalsDoNotCorruptStatus` | SECURITY.md: waits retry on EINTR. Those for subshells, stages and `$( )` do not, and their status is then uninitialised. |
| `StagesStayChildren` | exec.c:2389: no foreground child is pending at `&`. In `a \| { b & }` stage a is, and its status is reaped and lost. |
| `UnknownPidIs127` | exec.c:4396: a pid that is no child is 127. `sleep 1 & (wait $!)` reports 0. |
| `WaitAllWaits` | exec.c:4422: wait for all jobs. A job stopped and then continued from outside is skipped. |
| `NoStrayChildren` | ARCHITECTURE.md: the parent waits for all children of a pipeline. When a later fork fails it waits for none. |

Also: fg of a job that has just been reaped waits again and reports 0
(exec.c:4519); with pipefail the leftmost failure wins, not the rightmost
(exec.c:2034).

`MCRedirectDeviations`

| property | what happens |
|---|---|
| `CopiesParked` | redirect.c:20: a saved descriptor must be at 10 or above. A last stage saves stdin with `dup`: `echo hi \| { cat <&5; }` reads the shell's input. |
| `PipesConnect` | with descriptor 0 closed, `pipe` returns it, and the last stage closes it: `exec <&-; echo hi \| cat`. |
| `FailedNeverRuns` | exec.c:1429: an applet whose redirection failed does not run. sh and env do. |
| `UnsavedWasClosed` | redirect.c:332: -1 means it was closed. It also means no descriptor was left, and the restore closes an open one. |

Nothing keeps a script from naming a descriptor of 10 or above itself
(parser.c:571): `{ exec 11>&-; } >f; echo hi` closes the saved copy and leaves
stdout on f.  The runs' scripts name lower ones; `SavedCopiesHold` assumes it.

`MCVarsDeviations`

| property | what happens |
|---|---|
| `ChildSeesCurrent` | vars.c says a child gets the current value. `vars_export_env` writes inner scopes first, so the outer value wins: `export x=out; f() { local x=in; export x; child; }`; and `x=1 f` shows a child the exported outer value. |
| `EnvironRestored` | vars.c:384: popping a scope restores the outer variable. `environ` keeps the exported local's value, and applets read it. |
| `PrefixIsTemporary` | exec.c:823: a prefix lasts for the command. Restored by name, it hits a local made meanwhile: `f() { x=3 command eval "local x"; }; f`. |
| `AppletLeavesNoTrace` | exec.c:847: nothing persists. `export x; x=1 basename a` drops the declaration. |
| `OnlyOperandsExported` | exec.c:1227: assignments before a special builtin are not exported. `x=1 y=2 export y` exports both. |

`MCFlowDeviations`

| property | what happens |
|---|---|
| `BreaksLeaveTheirLoop` | exec.c:2605: a trap action that runs a loop between a `break 2` and the outer loop consumes the count. |
| `ErrexitStops` | exec.c:2553: a list in a condition leaves `and_or_exempt` set, so `set -e; if false && true; then :; else false; fi; echo here` prints here. |
| `ErrexitSpares` | a loop hands on the status of a body that was exempt, and the mark is gone: `set -e; for i in a; do false && true; done; echo here` prints nothing. |
| `ExitTrapRuns` | a trap action that fails under -e loses the EXIT trap; a forked pipeline stage never fires the one it sets. |
| `EvalExitsForItsOwn` | exec.c:3646: one flag for parse errors serves eval and trap actions, so a broken action ends an innocent eval. |
| `EntryStatusHolds` | shell.c:52: a signal inside the EXIT action overwrites the status the action is to end with. |

`MCSyntaxDeviations`

| property | what happens |
|---|---|
| `DiagnosedFirst` | parser.c:66-71: `echo a; && echo b` runs echo before it is diagnosed. |
| `LinesAreCounted` | newlines in quotes inside `$( )` are not counted. |
| `NothingIsLost` | what follows a closing parenthesis is dropped: `(echo a) echo b`. |
| `NoRedirectedPrefix` | parser.c:697-703: `2>/dev/null for ...` drops the redirection. |
| `UnfinishedIsDiagnosed` | parser.c:739-740: `eval "if true; then"` returns 0. |
| `GuardStops` | lexer.c: the guard by name "already stops direct and mutual recursion". At the end of a text it does not: `alias a=b b=c c=a; eval a` is stopped by the turn counter alone. |

Also: a redirection without its word is accepted (`for i in a >; do`); a
here-document line over 4094 bytes is cut (lexer.c:390); `set -e; f() { false &&
true; }; f` goes on; a command substitution in a condition forgets that
it is tested.

`MCWordsDeviations`

| property | what happens |
|---|---|
| `ShortCircuits` | docs/OPTIMISATIONS.md:1073; `$((1 \|\| (q=9)))` assigns q. |
| `ShiftAssignsShift`, `EqualityBindsLess`, `MalformedIsDiagnosed`, `ParametersAreOperands` | `x <<= 1` is a comparison; `2 == 1 < 3` groups to the left; `$((1 +))` is 1; with x=-1 `$((-$x))` is `--1`. Also MIN / -1 traps. |
| `QuotedNeverGlobs` | `x=; echo \*$x` globs, for all the comment at expand.c:3444; so does `"*"$p` with no parameters. |
| `EmptyParametersStay` | `set -- a ""; x=" y"; "$@"$x` drops the empty parameter; `$x"$@""$@"` with none makes a field. |
| `MarkersStayInside` | `"${u=$@}"` stores a marker byte; `> "o$@"` opens a name with one; `case "a b" in "$@")` compares with one. |
| `MCCacheFollowsPath` | exec.c:575: "invalidated automatically when PATH changes". `hash x` under another PATH files its answer under the old label. |
| `MCTypeFollowsSearch` | exec.c:5196: `type eval` says function where a function has a special builtin's name; the builtin runs. `command -v` reports directories. |

Also: a name not found stays not found after it is installed, until PATH
changes or hash -r; relative entries survive cd; empty entries of PATH are
dropped; `${u-a\:b}` splits on the escaped colon; `${v/${w}/X}` is cut at "/";
typed control bytes vanish from a split word.

`MCStreamsDeviations`

| property | what happens |
|---|---|
| `MCOutputStaysApart` | an unterminated last record is glued to the next output: `sed -s -n p a b`, `sed 'p;e echo x'`, `w /dev/stdout`. |
| `MCNoTextDropped` | sed.c:1637-1655: the 513th queued append is dropped. |
| `MCReplacedInFull` | sed.c:2915: an in-place edit ignores write errors of its temporary and renames it. `InPlaceIsSafe` excepts that case and no other. |
| `MCShellChildKept` | xargs -P in the shell's process collects the shell's background child. |
| `MCNothingAdrift` | xargs.c:202: a trapped signal breaks the wait off, the command runs on and nobody collects it; the status is 1. |
| `MCNothingUnread` | xargs.c:95: getchar interrupted by a trapped signal is taken for the end of the input; the rest is dropped and the status is 0. |
| `MCSlotsAreChildren` | exec.c:2389-2394: no foreground child is pending at `&`. In a trap under xargs -P one may be: job_reap (job.c:183) collects it, and wait_all_children asks for it for ever. |

Also: `2,4p;3{N;N;N}` matches line 7, beyond the range; more than 64 nested
blocks are not skipped; the range of a last line that restarts with D is closed
early.  In xargs 126 and 127 are never returned (xargs.c:745).

| property | what happens |
|---|---|
| `MCLongestIsFound` | regex.h:3: a drop-in replacement for regcomp and regexec. A match ends where it first can: `echo abc123 \| grep -oE '[0-9]+'` prints 1, 2, 3, and `grep -x 'a*'` does not find aaa. `{n,m}` is read as `+`. |
| `MCFoundAnywhere` | regex.h: whether it matches anywhere. The search without a span never asks for `$` where it starts, so `grep '$'` finds empty lines only. |
| `MCWordsAreFound` | grep.c:175: boundaries are checked. The next try begins behind the last match, so `grep -w a-a` does not find xa-a-a; with -F it does. |
| `MCEscapesAreOneThing` | classify.c:158: `\x -> x`, a plain escape. In the tokenizer (parse.c:135) it may be a control character: `grep '\a'` finds the letter a, `grep '\a.'` BEL. |
| `MCPiecesAreMatches` | what follows a piece is searched as a new text: `echo aaa \| grep -o '^a'` prints three. |
| `MCCacheIsExact` | thompson.c:434: the cache is cleared while its walk holds a slot, and the transition goes into another state's. Shown with a cache of 2; the code's has 256. |
| `MCPrefilterChangesNothing` | grep.c:496: a line without the character cannot match. It may be context: `printf 'foo\nbar\nfab\n' \| grep -A1 foo` prints foo and fab. |
| `MCSeparatorsAreGaps` | grep.c:570: "--" between groups. It is printed before the before-context is: `printf 'a\nb\na\n' \| grep -B1 a` prints one inside a group. |
| `MCQuietTellsTheTruth` | grep.c:1230: -q tells whether something matched, in this call or in an earlier one of the same shell (grep.c:92). |
| `MCAlwaysCounts` | `grep -c -m1 a` prints no count if there are two (grep.c:545). |
| `MCErrorsAreTold` | grep.c:1205: any error is exit 2. Those below a directory are dropped (grep.c:750). |
| `MCPrintedIsTold` | `printf 'foo\n\0bar\n' \| grep foo` prints foo and returns 1. |

Also: `grep -L` reports a binary file that matches, and lists nothing for
standard input; `grep -c` prints 0 for a binary file that matches; -o shows
pieces of the first pattern only; `[a\]` takes the bracket's end for a member;
`grep -o 'a$'` reads a span that REG_NOSUB left uninitialised.

`MCToolsDeviations`

| property | what happens |
|---|---|
| `MCSuccessIsAlwaysComplete`, `MCDestinationKept` | `cp a a` empties the file and returns 0; `cp -f short long` keeps the old tail; `ln -f missing d` and mv across file systems unlink the destination first; mv merges into a directory of the same name; two sources of one basename overwrite each other. |
| `MCNoClobberHoldsForLinks` | `cp -n symlink existing` replaces it. |
| `MCFindsExactly` | `find d -perm 644` finds nothing: -perm is not among the primaries that ask for stat (find.c:857-882; docs/OPTIMISATIONS.md:70-76). `-name '\*'` matches by prefix with the backslash. |
| `MCKnowsFollow`, `MCFollowsIfAsked` | COMPATIBILITY.md:245 lists -L; it is an "unknown primary", and yet "-L" among -exec's arguments turns following on. |
| `MCRootedAtTopOnly` | docs/OPTIMISATIONS.md:1219: full gitignore(5). Only the basename is matched: `/a` hides at any depth, `d/x` never; the files of parents and subdirectories are not read. |
| `MCNegativeMeansNobody` | registry.c:349: "Nothing provides this flag. Remember that". open or opendir may have failed, as with EMFILE: the failure is remembered as a miss. |
| `MCNewModulesArePickedUp` | registry.c:53: a module put into the second directory is not found after a negative answer. |
| `MCDescriptorsNeverCollide` | loader.c:226: retained descriptors cannot collide. `exec 4>&-` closes one, and the next library resolves to the first's object. |

Also: find's -delete visits a directory before its entries; missing and trailing
parentheses are accepted; `find d ! -bogus` complains and returns 0 (find.c:298);
-exec + runs per file; rm -r refuses a child link that
resolves to `/`; install of a directory destroys the destination; default cp
copies links as links; errors of readdir are taken for the end of a directory.

This is why some scripts of the passing runs are restricted (no local in
`vars_scopes`' prefix script, no `&` inside the last stage in `jobs_script`,
descriptors 0 to 2 open in `redirect_pipes`) and why some properties name the
case they leave out: each is checked on everything but the case known to break
it.

## 5. Proofs

Each theorem holds for every value of the constants that satisfies the modules'
assumptions (`ChildrenAssumption`, `JobControlAssumption`,
`DescriptorsAssumption`, `RedirectAssumption`, `VarStoreAssumption`,
`VariablesAssumption`, `LookupAssumption`, `ControlFlowAssumption`,
`XargsAssumption`, `SedAssumption`: the constants have their types, the files
named exist) and, where the code needs one, a
hypothesis on what the script does.  Each hypothesis is a named definition that
a run's constants satisfy, so the theorem is the run's property without its
bounds; section 4 shows what happens without the hypothesis.

| module | theorem | hypothesis | property |
|---|---|---|---|
| `JobControlProofs` | `TypeCorrect` | | `TypeOK` |
| | `JobNumbersHold` | | `JobNumbers` |
| | `WaitLoopsHoldLiveJobs` | `TrapsKeepJobs` | `HeldJobsLive` |
| | `WaitTruthful` | `ReapsAtTopOnly` | `WaitTellsTheTruth` |
| | `PlainWaitWaits` | `ReapsAtTopOnly`, nothing stops | `WaitAllWaits` |
| | `ChildrenAnsweredFor` | `Undisturbed` | `ChildrenAccounted` |
| | `JobsLiveTheirLives` | `JobsAreOwn` | `JobsLiveAndEnd`: implements `JobLife` |
| `RedirectProofs` | `SavedCopiesHold` | `ScriptStaysLow` | `SavedCopiesLive`, `TypeOK` |
| | `CopiesKeptPrivate` | `CopiesApart` | `CopiesStayPrivate` |
| | `RedirectionsUndone` | `ScriptStaysLow`, room, report out of reach | `RedirectionsAreScoped`: implements `UndoLog` |
| `VariablesProofs` | `VariablesTypeCorrect` | | `TypeOK` (no run) |
| | `EnvironKeptInStep` | | `ScriptEnvironInStep` |
| | `OnlyAssignmentsAssign` | | `AssignmentsAlone` |
| | `PrefixesAreTemporary` | in the property: `Plain`, `Unexported` | `PrefixesEnd` |
| `ControlFlowProofs` | `NestingFollowed` | | `ContextMatchesNesting` |
| | `CountersAreFollowed` | `BreaksUntrapped` | `CountersFollowNesting` |
| | `ErrexitActsExactly` | `ListsOnly` | `ErrexitIsExact` |
| | `ExitTrapIsRun` | `TrapsAlone` | `ExitTrapRuns` |
| | `ActionsAreTransparent` | | `SignalsAreTransparent` |
| `LookupProofs` | `LookupTypeCorrect`, `CommandsFound` | | `CommandsAreFound` |
| `SedProofs` | `RecordsAreKept` | | `RecordsKept` |
| | `EditsAreSafe` | `OperandsApart` | `InPlaceIsSafe` |
| `XargsProofs` | `ArgumentsAreAccountedFor` | `TrapsReapAlone` | `ArgumentsAccounted` |
| `RegistryProofs` | `RegistryTypeCorrect` | | `RegistryTypeOK` (no run) |
| | `AnswersAreTheFiles` | | `ModulesAreTheFiles` |

### Jobs

`JobNumbersHold`: the inductive invariant is `TypeOK /\ JobNumbers`.  A new
job's number is `next_id`, above all others only if those stay below it; the
marks are live because a job leaves the list only through `job_remove`, which
patches them.  The first lemmas of `JobControlProofs` are about the table, one for
each function of job.c; the others about the actions, by way of what each does to
the children, the stack and the table.

The promises rest on one idea: the kernel and the table keep two accounts
of the same children.  `Linked` says they agree: each job of this shell has a
child that nobody has collected, each child forked for a job has that job, and
no two jobs share a pid; `FatesKnown` that what the kernel still has to tell is
how the process ended; `StackHolds` what each frame that waits knows of its
child.  Together with `TypeOK /\ JobNumbers` they are inductive (`AInv`) as
long as nothing collects children on top of a wait: `ReapsAtTopOnly`.  The code
needs that: `&` in a script, `jobs`, fg and bg reap whatever has ended, and in
the last stage of a pipeline or a trap action that may be the child that a wait
below is about to ask for (`StagesStayChildren` in section 4).  Then

- `WaitTruthful`: job_wait's ECHILD branch never answers for a job of this
  shell, since the job it waits for still has its child;
- `PlainWaitWaits` adds that the loop of `wait` has collected every job up to
  the one it stands on; a stop from outside would make it skip one;
- `ChildrenAnsweredFor` needs a frame for each child that is no job's
  (`AccountedFor`), which interrupted waits and a fork that fails in mid
  pipeline give up: `Undisturbed` excludes the two.

`WaitLoopsHoldLiveJobs` is independent of these: `Held` relates every two frames
of the stack, so that above a wait loop there is only what frees no jobs.
`TrapsKeepJobs` says that of the commands the trap actions use; `jobs_live` runs
without it, and there a wait does read a freed `job_t`.  `JobsLiveTheirLives`
maps the table and the fates to the phases of `JobLife`; `LifeInv` says that a
listed job that has not met its fate is not Done and its pid is still the child
forked for it (or a process of the parent shell), and that the child of a
foreground command, which with Monitor may stop and become a job, is nobody
else's (`Watching`).  `JobsAreOwn` excludes a subshell that uses fg, which drops
a job whose process is not its child, and with Monitor a trap action that reaps
in the middle of a foreground command.

### Redirections

`SavedCopiesLive` is not inductive: an undo closes the last copy of the
innermost command, which harms nobody only if no entry of another command, nor
another of its own, names it, and an unfinished restore must belong to a command
that can be left.  `IInv` says so for each frame (`FrameOK`) and for the stack
(`StackOK`: the copies of two commands are disjoint, every command but the
innermost runs, the outermost is never left).  The lemmas are one for each way
the stack changes, then one for each kind of step; `SaveFresh`, that the lowest
free descriptor is one no record names, rests on the well-foundedness of the
naturals.  `ScriptStaysLow` is the price: the script names descriptors below
`FD_SAVE_BASE` only, and no last stage of a pipeline runs in the shell itself
(its copy of fd 0 is where dup(2) puts it).

`CopiesKeptPrivate` adds `PrivInv`: whatever is open from `FD_SAVE_BASE` on is
recorded by some command or is the script's own source (`Recorded`), whatever is
not close-on-exec is the script's (`Reachable`), and a program that has been
executed holds nothing close-on-exec.  `FD_SAVE_BASE` must be above 2, else the
terminals of `Init` are in its range.

`RedirectionsUndone` is the refinement: `Open`, `Dup`, `CloseFd` and
`RedirectFails` are one `Redirect` of the log (`TurnScoped`), one turn of the
restore is one `Undo`, leaving and committing are `Keep`, forks are `Fork`, and
a change of phase is a stutter.  A saved copy maps to what it refers to, so each
step must leave the copies of all other commands alone (`TailLog`).  Two
hypotheses are about states.  `RoomToSave`: some descriptor from `FD_SAVE_BASE`
on is free, because `save_fd` returns -1 both for a closed descriptor and for
none left, and then the restore closes what was open (`UnsavedWasClosed` in
section 4).  `ReportOutOfReach`: the pipe on which the child of a command
substitution reports a syntax error is wherever pipe(2) puts it, which with low
descriptors closed may be a number that the script names.  Both hold throughout
the two runs, checked as invariants when the theorem was stated.  Without them a
step of the code is none of `UndoLog`'s.

### Variables

The commands of exec.c are built from a few functions of vars.c, so the proof is
about those: `Follows(s, u)` says that a store u may come from s when no scope
comes or goes (the readonly entries of s are still there, with their values, and
with the global scope alone `environ` is in step if it was), `Spares(s, u, N)`
that no name outside N has another value.  Each function has a lemma
(`SetFollows`, `UnsetFollows`, ...).  They come down to two facts: what a change
of one entry does to `vars_find` (`FindAt`, `OthersSame`), and that an entry may
change without a word to `environ` only where that heard nothing before
(`Settles`).  `VarsUnset`
is the one that needs the tombstone: in a function's scope the entry must stay,
or the outer value would show through; and the global scope is the last, so there
it may go.

The overlay's loops over a command's assignments are recursive functions.
`Recursion` shows that such a function exists and `Reaches` that a set closed
under its step holds all its values, both by the well-foundedness of the naturals;
the set is `After(s, N)`, the stores that follow s and spare all names but N.
So pushing, restoring, unexporting and binding locals are each one step more of
the same kind, for prefixes of any length.

`Sound` is the inductive invariant: the types, one scope for each function under
way over the global one, and, if the script calls no function, `environ` in step.
Functions are excluded because `vars_pop_scope` does not touch `environ`
(`EnvironRestored` in section 4).  `OnlyAssignmentsAssign` then goes by the
actions: all but entering and leaving are `Quiet(N)` for the names N they assign;
entering a function adds a scope at the front and leaving takes it away, and
`GuardsOn` composes the two kinds of change.

`PrefixesAreTemporary` needs to know what the slots hold, not only what they
spare.  A slot of `overlay_push` holds what was there when its command
started, and that may be a prefix's value of a command further out; functions
come between with scopes of their own, so the same name is one entry to one
command and another to the next.  `Clean(store, stack, n, ...)` keeps the
account for one name: there are marks (`Marked`), for each frame how many
scopes there were when it started and at which height the name was then bound,
such that

- what the first slot for the name holds may last (`Kept`), or a frame below
  has a slot for the same height (`SlotsKept`);
- so for every entry at every height (`EntriesKept`), none being readonly;
- `environ` holds something that may not last only while the innermost frame
  that covers the name has it exported, so that the restore takes it back
  (`EnvironFine`).

`Tidy` says so of every name, and that functions and the script have no slots;
`Plain => Tidy` is inductive with `Sound` (`StepTidy`).  With no frame but the
script's there are no slots, and what is left is the property.  Below that,
`RestoreView` is the fact about `overlay_restore` that matters: it goes from
the last slot to the first, so the first slot of a name has the last word, and
that one holds what was there before the whole list.  The same lemma, for a
list just pushed, gives `ExpandedSettles`: expanding assignments leaves no
trace, for prefixes of any length.  `Plain` scripts assign, unset and call
functions, ordinary builtins and applets in any nesting; `export` and
`readonly` in them, and the special builtins, are documented to make an
assignment last, and a `local` under a prefix is the deviation of section 4.

### Control flow

The context has one `loop_depth`, one `call_depth`, one `in_trap` and one
`in_cond` for constructs that nest without bound, and every construct must leave
them as it found them however it is left.  `Shell` is the inductive invariant:
the context is the one its stack calls for (`Matches`, four counts of frames,
each down to the frame that hides the rest), and each frame's saved values are
those of the stack below it (`Saved`), which is what makes the invariant survive
the frame's end.  Since the stack is of any height, the counts are cardinalities:
`CountSplit` and `CountCons` say how they change when frames come and go, and
the four lemmas `GoodPush`, `GoodPop`, `GoodSwap` and `GoneLands` (a process that
ends takes all frames up to its fork with it) cover every action.

- `NestingFollowed`, and with a saved context under each signal frame
  `ActionsAreTransparent`, follow for every script without a hypothesis.
- `CountersAreFollowed`: `Aims` says where a break on its way must stop, from
  `break_level` and the loops that are left; `GoalAims` that `break n` sets out
  with the right aim, by the rank of a loop among those around it, and
  `AimsPop` that each frame it passes keeps it.  A trap action with a break of
  its own in that moment clears `break_level` (exec.c:2605), hence
  `BreaksUntrapped`.
- `ExitTrapIsRun` classifies what a step may do to the stack (`Moves`); only
  `Ends` ends a process.  `TrapsAlone` excludes the two ways that do not pass
  through `sh_exit_with_trap`: the `_exit` of a forked stage, and exit() in a
  trap action that fails under -e (shell.c:57).
- `ErrexitActsExactly`: `and_or_exempt` is set where a list ends and read where
  its status arrives, any number of returns later.  `Settled` says what holds in
  between: the flag is down whenever a command runs or a jump is under way, in
  the contexts of waiting parents too, and on the way back a failure is `ignored`
  exactly if the flag or `in_cond` says so.  It is false as soon as a context
  outlives a list: after a loop or in a condition the flag is left over, a trap
  action consumes that of what it interrupted, a substitution does not inherit
  `in_cond`, and with pipefail the status of one command meets the flag of
  another.  `ListsOnly` names exactly these, for scripts that use `set`; TLC
  finds the property violated with each of them added (section 4 has three).

### Command lookup

The cache answers without asking the directories, so `CommandsAreFound` needs to
know where its entries are from: `CacheTruthful`, every entry is the first
executable of the PATH the cache is labelled with, but for names whose files
changed since or that `hash` filed under the wrong label.  It is inductive with
the types and `FoundOnThePath`.

### sed

`Inv` has one part for each promise.  For the output, `Stream`: no record or text is
followed by anything but its delimiter, and if the last piece lacks it `pend` says
so.  Every writer, to the output or to a w file, goes through `out_record`
(`OutRecordStream`), so this holds of them all; a stream that has ended owes
nothing any more (`AtRest`), which is why `pend` is part of the invariant only while
it is read.  A script that uses e is excepted in the property: the shell writes to
the output behind the stream's back.

For the input, `ReadSound`: the set of records fetched so far has as many members
as lines were counted, one more with a record looked at.  `FetchCounts` is the
lemma: what `Fetch` returns, in this operand or after empty and missing ones, was
not in the set and is all that is new.  `next_record` is then one line counted for
one fetched (`AdvanceReads`), and every command is one of three kinds: it leaves the
input alone (`Kept`), it writes or queues, or it reads on after the queue came out
(`ReadsOn`).

For the files, `EditedSoFar`: operands before the one being edited are edited, those
after it untouched, and of itself the phase tells which of its name and its backup
holds what it was.  Edited means that the name holds a file of `edits`: the whole
output of the stream, unless its writing fell short, and the backup, where one was
asked for, what the operand was (`Edited`).  `TmpGone` and `Editing` say where the temporary file is and that
the stream reads the operand, which is also why writing the one does not disturb
reading the other (`ReadAs`).  `OperandsApart` says that the operands, their backups
and the temporary file are different files.  Without it the sentence is not true of
sed: in `sed -i.bak s f f.bak` the backup of the first is the second.

What a queue, the 0r prologue and an output on the disk come to are recursive
functions over sequences of any length.  That such a function exists
(`FlushesExist`, `EarlyExist`, `LaidExist`) and what holds of all its values are
inductions, done without the library's operator parameters: if it failed somewhere
there would be a least such place (`NoException`), which the step before rules out.

### xargs

`ArgumentsAreAccountedFor` needs an invariant on each side of the applet.  On
the side of the tokens, `Carried`: while the status is 0, the lines made and what
is gathered are the input as far as it was read, in order; and `Lines`, the
limits, which are looked at before a token is added.  Both need what `FlattenSeq`
and the length of a line become by one token more, for lines of any length:
`FlattenAppended`, `LengthAppended`.

On the side of the children, `Table`: each child of xargs is claimed by one slot
in use or is the one that `exec_cmd` waits for, each slot in use has a child, and
it is the *first* slot with that pid.  The last part is the one that makes it
inductive: `wait_one` frees the first slot with the pid whether it is in use or
not, and slots of ended commands, from this call or an earlier one, keep theirs.
It holds because a command is put in the first free slot, so that every slot
before it is in use, by a child that is there and has another pid
(`RecordedIsPut`).  Then collecting a child frees its own slot (`CollectedTable`),
the slots in use are as many as the commands that run, and when the table is
empty nothing is left behind.  With -P 1, `Told`: a failure is in the status or
is the one about to be collected.

Signals make exceptions on this side only: a command whose wait was broken off has
no slot, is in `abandoned` until somebody collects it, and has put 1 into the
status.  A trap that reaps takes commands from under their slots; with one command
at a time that is exec_cmd's failing waitpid, with several a slot that nothing frees
any more, hence `TrapsReapAlone`: such a trap comes with -P 1 only.

### Module registry

`ModulesAreTheFiles` speaks of answers long after the scan that gave them, so
the invariant (`RegistryInv`) carries the scan along: `NothingYet`, what has been
passed over in the directories before and in this one does not offer the option,
and the listing in hand is the directory's content, unless something changed
meanwhile, which `changed` records until the entries are next dropped, or could not be opened,
which `missed` records of the request as long as an answer to it is kept.  When the
last directory ends this is what makes a negative entry right; when a library is
found, `NamesAreHeld` makes the module that of the file: dlopen knows names of
descriptors still held only, the next open gets a number that is not held
(`LowestIsFree`), so the name is new.  That is
loader.c:226's argument, and it ends where a script closes such a descriptor:
`closed`, in the property itself.

### Only model-checked

Liveness (`CommandsEnd`, `AliasesReadOnce`, `StreamsEnd`, `ToolsEnd`): fairness is
beyond the prover's reach.  `PipesConnect`, which with descriptor 0 or 1 closed is
false and needs the exact numbers that pipe(2) returns.  `SignalsDoNotCorruptStatus`,
`UnknownPidIs127` and the others of section 4 are false.

`Parser`, `Lexer`, `Expansion` and `Arithmetic` are recursive descents, `Regex`
and `Find`'s patterns walk texts: they are written with RECURSIVE operators, for
which there is no SMT backend, and stay with TLC, which compares them with a
reference over every input within the bounds.

`EditsWhereAddressed` compares the ranges and substitutions of sed with a second
reading of the same lines, `MCContextIsExact` and `SelectionIsReported` what grep
printed with what a fold over the input selects, `ContentSurvives` and
`DoesWhatWasAsked` what the file applets left with a tree folded from the one they
began with: each is about what two recursive definitions compute for every input.
The least-exception argument of `SedProofs` shows what one such definition
preserves; that two of them agree needs an invariant between their every two
steps, and has not been attempted.

## 6. Plan

1. *Done*: every part of the shell, and of the applets those with a state over
   many steps; the theorems above.
2. Theorems: `MCContextIsExact`, by relating the ring of before-lines to the lines
   the fold has selected; `ContentSurvives` for mv across file systems.
3. What `Expansion` still leaves out: tilde, `${#v}` and substrings, bracket
   expressions, set -u, command substitution inside a word.
4. Signals outside waits: `read` and `cmd_subst` interrupted (exec.c:3866,
   expand.c:1281).
5. sort's merge and tail -f.

**Not modelled, and why.**  The filesystem cache is switched off in this commit:
`fscache_init` has no caller, so every look-up goes to stat(2).  Arenas, string
buffers and interning are representation; the modules use values.  The other
applets transform one stream with no state beyond a line or a buffer, or are a
system call or two.  Option loops, usage texts and sed's script parser fill
records that the models start from.  `path.c`, the vectorised line scans and the
character tables are pure functions of one line each.  The image and the
action are packaging around the binary.
