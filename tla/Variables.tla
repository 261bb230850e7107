----------------------------- MODULE Variables ------------------------------
(***************************************************************************)
(* The commands that read and write shell variables: assignments, export,  *)
(* unset, readonly, local, functions, and `VAR=val command` for builtins,  *)
(* special builtins, applets and functions, whose bodies run any of these. *)
(*                                                                         *)
(* `stack` is the commands under way, innermost first; `slots` is what an  *)
(* env_overlay_t saved when its assignments were pushed.                   *)
(***************************************************************************)
EXTENDS VarStore, FiniteSets

CONSTANTS
  Scripts,       \* what a script is made of, one record a script
  MaxDepth       \* bound: commands under way

AllKinds == {"function", "builtin", "special", "applet"}
AllOperations == {"assign", "export", "unset", "readonly", "local"}

Empty == ""      \* what `local NAME` gives a name

(* names        variables the script uses                                  *)
(* inherited    environments the shell may start with                      *)
(* assigned     values the script assigns                                  *)
(* prefixes     sequences of assignments written before a command          *)
(* kinds        commands under way                                         *)
(* operations   commands on variables                                      *)
(* interactive  sh->interactive                                            *)
(* allexport    sh->opt_a                                                  *)
ASSUME VariablesAssumption ==
  /\ \A s \in Scripts :
       /\ s.names \subseteq Names
       /\ s.inherited \subseteq [Names -> Values \cup {Unset}]
       /\ s.assigned \subseteq Values /\ Empty \in Values
       /\ s.kinds \subseteq AllKinds /\ s.operations \subseteq AllOperations
       /\ {s.interactive, s.allexport} \subseteq BOOLEAN
       /\ s.prefixes \subseteq Seq([name : s.names, value : Values])
  /\ MaxDepth \in Nat

VARIABLES
  script,  \* the script the shell runs
  store,   \* sh->vars and environ
  stack,   \* commands under way
  running  \* FALSE once an error has ended the script

vars == <<script, store, stack, running>>

Slot == [name : Names, had : Values \cup {Unset}, wasexp : BOOLEAN]

Frame(kind, slots) == [kind |-> kind, slots |-> slots]

Top == Head(stack)

-----------------------------------------------------------------------------
(* env_overlay_t                                                           *)

OverlaySlot(s, a) ==
  [name |-> a.name, had |-> VarsGet(s, a.name), wasexp |-> VarsIsExported(s, a.name)]

OverlaySet(s, a, export) ==
  LET set == VarsSet(s, a.name, a.value)
  IN  IF export THEN VarsExport(set, a.name) ELSE set

(* env_overlay_push for the assignments in turn, with the slots it fills.  *)
OverlayPush(s, as, export) ==
  LET after[i \in 0 .. Len(as)] == IF i = 0 THEN s ELSE OverlaySet(after[i - 1], as[i], export)
  IN  [store |-> after[Len(as)],
       slots |-> [i \in DOMAIN as |-> OverlaySlot(after[i - 1], as[i])]]

(* Putting one slot back.  `unexport`: an export the overlay added goes;   *)
(* `redeclare`: an unset name that was declared for export is so again.    *)
SlotBack(s, e, unexport, redeclare) ==
  IF e.had # Unset
    THEN LET back == VarsSet(s, e.name, e.had)
         IN  IF unexport /\ ~e.wasexp THEN VarsUnexport(back, e.name) ELSE back
    ELSE LET gone == VarsUnset(s, e.name)
         IN  IF redeclare /\ e.wasexp THEN VarsExport(gone, e.name) ELSE gone

(* Mutant of OverlayRestore: the first slot is put back first.             *)
OverlayRestoreForward(s, slots, unexport, redeclare) ==
  LET back[i \in 0 .. Len(slots)] ==
        IF i = 0 THEN s ELSE SlotBack(back[i - 1], slots[i], unexport, redeclare)
  IN  back[Len(slots)]

(* env_overlay_restore: the last slot first.                               *)
OverlayRestore(s, slots, unexport, redeclare) ==
  LET back[i \in 1 .. Len(slots) + 1] ==
        IF i = Len(slots) + 1 THEN s ELSE SlotBack(back[i + 1], slots[i], unexport, redeclare)
  IN  back[1]

(* Mutant of OverlayUnexport: nothing is undone.                           *)
OverlayUnexportNot(s, slots) == s

(* env_overlay_unexport                                                    *)
OverlayUnexport(s, slots) ==
  LET off[i \in 0 .. Len(slots)] ==
        IF i = 0 THEN s
        ELSE IF slots[i].wasexp THEN off[i - 1] ELSE VarsUnexport(off[i - 1], slots[i].name)
  IN  off[Len(slots)]

(* simple_cmd_expand_assigns: two or more assignments are applied from     *)
(* left to right while they are expanded, and taken back again.            *)
Expanded(s, as) ==
  IF Len(as) < 2 THEN s
  ELSE LET p == OverlayPush(s, as, FALSE)
       IN  OverlayRestore(p.store, p.slots, FALSE, TRUE)

Locals(s, as) ==
  LET set[i \in 0 .. Len(as)] ==
        IF i = 0 THEN s ELSE VarsSetLocal(set[i - 1], as[i].name, as[i].value)
  IN  set[Len(as)]

-----------------------------------------------------------------------------
RunsCode == {"script", "function", "builtin", "special"}

Runs(op) == running /\ op \in script.operations /\ Top.kind \in RunsCode

Done(s) == store' = s /\ UNCHANGED <<stack, running>>

(* A refused assignment ends a script; so does a refused special builtin,  *)
(* unless `command` or a trap action runs it.                              *)
AssignmentRefused == running' = script.interactive /\ UNCHANGED <<store, stack>>

BuiltinRefused ==
  /\ \E spared \in BOOLEAN : running' = (script.interactive \/ spared)
  /\ UNCHANGED <<store, stack>>

Assign(n, v) ==
  /\ Runs("assign")
  /\ IF VarsIsReadonly(store, n) THEN AssignmentRefused
     ELSE LET set == VarsSet(store, n, v)
          IN  Done(IF script.allexport THEN VarsExport(set, n) ELSE set)

Export(n) == Runs("export") /\ Done(VarsExport(store, n))

ExportValue(n, v) ==
  /\ Runs("export")
  /\ IF VarsIsReadonly(store, n) THEN BuiltinRefused
     ELSE Done(VarsExport(VarsSet(store, n, v), n))

UnsetName(n) ==
  /\ Runs("unset")
  /\ IF VarsIsReadonly(store, n) THEN BuiltinRefused ELSE Done(VarsUnset(store, n))

Readonly(n) == Runs("readonly") /\ Done(VarsReadonly(store, n))

ReadonlyValue(n, v) ==
  /\ Runs("readonly")
  /\ IF VarsIsReadonly(store, n) THEN BuiltinRefused
     ELSE Done(VarsReadonly(VarsSet(store, n, v), n))

(* local NAME=value, local NAME.  A readonly local is left as it is.       *)
LocalValue(n, v) == Runs("local") /\ Done(VarsSetLocal(store, n, v))

Local(n) ==
  /\ Runs("local")
  /\ Done(IF VarsIsLocal(store, n) THEN store ELSE VarsSetLocal(store, n, Empty))

-----------------------------------------------------------------------------
(* VAR=val command                                                         *)

Assignable(s, as) == \A i \in DOMAIN as : ~VarsIsReadonly(s, as[i].name)

(* The store and the frame with which a command starts.                    *)
Entered(s, kind, as) ==
  LET e == Expanded(s, as)
      p == OverlayPush(e, as, TRUE)
  IN  IF kind = "function" THEN [store |-> Locals(VarsPushScope(e), as), frame |-> Frame(kind, <<>>)]
      ELSE [store |-> p.store, frame |-> Frame(kind, p.slots)]

(* What is left when it is over.                                           *)
Left(s, f) ==
  CASE f.kind = "function" -> VarsPopScope(s)
    [] f.kind = "builtin"  -> OverlayUnexport(OverlayRestore(s, f.slots, FALSE, FALSE), f.slots)
    [] f.kind = "special"  -> OverlayUnexport(s, f.slots)
    [] f.kind = "applet"   -> OverlayRestore(s, f.slots, TRUE, FALSE)

Enter(kind, as) ==
  /\ running /\ kind \in script.kinds /\ Len(stack) < MaxDepth /\ Top.kind \in RunsCode
  /\ IF ~Assignable(store, as) THEN AssignmentRefused
     ELSE LET e == Entered(store, kind, as)
          IN  /\ store' = e.store
              /\ stack' = <<e.frame>> \o stack
              /\ UNCHANGED running

Leave ==
  /\ running /\ Top.kind # "script"
  /\ store' = Left(store, Top)
  /\ stack' = Tail(stack)
  /\ UNCHANGED running

(* VAR=val export NAME: values and exports both stay.                      *)
PrefixedExport(as, n) ==
  /\ Runs("export") /\ "special" \in script.kinds /\ as # <<>>
  /\ IF ~Assignable(store, as) THEN AssignmentRefused
     ELSE Done(VarsExport(OverlayPush(Expanded(store, as), as, TRUE).store, n))

-----------------------------------------------------------------------------
Init ==
  /\ script \in Scripts
  /\ \E environ \in script.inherited : store = VarsImportEnv(environ)
  /\ stack = <<Frame("script", <<>>)>>
  /\ running = TRUE

Step ==
  \/ \E n \in script.names : Export(n) \/ UnsetName(n) \/ Readonly(n) \/ Local(n)
  \/ \E n \in script.names, v \in script.assigned :
       Assign(n, v) \/ ExportValue(n, v) \/ ReadonlyValue(n, v) \/ LocalValue(n, v)
  \/ \E kind \in script.kinds, as \in script.prefixes : Enter(kind, as)
  \/ \E as \in script.prefixes, n \in script.names : PrefixedExport(as, n)
  \/ Leave

Next == Step /\ UNCHANGED script

Spec == Init /\ [][Next]_vars

-----------------------------------------------------------------------------
(* The scopes, but for global entries that say nothing: no value, no flag. *)
Settled(s) ==
  [s.scopes EXCEPT ![Global(s)] =
     [n \in {m \in DOMAIN @ : @[m] # Bound(Unset, FALSE, FALSE)} |-> @[n]]]

Functions == {i \in DOMAIN stack : stack[i].kind = "function"}

(* Well-typed variables; every function under way has a scope of its own,  *)
(* over the global one that is never popped.                               *)
TypeOK ==
  /\ IsStore(store)
  /\ Len(store.scopes) = 1 + Cardinality(Functions)
  /\ \A i \in DOMAIN stack : /\ stack[i].kind \in AllKinds \cup {"script"}
                             /\ stack[i].slots \in Seq(Slot)
  /\ running \in BOOLEAN

(* vars.c: "Keep the process environment in sync".  An applet runs in this *)
(* process and reads `environ`, so that must hold each exported variable's *)
(* current value, and nothing else, whatever came before.                  *)
EnvironInStep == store.environ = Current(store)

(* That, for scripts that call no function; EnvironRestored is of the      *)
(* others.                                                                 *)
ScriptEnvironInStep == "function" \notin script.kinds => EnvironInStep

(* The same once every function has returned, "restoring the outer         *)
(* variable": their locals must not linger in `environ`.                   *)
EnvironRestored == Functions = {} => store.environ = Current(store)

(* "POSIX requires the current value": what vars_export_env gives a child  *)
(* is the value the script reads, in functions too.                        *)
ChildSeesCurrent == VarsExportEnv(store) = Current(store)

(* Expanding the assignments of a command applies them from left to right  *)
(* and takes them back: whatever the variables and their flags are, of any *)
(* scope, no trace is left before the command runs.                        *)
ExpansionLeavesNoTrace ==
  \A as \in script.prefixes : Assignable(store, as) => Settled(Expanded(store, as)) = Settled(store)

(* The values that a script's variables may have between commands.         *)
Lasting == {Empty, Unset} \cup script.assigned \cup {e[n] : e \in script.inherited, n \in Names}

(* "`VAR=val cmd` binds VAR for the duration of cmd and no longer": with   *)
(* no command under way, no scope and no environment entry holds a value   *)
(* that only prefixes assign.                                              *)
PrefixIsTemporary ==
  Top.kind = "script" =>
    \A n \in Names : /\ store.environ[n] \in Lasting
                     /\ \A i \in Holding(store, n) : store.scopes[i][n].value \in Lasting

(* Where nothing is ever exported, prefixes export nothing either once     *)
(* their command is over, though each is exported while it runs.           *)
PrefixesExportNothing ==
  Top.kind = "script" =>
    \A n \in Names : store.environ[n] = Unset /\ ~VarsIsExported(store, n)

(* Both, for scripts that do not declare, export or run special builtins   *)
(* with a prefix themselves.                                               *)
Plain == script.operations \subseteq {"assign", "unset"} /\ "special" \notin script.kinds

Unexported == ~script.allexport /\ \A e \in script.inherited, n \in Names : e[n] = Unset

(* The assignments in front of a command are gone when it is over: their   *)
(* values, their exports, and what expanding them put in place.            *)
PrefixesEnd ==
  /\ Plain => PrefixIsTemporary
  /\ Plain /\ Unexported => PrefixesExportNothing
  /\ ExpansionLeavesNoTrace

(* simple_cmd_applet: "Nothing persists, so value and flag are put back    *)
(* together": an applet runs no shell code, so after it every variable and *)
(* every flag is what it was.                                              *)
AppletLeavesNoTrace ==
  \A as \in script.prefixes : Assignable(store, as) =>
    LET e == Entered(store, "applet", as) IN Settled(Left(e.store, e.frame)) = Settled(store)

(* Assignments before a special builtin persist as shell variables; "they  *)
(* are not added to the environment".  Of them, `export NAME` exports only *)
(* NAME.                                                                   *)
OnlyOperandsExported ==
  [][\A as \in script.prefixes, n \in Names : PrefixedExport(as, n) =>
       \A m \in Names \ {n} : VarsIsExported(store', m) => VarsIsExported(store, m)]_vars

(* A readonly variable keeps its value and its flag as long as its scope   *)
(* lives: no assignment, unset, local, overlay or restore gets past it.    *)
KeepsReadonly ==
  LET grown == Len(store'.scopes) - Len(store.scopes)
  IN  \A i \in DOMAIN store.scopes : i + grown >= 1 =>
        \A n \in DOMAIN store.scopes[i] :
          LET b == store.scopes[i][n]
              c == store'.scopes[i + grown]
          IN  b.readonly => n \in DOMAIN c /\ c[n].readonly /\ c[n].value = b.value

ReadonlyHolds == [][KeepsReadonly]_vars

(* Only an assignment gives a name a value.  In particular unset does not  *)
(* let an outer scope show through: "The variable must stay unset for the  *)
(* rest of the function", which export, readonly and local keep so.        *)
AssignsValues ==
  UNCHANGED stack =>
    \A n \in Names :
      \/ VarsGet(store', n) \in {VarsGet(store, n), Unset}
      \/ Local(n)
      \/ \E v \in script.assigned :
           Assign(n, v) \/ ExportValue(n, v) \/ ReadonlyValue(n, v) \/ LocalValue(n, v)
      \/ \E as \in script.prefixes, m \in Names :
           PrefixedExport(as, m) /\ \E i \in DOMAIN as : as[i].name = n

ValuesAreAssigned == [][AssignsValues]_vars

(* The value of a variable changes by assignments only, and that of a      *)
(* readonly one by none, from whatever scope.                              *)
AssignmentsAlone == ReadonlyHolds /\ ValuesAreAssigned
=============================================================================
