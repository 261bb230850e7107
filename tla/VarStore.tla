----------------------------- MODULE VarStore ------------------------------
(***************************************************************************)
(* The variable store of vars.c as a value: a stack of scopes, innermost   *)
(* first and the global one last, and the process environment beside it.   *)
(* One operator per function of that file; hashing and arenas left out.    *)
(***************************************************************************)
EXTENDS Integers, Sequences

CONSTANTS Names, Values

Unset == "unset"     \* a NULL value, an absent variable

ASSUME VarStoreAssumption == Unset \notin Values

Binding == [value : Values \cup {Unset}, exported : BOOLEAN, readonly : BOOLEAN]

Bound(v, exported, readonly) == [value |-> v, exported |-> exported, readonly |-> readonly]

IsStore(s) ==
  /\ s = [scopes |-> s.scopes, environ |-> s.environ]
  /\ Len(s.scopes) > 0
  /\ \A i \in DOMAIN s.scopes : /\ DOMAIN s.scopes[i] \subseteq Names
                                /\ s.scopes[i] \in [DOMAIN s.scopes[i] -> Binding]
  /\ s.environ \in [Names -> Values \cup {Unset}]

EmptyScope == [n \in {} |-> Bound(Unset, FALSE, FALSE)]

Global(s) == Len(s.scopes)

(* vars_find: the innermost scope that holds n, 0 if there is none.        *)
Holding(s, n) == {i \in DOMAIN s.scopes : n \in DOMAIN s.scopes[i]}

VarsFind(s, n) ==
  IF Holding(s, n) = {} THEN 0 ELSE CHOOSE i \in Holding(s, n) : \A j \in Holding(s, n) : i <= j

Found(s, n) == s.scopes[VarsFind(s, n)][n]

VarsGet(s, n) == IF VarsFind(s, n) = 0 THEN Unset ELSE Found(s, n).value

VarsIsReadonly(s, n) == VarsFind(s, n) # 0 /\ Found(s, n).readonly
VarsIsExported(s, n) == VarsFind(s, n) # 0 /\ Found(s, n).exported

Put(s, i, n, b) ==
  [s EXCEPT !.scopes[i] =
     [m \in DOMAIN s.scopes[i] \cup {n} |-> IF m = n THEN b ELSE s.scopes[i][m]]]

(* setenv and unsetenv                                                     *)
Environ(s, n, v) == [s EXCEPT !.environ[n] = v]

VarsPushScope(s) == [s EXCEPT !.scopes = <<EmptyScope>> \o @]

VarsPopScope(s) == IF Global(s) = 1 THEN s ELSE [s EXCEPT !.scopes = Tail(@)]

(* Mutant of VarStoreValue: the environment keeps the old value.           *)
VarStoreValueOnly(s, i, n, v) == Put(s, i, n, [s.scopes[i][n] EXCEPT !.value = v])

(* var_store_value: an exported variable is set in the environment too.    *)
VarStoreValue(s, i, n, v) ==
  LET b      == s.scopes[i][n]
      stored == Put(s, i, n, [b EXCEPT !.value = v])
  IN  IF b.exported THEN Environ(stored, n, v) ELSE stored

(* A new variable is global, whatever function is running.                 *)
VarsSet(s, n, v) ==
  LET i == VarsFind(s, n)
  IN  IF i = 0 THEN Put(s, Global(s), n, Bound(v, FALSE, FALSE))
      ELSE IF Found(s, n).readonly THEN s ELSE VarStoreValue(s, i, n, v)

VarsIsLocal(s, n) == n \in DOMAIN s.scopes[1]

(* Mutant of VarsSetLocal: a readonly local is overwritten.                *)
VarsSetLocalAnyway(s, n, v) ==
  IF ~VarsIsLocal(s, n) THEN Put(s, 1, n, Bound(v, FALSE, FALSE))
  ELSE VarStoreValue(s, 1, n, v)

VarsSetLocal(s, n, v) ==
  IF ~VarsIsLocal(s, n) THEN Put(s, 1, n, Bound(v, FALSE, FALSE))
  ELSE IF s.scopes[1][n].readonly THEN s ELSE VarStoreValue(s, 1, n, v)

(* An unset name is declared in the global scope, without a value.         *)
Declared(s, n) ==
  IF VarsFind(s, n) = 0 THEN Put(s, Global(s), n, Bound(Unset, FALSE, FALSE)) ELSE s

VarsExport(s, n) ==
  LET d == Declared(s, n)
      e == Put(d, VarsFind(d, n), n, [Found(d, n) EXCEPT !.exported = TRUE])
  IN  IF Found(d, n).value = Unset THEN e ELSE Environ(e, n, Found(d, n).value)

VarsUnexport(s, n) ==
  Environ(IF VarsFind(s, n) = 0 THEN s
          ELSE Put(s, VarsFind(s, n), n, [Found(s, n) EXCEPT !.exported = FALSE]),
          n, Unset)

VarsReadonly(s, n) ==
  LET d == Declared(s, n)
  IN  Put(d, VarsFind(d, n), n, [Found(d, n) EXCEPT !.readonly = TRUE])

Without(scope, n) == [m \in DOMAIN scope \ {n} |-> scope[m]]

(* Mutant of VarsUnset: the entry is unlinked from a function's scope too. *)
VarsUnsetUnlinks(s, n) ==
  LET i == VarsFind(s, n)
  IN  IF i = 0 THEN Environ(s, n, Unset)
      ELSE IF Found(s, n).readonly THEN s
      ELSE Environ([s EXCEPT !.scopes[i] = Without(@, n)], n, Unset)

(* A function's scope keeps a tombstone, the global scope lets go.         *)
VarsUnset(s, n) ==
  LET i == VarsFind(s, n)
  IN  IF i = 0 THEN Environ(s, n, Unset)
      ELSE IF Found(s, n).readonly THEN s
      ELSE IF i < Global(s)
        THEN Environ(Put(s, i, n, [Found(s, n) EXCEPT !.value = Unset, !.exported = FALSE]), n, Unset)
      ELSE Environ([s EXCEPT !.scopes[i] = Without(@, n)], n, Unset)

(* vars_export_env: setenv for every exported entry, outer scopes last.    *)
Exporting(s, n) == {i \in Holding(s, n) : s.scopes[i][n].exported /\ s.scopes[i][n].value # Unset}

VarsExportEnv(s) ==
  [n \in Names |->
     IF Exporting(s, n) = {} THEN s.environ[n]
     ELSE s.scopes[CHOOSE i \in Exporting(s, n) : \A j \in Exporting(s, n) : j <= i][n].value]

(* vars_import_env, at start.                                              *)
VarsImportEnv(environ) ==
  [scopes  |-> <<[n \in {m \in Names : environ[m] # Unset} |-> Bound(environ[n], TRUE, FALSE)]>>,
   environ |-> environ]

-----------------------------------------------------------------------------
(* The environment a command should see: each variable's current value, if *)
(* it has one and is exported.                                             *)
Current(s) ==
  [n \in Names |-> IF VarsIsExported(s, n) THEN VarsGet(s, n) ELSE Unset]
=============================================================================
