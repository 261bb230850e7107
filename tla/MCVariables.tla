----------------------------- MODULE MCVariables ----------------------------
(* Constants for model-checking Variables.                                 *)
EXTENDS Variables

TwoNames == {"x", "y"}

(* "1" and "2" are assigned by the script, "3" and "4" only by prefixes.   *)
Digits   == {"", "1", "2", "3", "4"}

NoEnvironment  == {[n \in Names |-> Unset]}
AnyEnvironment == {[n \in Names |-> IF n = "x" THEN v ELSE Unset] : v \in {"1", Unset}}

Set(n, v) == [name |-> n, value |-> v]
PrefixX    == {<<Set("x", "3")>>}
PrefixesX  == {<<>>, <<Set("x", "3")>>, <<Set("x", "3"), Set("x", "4")>>}
PrefixesXY == {<<>>, <<Set("x", "3")>>, <<Set("x", "3"), Set("y", "4")>>,
               <<Set("x", "3"), Set("x", "4")>>}
PrefixXY   == {<<Set("x", "3"), Set("y", "4")>>}

Script(names, inherited, prefixes, kinds, operations) ==
  [names |-> names, inherited |-> inherited, assigned |-> {"2"},
   prefixes |-> prefixes, kinds |-> kinds, operations |-> operations,
   interactive |-> TRUE, allexport |-> FALSE]

(* One name: every command but a function, nested; functions too, under    *)
(* set -a.                                                                 *)
Nested == [Script({"x"}, AnyEnvironment, PrefixesX, {"builtin", "special", "applet"},
                  AllOperations) EXCEPT !.assigned = {"1", "2"}, !.interactive = FALSE]
Scoped == [Script({"x"}, AnyEnvironment, PrefixesX, AllKinds, AllOperations)
             EXCEPT !.interactive = FALSE, !.allexport = TRUE]

(* Two names, nothing exported, and prefixes before commands that do not   *)
(* keep them.                                                              *)
Temporary == Script({"x", "y"}, NoEnvironment, PrefixesXY,
                    {"builtin", "applet", "function"}, {"assign", "unset"})

AllScripts == {Nested, Scoped, Temporary}

(* The scripts that the code gets wrong.                                   *)
LocalThenChild  == {Script({"x"}, AnyEnvironment, {<<>>}, {"function"}, {"local", "export"})}
PrefixThenChild == {Script({"x"}, AnyEnvironment, PrefixX, {"function"}, {})}
LocalInBuiltin  == {Script({"x"}, NoEnvironment, PrefixesX, {"function", "builtin"}, {"local"})}
PrefixOnApplet  == {Script({"x"}, NoEnvironment, PrefixX, {"applet"}, {"export"})}
PrefixOnExport  == {Script({"x", "y"}, NoEnvironment, PrefixXY, {"special"}, {"export"})}
Deviating       == LocalThenChild \cup PrefixThenChild \cup LocalInBuiltin \cup PrefixOnApplet \cup PrefixOnExport

=============================================================================
