----------------------------- MODULE MCRedirect -----------------------------
(* Constants for model-checking Redirect.                                  *)
EXTENDS Redirect

AllFiles == {"tty", "f", "pipe_in", "pipe_out", "report"}

Roomy  == 0 .. 22
Twelve == 0 .. 11

None == {}

(* An output, a descriptor that starts closed, and one the last stage of a *)
(* pipeline does not reach; and the number that one's saved input takes.   *)
OutAndFour  == {1, 4}
InOutThree  == {0, 1, 3}
InOutFive   == {0, 1, 5}
InOnly      == {0}
OutOnly     == {1}

FileOutFour == {<<1, "f">>, <<4, "f">>}
FileInThree == {<<0, "f">>, <<3, "f">>}
FileOutFive == {<<1, "f">>, <<5, "f">>}

DupOutFour  == {<<4, 1>>, <<1, 4>>, <<1, 1>>}
DupInThree  == {<<3, 1>>, <<1, 3>>}
DupOut      == {<<1, 2>>}

ScopeKinds    == {"brace", "command", "exec", "command_exec", "special", "external"}
PipeKinds     == {"command_exec", "cmd_subst", "stage", "body", "subshell", "fork_applet"}
DeviatingKinds == {"exec", "body", "fork_applet", "brace"}
=============================================================================
