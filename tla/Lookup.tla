------------------------------- MODULE Lookup -------------------------------
(***************************************************************************)
(* How the shell finds what a command name stands for (exec.c): special    *)
(* builtins, functions, builtins, applets and the directories of PATH,     *)
(* these through a cache that remembers where a name was found, or that it *)
(* was not, under the PATH the cache is labelled with; and what `hash`,    *)
(* `set -h`, `type` and `command` make of it.                              *)
(*                                                                         *)
(* The directories change under the shell.  A command is one step; the     *)
(* commands a function's body runs are steps of their own.                 *)
(***************************************************************************)
EXTENDS Naturals, Sequences

CONSTANTS Worlds,           \* records: the names in use, the kinds their files take
          Keywords, SpecialBuiltins, RegularBuiltins, Applets,
          Dirs,             \* directories a file may be in
          PathValues,       \* sequences of Dirs and ".", the working directory
          DefaultPath       \* confstr(_CS_PATH)

VARIABLES names, kinds,     \* the world of a behaviour
          path,             \* PATH: its value and whether it is exported
          there,            \* the kind of the file of each name in each directory
          cwd,
          functions, aliases,
          suppressed,       \* the applets SILEX_NO_APPLETS names
          hashing,          \* set -h
          cache, label,     \* path_cache and path_cache_hash
          touched,          \* history: remembered, and a file or the directory has
                            \* changed since
          misfiled,         \* history: remembered under the label of another PATH
          ran               \* the file of the command just run, if one was looked for

world      == <<names, kinds>>
tables     == <<functions, aliases, suppressed, hashing>>
memory     == <<cache, label, touched, misfiled>>
lookupVars == <<world, path, there, cwd, tables, memory, ran>>

Builtins  == SpecialBuiltins \cup RegularBuiltins
NoPath    == <<"no PATH">>
NotFound  == "not found"
Unlabelled == <<"unlabelled">>
NoEntries == [n \in {} |-> NotFound]

(* Files may be absent; "." is not the name of a directory; and neither of *)
(* the two values that stand for the lack of a PATH is one.                *)
ASSUME LookupAssumption ==
  /\ \A w \in Worlds : "none" \in w.kinds
  /\ "." \notin Dirs
  /\ \A value \in PathValues : value \in Seq(Dirs \cup {"."})
  /\ {NoPath, Unlabelled} \cap PathValues = {}

LookupTypeOK ==
  /\ path \in [value : PathValues \cup {NoPath}, exported : BOOLEAN]
  /\ there \in [Dirs -> [names -> kinds]] /\ cwd \in Dirs
  /\ functions \subseteq names \ Keywords /\ aliases \subseteq names
  /\ DOMAIN cache \subseteq names /\ label \in PathValues \cup {<<>>, Unlabelled}
  /\ touched \cup misfiled \subseteq DOMAIN cache

-----------------------------------------------------------------------------
(* The search.  A file of kind "exec" may be executed by its owner, one of *)
(* kind "group" only by others; "dir" is a directory.                      *)

Executable == {"exec", "group"}
OwnersExecute == {"exec", "dir"}

Place(d) == IF d = "." THEN cwd ELSE d
FirstDir(value, n, wanted) ==
  LET hits == {k \in DOMAIN value : there[Place(value[k])][n] \in wanted}
  IN IF hits = {} THEN NotFound ELSE value[CHOOSE k \in hits : \A j \in hits : k <= j]

PathResolveWith(value, n) ==
  IF value = NoPath THEN NotFound ELSE FirstDir(value, n, Executable)

(* vars_get, "" if it is not set; and getenv, which sees it if exported.   *)
PathValue == IF path.value = NoPath THEN <<>> ELSE path.value
GetenvPath == IF path.exported THEN path.value ELSE NoPath

-----------------------------------------------------------------------------
(* The cache.  The newest entry of a name hides the older ones.            *)

(* Without the comparison: every entry answers for every PATH.             *)
ValidAlways(value) == cache
Valid(value) == IF label = value THEN cache ELSE NoEntries

Remember(entries, n, d) == [m \in DOMAIN entries \cup {n} |-> IF m = n THEN d ELSE entries[m]]

PathCacheGet(n) == IF n \in DOMAIN Valid(PathValue) THEN Valid(PathValue)[n]
                   ELSE PathResolveWith(path.value, n)

(* path_cache_get, and path_cache_put if that gave nothing.                *)
LookedUp(n) ==
  LET kept == DOMAIN Valid(PathValue)
  IN /\ cache' = Remember(Valid(PathValue), n, PathCacheGet(n))
     /\ label' = PathValue
     /\ touched' = touched \cap kept
     /\ misfiled' = misfiled \cap kept

(* path_cache_put alone, of what a search of `value` gave: the label stays *)
(* what it is.                                                             *)
PutOnly(n, value) ==
  /\ cache' = Remember(cache, n, PathResolveWith(value, n))
  /\ touched' = touched \ {n}
  /\ misfiled' = IF label = value THEN misfiled \ {n} ELSE misfiled \cup {n}
  /\ UNCHANGED label

-----------------------------------------------------------------------------
(* Command search: exec_simple_cmd_inner from the name on.                 *)

FindAppletByName(n) == n \in Applets \ suppressed

Dispatch(n, inCommand) ==
  IF n \in SpecialBuiltins \/ (n \in RegularBuiltins /\ (inCommand \/ n \notin functions)) THEN "builtin"
  ELSE IF n \in functions /\ ~inCommand THEN "function"
  ELSE IF FindAppletByName(n) THEN "applet" ELSE "external"

Ran(n, asked, found) == ran' = [name |-> n, asked |-> asked, found |-> found]
NothingRan == [name |-> "", asked |-> <<>>, found |-> NotFound]

(* simple_cmd_external: a PATH=value in front, if not NoPath, is searched  *)
(* itself and the cache is left alone.                                     *)
External(n, value) ==
  IF value = NoPath THEN Ran(n, path.value, PathCacheGet(n)) /\ LookedUp(n)
  ELSE Ran(n, value, PathResolveWith(value, n)) /\ UNCHANGED memory

RunCommand(n, value, inCommand) ==
  /\ n \notin Keywords
  /\ Dispatch(n, inCommand) = "external"
  /\ External(n, value)
  /\ UNCHANGED <<world, path, there, cwd, tables>>

Run      == \E n \in names \ aliases, value \in PathValues \cup {NoPath} :
              RunCommand(n, value, FALSE)
Command  == \E n \in names : RunCommand(n, NoPath, TRUE)

CommandP == \E n \in names : RunCommand(n, DefaultPath, TRUE)

(* exec_builtin_hash, perhaps behind a prefix PATH=value.                  *)
Hashable(n) == n \notin Builtins /\ ~FindAppletByName(n)
HashedFrom(n, value) ==
  IF PathResolveWith(value, n) = NotFound THEN UNCHANGED memory ELSE PutOnly(n, value)
Hash == /\ \E n \in {m \in names : Hashable(m)}, value \in PathValues \cup {path.value} :
             HashedFrom(n, value)
        /\ UNCHANGED <<world, path, there, cwd, tables>>

PathCacheClear == /\ cache' = NoEntries /\ label' = Unlabelled
                  /\ touched' = {} /\ misfiled' = {}
HashR == PathCacheClear /\ UNCHANGED <<world, path, there, cwd, tables>>

(* A definition; under set -h the names in the body are hashed, those of   *)
(* functions too.                                                          *)
Define == /\ \E n \in names \ Keywords :
               /\ functions' = functions \cup {n}
               /\ \/ UNCHANGED memory
                  \/ /\ hashing
                     /\ \E m \in {k \in names : Hashable(k)} : HashedFrom(m, path.value)
          /\ UNCHANGED <<world, path, there, cwd, aliases, suppressed, hashing>>

UnsetF == /\ \E n \in functions : functions' = functions \ {n}
          /\ UNCHANGED <<world, path, there, cwd, aliases, suppressed, hashing, memory>>

-----------------------------------------------------------------------------
(* Everything else a script does to the state of the search.               *)

Alias == /\ \E n \in names : aliases' = aliases \cup {n}
         /\ UNCHANGED <<world, path, there, cwd, functions, suppressed, hashing, memory>>
Unalias == /\ \E gone \in {aliases} \cup {{n} : n \in aliases} : aliases' = aliases \ gone
           /\ UNCHANGED <<world, path, there, cwd, functions, suppressed, hashing, memory>>
Suppress == /\ \E s \in SUBSET (names \cap Applets) : suppressed' = s
            /\ UNCHANGED <<world, path, there, cwd, functions, aliases, hashing, memory>>
SetH == /\ hashing' = ~hashing
        /\ UNCHANGED <<world, path, there, cwd, functions, aliases, suppressed, memory>>

AssignPath == /\ \E value \in PathValues : path' = [path EXCEPT !.value = value]
              /\ UNCHANGED <<world, there, cwd, tables, memory>>
UnsetPath == /\ path' = [value |-> NoPath, exported |-> FALSE]
             /\ UNCHANGED <<world, there, cwd, tables, memory>>
ExportPath == /\ path.value # NoPath /\ path' = [path EXCEPT !.exported = TRUE]
              /\ UNCHANGED <<world, there, cwd, tables, memory>>

(* A file comes, goes or changes; cd.                                      *)
Install == /\ \E d \in Dirs, n \in names, k \in kinds :
                /\ there' = [there EXCEPT ![d][n] = k]
                /\ touched' = touched \cup ({n} \cap DOMAIN cache)
           /\ UNCHANGED <<world, path, cwd, tables, cache, label, misfiled>>
Cd == /\ cwd' \in Dirs
      /\ touched' = touched \cup {n \in DOMAIN cache : \E k \in DOMAIN label : label[k] = "."}
      /\ UNCHANGED <<world, path, there, tables, cache, label, misfiled>>

Init == /\ \E w \in Worlds : names = w.names /\ kinds = w.kinds
        /\ \E value \in PathValues : path = [value |-> value, exported |-> TRUE]
        /\ there = [d \in Dirs |-> [n \in names |-> "none"]] /\ cwd \in Dirs
        /\ functions = {} /\ aliases = {} /\ suppressed = {} /\ hashing = FALSE
        /\ cache = NoEntries /\ label = Unlabelled
        /\ touched = {} /\ misfiled = {} /\ ran = NothingRan

Other == \/ Hash \/ HashR \/ Define \/ UnsetF \/ Alias \/ Unalias \/ Suppress \/ SetH
         \/ AssignPath \/ UnsetPath \/ ExportPath \/ Install \/ Cd

Next == \/ Run \/ Command \/ CommandP
        \/ Other /\ ran' = NothingRan

Spec == Init /\ [][Next]_lookupVars

-----------------------------------------------------------------------------
(* What the shell says of a name: exec_builtin_type, command -v.           *)

Found(n) == IF GetenvPath = NoPath THEN NotFound ELSE FirstDir(GetenvPath, n, OwnersExecute)

(* As it was once: functions are not looked at.                            *)
BuiltinOrFound(n) ==
  IF n \in Builtins THEN "builtin" ELSE IF FindAppletByName(n) THEN "applet" ELSE Found(n)
CommandVForgetful(n) == IF n \in Keywords THEN "keyword" ELSE BuiltinOrFound(n)
CommandV(n) ==
  IF n \in Keywords THEN "keyword" ELSE IF n \in functions THEN "function" ELSE BuiltinOrFound(n)

TypeOf(n) == IF n \in aliases THEN "alias" ELSE CommandV(n)

(* What the name does as the first word of the next line.                  *)
WouldRun(n) ==
  IF n \in aliases THEN "alias" ELSE IF n \in Keywords THEN "keyword"
  ELSE IF Dispatch(n, FALSE) = "external" THEN PathCacheGet(n) ELSE Dispatch(n, FALSE)

(* The file a command runs is the first of the PATH it was asked under     *)
(* that can be executed, that of its own prefix, of -p or of the shell: no *)
(* change of PATH, prefix or other search leaves an answer behind that     *)
(* this one is given.  Excepted are the names the cache cannot answer for: *)
(* a file or the working directory changed after the name was remembered,  *)
(* or `hash` or set -h filed it under another PATH.                        *)
FoundOnThePath ==
  ran.name # "" /\ ran.name \notin touched \cup misfiled =>
    ran.found = PathResolveWith(ran.asked, ran.name)

(* `type` and `command -v` say what the next line will run.  Excepted,     *)
(* each because the code differs: functions named as a special builtin, an *)
(* unexported PATH, files the two searches see differently, stale entries, *)
(* and for command -v aliases.                                             *)
TellsWhatRuns ==
  \A n \in names :
    /\ n \notin functions \cap SpecialBuiltins
    /\ n \notin touched \cup misfiled
    /\ path.exported
    /\ \A d \in Dirs : there[d][n] \in {"none", "exec"}
    => /\ TypeOf(n) = WouldRun(n)
       /\ n \notin aliases => CommandV(n) = WouldRun(n)

(* A command is the first file of its name on the PATH asked for, whoever  *)
(* asks: the dispatch, type or command -v.                                 *)
CommandsAreFound == FoundOnThePath /\ TellsWhatRuns

(* The cache is "invalidated automatically when PATH changes" (exec.c:575):*)
(* not so for the names `hash` and set -h file.                            *)
CacheFollowsPath ==
  ran.name # "" /\ ran.name \notin touched =>
    ran.found = PathResolveWith(ran.asked, ran.name)

(* "In the order the shell itself resolves a command name" (exec.c:5196).  *)
TypeFollowsSearch ==
  \A n \in names \ (touched \cup misfiled) :
    path.exported /\ (\A d \in Dirs : there[d][n] \in {"none", "exec"})
      => TypeOf(n) = WouldRun(n)
=============================================================================
