----------------------------- MODULE LookupProofs -----------------------------
(***************************************************************************)
(* The file that a command runs is the first on the PATH it was asked      *)
(* under, for any names, directories and PATHs.  The cache makes that hard *)
(* to keep: it is filled by commands, `hash` and set -h, under a label     *)
(* that only some of them write, and its answers are given much later.     *)
(***************************************************************************)
EXTENDS Lookup, TLAPS

(* What is in the cache is what its label says, but for the names that the *)
(* property excepts; and a cache without a label holds only such.          *)
CacheTruthful ==
  /\ label = Unlabelled => DOMAIN cache \subseteq misfiled
  /\ label # Unlabelled =>
       \A n \in DOMAIN cache \ (touched \cup misfiled) :
         cache[n] = FirstDir(label, n, Executable)

IInv == LookupTypeOK /\ CacheTruthful /\ FoundOnThePath

-----------------------------------------------------------------------------
(* The search.                                                             *)

(* A directory of a PATH is a directory.                                   *)
LEMMA PlacesAreDirs ==
  ASSUME LookupTypeOK, NEW value \in PathValues \cup {<<>>}, NEW k \in DOMAIN value
  PROVE  Place(value[k]) \in Dirs
<1>1. value[k] \in Dirs \cup {"."}
  BY LookupAssumption
<1> QED
  BY <1>1 DEF Place, LookupTypeOK

(* No PATH is searched like an empty one.                                  *)
LEMMA NoPathFindsNothing ==
  ASSUME NEW n
  PROVE  PathResolveWith(NoPath, n) = NotFound /\ FirstDir(<<>>, n, Executable) = NotFound
<1>1. DOMAIN <<>> = {}
  OBVIOUS
<1> QED
  BY <1>1 DEF PathResolveWith, FirstDir

(* The search under PATH is the search of its value.                       *)
LEMMA SearchesPathValue ==
  ASSUME LookupTypeOK, NEW n
  PROVE  /\ PathResolveWith(path.value, n) = FirstDir(PathValue, n, Executable)
         /\ PathValue \in PathValues \cup {<<>>}
<1>1. CASE path.value = NoPath
  BY <1>1, NoPathFindsNothing DEF PathValue
<1>2. CASE path.value # NoPath
  BY <1>2 DEF PathValue, PathResolveWith, LookupTypeOK
<1> QED
  BY <1>1, <1>2

(* A label is a PATH that was searched, or Unlabelled, which is none.      *)
LEMMA LabelsArePaths ==
  /\ Unlabelled \notin PathValues \cup {<<>>}
  /\ NoPath \notin PathValues
<1>1. Unlabelled # <<>>
  BY Len(<<>>) = 0, Len(Unlabelled) = 1 DEF Unlabelled
<1> QED
  BY <1>1, LookupAssumption

(* The answer from the cache is that of a search, unless it is excepted.   *)
LEMMA CacheAnswers ==
  ASSUME IInv, NEW n, n \in DOMAIN Valid(PathValue) => n \notin touched \cup misfiled
  PROVE  PathCacheGet(n) = PathResolveWith(path.value, n)
<1>1. CASE n \in DOMAIN Valid(PathValue)
  <2>1. label = PathValue /\ n \in DOMAIN cache /\ Valid(PathValue) = cache
    <3>1. DOMAIN NoEntries = {}
      BY DEF NoEntries
    <3> QED
      BY <1>1, <3>1 DEF Valid
  <2>2. label # Unlabelled
    BY <2>1, SearchesPathValue, LabelsArePaths DEF IInv
  <2> QED
    BY <1>1, <2>1, <2>2, SearchesPathValue DEF IInv, CacheTruthful, PathCacheGet
<1>2. CASE n \notin DOMAIN Valid(PathValue)
  BY <1>2 DEF PathCacheGet
<1> QED
  BY <1>1, <1>2

(* A search finds what it found while no file and no directory changes.    *)
LEMMA SearchStays ==
  ASSUME NEW value, NEW n, UNCHANGED <<there, cwd>>
  PROVE  FirstDir(value, n, Executable)' = FirstDir(value, n, Executable)
BY DEF FirstDir, Place, Executable

(* While nothing of the search or the memory changes, the memory stays     *)
(* what it is.                                                             *)
LEMMA MemoryStays ==
  ASSUME IInv, UNCHANGED <<there, cwd, memory>>
  PROVE  CacheTruthful'
<1>1. UNCHANGED <<cache, label, touched, misfiled>>
  BY DEF memory
<1>2. \A n \in DOMAIN cache : FirstDir(label, n, Executable)' = FirstDir(label', n, Executable)
  BY <1>1, SearchStays
<1> QED
  BY <1>1, <1>2 DEF IInv, CacheTruthful

-----------------------------------------------------------------------------
(* Each way of filling the cache.                                          *)

(* A command that is looked up: the answer is the search's, and what stays *)
(* in the cache, if anything does, was searched for under the same PATH.   *)
LEMMA LookedUpKeeps ==
  ASSUME IInv, NEW n \in names, LookedUp(n), UNCHANGED <<there, cwd, path, names>>
  PROVE  /\ n \notin touched' \cup misfiled' => PathCacheGet(n) = PathResolveWith(path.value, n)
         /\ CacheTruthful'
         /\ DOMAIN cache' \subseteq names /\ touched' \cup misfiled' \subseteq DOMAIN cache'
         /\ label' \in PathValues \cup {<<>>}
<1> DEFINE kept == DOMAIN Valid(PathValue)
<1>1. /\ cache' = Remember(Valid(PathValue), n, PathCacheGet(n))
      /\ label' = PathValue /\ touched' = touched \cap kept /\ misfiled' = misfiled \cap kept
  BY DEF LookedUp
<1>2. /\ DOMAIN cache' = kept \cup {n}
      /\ cache'[n] = PathCacheGet(n)
      /\ \A m \in kept \ {n} : cache'[m] = Valid(PathValue)[m]
  BY <1>1 DEF Remember
<1>3. /\ kept \subseteq DOMAIN cache
      /\ kept # {} => label = PathValue /\ Valid(PathValue) = cache
  <2>1. DOMAIN NoEntries = {}
    BY DEF NoEntries
  <2> QED
    BY <2>1 DEF Valid
<1>4. PathValue \in PathValues \cup {<<>>} /\ PathValue # Unlabelled
  BY SearchesPathValue, LabelsArePaths DEF IInv
<1>5. n \notin touched' \cup misfiled' => PathCacheGet(n) = PathResolveWith(path.value, n)
  BY <1>1, CacheAnswers
<1>6. ASSUME NEW m \in DOMAIN cache', m \notin touched' \cup misfiled'
      PROVE  cache'[m] = FirstDir(PathValue, m, Executable)
  <2>1. CASE m = n
    BY <2>1, <1>2, <1>5, <1>6, SearchesPathValue DEF IInv
  <2>2. CASE m # n
    <3>1. m \in kept \ {n} /\ m \notin touched \cup misfiled
      BY <2>2, <1>1, <1>2, <1>6
    <3> QED
      BY <3>1, <1>2, <1>3, <1>4 DEF IInv, CacheTruthful
  <2> QED
    BY <2>1, <2>2
<1>7. CacheTruthful'
  <2>1. ASSUME NEW m \in DOMAIN cache', m \notin touched' \cup misfiled'
        PROVE  cache'[m] = FirstDir(label, m, Executable)'
    BY <2>1, <1>1, <1>6, SearchStays
  <2> QED
    BY <2>1, <1>1, <1>4 DEF CacheTruthful
<1>8. DOMAIN cache' \subseteq names /\ touched' \cup misfiled' \subseteq DOMAIN cache'
  BY <1>1, <1>2, <1>3 DEF IInv, LookupTypeOK
<1> QED
  BY <1>1, <1>4, <1>5, <1>7, <1>8

(* `hash` and set -h: a name is filed as what a search under `value` gave, *)
(* and excepted if that is not the label.                                  *)
LEMMA HashedKeeps ==
  ASSUME IInv, NEW n \in names, NEW value \in PathValues \cup {path.value},
         HashedFrom(n, value), UNCHANGED <<there, cwd, path, names>>
  PROVE  /\ CacheTruthful'
         /\ DOMAIN cache' \subseteq names /\ touched' \cup misfiled' \subseteq DOMAIN cache'
         /\ label' = label
<1>1. CASE PathResolveWith(value, n) = NotFound
  BY <1>1, MemoryStays DEF HashedFrom, memory, IInv, LookupTypeOK
<1>2. CASE PathResolveWith(value, n) # NotFound
  <2>1. value # NoPath
    BY <1>2, NoPathFindsNothing
  <2>2. value \in PathValues /\ PathResolveWith(value, n) = FirstDir(value, n, Executable)
    BY <2>1 DEF IInv, LookupTypeOK, PathResolveWith
  <2>3. /\ cache' = Remember(cache, n, PathResolveWith(value, n))
        /\ touched' = touched \ {n} /\ label' = label
        /\ misfiled' = IF label = value THEN misfiled \ {n} ELSE misfiled \cup {n}
    BY <1>2 DEF HashedFrom, PutOnly
  <2>4. /\ DOMAIN cache' = DOMAIN cache \cup {n}
        /\ cache'[n] = PathResolveWith(value, n)
        /\ \A m \in DOMAIN cache \ {n} : cache'[m] = cache[m]
    BY <2>3 DEF Remember
  <2>5. label = Unlabelled => DOMAIN cache' \subseteq misfiled'
    BY <2>2, <2>3, <2>4, LabelsArePaths DEF IInv, CacheTruthful
  <2>6. ASSUME label # Unlabelled, NEW m \in DOMAIN cache', m \notin touched' \cup misfiled'
        PROVE  cache'[m] = FirstDir(label, m, Executable)'
    <3>1. CASE m = n
      BY <3>1, <2>6, <2>2, <2>3, <2>4, SearchStays
    <3>2. CASE m # n
      BY <3>2, <2>6, <2>3, <2>4, SearchStays DEF IInv, CacheTruthful
    <3> QED
      BY <3>1, <3>2
  <2>7. DOMAIN cache' \subseteq names /\ touched' \cup misfiled' \subseteq DOMAIN cache'
    BY <2>3, <2>4 DEF IInv, LookupTypeOK
  <2> QED
    BY <2>3, <2>5, <2>6, <2>7 DEF CacheTruthful
<1> QED
  BY <1>1, <1>2

-----------------------------------------------------------------------------
(* The steps of the specification.                                         *)

LEMMA InitIsInv == Init => IInv
<1> SUFFICES ASSUME Init PROVE IInv
  OBVIOUS
<1>1. DOMAIN cache = {} /\ label = Unlabelled
  BY DEF Init, NoEntries
<1>2. path \in [value : PathValues \cup {NoPath}, exported : BOOLEAN]
  BY DEF Init
<1>3. there \in [Dirs -> [names -> kinds]]
  BY LookupAssumption DEF Init
<1>4. LookupTypeOK
  BY <1>1, <1>2, <1>3 DEF Init, LookupTypeOK
<1> QED
  BY <1>1, <1>4 DEF IInv, CacheTruthful, FoundOnThePath, Init, NothingRan

(* A step that searches nothing leaves nothing to be judged.               *)
LEMMA NothingJudged == ASSUME ran' = NothingRan PROVE FoundOnThePath'
BY DEF FoundOnThePath, NothingRan

(* A command: the answer is judged where it was given.                     *)
LEMMA RunCommandKeeps ==
  ASSUME IInv, NEW n \in names, NEW value, NEW inCommand, RunCommand(n, value, inCommand)
  PROVE  IInv'
<1>1. External(n, value) /\ UNCHANGED <<names, kinds, path, there, cwd, functions, aliases>>
  BY DEF RunCommand, world, tables
<1>2. \A asked : PathResolveWith(asked, n)' = PathResolveWith(asked, n)
  <2> TAKE asked
  <2>1. FirstDir(asked, n, Executable)' = FirstDir(asked, n, Executable)
    BY <1>1, SearchStays
  <2> QED
    BY <2>1 DEF PathResolveWith
<1>3. CASE value = NoPath
  <2>1. ran' = [name |-> n, asked |-> path.value, found |-> PathCacheGet(n)] /\ LookedUp(n)
    BY <1>1, <1>3 DEF External, Ran
  <2>2. /\ n \notin touched' \cup misfiled' => PathCacheGet(n) = PathResolveWith(path.value, n)
        /\ CacheTruthful'
        /\ DOMAIN cache' \subseteq names /\ touched' \cup misfiled' \subseteq DOMAIN cache'
        /\ label' \in PathValues \cup {<<>>}
    BY <1>1, <2>1, LookedUpKeeps
  <2>3. FoundOnThePath'
    BY <1>2, <2>1, <2>2 DEF FoundOnThePath
  <2>4. LookupTypeOK'
    BY <1>1, <2>2 DEF IInv, LookupTypeOK
  <2> QED
    BY <2>2, <2>3, <2>4 DEF IInv
<1>4. CASE value # NoPath
  <2>1. ran' = [name |-> n, asked |-> value, found |-> PathResolveWith(value, n)] /\ UNCHANGED memory
    BY <1>1, <1>4 DEF External, Ran
  <2>2. FoundOnThePath'
    BY <1>2, <2>1 DEF FoundOnThePath
  <2>3. LookupTypeOK'
    BY <1>1, <2>1 DEF IInv, LookupTypeOK, memory
  <2> QED
    BY <1>1, <2>1, <2>2, <2>3, MemoryStays DEF IInv
<1> QED
  BY <1>3, <1>4

(* A name is filed.                                                        *)
LEMMA HashKeeps ==
  ASSUME IInv, ran' = NothingRan, Hash
  PROVE  IInv'
<1>1. PICK n \in names, value \in PathValues \cup {path.value} : HashedFrom(n, value)
  BY DEF Hash
<1>2. UNCHANGED <<names, kinds, path, there, cwd, functions, aliases>>
  BY DEF Hash, world, tables
<1> QED
  BY <1>1, <1>2, HashedKeeps, NothingJudged DEF IInv, LookupTypeOK

(* The cache is emptied.                                                   *)
LEMMA HashRKeeps ==
  ASSUME IInv, ran' = NothingRan, HashR
  PROVE  IInv'
<1>1. DOMAIN cache' = {} /\ label' = Unlabelled /\ touched' = {} /\ misfiled' = {}
  BY DEF HashR, PathCacheClear, NoEntries
<1>2. UNCHANGED <<names, kinds, path, there, cwd, functions, aliases>>
  BY DEF HashR, world, tables
<1> QED
  BY <1>1, <1>2, NothingJudged DEF IInv, LookupTypeOK, CacheTruthful

(* A function is defined, and under set -h a name of its body filed.       *)
LEMMA DefineKeeps ==
  ASSUME IInv, ran' = NothingRan, Define
  PROVE  IInv'
<1>1. UNCHANGED <<names, kinds, path, there, cwd, aliases>> /\ functions' \subseteq names \ Keywords
  BY DEF Define, world, IInv, LookupTypeOK
<1>2. CASE UNCHANGED memory
  BY <1>1, <1>2, MemoryStays, NothingJudged DEF IInv, LookupTypeOK, memory
<1>3. CASE \E m \in names : HashedFrom(m, path.value)
  BY <1>1, <1>3, HashedKeeps, NothingJudged DEF IInv, LookupTypeOK
<1> QED
  BY <1>2, <1>3 DEF Define

(* Tables and PATH change, and no cached answer does.                      *)
LEMMA TablesKeep ==
  ASSUME IInv, ran' = NothingRan,
         UnsetF \/ Alias \/ Unalias \/ Suppress \/ SetH \/ AssignPath \/ UnsetPath \/ ExportPath
  PROVE  IInv'
<1>1. UNCHANGED <<names, kinds, there, cwd, memory>>
  BY DEF UnsetF, Alias, Unalias, Suppress, SetH, AssignPath, UnsetPath, ExportPath, world, tables
<1>2. functions' \subseteq functions /\ (aliases' \subseteq names)
  BY DEF UnsetF, Alias, Unalias, Suppress, SetH, AssignPath, UnsetPath, ExportPath, tables,
         IInv, LookupTypeOK
<1>3. path' \in [value : PathValues \cup {NoPath}, exported : BOOLEAN]
  <2>1. path \in [value : PathValues \cup {NoPath}, exported : BOOLEAN]
    BY DEF IInv, LookupTypeOK
  <2>2. CASE AssignPath
    BY <2>1, <2>2 DEF AssignPath
  <2>3. CASE UnsetPath
    BY <2>3 DEF UnsetPath
  <2>4. CASE ExportPath
    BY <2>1, <2>4 DEF ExportPath
  <2>5. CASE UnsetF \/ Alias \/ Unalias \/ Suppress \/ SetH
    BY <2>1, <2>5 DEF UnsetF, Alias, Unalias, Suppress, SetH
  <2> QED
    BY <2>2, <2>3, <2>4, <2>5
<1> QED
  BY <1>1, <1>2, <1>3, MemoryStays, NothingJudged DEF IInv, LookupTypeOK, memory

(* A file comes, goes or changes: the names remembered of it are excepted, *)
(* and the search finds every other name where it did.                     *)
LEMMA InstallKeeps ==
  ASSUME IInv, ran' = NothingRan, Install
  PROVE  IInv'
<1>1. PICK d \in Dirs, n \in names, kind \in kinds :
             /\ there' = [there EXCEPT ![d][n] = kind]
             /\ touched' = touched \cup ({n} \cap DOMAIN cache)
  BY DEF Install
<1>2. UNCHANGED <<names, kinds, path, cwd, functions, aliases, cache, label, misfiled>>
  BY DEF Install, world, tables
<1>3. there' \in [Dirs -> [names -> kinds]]
  BY <1>1 DEF IInv, LookupTypeOK
<1>4. LookupTypeOK'
  BY <1>1, <1>2, <1>3 DEF IInv, LookupTypeOK
<1>5. ASSUME label # Unlabelled, NEW m \in DOMAIN cache \ (touched' \cup misfiled)
      PROVE  cache[m] = FirstDir(label, m, Executable)'
  <2>1. m # n /\ m \in names /\ m \notin touched \cup misfiled
    BY <1>1, <1>5 DEF IInv, LookupTypeOK
  <2>2. label \in PathValues \cup {<<>>}
    BY <1>5 DEF IInv, LookupTypeOK
  <2>3. ASSUME NEW j \in DOMAIN label
        PROVE  there'[Place(label[j])'][m] = there[Place(label[j])][m]
    <3>1. Place(label[j])' = Place(label[j]) /\ Place(label[j]) \in Dirs
      BY <1>2, <2>2, PlacesAreDirs DEF Place, IInv
    <3>2. \A e \in Dirs : there'[e][m] = there[e][m]
      BY <1>1, <2>1 DEF IInv, LookupTypeOK
    <3> QED
      BY <3>1, <3>2
  <2>4. FirstDir(label, m, Executable)' = FirstDir(label, m, Executable)
    <3> DEFINE hits == {k \in DOMAIN label : there[Place(label[k])][m] \in Executable}
    <3>1. hits' = hits
      BY <1>2, <2>3 DEF Executable
    <3>2. FirstDir(label, m, Executable) = IF hits = {} THEN NotFound
                                           ELSE label[CHOOSE k \in hits : \A j \in hits : k <= j]
      BY DEF FirstDir
    <3>3. FirstDir(label, m, Executable)' = IF hits' = {} THEN NotFound
                                            ELSE label'[CHOOSE k \in hits' : \A j \in hits' : k <= j]
      BY DEF FirstDir
    <3> HIDE DEF hits
    <3> QED
      BY <1>2, <3>1, <3>2, <3>3 DEF NotFound
  <2> QED
    BY <1>5, <2>1, <2>4 DEF IInv, CacheTruthful
<1>6. CacheTruthful'
  BY <1>2, <1>5 DEF IInv, CacheTruthful
<1> QED
  BY <1>4, <1>6, NothingJudged DEF IInv

(* The working directory changes: that touches every name remembered under *)
(* a PATH with ".", and no search of another PATH.                         *)
LEMMA CdKeeps ==
  ASSUME IInv, ran' = NothingRan, Cd
  PROVE  IInv'
<1>1. /\ cwd' \in Dirs
      /\ touched' = touched \cup {n \in DOMAIN cache : \E k \in DOMAIN label : label[k] = "."}
  BY DEF Cd
<1>2. UNCHANGED <<names, kinds, path, there, functions, aliases, cache, label, misfiled>>
  BY DEF Cd, world, tables
<1>3. LookupTypeOK'
  BY <1>1, <1>2 DEF IInv, LookupTypeOK
<1>4. ASSUME label # Unlabelled, NEW m \in DOMAIN cache \ (touched' \cup misfiled)
      PROVE  cache[m] = FirstDir(label, m, Executable)'
  <2>1. m \notin touched \cup misfiled /\ \A k \in DOMAIN label : label[k] # "."
    BY <1>1, <1>4
  <2>2. \A k \in DOMAIN label : Place(label[k])' = Place(label[k])
    BY <1>2, <2>1 DEF Place
  <2>3. FirstDir(label, m, Executable)' = FirstDir(label, m, Executable)
    <3> DEFINE hits == {k \in DOMAIN label : there[Place(label[k])][m] \in Executable}
    <3>1. hits' = hits
      BY <1>2, <2>2 DEF Executable
    <3>2. FirstDir(label, m, Executable) = IF hits = {} THEN NotFound
                                           ELSE label[CHOOSE k \in hits : \A j \in hits : k <= j]
      BY DEF FirstDir
    <3>3. FirstDir(label, m, Executable)' = IF hits' = {} THEN NotFound
                                            ELSE label'[CHOOSE k \in hits' : \A j \in hits' : k <= j]
      BY DEF FirstDir
    <3> HIDE DEF hits
    <3> QED
      BY <1>2, <3>1, <3>2, <3>3 DEF NotFound
  <2> QED
    BY <1>4, <2>1, <2>3 DEF IInv, CacheTruthful
<1>5. CacheTruthful'
  BY <1>2, <1>4 DEF IInv, CacheTruthful
<1> QED
  BY <1>3, <1>5, NothingJudged DEF IInv

(* A step of something else.                                               *)
LEMMA StutterKeeps == ASSUME IInv, UNCHANGED lookupVars PROVE IInv'
<1>1. UNCHANGED <<names, kinds, path, there, cwd, functions, aliases, memory, ran>>
  BY DEF lookupVars, world, tables
<1>2. PathResolveWith(ran.asked, ran.name)' = PathResolveWith(ran.asked, ran.name)
  <2>1. FirstDir(ran.asked, ran.name, Executable)' = FirstDir(ran.asked, ran.name, Executable)
    BY <1>1 DEF FirstDir, Place, Executable
  <2> QED
    BY <1>1, <2>1 DEF PathResolveWith
<1>3. FoundOnThePath'
  BY <1>1, <1>2 DEF IInv, FoundOnThePath, memory
<1>4. LookupTypeOK'
  BY <1>1 DEF IInv, LookupTypeOK, memory
<1> QED
  BY <1>1, <1>3, <1>4, MemoryStays DEF IInv

LEMMA NextKeeps == ASSUME IInv, [Next]_lookupVars PROVE IInv'
<1>1. CASE Run
  BY <1>1, RunCommandKeeps DEF Run
<1>2. CASE Command
  BY <1>2, RunCommandKeeps DEF Command
<1>3. CASE CommandP
  BY <1>3, RunCommandKeeps DEF CommandP
<1>4. CASE Other /\ ran' = NothingRan
  BY <1>4, HashKeeps, HashRKeeps, DefineKeeps, TablesKeep, InstallKeeps, CdKeeps DEF Other
<1>5. CASE UNCHANGED lookupVars
  BY <1>5, StutterKeeps
<1> QED
  BY <1>1, <1>2, <1>3, <1>4, <1>5 DEF Next

-----------------------------------------------------------------------------
(* What the shell says of a name.                                          *)

(* Where a name is a plain file or none in every directory, the test of    *)
(* `type` and that of the search find the same.                            *)
LEMMA TestsAgree ==
  ASSUME LookupTypeOK, NEW n \in names, \A d \in Dirs : there[d][n] \in {"none", "exec"}
  PROVE  FirstDir(PathValue, n, OwnersExecute) = FirstDir(PathValue, n, Executable)
<1> DEFINE hits(wanted) == {k \in DOMAIN PathValue : there[Place(PathValue[k])][n] \in wanted}
           first(S) == IF S = {} THEN NotFound ELSE PathValue[CHOOSE k \in S : \A j \in S : k <= j]
<1>1. \A k \in DOMAIN PathValue : there[Place(PathValue[k])][n] \in {"none", "exec"}
  BY SearchesPathValue, PlacesAreDirs
<1>2. hits(OwnersExecute) = hits(Executable)
  BY <1>1 DEF OwnersExecute, Executable
<1>3. /\ FirstDir(PathValue, n, OwnersExecute) = first(hits(OwnersExecute))
      /\ FirstDir(PathValue, n, Executable) = first(hits(Executable))
  BY DEF FirstDir
<1> HIDE DEF hits, first
<1> QED
  BY <1>2, <1>3

(* `type` and command -v follow the order of the dispatch to the end.      *)
LEMMA ToldAsRun == IInv => TellsWhatRuns
<1> SUFFICES ASSUME IInv, NEW n \in names,
                    n \notin functions \cap SpecialBuiltins, n \notin touched \cup misfiled,
                    path.exported, \A d \in Dirs : there[d][n] \in {"none", "exec"}
             PROVE  /\ TypeOf(n) = WouldRun(n)
                    /\ n \notin aliases => CommandV(n) = WouldRun(n)
  BY DEF TellsWhatRuns
<1>1. Found(n) = PathResolveWith(path.value, n)
  <2>1. CASE path.value = NoPath
    BY <2>1, NoPathFindsNothing DEF Found, GetenvPath
  <2>2. CASE path.value # NoPath
    BY <2>2, TestsAgree DEF IInv, Found, GetenvPath, PathValue, PathResolveWith
  <2> QED
    BY <2>1, <2>2
<1>2. PathCacheGet(n) = Found(n)
  BY <1>1, CacheAnswers
<1>3. n \notin aliases => CommandV(n) = WouldRun(n)
  <2>1. CASE n \in Keywords
    BY <2>1 DEF CommandV, WouldRun
  <2>2. CASE n \notin Keywords /\ n \in functions
    BY <2>2 DEF CommandV, WouldRun, Dispatch
  <2>3. CASE n \notin Keywords /\ n \notin functions /\ n \in Builtins
    BY <2>3 DEF CommandV, BuiltinOrFound, WouldRun, Dispatch, Builtins
  <2>4. CASE n \notin Keywords /\ n \notin functions /\ n \notin Builtins
    BY <2>4, <1>2 DEF CommandV, BuiltinOrFound, WouldRun, Dispatch, Builtins
  <2> QED
    BY <2>1, <2>2, <2>3, <2>4
<1> QED
  BY <1>3 DEF TypeOf, WouldRun

-----------------------------------------------------------------------------
(* The results.                                                            *)

(* The search's state has its type, whatever a script does.                *)
THEOREM LookupTypeCorrect == Spec => []LookupTypeOK
<1>1. IInv => LookupTypeOK
  BY DEF IInv
<1> QED
  BY <1>1, InitIsInv, NextKeeps, PTL DEF Spec

(* A command runs the first executable file of the PATH it was asked       *)
(* under, and `type` and command -v say so beforehand, for any names and   *)
(* directories, and any sequence of searches, prefixes, definitions and    *)
(* changes of PATH, of files and of the working directory.                 *)
THEOREM CommandsFound == Spec => []CommandsAreFound
<1>1. IInv => CommandsAreFound
  BY ToldAsRun DEF IInv, CommandsAreFound
<1> QED
  BY <1>1, InitIsInv, NextKeeps, PTL DEF Spec
=============================================================================
