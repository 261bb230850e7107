--------------------------- MODULE ModuleRegistry ---------------------------
(***************************************************************************)
(* The modules that add options to applets (module/registry.c and          *)
(* module/loader.c).  An applet that meets an option it does not know asks *)
(* the registry, which remembers what it found, that nothing was found     *)
(* included, until the modification time of the first module directory     *)
(* changes.  A scan loads the libraries it meets, one after another, by    *)
(* way of descriptors that are kept for as long as the shell runs; others  *)
(* may install and remove libraries meanwhile.                             *)
(*                                                                         *)
(* A library is a file of its own: one that is replaced is another.        *)
(***************************************************************************)
EXTENDS Naturals, FiniteSets, Sequences

CONSTANTS Libraries,      \* names to records: tool, flags, whether owner and mode
                          \* are `safe`, and init function, API and libc `sound`
          Requests,       \* pairs <<tool, flag>>
          ModuleDirs, ModulePaths,
          FirstFree,      \* the lowest descriptor the script leaves free
          MaxHeld,        \* as many as may be open: the limit on descriptors
          MaxTime,        \* bound on the clock, in seconds
          MaxChanges      \* bound on the libraries that come or go and the paths set

Libs      == DOMAIN Libraries
NoModule  == ""
NoRequest == <<>>

ASSUME RegistryAssumption ==
  /\ NoModule \notin Libs /\ NoRequest \notin Requests
  /\ ModulePaths \subseteq Seq(ModuleDirs) \ {<<>>}
  /\ FirstFree \in Nat /\ MaxHeld \in Nat /\ MaxTime \in Nat \ {0} /\ MaxChanges \in Nat

VARIABLES modulePath,     \* SILEX_MODULE_PATH, or the directory it stands in for
          content,        \* the libraries in each directory
          dirTimes,       \* the modification time of each directory
          clock,
          entries,        \* buckets: requests to what is remembered of them
          dirMtime,       \* dir_mtime
          scan,           \* the scan under way: what for, the number of the
                          \* directory, what it listed when opened, what is read
          held,           \* the descriptors kept, to the library each is open on
          named,          \* dlopen's table: descriptors in /proc/self/fd to objects
          changes,        \* so many
          changed,        \* history: a directory or the path changed since the
                          \* entries were last cleared
          closed,         \* history: the script has closed a descriptor of `held`
          missed          \* history: the requests in whose scan a directory or a
                          \* library could not be opened

registryVars == <<modulePath, content, dirTimes, clock, entries, dirMtime, scan, held, named, changes, changed, closed, missed>>
surroundings == <<modulePath, content, dirTimes, clock, changes>>

Negative  == [file |-> "", module |-> NoModule]
NoEntries == [r \in {} |-> Negative]
Offers(l, request) == request[1] = Libraries[l].tool /\ request[2] \in Libraries[l].flags

ScanOf(request, dir, listed, read) == [request |-> request, dir |-> dir, listed |-> listed, read |-> read]
NoScan == ScanOf(NoRequest, 0, {}, {})
Idle   == scan.request = NoRequest

RegistryTypeOK ==
  /\ modulePath \in ModulePaths
  /\ content \in [ModuleDirs -> SUBSET Libs] /\ dirTimes \in [ModuleDirs -> 1 .. MaxTime]
  /\ changes \in 0 .. MaxChanges /\ clock \in 1 .. MaxTime /\ dirMtime \in 0 .. MaxTime
  /\ DOMAIN entries \subseteq Requests
  /\ missed \subseteq Requests
  /\ \A r \in DOMAIN entries : entries[r] \in [file : Libs, module : Libs] \cup {Negative}
  /\ scan \in {NoScan} \cup [request : Requests, dir : 0 .. Len(modulePath),
                             listed : SUBSET Libs, read : SUBSET Libs]
  /\ IsFiniteSet(DOMAIN held) /\ Cardinality(DOMAIN held) <= MaxHeld
  /\ \A fd \in DOMAIN held : held[fd] \in Libs
  /\ \A fd \in DOMAIN named : named[fd] \in Libs /\ Libraries[named[fd]].sound

-----------------------------------------------------------------------------
(* module_load.                                                            *)

With(f, k, v) == [j \in DOMAIN f \cup {k} |-> IF j = k THEN v ELSE f[j]]
LowestFree == CHOOSE fd \in FirstFree .. FirstFree + MaxHeld :
                /\ fd \notin DOMAIN held
                /\ \A k \in FirstFree .. fd - 1 : k \in DOMAIN held

(* dlopen of /proc/self/fd/N: by name if the name is known, else by file.  *)
Object(l) == IF LowestFree \in DOMAIN named THEN named[LowestFree] ELSE l

(* What it returns if no call fails.                                       *)
Loaded(l) == IF Libraries[l].safe /\ Libraries[Object(l)].sound THEN Object(l) ELSE NoModule

(* As it once was: the descriptor is closed.                               *)
ModuleLoadClosing(l, module) ==
  \/ /\ module = Loaded(l) /\ Cardinality(DOMAIN held) < MaxHeld
     /\ named' = IF module # NoModule THEN With(named, LowestFree, Object(l)) ELSE named
     /\ UNCHANGED held
  \/ module = NoModule /\ UNCHANGED <<held, named>>

(* It returns `module`.  A library that is not sound is unloaded again;    *)
(* that takes its name from it, the descriptor stays.  A library that is   *)
(* not safe is refused; and any call before dlopen has an object may fail, *)
(* as open does when all descriptors are in use: what was opened is closed.*)
ModuleLoad(l, module) ==
  \/ /\ Libraries[l].safe /\ module = Loaded(l) /\ Cardinality(DOMAIN held) < MaxHeld
     /\ held' = With(held, LowestFree, l)
     /\ named' = IF module # NoModule THEN With(named, LowestFree, Object(l)) ELSE named
  \/ module = NoModule /\ UNCHANGED <<held, named>>

-----------------------------------------------------------------------------
(* registry_lookup.                                                        *)

FirstMtime == dirTimes[modulePath[1]]

(* Without the clearing.                                                   *)
CheckInvalidateKeeping == entries
CheckInvalidate == IF FirstMtime = dirMtime THEN entries ELSE NoEntries

(* From memory, or a scan begins.                                          *)
RegistryLookup(request) ==
  /\ Idle
  /\ entries' = CheckInvalidate /\ dirMtime' = FirstMtime
  /\ changed' = (changed /\ FirstMtime = dirMtime)
  /\ scan' = IF request \in DOMAIN CheckInvalidate THEN NoScan ELSE ScanOf(request, 0, {}, {})
  /\ missed' = missed \cap DOMAIN CheckInvalidate
  /\ UNCHANGED <<surroundings, held, named, closed>>

Lookup == \E request \in Requests : RegistryLookup(request)

(* registry_register: what is there stays.                                 *)
Register(tool, module, file) ==
  LET new == {r \in Requests : r[1] = tool /\ r[2] \in Libraries[module].flags} \ DOMAIN entries
  IN [r \in DOMAIN entries \cup new |->
        IF r \in new THEN [file |-> file, module |-> module] ELSE entries[r]]

(* scan_dir: the next library, in an order of readdir's, which may leave   *)
(* out one that came since opendir and list one that is gone.  One that    *)
(* cannot be loaded is passed over.                                        *)
ReadDir ==
  /\ ~Idle /\ scan.dir > 0
  /\ LET here == content[modulePath[scan.dir]]
         Answers(module) == module # NoModule /\ Offers(module, scan.request)
     IN \E l \in (scan.listed \cup here) \ scan.read, module \in Libs \cup {NoModule} :
          /\ \/ /\ l \in here /\ ModuleLoad(l, module) /\ Answers(module)
                /\ entries' = Register(scan.request[1], module, l) /\ scan' = NoScan
             \/ /\ IF l \in here THEN ModuleLoad(l, module) /\ ~Answers(module)
                                 ELSE module = Loaded(l) /\ UNCHANGED <<held, named>>
                /\ scan' = [scan EXCEPT !.read = @ \cup {l}] /\ UNCHANGED entries
          /\ missed' = missed \cup {r \in {scan.request} : module # Loaded(l)}
  /\ UNCHANGED <<surroundings, dirMtime, changed, closed>>

(* The end of a directory: the next that opendir can open, or none is left *)
(* and nothing was found.                                                  *)
EndDir ==
  /\ ~Idle /\ (scan.dir > 0 => scan.listed \cap content[modulePath[scan.dir]] \subseteq scan.read)
  /\ \E next \in scan.dir + 1 .. Len(modulePath) + 1 :
       /\ \/ /\ next <= Len(modulePath)
             /\ scan' = ScanOf(scan.request, next, content[modulePath[next]], {})
             /\ UNCHANGED entries
          \/ /\ next > Len(modulePath)
             /\ scan' = NoScan /\ entries' = With(entries, scan.request, Negative)
       /\ missed' = missed \cup {r \in {scan.request} : next > scan.dir + 1}
  /\ UNCHANGED <<surroundings, dirMtime, held, named, changed, closed>>

-----------------------------------------------------------------------------
(* Around the registry: the clock and other processes at any time, the     *)
(* script itself between two look-ups.                                     *)

Tick == /\ clock < MaxTime /\ clock' = clock + 1
        /\ UNCHANGED <<modulePath, content, dirTimes, entries, dirMtime, scan, held, named, changes, changed, closed, missed>>

Change == /\ \E d \in ModuleDirs, l \in Libs :
               /\ content' = [content EXCEPT ![d] = IF l \in @ THEN @ \ {l} ELSE @ \cup {l}]
               /\ dirTimes' = [dirTimes EXCEPT ![d] = clock]
          /\ changed' = TRUE /\ changes < MaxChanges /\ changes' = changes + 1
          /\ UNCHANGED <<modulePath, clock, entries, dirMtime, scan, held, named, closed, missed>>

SetPath == /\ Idle /\ modulePath' \in ModulePaths
           /\ changed' = TRUE /\ changes < MaxChanges /\ changes' = changes + 1
           /\ UNCHANGED <<content, dirTimes, clock, entries, dirMtime, scan, held, named, closed, missed>>

(* exec N>&- by a script that believes N its own; once is enough.          *)
CloseHeld == /\ Idle /\ ~closed
             /\ \E fd \in DOMAIN held :
                  held' = [k \in DOMAIN held \ {fd} |-> held[k]]
             /\ closed' = TRUE
             /\ UNCHANGED <<surroundings, entries, dirMtime, scan, named, changed, missed>>

RegistryInit ==
        /\ modulePath \in ModulePaths
        /\ content \in [ModuleDirs -> {{}} \cup {{l} : l \in Libs}]
        /\ dirTimes = [d \in ModuleDirs |-> 1] /\ clock = 1
        /\ entries = NoEntries /\ dirMtime = 0 /\ scan = NoScan
        /\ held = [fd \in {} |-> ""] /\ named = [fd \in {} |-> ""]
        /\ changes = 0 /\ changed = FALSE /\ closed = FALSE /\ missed = {}

RegistryNext == Lookup \/ ReadDir \/ EndDir \/ Tick \/ Change \/ SetPath \/ CloseHeld

RegistrySpec == RegistryInit /\ [][RegistryNext]_registryVars

-----------------------------------------------------------------------------
OnThePath(l) == \E k \in 1 .. Len(modulePath) : l \in content[modulePath[k]]
Provides(l, request) == Libraries[l].safe /\ Libraries[l].sound /\ Offers(l, request)
Providers(request) == {l \in Libs : OnThePath(l) /\ Provides(l, request)}

(* What registry_lookup would answer from memory.                          *)
Remembered(request) == CheckInvalidate[request]
AnswersAsScanned(request) ==
  IF Remembered(request) = Negative THEN request \in missed \/ Providers(request) = {}
  ELSE Remembered(request).file \in Providers(request)

(* What the registry remembers of a request is what the directories hold:  *)
(* a library that offers the option or, if all could be opened when it was *)
(* looked for, that none does; unless a change came that the modification  *)
(* time of the first directory does not show: one of another directory, of *)
(* the path, or of the same second.                                        *)
RemembersTheDirectories ==
  ~closed => \A request \in DOMAIN CheckInvalidate :
               ~changed \/ FirstMtime # dirMtime => AnswersAsScanned(request)

(* The module that answers is the one of the file that was checked: every  *)
(* library is opened by a name that names no other.                        *)
ModuleIsTheFiles ==
  ~closed => \A request \in DOMAIN entries :
               entries[request] # Negative => entries[request].module = entries[request].file

(* The answer of the registry is that of the files, and of the right one,  *)
(* also when libraries come and go, or cannot be opened, in the middle of  *)
(* a scan.                                                                 *)
ModulesAreTheFiles == RemembersTheDirectories /\ ModuleIsTheFiles

(* "Nothing provides this flag.  Remember that" (registry.c:349).          *)
NegativeMeansNobody ==
  \A request \in DOMAIN CheckInvalidate :
    Remembered(request) = Negative /\ ~changed /\ ~closed => Providers(request) = {}

(* "Dropping a new module in is still picked up" (registry.c:53).          *)
NewModulesArePickedUp ==
  \A request \in DOMAIN CheckInvalidate :
    Remembered(request) = Negative /\ ~closed => Providers(request) = {}

(* "Retained descriptors cannot collide" (loader.c:226).                   *)
DescriptorsNeverCollide ==
  \A request \in DOMAIN entries :
    entries[request] # Negative => entries[request].module = entries[request].file
=============================================================================
