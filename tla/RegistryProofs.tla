--------------------------- MODULE RegistryProofs ---------------------------
(***************************************************************************)
(* The answers of the module registry (module/registry.c, module/loader.c) *)
(* are those of the directories, and of the library that was checked: for  *)
(* any libraries, directories and requests, also while other processes     *)
(* install and remove libraries in the middle of a scan.                   *)
(***************************************************************************)
EXTENDS ModuleRegistry, FiniteSetTheorems, WellFoundedInduction, TLAPS

-----------------------------------------------------------------------------
(* The inductive invariant.                                                *)

(* A name that dlopen knows is that of a descriptor still held.            *)
NamesAreHeld == DOMAIN named \subseteq DOMAIN held

(* What is remembered of a request, compared with the directories.         *)
Right(request, e) ==
  IF e = Negative THEN request \in missed \/ Providers(request) = {} ELSE e.file \in Providers(request)

(* What the scan has passed over does not offer what is asked, if all of   *)
(* it could be opened.                                                     *)
PassedOver ==
  /\ \A k \in 1 .. scan.dir - 1 : \A l \in content[modulePath[k]] : ~Provides(l, scan.request)
  /\ \A l \in scan.read : ~Provides(l, scan.request)

NothingYet ==
  /\ scan.dir > 0 => scan.listed = content[modulePath[scan.dir]]
  /\ scan.request \notin missed => PassedOver

InOrder == /\ NamesAreHeld /\ ModuleIsTheFiles
           /\ ~changed => /\ \A r \in DOMAIN entries : Right(r, entries[r])
                          /\ ~Idle => NothingYet

RegistryInv == RegistryTypeOK /\ (~closed => InOrder)

-----------------------------------------------------------------------------
(* A set of numbers with a member has a least one.                         *)
LEMMA LeastIn ==
  ASSUME NEW S \in SUBSET Nat, S # {}
  PROVE  \E k \in S : \A m \in S : k <= m
<1>1. \E k \in S : \A m \in S : ~(<<m, k>> \in OpToRel(<, Nat))
  BY WFMin, NatLessThanWellFounded
<1>2. PICK k \in S : \A m \in S : ~(m < k)
  BY <1>1 DEF OpToRel
<1> QED
  BY <1>2

(* There is a lowest descriptor that is not held.                          *)
LEMMA LowestIsFree ==
  ASSUME RegistryTypeOK
  PROVE  LowestFree \in Nat /\ LowestFree \notin DOMAIN held
<1> DEFINE All == FirstFree .. FirstFree + MaxHeld
           Free == All \ DOMAIN held
<1>1. IsFiniteSet(All) /\ Cardinality(All) = MaxHeld + 1
  BY FS_Interval, RegistryAssumption
<1>2. IsFiniteSet(DOMAIN held) /\ Cardinality(DOMAIN held) \in Nat
  BY FS_CardinalityType DEF RegistryTypeOK
<1>3. Free # {}
  <2> SUFFICES ASSUME All \subseteq DOMAIN held PROVE FALSE
    OBVIOUS
  <2>1. Cardinality(All) <= Cardinality(DOMAIN held)
    BY <1>2, FS_Subset
  <2> QED
    BY <1>1, <1>2, <2>1, RegistryAssumption DEF RegistryTypeOK
<1>4. Free \in SUBSET Nat
  BY RegistryAssumption
<1>5. PICK fd \in Free : \A m \in Free : fd <= m
  BY <1>3, <1>4, LeastIn
<1>6. \A k \in FirstFree .. fd - 1 : k \in DOMAIN held
  BY <1>4, <1>5, RegistryAssumption
<1>7. \E n \in All : n \notin DOMAIN held /\ \A k \in FirstFree .. n - 1 : k \in DOMAIN held
  BY <1>5, <1>6
<1>8. LowestFree \in All /\ LowestFree \notin DOMAIN held
  BY <1>7 DEF LowestFree
<1> QED
  BY <1>8, RegistryAssumption

(* The first directory, and its time.                                      *)
LEMMA FirstIsThere ==
  ASSUME RegistryTypeOK
  PROVE  /\ modulePath \in Seq(ModuleDirs) /\ Len(modulePath) \in Nat
         /\ \A k \in 1 .. Len(modulePath) : modulePath[k] \in ModuleDirs
         /\ FirstMtime \in 1 .. MaxTime
<1>1. modulePath \in Seq(ModuleDirs) /\ modulePath # <<>>
  BY RegistryAssumption DEF RegistryTypeOK
<1>2. Len(modulePath) \in Nat \ {0} /\ \A k \in 1 .. Len(modulePath) : modulePath[k] \in ModuleDirs
  BY <1>1
<1>3. modulePath[1] \in ModuleDirs
  BY <1>2
<1> QED
  BY <1>1, <1>2, <1>3 DEF RegistryTypeOK, FirstMtime

(* A scan under way has a request.                                         *)
LEMMA ScanRead ==
  ASSUME RegistryTypeOK
  PROVE  /\ Idle => scan = NoScan
         /\ ~Idle => /\ scan.request \in Requests /\ scan.dir \in 0 .. Len(modulePath)
                     /\ scan.listed \in SUBSET Libs /\ scan.read \in SUBSET Libs
                     /\ scan = ScanOf(scan.request, scan.dir, scan.listed, scan.read)
BY RegistryAssumption DEF RegistryTypeOK, Idle, NoScan, ScanOf

(* Descriptors, and dlopen's names for them.                               *)
DescriptorsOK(h, n) ==
  /\ IsFiniteSet(DOMAIN h) /\ Cardinality(DOMAIN h) <= MaxHeld
  /\ \A fd \in DOMAIN h : h[fd] \in Libs
  /\ \A fd \in DOMAIN n : n[fd] \in Libs /\ Libraries[n[fd]].sound

LEMMA WithRead ==
  ASSUME NEW f, NEW k, NEW v
  PROVE  /\ DOMAIN With(f, k, v) = DOMAIN f \cup {k}
         /\ \A j \in DOMAIN f \cup {k} : With(f, k, v)[j] = IF j = k THEN v ELSE f[j]
BY DEF With

(* What module_load returns is a library that is sound.                    *)
LEMMA LoadedIs ==
  ASSUME RegistryTypeOK, NEW l \in Libs
  PROVE  /\ Object(l) \in Libs
         /\ Loaded(l) # NoModule => /\ Loaded(l) = Object(l) /\ Libraries[l].safe
                                    /\ Libraries[Object(l)].sound
         /\ Libraries[l].safe /\ Libraries[Object(l)].sound => Loaded(l) = Object(l) /\ Loaded(l) # NoModule
<1>1. Object(l) \in Libs
  BY DEF Object, RegistryTypeOK
<1>2. Object(l) # NoModule
  BY <1>1, RegistryAssumption
<1> QED
  BY <1>1, <1>2 DEF Loaded

(* module_load adds a descriptor, and a name for it or none.               *)
LEMMA LoadKeepsDescriptors ==
  ASSUME RegistryTypeOK, NEW l \in Libs, NEW module, ModuleLoad(l, module)
  PROVE  /\ DescriptorsOK(held', named')
         /\ NamesAreHeld => NamesAreHeld'
<1>1. CASE UNCHANGED <<held, named>>
  BY <1>1 DEF DescriptorsOK, RegistryTypeOK, NamesAreHeld
<1>2. CASE /\ module = Loaded(l) /\ Cardinality(DOMAIN held) < MaxHeld
           /\ held' = With(held, LowestFree, l)
           /\ named' = IF module # NoModule THEN With(named, LowestFree, Object(l)) ELSE named
  <2>1. LowestFree \notin DOMAIN held
    BY <1>2, LowestIsFree
  <2>2. IsFiniteSet(DOMAIN held) /\ Cardinality(DOMAIN held) \in Nat
    BY FS_CardinalityType DEF RegistryTypeOK
  <2>3. DOMAIN held' = DOMAIN held \cup {LowestFree}
    BY <1>2, WithRead
  <2>4. IsFiniteSet(DOMAIN held') /\ Cardinality(DOMAIN held') = Cardinality(DOMAIN held) + 1
    BY <2>1, <2>2, <2>3, FS_AddElement
  <2>5. Cardinality(DOMAIN held') <= MaxHeld
    BY <1>2, <2>2, <2>4, RegistryAssumption
  <2>6. \A fd \in DOMAIN held' : held'[fd] \in Libs
    <3>1. held' = With(held, LowestFree, l)
      BY <1>2
    <3>2. \A fd \in DOMAIN held' : held'[fd] = l \/ (fd \in DOMAIN held /\ held'[fd] = held[fd])
      BY <3>1 DEF With
    <3> QED
      BY <3>2 DEF RegistryTypeOK
  <2>7. CASE Loaded(l) = NoModule
    <3>1. named' = named
      BY <1>2, <2>7
    <3> QED
      BY <2>3, <2>4, <2>5, <2>6, <3>1 DEF DescriptorsOK, RegistryTypeOK, NamesAreHeld
  <2>8. CASE Loaded(l) # NoModule
    <3>1. named' = With(named, LowestFree, Object(l))
      BY <1>2, <2>8
    <3>2. DOMAIN named' = DOMAIN named \cup {LowestFree}
      BY <3>1, WithRead
    <3>3. Object(l) \in Libs /\ Libraries[Object(l)].sound
      BY <2>8, LoadedIs
    <3>4. \A fd \in DOMAIN named' : named'[fd] = Object(l) \/ (fd \in DOMAIN named /\ named'[fd] = named[fd])
      BY <3>1 DEF With
    <3>5. \A fd \in DOMAIN named' : named'[fd] \in Libs /\ Libraries[named'[fd]].sound
      BY <3>3, <3>4 DEF RegistryTypeOK
    <3> QED
      BY <2>3, <2>4, <2>5, <2>6, <3>2, <3>5 DEF DescriptorsOK, NamesAreHeld
  <2> QED
    BY <2>7, <2>8
<1> QED
  BY <1>1, <1>2 DEF ModuleLoad

(* While the descriptors are left alone, the object is that of the file.   *)
LEMMA LoadedIsTheFile ==
  ASSUME RegistryTypeOK, NamesAreHeld, NEW l \in Libs
  PROVE  /\ Loaded(l) = IF Libraries[l].safe /\ Libraries[l].sound THEN l ELSE NoModule
         /\ l # NoModule
<1>1. LowestFree \notin DOMAIN held
  BY LowestIsFree
<1>2. Object(l) = l
  BY <1>1 DEF Object, NamesAreHeld
<1> QED
  BY <1>2, RegistryAssumption DEF Loaded

-----------------------------------------------------------------------------
(* Type correctness.                                                       *)

EntriesOK(e) ==
  /\ DOMAIN e \subseteq Requests
  /\ \A r \in DOMAIN e : e[r] \in [file : Libs, module : Libs] \cup {Negative}

ScanOK(s, path) ==
  s \in {NoScan} \cup [request : Requests, dir : 0 .. Len(path),
                       listed : SUBSET Libs, read : SUBSET Libs]

LEMMA EntriesRemembered ==
  ASSUME RegistryTypeOK
  PROVE  EntriesOK(entries) /\ EntriesOK(CheckInvalidate)
BY DEF RegistryTypeOK, EntriesOK, CheckInvalidate, NoEntries

(* What registry_register adds is the module, under requests it meets.     *)
LEMMA Registered ==
  ASSUME NEW tool, NEW module, NEW file
  PROVE  LET e == Register(tool, module, file)
         IN  \A r \in DOMAIN e :
               \/ r \in DOMAIN entries /\ e[r] = entries[r]
               \/ /\ r \in Requests /\ r[1] = tool /\ r[2] \in Libraries[module].flags
                  /\ e[r] = [file |-> file, module |-> module]
BY DEF Register

LEMMA RegisterType ==
  ASSUME EntriesOK(entries), NEW tool, NEW module \in Libs, NEW file \in Libs
  PROVE  EntriesOK(Register(tool, module, file))
<1> DEFINE e == Register(tool, module, file)
<1>1. \A r \in DOMAIN e : \/ r \in DOMAIN entries /\ e[r] = entries[r]
                          \/ r \in Requests /\ e[r] = [file |-> file, module |-> module]
  BY Registered
<1> HIDE DEF e
<1>2. EntriesOK(e)
  BY <1>1 DEF EntriesOK
<1> QED
  BY <1>2 DEF e

LEMMA NegativeType ==
  ASSUME EntriesOK(entries), NEW request \in Requests
  PROVE  EntriesOK(With(entries, request, Negative))
<1> DEFINE e == With(entries, request, Negative)
<1>1. DOMAIN e = DOMAIN entries \cup {request}
      /\ \A r \in DOMAIN e : e[r] = Negative \/ (r \in DOMAIN entries /\ e[r] = entries[r])
  BY DEF With
<1> HIDE DEF e
<1>2. EntriesOK(e)
  BY <1>1 DEF EntriesOK
<1> QED
  BY <1>2 DEF e

LEMMA TypeInit == RegistryInit => RegistryTypeOK
<1> SUFFICES ASSUME RegistryInit PROVE RegistryTypeOK
  OBVIOUS
<1>1. content \in [ModuleDirs -> SUBSET Libs]
  BY DEF RegistryInit
<1>2. dirTimes \in [ModuleDirs -> 1 .. MaxTime] /\ clock \in 1 .. MaxTime /\ dirMtime \in 0 .. MaxTime
      /\ changes \in 0 .. MaxChanges
  BY RegistryAssumption DEF RegistryInit
<1>3. DOMAIN held = {} /\ DOMAIN named = {} /\ DOMAIN entries = {}
  BY DEF RegistryInit, NoEntries
<1>4. IsFiniteSet(DOMAIN held) /\ Cardinality(DOMAIN held) <= MaxHeld
  BY <1>3, FS_EmptySet, RegistryAssumption
<1> QED
  BY <1>1, <1>2, <1>3, <1>4 DEF RegistryInit, RegistryTypeOK

(* The types, in parts.                                                    *)
LEMMA TypeParts ==
  RegistryTypeOK <=>
    /\ modulePath \in ModulePaths
    /\ content \in [ModuleDirs -> SUBSET Libs] /\ dirTimes \in [ModuleDirs -> 1 .. MaxTime]
    /\ changes \in 0 .. MaxChanges /\ clock \in 1 .. MaxTime /\ dirMtime \in 0 .. MaxTime
    /\ EntriesOK(entries) /\ ScanOK(scan, modulePath) /\ DescriptorsOK(held, named)
    /\ missed \subseteq Requests
BY DEF RegistryTypeOK, EntriesOK, ScanOK, DescriptorsOK

(* Opening a directory, and reading a library of it.                       *)
LEMMA ScanOfType ==
  ASSUME NEW path, NEW request \in Requests, NEW d \in 0 .. Len(path),
         NEW listed \in SUBSET Libs, NEW read \in SUBSET Libs
  PROVE  ScanOK(ScanOf(request, d, listed, read), path)
BY DEF ScanOK, ScanOf

LEMMA TypeStep == RegistryTypeOK /\ [RegistryNext]_registryVars => RegistryTypeOK'
<1> SUFFICES ASSUME RegistryTypeOK, [RegistryNext]_registryVars PROVE RegistryTypeOK'
  OBVIOUS
<1>t. /\ modulePath \in ModulePaths
      /\ content \in [ModuleDirs -> SUBSET Libs] /\ dirTimes \in [ModuleDirs -> 1 .. MaxTime]
      /\ changes \in 0 .. MaxChanges /\ clock \in 1 .. MaxTime /\ dirMtime \in 0 .. MaxTime
      /\ EntriesOK(entries) /\ ScanOK(scan, modulePath) /\ DescriptorsOK(held, named)
      /\ missed \subseteq Requests
  BY TypeParts
<1> SUFFICES /\ modulePath' \in ModulePaths
             /\ content' \in [ModuleDirs -> SUBSET Libs] /\ dirTimes' \in [ModuleDirs -> 1 .. MaxTime]
             /\ changes' \in 0 .. MaxChanges /\ clock' \in 1 .. MaxTime /\ dirMtime' \in 0 .. MaxTime
             /\ EntriesOK(entries') /\ ScanOK(scan', modulePath') /\ DescriptorsOK(held', named')
             /\ missed' \subseteq Requests
  BY DEF RegistryTypeOK, EntriesOK, ScanOK, DescriptorsOK
<1>p. /\ modulePath \in Seq(ModuleDirs) /\ Len(modulePath) \in Nat
      /\ \A k \in 1 .. Len(modulePath) : modulePath[k] \in ModuleDirs
      /\ FirstMtime \in 1 .. MaxTime
  BY FirstIsThere
<1>s. /\ Idle => scan = NoScan
      /\ ~Idle => /\ scan.request \in Requests /\ scan.dir \in 0 .. Len(modulePath)
                  /\ scan.listed \in SUBSET Libs /\ scan.read \in SUBSET Libs
                  /\ scan = ScanOf(scan.request, scan.dir, scan.listed, scan.read)
  BY ScanRead
<1>n. ScanOK(NoScan, modulePath) /\ ScanOK(NoScan, modulePath')
  BY DEF ScanOK
<1>1. ASSUME NEW request \in Requests, RegistryLookup(request)
      PROVE  /\ UNCHANGED <<modulePath, content, dirTimes, clock, changes, held, named>>
             /\ dirMtime' \in 0 .. MaxTime /\ EntriesOK(entries') /\ ScanOK(scan', modulePath')
             /\ missed' \subseteq Requests
  <2>1. UNCHANGED <<modulePath, content, dirTimes, clock, changes, held, named>>
    BY <1>1 DEF RegistryLookup, surroundings
  <2>2. entries' = CheckInvalidate /\ dirMtime' = FirstMtime
        /\ (scan' = NoScan \/ scan' = ScanOf(request, 0, {}, {}))
        /\ missed' \subseteq missed
    BY <1>1 DEF RegistryLookup
  <2>3. ScanOK(ScanOf(request, 0, {}, {}), modulePath)
    BY <1>p, ScanOfType
  <2> QED
    BY <1>t, <1>p, <1>n, <2>1, <2>2, <2>3, EntriesRemembered, RegistryAssumption
<1>2. ASSUME ReadDir
      PROVE  /\ UNCHANGED <<modulePath, content, dirTimes, clock, changes, dirMtime>>
             /\ EntriesOK(entries') /\ ScanOK(scan', modulePath') /\ DescriptorsOK(held', named')
             /\ missed' \subseteq Requests
  <2>1. UNCHANGED <<modulePath, content, dirTimes, clock, changes, dirMtime>> /\ ~Idle /\ scan.dir > 0
    BY <1>2 DEF ReadDir, surroundings
  <2> DEFINE here == content[modulePath[scan.dir]]
  <2>2. here \in SUBSET Libs
    BY <1>t, <1>p, <1>s, <2>1
  <2>3. PICK l \in (scan.listed \cup here) \ scan.read, module \in Libs \cup {NoModule} :
          /\ \/ /\ l \in here /\ ModuleLoad(l, module)
                /\ module # NoModule /\ Offers(module, scan.request)
                /\ entries' = Register(scan.request[1], module, l) /\ scan' = NoScan
             \/ /\ IF l \in here
                     THEN ModuleLoad(l, module) /\ ~(module # NoModule /\ Offers(module, scan.request))
                     ELSE module = Loaded(l) /\ UNCHANGED <<held, named>>
                /\ scan' = [scan EXCEPT !.read = @ \cup {l}] /\ UNCHANGED entries
          /\ missed' = missed \cup {r \in {scan.request} : module # Loaded(l)}
    BY <1>2 DEF ReadDir
  <2> HIDE DEF here
  <2>4. l \in Libs
    BY <1>s, <2>1, <2>2
  <2>5. DescriptorsOK(held', named')
    <3>1. CASE ModuleLoad(l, module)
      BY <2>4, <3>1, LoadKeepsDescriptors
    <3>2. CASE UNCHANGED <<held, named>>
      BY <1>t, <3>2
    <3> QED
      BY <2>3, <3>1, <3>2
  <2>m. missed' \subseteq Requests
    BY <1>t, <1>s, <2>1, <2>3
  <2>6. CASE /\ module # NoModule
             /\ entries' = Register(scan.request[1], module, l) /\ scan' = NoScan
    BY <1>t, <1>n, <2>1, <2>4, <2>5, <2>6, <2>m, RegisterType
  <2>7. CASE scan' = [scan EXCEPT !.read = @ \cup {l}] /\ UNCHANGED entries
    <3>1. scan' = ScanOf(scan.request, scan.dir, scan.listed, scan.read \cup {l})
      BY <1>s, <2>1, <2>7 DEF ScanOf
    <3>2. scan.read \cup {l} \in SUBSET Libs
      BY <1>s, <2>1, <2>4
    <3>3. ScanOK(scan', modulePath)
      BY <1>s, <2>1, <3>1, <3>2, ScanOfType
    <3> QED
      BY <1>t, <2>1, <2>5, <2>7, <2>m, <3>3
  <2> QED
    BY <2>3, <2>6, <2>7
<1>3. ASSUME EndDir
      PROVE  /\ UNCHANGED <<modulePath, content, dirTimes, clock, changes, dirMtime, held, named>>
             /\ EntriesOK(entries') /\ ScanOK(scan', modulePath') /\ missed' \subseteq Requests
  <2>1. UNCHANGED <<modulePath, content, dirTimes, clock, changes, dirMtime, held, named>> /\ ~Idle
    BY <1>3 DEF EndDir, surroundings
  <2>2. PICK next \in scan.dir + 1 .. Len(modulePath) + 1 :
          /\ \/ /\ next <= Len(modulePath)
                /\ scan' = ScanOf(scan.request, next, content[modulePath[next]], {})
                /\ UNCHANGED entries
             \/ /\ next > Len(modulePath)
                /\ scan' = NoScan /\ entries' = With(entries, scan.request, Negative)
          /\ missed' = missed \cup {r \in {scan.request} : next > scan.dir + 1}
    BY <1>3 DEF EndDir
  <2>3. missed' \subseteq Requests
    BY <1>t, <1>s, <2>1, <2>2
  <2>4. CASE /\ next <= Len(modulePath)
             /\ scan' = ScanOf(scan.request, next, content[modulePath[next]], {})
             /\ UNCHANGED entries
    <3>1. next \in 1 .. Len(modulePath) /\ next \in 0 .. Len(modulePath)
      BY <1>p, <1>s, <2>1, <2>4
    <3>2. content[modulePath[next]] \in SUBSET Libs
      BY <1>t, <1>p, <3>1
    <3>3. ScanOK(scan', modulePath)
      BY <1>s, <2>1, <2>4, <3>1, <3>2, ScanOfType
    <3> QED
      BY <1>t, <2>1, <2>3, <2>4, <3>3
  <2>5. CASE scan' = NoScan /\ entries' = With(entries, scan.request, Negative)
    BY <1>t, <1>n, <1>s, <2>1, <2>3, <2>5, NegativeType
  <2> QED
    BY <2>2, <2>4, <2>5
<1>4. CASE Tick
  <2>1. clock' \in 1 .. MaxTime
    BY <1>t, <1>4, RegistryAssumption DEF Tick
  <2> QED
    BY <1>t, <1>4, <2>1 DEF Tick
<1>5. CASE Change
  <2>1. PICK d \in ModuleDirs, l \in Libs :
          /\ content' = [content EXCEPT ![d] = IF l \in @ THEN @ \ {l} ELSE @ \cup {l}]
          /\ dirTimes' = [dirTimes EXCEPT ![d] = clock]
    BY <1>5 DEF Change
  <2>2. PICK now : now = IF l \in content[d] THEN content[d] \ {l} ELSE content[d] \cup {l}
    OBVIOUS
  <2>3. now \in SUBSET Libs
    BY <1>t, <2>2
  <2>4. content' = [content EXCEPT ![d] = now]
    BY <2>1, <2>2
  <2>5. content' \in [ModuleDirs -> SUBSET Libs]
    BY <1>t, <2>3, <2>4
  <2>6. dirTimes' \in [ModuleDirs -> 1 .. MaxTime]
    BY <1>t, <2>1
  <2>7. changes' \in 0 .. MaxChanges
    BY <1>t, <1>5, RegistryAssumption DEF Change
  <2> QED
    BY <1>t, <1>5, <2>5, <2>6, <2>7 DEF Change
<1>6. CASE SetPath
  <2>1. changes' \in 0 .. MaxChanges
    BY <1>t, <1>6, RegistryAssumption DEF SetPath
  <2>2. scan' = NoScan
    BY <1>s, <1>6 DEF SetPath
  <2> QED
    BY <1>t, <1>n, <1>6, <2>1, <2>2 DEF SetPath
<1>7. CASE CloseHeld
  <2>1. PICK fd \in DOMAIN held : held' = [k \in DOMAIN held \ {fd} |-> held[k]]
    BY <1>7 DEF CloseHeld
  <2>2. DOMAIN held' = DOMAIN held \ {fd} /\ \A k \in DOMAIN held' : held'[k] = held[k] /\ k \in DOMAIN held
    BY <2>1
  <2>3. IsFiniteSet(DOMAIN held) /\ Cardinality(DOMAIN held) <= MaxHeld
    BY <1>t DEF DescriptorsOK
  <2>4. IsFiniteSet(DOMAIN held') /\ Cardinality(DOMAIN held') \in Nat /\ Cardinality(DOMAIN held) \in Nat
        /\ Cardinality(DOMAIN held') <= Cardinality(DOMAIN held)
    BY <2>2, <2>3, FS_Subset, FS_CardinalityType
  <2>5. Cardinality(DOMAIN held') <= MaxHeld
    BY <2>3, <2>4, RegistryAssumption
  <2>6. DescriptorsOK(held', named')
    BY <1>t, <1>7, <2>2, <2>4, <2>5 DEF DescriptorsOK, CloseHeld
  <2> QED
    BY <1>t, <1>7, <2>6 DEF CloseHeld, surroundings
<1>8. CASE UNCHANGED registryVars
  BY <1>t, <1>8 DEF registryVars
<1> QED
  BY <1>t, <1>1, <1>2, <1>3, <1>4, <1>5, <1>6, <1>7, <1>8 DEF RegistryNext, Lookup

(* In every reachable state the registry's memory, the scan under way and  *)
(* the descriptors kept (registry.c:58, loader.c:202) are of their types:  *)
(* no more descriptors than the bound, every module that answers a sound   *)
(* library.                                                                *)
THEOREM RegistryTypeCorrect == RegistrySpec => []RegistryTypeOK
BY TypeInit, TypeStep, PTL DEF RegistrySpec

-----------------------------------------------------------------------------
(* The answers.                                                            *)

AllRight == \A r \in DOMAIN entries : Right(r, entries[r])

(* As long as the directories stay, so do those who provide an option.     *)
LEMMA ProvidersStay ==
  ASSUME UNCHANGED <<modulePath, content>>, NEW r
  PROVE  Providers(r)' = Providers(r)
BY DEF Providers, OnThePath, Provides, Offers

(* What is right stays so, unless the directories change.                  *)
LEMMA RightStays ==
  ASSUME UNCHANGED <<modulePath, content>>, NEW r, r \in missed => r \in missed',
         Right(r, entries[r]), entries'[r] = entries[r]
  PROVE  Right(r, entries[r])'
<1>1. Providers(r)' = Providers(r)
  BY ProvidersStay
<1> QED
  BY <1>1 DEF Right

(* A library of the path that is sound and offers an option provides it.   *)
LEMMA ProvidersAre ==
  ASSUME NEW r, NEW l \in Libs, NEW k \in 1 .. Len(modulePath), l \in content[modulePath[k]],
         Provides(l, r)
  PROVE  l \in Providers(r)
BY DEF Providers, OnThePath

(* An entry of a file is not a negative one.                               *)
LEMMA NotNegative ==
  ASSUME NEW l \in Libs, NEW module
  PROVE  [file |-> l, module |-> module] # Negative
<1>1. l # NoModule /\ NoModule = ""
  BY RegistryAssumption DEF NoModule
<1>2. [file |-> l, module |-> module].file = l /\ Negative.file = ""
  BY DEF Negative
<1> QED
  BY <1>1, <1>2

(* At the start nothing is remembered.                                     *)
LEMMA OrderInit == RegistryInit => InOrder
<1> SUFFICES ASSUME RegistryInit PROVE InOrder
  OBVIOUS
<1>1. DOMAIN named = {} /\ DOMAIN entries = {} /\ Idle
  BY DEF RegistryInit, NoEntries, NoScan, ScanOf, Idle
<1> QED
  BY <1>1 DEF InOrder, NamesAreHeld, ModuleIsTheFiles

(* registry_lookup: what is stale is dropped, a scan begins with nothing.  *)
LEMMA LookupInOrder ==
  ASSUME RegistryTypeOK, InOrder, ~closed, NEW request \in Requests, RegistryLookup(request)
  PROVE  InOrder'
<1>1. UNCHANGED <<modulePath, content, held, named>> /\ entries' = CheckInvalidate
      /\ changed' = (changed /\ FirstMtime = dirMtime) /\ missed' = missed \cap DOMAIN entries'
      /\ (scan' = NoScan \/ scan' = ScanOf(request, 0, {}, {}))
  BY DEF RegistryLookup, surroundings
<1>2. \A r \in DOMAIN entries' : FirstMtime = dirMtime /\ r \in DOMAIN entries /\ entries'[r] = entries[r]
  BY <1>1 DEF CheckInvalidate, NoEntries
<1>3. NamesAreHeld'
  BY <1>1 DEF InOrder, NamesAreHeld
<1>4. ModuleIsTheFiles'
  BY <1>2 DEF InOrder, ModuleIsTheFiles
<1>5. ASSUME ~changed', NEW r \in DOMAIN entries' PROVE Right(r, entries[r])'
  <2>1. ~changed /\ r \in DOMAIN entries /\ entries'[r] = entries[r]
    BY <1>1, <1>2, <1>5
  <2>2. Right(r, entries[r])
    BY <2>1 DEF InOrder
  <2> QED
    BY <1>1, <1>5, <2>1, <2>2, RightStays
<1>6. ASSUME ~Idle' PROVE NothingYet'
  <2>1. scan'.dir = 0 /\ scan'.read = {}
    BY <1>1 DEF NoScan, ScanOf
  <2> QED
    BY <2>1 DEF NothingYet, PassedOver
<1> QED
  BY <1>3, <1>4, <1>5, <1>6 DEF InOrder

(* scan_dir: the first that offers the option is registered under all it   *)
(* offers; of the others it is known that they do not.                     *)
LEMMA ReadInOrder ==
  ASSUME RegistryTypeOK, InOrder, ~closed, ReadDir
  PROVE  InOrder'
<1>1. UNCHANGED <<modulePath, content, changed, closed>> /\ ~Idle /\ scan.dir > 0
  BY DEF ReadDir, surroundings
<1>2. /\ scan.request \in Requests /\ scan.dir \in 1 .. Len(modulePath)
      /\ scan.listed \in SUBSET Libs /\ scan.read \in SUBSET Libs
  BY <1>1, ScanRead, FirstIsThere
<1> DEFINE here == content[modulePath[scan.dir]]
<1>3. here \in SUBSET Libs
  BY <1>2, FirstIsThere DEF RegistryTypeOK
<1>4. PICK l \in (scan.listed \cup here) \ scan.read, module \in Libs \cup {NoModule} :
        /\ \/ /\ l \in here /\ ModuleLoad(l, module)
              /\ module # NoModule /\ Offers(module, scan.request)
              /\ entries' = Register(scan.request[1], module, l) /\ scan' = NoScan
           \/ /\ IF l \in here
                   THEN ModuleLoad(l, module) /\ ~(module # NoModule /\ Offers(module, scan.request))
                   ELSE module = Loaded(l) /\ UNCHANGED <<held, named>>
              /\ scan' = [scan EXCEPT !.read = @ \cup {l}] /\ UNCHANGED entries
        /\ missed' = missed \cup {r \in {scan.request} : module # Loaded(l)}
  BY DEF ReadDir
<1>h. here = content[modulePath[scan.dir]]
  OBVIOUS
<1> HIDE DEF here
<1>5. l \in Libs
  BY <1>2, <1>3
<1>6. NamesAreHeld /\ ModuleIsTheFiles
  BY DEF InOrder
<1>7. NamesAreHeld'
  <2>1. CASE ModuleLoad(l, module)
    BY <1>5, <1>6, <2>1, LoadKeepsDescriptors
  <2>2. CASE UNCHANGED <<held, named>>
    BY <1>6, <2>2 DEF NamesAreHeld
  <2> QED
    BY <1>4, <2>1, <2>2
<1>m. missed \subseteq missed'
  BY <1>4
<1>8. CASE /\ l \in here /\ ModuleLoad(l, module)
           /\ module # NoModule /\ Offers(module, scan.request)
           /\ entries' = Register(scan.request[1], module, l) /\ scan' = NoScan
  <2>1. module = l /\ Libraries[l].safe /\ Libraries[l].sound
    BY <1>5, <1>6, <1>8, LoadedIsTheFile DEF ModuleLoad
  <2>2. \A r \in DOMAIN entries' :
          \/ r \in DOMAIN entries /\ entries'[r] = entries[r]
          \/ /\ r \in Requests /\ r[1] = scan.request[1] /\ r[2] \in Libraries[l].flags
             /\ entries'[r] = [file |-> l, module |-> l]
    BY <1>8, <2>1, Registered
  <2>3. ModuleIsTheFiles'
    <3> SUFFICES ASSUME NEW r \in DOMAIN entries', entries'[r] # Negative
                 PROVE  entries'[r].module = entries'[r].file
      BY DEF ModuleIsTheFiles
    <3>1. CASE r \in DOMAIN entries /\ entries'[r] = entries[r]
      BY <1>6, <3>1 DEF ModuleIsTheFiles
    <3>2. CASE entries'[r] = [file |-> l, module |-> l]
      BY <3>2
    <3> QED
      BY <2>2, <3>1, <3>2
  <2>4. ASSUME ~changed', NEW r \in DOMAIN entries' PROVE Right(r, entries[r])'
    <3>1. Providers(r)' = Providers(r)
      BY <1>1, ProvidersStay
    <3>2. CASE r \in DOMAIN entries /\ entries'[r] = entries[r]
      <4>1. Right(r, entries[r])
        BY <1>1, <2>4, <3>2 DEF InOrder
      <4> QED
        BY <1>1, <1>m, <3>2, <4>1, RightStays
    <3>3. CASE /\ r[1] = scan.request[1] /\ r[2] \in Libraries[l].flags
               /\ entries'[r] = [file |-> l, module |-> l]
      <4>1. Provides(l, r)
        BY <1>8, <2>1, <3>3 DEF Provides, Offers
      <4>2. l \in Providers(r)
        BY <1>h, <1>2, <1>5, <1>8, <4>1, ProvidersAre
      <4>3. entries'[r] # Negative /\ entries'[r].file = l
        BY <1>5, <3>3, NotNegative
      <4> QED
        BY <3>1, <4>2, <4>3 DEF Right
    <3> QED
      BY <2>2, <3>2, <3>3
  <2>5. Idle'
    BY <1>8 DEF Idle, NoScan, ScanOf
  <2> QED
    BY <1>7, <2>3, <2>4, <2>5 DEF InOrder
<1>9. CASE /\ IF l \in here
                THEN ModuleLoad(l, module) /\ ~(module # NoModule /\ Offers(module, scan.request))
                ELSE module = Loaded(l) /\ UNCHANGED <<held, named>>
           /\ scan' = [scan EXCEPT !.read = @ \cup {l}] /\ UNCHANGED entries
  <2>1. ModuleIsTheFiles'
    BY <1>6, <1>9 DEF ModuleIsTheFiles
  <2>2. ASSUME ~changed', NEW r \in DOMAIN entries' PROVE Right(r, entries[r])'
    <3>1. Right(r, entries[r]) /\ entries'[r] = entries[r]
      BY <1>1, <1>9, <2>2 DEF InOrder
    <3> QED
      BY <1>1, <1>m, <3>1, RightStays
  <2>3. /\ scan'.request = scan.request /\ scan'.dir = scan.dir /\ scan'.listed = scan.listed
        /\ scan'.read = scan.read \cup {l}
    BY <1>1, <1>9, ScanRead DEF ScanOf
  <2>4. \A x : Provides(x, scan.request)' <=> Provides(x, scan.request)
    BY <2>3 DEF Provides, Offers
  <2>5. ASSUME ~changed' PROVE NothingYet'
    <3>1. NothingYet
      BY <1>1, <2>5 DEF InOrder
    <3>2. scan.listed = here
      BY <1>1, <1>h, <3>1 DEF NothingYet
    <3>3. l \in here
      BY <3>2
    <3>4. ASSUME scan.request \notin missed' PROVE PassedOver'
      <4>1. module = Loaded(l)
        BY <1>4, <3>4
      <4>2. ~(Loaded(l) # NoModule /\ Offers(Loaded(l), scan.request))
        BY <1>9, <3>3, <4>1
      <4>3. ~Provides(l, scan.request)
        BY <1>5, <1>6, <4>2, LoadedIsTheFile DEF Provides
      <4>4. PassedOver
        BY <1>m, <3>1, <3>4 DEF NothingYet
      <4>5. \A x \in scan'.read : ~Provides(x, scan.request)'
        BY <2>3, <2>4, <4>3, <4>4 DEF PassedOver
      <4> QED
        BY <1>1, <2>3, <2>4, <4>4, <4>5 DEF PassedOver
    <3> QED
      BY <1>1, <2>3, <3>1, <3>4 DEF NothingYet
  <2> QED
    BY <1>7, <2>1, <2>2, <2>5 DEF InOrder
<1> QED
  BY <1>4, <1>8, <1>9

(* The end of a directory: behind the last, nobody offers the option.      *)
LEMMA EndInOrder ==
  ASSUME RegistryTypeOK, InOrder, ~closed, EndDir
  PROVE  InOrder'
<1>1. UNCHANGED <<modulePath, content, held, named, changed, closed>> /\ ~Idle
      /\ (scan.dir > 0 => scan.listed \cap content[modulePath[scan.dir]] \subseteq scan.read)
  BY DEF EndDir, surroundings
<1>2. scan.request \in Requests /\ scan.dir \in 0 .. Len(modulePath) /\ Len(modulePath) \in Nat
  BY <1>1, ScanRead, FirstIsThere
<1>3. NamesAreHeld' /\ ModuleIsTheFiles
  BY <1>1 DEF InOrder, NamesAreHeld
<1>n. PICK next \in scan.dir + 1 .. Len(modulePath) + 1 :
        /\ \/ /\ next <= Len(modulePath)
              /\ scan' = ScanOf(scan.request, next, content[modulePath[next]], {})
              /\ UNCHANGED entries
           \/ /\ next > Len(modulePath)
              /\ scan' = NoScan /\ entries' = With(entries, scan.request, Negative)
        /\ missed' = missed \cup {r \in {scan.request} : next > scan.dir + 1}
  BY DEF EndDir
<1>m. missed \subseteq missed'
  BY <1>n
<1>4. ASSUME ~changed', scan.request \notin missed'
      PROVE  /\ next = scan.dir + 1
             /\ \A k \in 1 .. scan.dir : \A l \in content[modulePath[k]] : ~Provides(l, scan.request)
  <2>1. NothingYet /\ PassedOver
    BY <1>1, <1>m, <1>4 DEF InOrder, NothingYet
  <2>2. next = scan.dir + 1
    BY <1>2, <1>n, <1>4
  <2> SUFFICES ASSUME NEW k \in 1 .. scan.dir, NEW l \in content[modulePath[k]]
               PROVE  ~Provides(l, scan.request)
    BY <2>2
  <2>3. CASE k = scan.dir
    <3>1. scan.dir > 0
      BY <1>2, <2>3
    <3>2. scan.listed = content[modulePath[scan.dir]]
      BY <2>1, <3>1 DEF NothingYet
    <3>3. l \in scan.read
      BY <1>1, <2>3, <3>1, <3>2
    <3> QED
      BY <2>1, <3>3 DEF PassedOver
  <2>4. CASE k # scan.dir
    <3>1. k \in 1 .. scan.dir - 1
      BY <1>2, <2>4
    <3> QED
      BY <2>1, <3>1 DEF PassedOver
  <2> QED
    BY <2>3, <2>4
<1>5. CASE /\ next <= Len(modulePath)
           /\ scan' = ScanOf(scan.request, next, content[modulePath[next]], {})
           /\ UNCHANGED entries
  <2>1. ModuleIsTheFiles'
    BY <1>3, <1>5 DEF ModuleIsTheFiles
  <2>2. ASSUME ~changed', NEW r \in DOMAIN entries' PROVE Right(r, entries[r])'
    <3>1. Right(r, entries[r]) /\ entries'[r] = entries[r]
      BY <1>1, <1>5, <2>2 DEF InOrder
    <3> QED
      BY <1>1, <1>m, <3>1, RightStays
  <2>3. ASSUME ~changed' PROVE NothingYet'
    <3>1. /\ scan'.request = scan.request /\ scan'.dir = next /\ scan'.read = {}
          /\ scan'.listed = content[modulePath[next]]
      BY <1>5 DEF ScanOf
    <3>2. \A x : Provides(x, scan.request)' <=> Provides(x, scan.request)
      BY <3>1 DEF Provides, Offers
    <3>3. ASSUME scan.request \notin missed' PROVE PassedOver'
      <4>1. scan'.dir - 1 = scan.dir
        BY <1>2, <1>4, <2>3, <3>1, <3>3
      <4>2. \A k \in 1 .. scan'.dir - 1 : \A l \in content'[modulePath'[k]] : ~Provides(l, scan.request)'
        BY <1>1, <1>4, <2>3, <3>2, <3>3, <4>1
      <4> QED
        BY <3>1, <4>2 DEF PassedOver
    <3> QED
      BY <1>1, <3>1, <3>3 DEF NothingYet
  <2> QED
    BY <1>3, <2>1, <2>2, <2>3 DEF InOrder
<1>6. CASE /\ next > Len(modulePath)
           /\ scan' = NoScan /\ entries' = With(entries, scan.request, Negative)
  <2>1. \A r \in DOMAIN entries' :
          \/ r = scan.request /\ entries'[r] = Negative
          \/ r \in DOMAIN entries /\ entries'[r] = entries[r]
    BY <1>6 DEF With
  <2>2. ModuleIsTheFiles'
    BY <1>1, <1>3, <2>1 DEF ModuleIsTheFiles
  <2>3. ASSUME ~changed', NEW r \in DOMAIN entries' PROVE Right(r, entries[r])'
    <3>1. Providers(r)' = Providers(r)
      BY <1>1, ProvidersStay
    <3>2. CASE r \in DOMAIN entries /\ entries'[r] = entries[r]
      <4>1. Right(r, entries[r])
        BY <1>1, <2>3, <3>2 DEF InOrder
      <4> QED
        BY <1>1, <1>m, <3>2, <4>1, RightStays
    <3>3. CASE r = scan.request /\ entries'[r] = Negative
      <4>1. ASSUME r \notin missed' PROVE Providers(r) = {}
        <5>1. scan.dir = Len(modulePath)
          BY <1>2, <1>4, <1>6, <2>3, <3>3, <4>1
        <5> QED
          BY <1>4, <2>3, <3>3, <4>1, <5>1 DEF Providers, OnThePath
      <4> QED
        BY <3>1, <3>3, <4>1 DEF Right
    <3> QED
      BY <2>1, <3>2, <3>3
  <2>4. Idle'
    BY <1>6 DEF Idle, NoScan, ScanOf
  <2> QED
    BY <1>3, <2>2, <2>3, <2>4 DEF InOrder
<1> QED
  BY <1>n, <1>5, <1>6

(* What leaves memory, scan and directories alone, or shows as a change.   *)
LEMMA OthersInOrder ==
  ASSUME InOrder, ~closed, UNCHANGED <<entries, scan, held, named, closed, missed>>,
         changed' \/ UNCHANGED <<modulePath, content, changed>>
  PROVE  InOrder'
<1>1. NamesAreHeld' /\ ModuleIsTheFiles'
  BY DEF InOrder, NamesAreHeld, ModuleIsTheFiles
<1>2. ASSUME ~changed', NEW r \in DOMAIN entries' PROVE Right(r, entries[r])'
  <2>1. Right(r, entries[r])
    BY <1>2 DEF InOrder
  <2> QED
    BY <1>2, <2>1, RightStays
<1>3. ASSUME ~changed', ~Idle' PROVE NothingYet'
  <2>1. NothingYet /\ UNCHANGED <<modulePath, content>>
    BY <1>3 DEF InOrder, Idle
  <2> QED
    BY <2>1 DEF NothingYet, PassedOver, Provides, Offers
<1> QED
  BY <1>1, <1>2, <1>3 DEF InOrder

LEMMA OrderStep ==
  RegistryTypeOK /\ (~closed => InOrder) /\ [RegistryNext]_registryVars => (~closed' => InOrder')
<1> SUFFICES ASSUME RegistryTypeOK, ~closed => InOrder, [RegistryNext]_registryVars, ~closed'
             PROVE  InOrder'
  OBVIOUS
<1>1. CASE Lookup
  BY <1>1, LookupInOrder DEF Lookup, RegistryLookup
<1>2. CASE ReadDir
  BY <1>2, ReadInOrder DEF ReadDir
<1>3. CASE EndDir
  BY <1>3, EndInOrder DEF EndDir
<1>4. CASE Tick
  BY <1>4, OthersInOrder DEF Tick
<1>5. CASE Change
  BY <1>5, OthersInOrder DEF Change
<1>6. CASE SetPath
  BY <1>6, OthersInOrder DEF SetPath
<1>7. CASE CloseHeld
  BY <1>7 DEF CloseHeld
<1>8. CASE UNCHANGED registryVars
  BY <1>8, OthersInOrder DEF registryVars
<1> QED
  BY <1>1, <1>2, <1>3, <1>4, <1>5, <1>6, <1>7, <1>8 DEF RegistryNext

(* In order, the answers are those of the files.                           *)
LEMMA OrderAnswers == RegistryInv => ModulesAreTheFiles
<1> SUFFICES ASSUME RegistryInv PROVE ModulesAreTheFiles
  OBVIOUS
<1>1. ModuleIsTheFiles
  BY DEF RegistryInv, InOrder, ModuleIsTheFiles
<1>2. ASSUME ~closed, NEW r \in DOMAIN CheckInvalidate, ~changed \/ FirstMtime # dirMtime
      PROVE  AnswersAsScanned(r)
  <2>1. FirstMtime = dirMtime /\ CheckInvalidate = entries
    BY <1>2 DEF CheckInvalidate, NoEntries
  <2>2. Right(r, entries[r])
    BY <1>2, <2>1 DEF RegistryInv, InOrder
  <2> QED
    BY <2>1, <2>2 DEF AnswersAsScanned, Remembered, Right
<1> QED
  BY <1>1, <1>2 DEF ModulesAreTheFiles, RemembersTheDirectories

(* The registry answers as the directories do, with the module of the file *)
(* that was checked (registry.c:312, loader.c:89): whatever libraries come *)
(* and go, in the middle of scans too, until a script closes a descriptor  *)
(* that the loader keeps.                                                  *)
THEOREM AnswersAreTheFiles == RegistrySpec => []ModulesAreTheFiles
<1>1. RegistryInit => RegistryInv
  BY TypeInit, OrderInit DEF RegistryInv
<1>2. RegistryInv /\ [RegistryNext]_registryVars => RegistryInv'
  BY TypeStep, OrderStep DEF RegistryInv
<1> QED
  BY <1>1, <1>2, OrderAnswers, PTL DEF RegistrySpec
=============================================================================
