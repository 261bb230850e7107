------------------------------ MODULE FileOps ------------------------------
(***************************************************************************)
(* The applets that change the file tree: mv, cp, rm, ln and install, one   *)
(* system call at a time, each of which may fail.  The recursive functions  *)
(* of the code are frames on `stack'; a frame is at a point of its          *)
(* function, and hands its return code to the frame below.                  *)
(*                                                                          *)
(* A path is a sequence of names, absolute; `names' maps the paths that     *)
(* exist to inodes, `inodes' tells what an inode is.  Below Mount is        *)
(* another file system, to which rename does not reach.                     *)
(***************************************************************************)
EXTENDS Integers, FiniteSets, Paths

CONSTANTS
    Ops,         \* what may be run: [cmd, opts, srcs, dst, names, inodes]
    Mount,       \* where the other file system is mounted
    MaxDepth     \* names in the longest path (PATH_MAX)

VARIABLES
    op,        \* the command, its options and operands, and the tree it found
    names,     \* path -> inode
    inodes,    \* inode -> [type, data, to, mtime]
    stack,     \* the frames of the functions being run
    status,    \* the exit status
    agreed     \* history: the paths the user agreed to have touched

fileVars == <<op, names, inodes, stack, status, agreed>>

Opt(o) == o \in op.opts
Device(p) == IF IsStrictPrefix(Mount, p) THEN 2 ELSE 1
Under(d, p) == IsPrefix(d, p)

---------------------------------------------------------------------------
(* Paths.                                                                  *)
Type(p) == IF p = <<>> THEN "dir" ELSE inodes[names[p]].type
Real(p) == RealIn(names, inodes, p)
NameOf(p) == NameIn(names, inodes, p)

There(p) == p = <<>> \/ p \in DOMAIN names
Exists(p) == There(NameOf(p))                                       \* lstat
Stats(p) == There(Real(p))                                          \* stat
IsDir(p) == Stats(p) /\ Type(Real(p)) = "dir"
IsOwnDir(p) == Exists(p) /\ Type(NameOf(p)) = "dir"
IsLink(p) == Exists(p) /\ Type(NameOf(p)) = "link"
Inode(p) == names[Real(p)]
Data(p) == inodes[Inode(p)].data
Entries(p) == EntriesIn(names, p)
Creatable(p) == IsDir(Front(NameOf(p))) /\ ~Exists(p)

Fresh == 1 + Cardinality(DOMAIN inodes)
File(data) == [type |-> "reg", data |-> data, to |-> <<>>, mtime |-> 9]
Directory == [type |-> "dir", data |-> <<>>, to |-> <<>>, mtime |-> 9]
Symlink(to) == [type |-> "link", data |-> <<>>, to |-> to, mtime |-> 9]

Made(p, node) ==
    /\ inodes' = (Fresh :> node) @@ inodes
    /\ names' = (NameOf(p) :> Fresh) @@ names
Without(ps) == [q \in DOMAIN names \ ps |-> names[q]]

(* rename: nothing for two names of one file, a whole subtree for a directory. *)
Renamed(s, d) ==
    IF d \in DOMAIN names /\ names[d] = names[s] THEN names
    ELSE LET kept == {q \in DOMAIN names : ~Under(s, q) /\ q # d}
             below == {q \in DOMAIN names : Under(s, q)}
             to(q) == d \o SubSeq(q, Len(s) + 1, Len(q))
         IN  [r \in kept \cup {to(q) : q \in below} |->
                 IF r \in kept THEN names[r]
                 ELSE names[CHOOSE q \in below : to(q) = r]]
CanRename(s, d) ==
    /\ s # <<>> /\ d # <<>> /\ ~(Type(s) = "dir" /\ IsStrictPrefix(s, d))
    /\ IsDir(Front(d))
    /\ d \in DOMAIN names => (Type(s) = "dir" <=> Type(d) = "dir")
    /\ d \in DOMAIN names /\ Type(d) = "dir" => Entries(d) = {}

---------------------------------------------------------------------------
(* Frames.                                                                 *)
Frame(at, src, dst) ==
    [at |-> at, src |-> src, dst |-> dst, ret |-> 0, then |-> "return", follow |-> FALSE,
     from |-> 0, fd |-> 0, size |-> 0, off |-> 0, all |-> {}, read |-> {}]

Top == Last(stack)
Below == Front(stack)
At(points) == stack # <<>> /\ Top.at \in points
Push(f) == stack' = Append(stack, f)
Becomes(f) == stack' = Append(Below, f)
Return(code) ==
    stack' = [Below EXCEPT ![Len(Below)].ret = IF code = 1 THEN 1 ELSE @]
Onward == IF Top.then = "return" THEN Return(0) ELSE Becomes([Top EXCEPT !.at = Top.then])

Tree == <<names, inodes>>
Rest == <<op, status, agreed>>

(* A question to the user about a path.                                     *)
Declines == Return(0) /\ UNCHANGED agreed
Agrees(p) == agreed' = agreed \cup {NameOf(p), Real(p)}

(* A system call that fails: its function returns 1.                        *)
CallFails ==
    /\ At({"rename", "mv_unlink", "mv_cross", "symlink", "mv_unlink_src", "open", "copy_range",
           "copy", "cp_path", "rm", "rm_unlink", "rmdir", "ln_unlink", "ln_make", "mkdirs",
           "backup", "inst_open", "inst_create", "strip"})
    /\ Return(1)
    /\ UNCHANGED <<Tree, Rest>>

---------------------------------------------------------------------------
(* mv.                                                                     *)
Newer(d, s) == inodes[names[d]].mtime >= inodes[names[s]].mtime

DoMv ==
    LET s == Top.src
        d == Top.dst
        old == Exists(d)
    IN  /\ At({"do_mv"})
        /\ \/ /\ \/ ~Exists(s) /\ Return(1)
                 \/ Exists(s) /\ old /\ Opt("u") /\ Newer(NameOf(d), NameOf(s)) /\ Return(0)
                 \/ Exists(s) /\ old /\ Opt("n") /\ Return(0)
              /\ UNCHANGED agreed
           \/ /\ Exists(s) /\ ~(old /\ Opt("n"))
              /\ ~(old /\ Opt("u") /\ Newer(NameOf(d), NameOf(s)))
              /\ \/ old /\ Opt("i") /\ ~Opt("f") /\ Declines
                 \/ /\ IF old /\ (IsOwnDir(d) # IsOwnDir(s)) THEN Return(1)
                       ELSE Becomes([Top EXCEPT !.at = "rename"])
                    /\ IF old /\ Opt("i") /\ ~Opt("f") THEN Agrees(d) ELSE UNCHANGED agreed
        /\ UNCHANGED <<Tree, op, status>>

RenameCopies ==
    /\ At({"rename"})
    /\ Becomes([Top EXCEPT !.at = IF Exists(Top.dst) /\ ~IsOwnDir(Top.dst) THEN "mv_unlink"
                                 ELSE "mv_cross"])
    /\ UNCHANGED <<Tree, Rest>>

Rename ==
    LET s == NameOf(Top.src)
        d == NameOf(Top.dst)
    IN  /\ At({"rename"})
        /\ IF Device(s) = Device(d)
           THEN IF CanRename(s, d) THEN names' = Renamed(s, d) /\ Return(0)
                ELSE Return(1) /\ UNCHANGED names
           ELSE /\ Becomes([Top EXCEPT !.at = IF Exists(d) /\ ~IsOwnDir(d) THEN "mv_unlink"
                                              ELSE "mv_cross"])
                /\ UNCHANGED names
        /\ UNCHANGED <<inodes, Rest>>

MvUnlink ==
    /\ At({"mv_unlink"})
    /\ names' = Without({NameOf(Top.dst)})
    /\ Becomes([Top EXCEPT !.at = "mv_cross"])
    /\ UNCHANGED <<inodes, Rest>>

(* The copy across file systems: a directory entry by entry, a link remade,  *)
(* a file copied; the source goes when its copy is complete.                 *)
Opened(f, at, from, fd, data) ==
    Becomes([f EXCEPT !.at = at, !.from = from, !.fd = fd, !.size = Len(data), !.off = 0])
Scanning(f, at) ==
    Becomes([f EXCEPT !.at = at, !.all = Entries(Real(f.src)), !.read = {}])

(* open with O_CREAT and, if asked to, O_TRUNC: through a link at dst.       *)
OpenFor(trunc, Then(_)) ==
    LET d == Real(Top.dst)
    IN  IF There(d)
        THEN IF Type(d) # "reg" THEN Return(1) /\ UNCHANGED Tree
             ELSE /\ inodes' = IF trunc THEN [inodes EXCEPT ![names[d]].data = <<>>] ELSE inodes
                  /\ UNCHANGED names
                  /\ Then(names[d])
        ELSE IF IsDir(Front(d)) THEN Made(d, File(<<>>)) /\ Then(Fresh)
        ELSE Return(1) /\ UNCHANGED Tree

(* mkdir unless stat finds something there; the entries are then read.       *)
OpenDir(at) ==
    IF Stats(Top.dst) THEN Scanning(Top, at) /\ UNCHANGED Tree
    ELSE IF Creatable(Top.dst) THEN Made(Top.dst, Directory) /\ Scanning(Top, at)
    ELSE Return(1) /\ UNCHANGED Tree

(* unlink(dst), whose failure is ignored, and then symlink.                  *)
Remake(then) ==
    /\ \/ UNCHANGED names
       \/ Exists(Top.dst) /\ ~IsOwnDir(Top.dst) /\ names' = Without({NameOf(Top.dst)})
    /\ Becomes([Top EXCEPT !.at = "symlink", !.then = then, !.from = names[NameOf(Top.src)]])
    /\ UNCHANGED inodes

MvCrossFs ==
    /\ At({"mv_cross"})
    /\ IF IsOwnDir(Top.src) THEN OpenDir("mv_dir")
       ELSE IF IsLink(Top.src) THEN Remake("mv_unlink_src")
       ELSE OpenFor(TRUE, LAMBDA fd :
                Opened([Top EXCEPT !.then = "mv_unlink_src"], "copy", Inode(Top.src), fd,
                       Data(Top.src)))
    /\ UNCHANGED Rest

MakeSymlink ==
    /\ At({"symlink"})
    /\ IF Creatable(Top.dst) THEN Made(Top.dst, Symlink(inodes[Top.from].to)) /\ Onward
       ELSE Return(1) /\ UNCHANGED Tree
    /\ UNCHANGED Rest

MvUnlinkSrc ==
    /\ At({"mv_unlink_src"})
    /\ names' = Without({NameOf(Top.src)})
    /\ Return(0)
    /\ UNCHANGED <<inodes, Rest>>

Next1Again(at, follow) ==
    \E q \in Entries(Real(Top.src)) \ Top.read :
        stack' = Append(stack, [Frame(at, Append(Top.src, Last(q)), Append(Top.dst, Last(q)))
                                   EXCEPT !.follow = follow])

(* readdir: an entry not read yet; entries made after the opendir may come    *)
(* or not.                                                                    *)
Next1(at, follow) ==
    \E q \in Entries(Real(Top.src)) \ Top.read :
        LET dst == Append(Top.dst, Last(q))
            marked == [Top EXCEPT !.read = @ \cup {q}]
            child == [Frame(at, Append(Top.src, Last(q)), dst) EXCEPT !.follow = follow]
            refused == Len(dst) > MaxDepth \/ (at = "rm" /\ Real(child.src) = <<>>)
        IN  stack' = IF refused THEN Append(Below, [marked EXCEPT !.ret = 1])
                     ELSE Below \o <<marked, child>>
AllRead == (Top.all \cap Entries(Real(Top.src))) \subseteq Top.read

MvDir ==
    /\ At({"mv_dir"})
    /\ \/ Next1("mv_cross", FALSE)
       \/ /\ AllRead
          /\ IF Top.ret = 0 THEN Becomes([Top EXCEPT !.at = "rmdir"]) ELSE Return(1)
    /\ UNCHANGED <<Tree, Rest>>

---------------------------------------------------------------------------
(* Copying.                                                                *)
Block(i, off) == inodes[i].data[off + 1]
Wrote(i, off, b) ==
    [inodes EXCEPT ![i].data = IF off < Len(@) THEN [@ EXCEPT ![off + 1] = b] ELSE Append(@, b)]

(* copy_file_range; what it does not do, or not to the end, is done again by  *)
(* read and write.                                                            *)
CopyRange ==
    /\ At({"copy_range"})
    /\ \/ /\ Top.off < Len(inodes[Top.from].data) /\ Top.from # Top.fd
          /\ inodes' = Wrote(Top.fd, Top.off, Block(Top.from, Top.off))
          /\ Becomes([Top EXCEPT !.off = @ + 1,
                                 !.at = IF Top.off + 1 = Top.size THEN "close" ELSE @])
       \/ /\ Top.off = 0 \/ Top.off >= Len(inodes[Top.from].data)
          /\ inodes' = [inodes EXCEPT ![Top.fd].data = <<>>]
          /\ Becomes([Top EXCEPT !.at = "copy", !.off = 0])
    /\ UNCHANGED <<names, Rest>>

Copy ==
    /\ At({"copy"}) /\ inodes[Top.from].type = "reg"       \* a directory cannot be read
    /\ IF Top.off < Len(inodes[Top.from].data)
       THEN /\ inodes' = Wrote(Top.fd, Top.off, Block(Top.from, Top.off))
            /\ Becomes([Top EXCEPT !.off = @ + 1])
       ELSE Becomes([Top EXCEPT !.at = "close"]) /\ UNCHANGED inodes
    /\ UNCHANGED <<names, Rest>>

Close ==
    /\ At({"close"})
    /\ Onward
    /\ UNCHANGED <<Tree, Rest>>

CloseFailsUnseen ==
    /\ At({"close"})
    /\ inodes' = [inodes EXCEPT ![Top.fd].data = IF @ = <<>> THEN @ ELSE Front(@)]
    /\ Onward
    /\ UNCHANGED <<names, Rest>>

(* close reports what could not be written: the last block is gone.           *)
CloseFails ==
    /\ At({"close"})
    /\ inodes' = [inodes EXCEPT ![Top.fd].data = IF @ = <<>> THEN @ ELSE Front(@)]
    /\ Return(1)
    /\ UNCHANGED <<names, Rest>>

---------------------------------------------------------------------------
(* cp.                                                                     *)
SourceIs(p, follow) == IF follow THEN Stats(p) ELSE Exists(p)

CpPath ==
    LET s == Top.src
        d == Top.dst
        isDir == IF Top.follow THEN IsDir(s) ELSE IsOwnDir(s)
        isLink == ~Top.follow /\ IsLink(s)
        skip == Opt("u") /\ Stats(d) /\ Newer(Real(d), Real(s))
    IN  /\ At({"cp_path"})
        /\ IF ~SourceIs(s, Top.follow) THEN Return(1) /\ UNCHANGED <<Tree, agreed>>
           ELSE IF isLink THEN Remake("return") /\ UNCHANGED agreed
           ELSE IF isDir THEN
                /\ IF ~Opt("r") \/ (Stats(d) /\ Real(d) # <<>> /\ Inode(d) = Inode(s))
                   THEN Return(1) /\ UNCHANGED Tree
                   ELSE OpenDir("cp_dir")
                /\ UNCHANGED agreed
           ELSE /\ \/ skip /\ Return(0) /\ UNCHANGED agreed
                   \/ ~skip /\ Opt("i") /\ Stats(d) /\ Declines
                   \/ /\ ~skip /\ Becomes([Top EXCEPT !.at = "open"])
                      /\ IF Opt("i") /\ Stats(d) THEN Agrees(d) ELSE UNCHANGED agreed
                /\ UNCHANGED Tree
        /\ UNCHANGED <<op, status>>

OpenCopyOver ==
    LET data == Data(Top.src)
    IN  /\ At({"open"})
        /\ OpenFor(~Opt("f"), LAMBDA fd :
               Opened(Top, IF data = <<>> THEN "close" ELSE "copy_range", Inode(Top.src), fd, data))
        /\ UNCHANGED Rest

(* copy_file_fd: O_EXCL with -n, no O_TRUNC with -f; the size is that of the   *)
(* stat before.                                                                *)
OpenCopy ==
    LET data == Data(Top.src)
    IN  /\ At({"open"})
        /\ IF Opt("n") /\ Exists(Top.dst) THEN Return(0) /\ UNCHANGED Tree
           ELSE OpenFor(~Opt("f") /\ ~Opt("n"), LAMBDA fd :
                    Opened(Top, IF data = <<>> THEN "close" ELSE "copy_range",
                           Inode(Top.src), fd, data))
        /\ UNCHANGED Rest

CopyDirForgets ==
    /\ At({"cp_dir"})
    /\ \/ Next1("cp_path", Opt("L"))
       \/ AllRead /\ Return(0)
    /\ UNCHANGED <<Tree, Rest>>

CopyDir ==
    /\ At({"cp_dir"})
    /\ \/ Next1("cp_path", Opt("L"))
       \/ AllRead /\ Return(Top.ret)
    /\ UNCHANGED <<Tree, Rest>>

---------------------------------------------------------------------------
(* rm.                                                                     *)
RmOperand ==
    /\ At({"rm_path"})
    /\ IF Top.src = <<>> \/ Real(Top.src) = <<>> THEN Return(1)
       ELSE IF ~Exists(Top.src) THEN Return(IF Opt("f") THEN 0 ELSE 1)
       ELSE IF IsOwnDir(Top.src) /\ ~Opt("r") THEN Return(1)
       ELSE Becomes([Top EXCEPT !.at = "rm"])
    /\ UNCHANGED <<Tree, Rest>>

Asks == Opt("i") /\ ~Opt("f")

RmRecursiveUnasked ==
    /\ At({"rm"})
    /\ IF ~Exists(Top.src) THEN Return(IF Opt("f") THEN 0 ELSE 1) /\ UNCHANGED agreed
       ELSE \/ Asks /\ IsOwnDir(Top.src) /\ Declines
            \/ /\ IF IsOwnDir(Top.src) THEN Scanning(Top, "rm_dir")
                  ELSE Becomes([Top EXCEPT !.at = "rm_unlink"])
               /\ IF Asks /\ IsOwnDir(Top.src) THEN Agrees(Top.src) ELSE UNCHANGED agreed
    /\ UNCHANGED <<Tree, op, status>>

RmFollows ==
    /\ At({"rm"})
    /\ IF ~Exists(Top.src) THEN Return(IF Opt("f") THEN 0 ELSE 1) /\ UNCHANGED agreed
       ELSE \/ Asks /\ Declines
            \/ /\ IF IsDir(Top.src) THEN Scanning(Top, "rm_dir")
                  ELSE Becomes([Top EXCEPT !.at = "rm_unlink"])
               /\ IF Asks THEN Agrees(Top.src) ELSE UNCHANGED agreed
    /\ UNCHANGED <<Tree, op, status>>

RmRecursive ==
    /\ At({"rm"})
    /\ IF ~Exists(Top.src) THEN Return(IF Opt("f") THEN 0 ELSE 1) /\ UNCHANGED agreed
       ELSE \/ Asks /\ Declines
            \/ /\ IF IsOwnDir(Top.src) THEN Scanning(Top, "rm_dir")
                  ELSE Becomes([Top EXCEPT !.at = "rm_unlink"])
               /\ IF Asks THEN Agrees(Top.src) ELSE UNCHANGED agreed
    /\ UNCHANGED <<Tree, op, status>>

RmUnlink ==
    /\ At({"rm_unlink"})
    /\ names' = Without({NameOf(Top.src)})
    /\ Return(0)
    /\ UNCHANGED <<inodes, Rest>>

RmDir ==
    /\ At({"rm_dir"})
    /\ \/ Next1("rm", FALSE) /\ UNCHANGED agreed
       \/ /\ AllRead
          /\ IF Top.ret = 1 THEN Return(1) /\ UNCHANGED agreed
             ELSE \/ Asks /\ Declines
                  \/ Becomes([Top EXCEPT !.at = "rmdir"]) /\ UNCHANGED agreed
    /\ UNCHANGED <<Tree, op, status>>

Rmdir ==
    /\ At({"rmdir"})
    /\ IF Entries(NameOf(Top.src)) = {}
       THEN names' = Without({NameOf(Top.src)}) /\ Return(0)
       ELSE Return(1) /\ UNCHANGED names
    /\ UNCHANGED <<inodes, Rest>>

---------------------------------------------------------------------------
(* ln.                                                                     *)
DoLn ==
    /\ At({"ln"})
    /\ \/ /\ Opt("i") /\ ~Opt("f") /\ Exists(Top.dst)
          /\ Declines
       \/ /\ Becomes([Top EXCEPT !.at = IF Exists(Top.dst) /\ (Opt("f") \/ Opt("i"))
                                        THEN "ln_unlink" ELSE "ln_make"])
          /\ IF Opt("i") /\ ~Opt("f") /\ Exists(Top.dst) THEN Agrees(Top.dst)
             ELSE UNCHANGED agreed
    /\ UNCHANGED <<Tree, op, status>>

LnUnlink ==
    /\ At({"ln_unlink"})
    /\ IF IsOwnDir(Top.dst) THEN Return(1) /\ UNCHANGED names
       ELSE names' = Without({NameOf(Top.dst)}) /\ Becomes([Top EXCEPT !.at = "ln_make"])
    /\ UNCHANGED <<inodes, Rest>>

LnMake ==
    LET s == IF Opt("L") THEN Real(Top.src) ELSE NameOf(Top.src)
    IN  /\ At({"ln_make"})
        /\ IF ~Creatable(Top.dst) THEN Return(1) /\ UNCHANGED Tree
           ELSE IF Opt("s") THEN Made(Top.dst, Symlink(Top.src)) /\ Return(0)
           ELSE IF There(s) /\ Type(s) # "dir" /\ Device(s) = Device(NameOf(Top.dst))
           THEN names' = (NameOf(Top.dst) :> names[s]) @@ names /\ Return(0) /\ UNCHANGED inodes
           ELSE Return(1) /\ UNCHANGED Tree
        /\ UNCHANGED Rest

---------------------------------------------------------------------------
(* install.                                                                *)
BackupName(p) == Append(Front(p), Last(p) \o "~")

(* -D: the directories on the way, one after the other.                      *)
Mkdirs ==
    LET k == Top.off + 1
        p == SubSeq(Top.dst, 1, k)
    IN  /\ At({"mkdirs"})
        /\ IF k >= Len(Top.dst)
           THEN Becomes([Top EXCEPT !.at = "backup", !.off = 0]) /\ UNCHANGED Tree
           ELSE IF Exists(p) THEN Becomes([Top EXCEPT !.off = k]) /\ UNCHANGED Tree
           ELSE IF Creatable(p) THEN Made(p, Directory) /\ Becomes([Top EXCEPT !.off = k])
           ELSE Return(1) /\ UNCHANGED Tree
        /\ UNCHANGED Rest

MakeBackupSkips ==
    LET d == NameOf(Top.dst)
    IN  /\ At({"backup"})
        /\ Becomes([Top EXCEPT !.at = "inst_open"])
        /\ names' = IF Opt("S") /\ Stats(Top.dst) /\ CanRename(d, BackupName(d))
                    THEN Renamed(d, BackupName(d)) ELSE names
        /\ UNCHANGED <<inodes, Rest>>

MakeBackup ==
    LET d == NameOf(Top.dst)
    IN  /\ At({"backup"})
        /\ IF ~Opt("S") \/ ~Stats(Top.dst)
           THEN Becomes([Top EXCEPT !.at = "inst_open"]) /\ UNCHANGED names
           ELSE IF CanRename(d, BackupName(d))
           THEN names' = Renamed(d, BackupName(d)) /\ Becomes([Top EXCEPT !.at = "inst_open"])
           ELSE Return(1) /\ UNCHANGED names
        /\ UNCHANGED <<inodes, Rest>>

(* copy_file: the source is opened, then the old destination removed.         *)
InstOpen ==
    /\ At({"inst_open"})
    /\ IF ~Stats(Top.src) THEN Return(1) /\ UNCHANGED names
       ELSE /\ \/ UNCHANGED names
               \/ Exists(Top.dst) /\ ~IsOwnDir(Top.dst) /\ names' = Without({NameOf(Top.dst)})
            /\ Becomes([Top EXCEPT !.at = "inst_create", !.from = Inode(Top.src)])
    /\ UNCHANGED <<inodes, Rest>>

InstCreate ==
    /\ At({"inst_create"})
    /\ OpenFor(TRUE, LAMBDA fd :
            Opened([Top EXCEPT !.then = IF Opt("s") THEN "strip" ELSE "return"], "copy", Top.from,
                   fd, inodes[Top.from].data))
    /\ UNCHANGED Rest

Strip ==
    /\ At({"strip"})
    /\ Return(0)
    /\ UNCHANGED <<Tree, Rest>>

---------------------------------------------------------------------------
(* The operands.                                                           *)
First == CASE op.cmd = "mv" -> "do_mv" [] op.cmd = "cp" -> "cp_path" [] op.cmd = "rm" -> "rm_path"
           [] op.cmd = "ln" -> "ln" [] op.cmd = "install" -> IF Opt("D") THEN "mkdirs" ELSE "backup"

(* Whether the destination is a directory is found out before the first.     *)
DirThen(p) == p = <<>> \/ (p \in DOMAIN op.names /\ op.inodes[op.names[p]].type = "dir")
DstIsDir ==
    DirThen(IF op.cmd = "ln" /\ Opt("n") THEN op.dst ELSE RealIn(op.names, op.inodes, op.dst))
RealDst(src) ==
    IF op.cmd = "rm" THEN src
    ELSE IF DstIsDir /\ ~Opt("T") THEN Append(op.dst, Last(src)) ELSE op.dst

(* Several sources want a directory, -T wants none; ln asks lstat.           *)
Usable ==
    LET dir == IF op.cmd = "ln" THEN DirThen(op.dst) ELSE DstIsDir
    IN  op.cmd # "rm" => (Len(op.srcs) > 1 => dir) /\ (Opt("T") => ~dir)

NextOperand ==
    /\ At({"applet"}) /\ Top.off < Len(op.srcs)
    /\ IF ~Usable /\ Top.off = 0 THEN stack' = <<[Top EXCEPT !.ret = 1, !.off = Len(op.srcs)]>>
       ELSE LET s == op.srcs[Top.off + 1]
            IN  stack' = <<[Top EXCEPT !.off = @ + 1],
                           [Frame(First, s, RealDst(s)) EXCEPT !.follow = Opt("L") \/ Opt("H")]>>
    /\ UNCHANGED <<Tree, Rest>>

Finish ==
    /\ At({"applet"}) /\ Top.off = Len(op.srcs)
    /\ status' = Top.ret
    /\ stack' = <<>>
    /\ UNCHANGED <<Tree, op, agreed>>

---------------------------------------------------------------------------
FileInit ==
    /\ op \in Ops
    /\ names = op.names /\ inodes = op.inodes
    /\ stack = <<Frame("applet", <<>>, <<>>)>>
    /\ status = -1 /\ agreed = {}

FileNext ==
    \/ NextOperand \/ Finish \/ CallFails
    \/ DoMv \/ Rename \/ MvUnlink \/ MvCrossFs \/ MakeSymlink \/ MvUnlinkSrc \/ MvDir
    \/ CopyRange \/ Copy \/ Close \/ CloseFails
    \/ CpPath \/ OpenCopy \/ CopyDir
    \/ RmOperand \/ RmRecursive \/ RmUnlink \/ RmDir \/ Rmdir
    \/ DoLn \/ LnUnlink \/ LnMake
    \/ Mkdirs \/ MakeBackup \/ InstOpen \/ InstCreate \/ Strip

(* A command that is running goes on: WF_fileVars(FileNext), a step being      *)
(* enabled exactly while there is a frame.                                     *)
FileStopped == stack = <<>>
FileRunsOn == []<>FileStopped \/ []<><<TRUE>>_fileVars
FileSpec == FileInit /\ [][FileNext]_fileVars /\ FileRunsOn

---------------------------------------------------------------------------
(* Properties.                                                             *)
Was(q) == op.inodes[op.names[q]]
Operand(i, q) == Under(op.srcs[i], q)
Goal(i, q) == RealDst(op.srcs[i]) \o SubSeq(q, Len(op.srcs[i]) + 1, Len(q))
Given == DOMAIN op.srcs
Sources == {q \in DOMAIN op.names : \E i \in Given : Operand(i, q)}
Others == DOMAIN op.names \ Sources
Untouched(q) ==
    q \in DOMAIN names /\ names[q] = op.names[q] /\ inodes[names[q]] = Was(q)

(* Whatever fails and whenever mv is interrupted, the content of every source *)
(* file is in full under some name: the source goes only when the copy has    *)
(* been written and closed (the comment of copy_reg_file).                    *)
NothingLost ==
    op.cmd = "mv" =>
        \A q \in Sources : Was(q).type = "reg" =>
            \E r \in DOMAIN names : inodes[names[r]].type = "reg"
                                   /\ inodes[names[r]].data = Was(q).data

(* Exit status 0 of mv, cp and install says that every file and link of every *)
(* operand is at its destination in full, and that only mv took it away.      *)
Same(a, b) == a.type = b.type /\ a.data = b.data /\ a.to = b.to
Arrived(i, q) ==
    LET g == Goal(i, q)
    IN  /\ Exists(g)
        /\ Opt("L") \/ Opt("H") \/ Same(inodes[names[NameOf(g)]], Was(q))
            \/ (Stats(g) /\ Same(inodes[Inode(g)], Was(q)))
        /\ op.cmd = "mv" /\ Goal(i, q) # q => q \notin DOMAIN names
        /\ op.cmd # "mv" => Untouched(q)
Complete == \A i \in Given, q \in DOMAIN op.names : Operand(i, q) => Arrived(i, q)
Aliased ==
    \E i, j \in Given :
        LET r(p) == RealIn(op.names, op.inodes, p)
            g == r(RealDst(op.srcs[i]))
        IN  g \in DOMAIN op.names /\ r(op.srcs[j]) \in DOMAIN op.names
            /\ op.names[g] = op.names[r(op.srcs[j])]
SuccessIsComplete ==
    status = 0 /\ op.cmd \in {"mv", "cp", "install"} /\ op.opts \cap {"n", "u", "i", "f"} = {}
    /\ ~Aliased => Complete

(* The same with cp -f, and with two names for one file.                      *)
SuccessIsAlwaysComplete ==
    status = 0 /\ op.cmd = "cp" /\ op.opts \cap {"n", "u", "i"} = {} =>
        \A i \in Given, q \in DOMAIN op.names : Operand(i, q) /\ Was(q).type = "reg" =>
            Stats(Goal(i, q)) /\ Data(Goal(i, q)) = Was(q).data

(* With -n no file that was there, and is not moved itself, changes; with -i  *)
(* none does that the user has not agreed to.  (A link copied by cp is an     *)
(* exception: see NoClobberHoldsForLinks.)                                    *)
CopiesLink == op.cmd = "cp" /\ \E q \in Sources : Was(q).type = "link"
Guarded == IF op.cmd = "rm" THEN DOMAIN op.names ELSE Others
NoClobber ==
    Opt("n") /\ op.cmd \in {"mv", "cp"} /\ ~CopiesLink =>
        \A q \in Others : Was(q).type # "dir" => Untouched(q)
AskedFirst ==
    Opt("i") /\ ~Opt("f") /\ ~CopiesLink =>
        \A q \in Guarded :
            \/ Untouched(q) \/ q \in agreed
            \/ op.cmd = "mv" /\ \E a \in agreed : Under(a, q)

(* The usage of cp, -n: do not overwrite an existing file.                    *)
NoClobberHoldsForLinks ==
    Opt("n") /\ op.cmd = "cp" => \A q \in Others : Was(q).type # "dir" => Untouched(q)

(* rm removes nothing outside its operands, whatever links are inside them,   *)
(* and exit status 0 without -i says that the operands are gone.              *)
RmStaysInside ==
    op.cmd = "rm" =>
        /\ \A q \in Others : Untouched(q)
        /\ status = 0 /\ ~Asks => Sources \cap DOMAIN names = {}

(* install -S: the old destination is there, or its backup is.                *)
BackupHolds ==
    op.cmd = "install" /\ Opt("S") =>
        \A i \in Given :
            LET d == RealDst(op.srcs[i])
            IN  d \in DOMAIN op.names /\ Was(d).type = "reg" =>
                    \E r \in {d, BackupName(d)} : r \in DOMAIN names /\ names[r] = op.names[d]

(* mv inside one file system replaces its destination in one step: at any     *)
(* moment it is the old one or the new one.                                   *)
MvReplacesAtOnce ==
    op.cmd = "mv" =>
        \A i \in Given :
            LET d == RealDst(op.srcs[i])
            IN  d \in DOMAIN op.names /\ Device(d) = Device(op.srcs[i]) =>
                    d \in DOMAIN names
                    /\ names[d] \in {op.names[d]} \cup
                          {op.names[q] : q \in Sources \cap {op.srcs[i]}}

(* A command that fails leaves something at its destination.                  *)
DestinationKept ==
    status = 1 /\ op.cmd \in {"mv", "ln"} =>
        \A i \in Given : LET d == RealDst(op.srcs[i])
                         IN  d \in DOMAIN op.names => d \in DOMAIN names

(* Every command ends: a directory's entries are read once each, and a copy    *)
(* into itself runs into the length of a path.                                 *)
FilesEnd == <>FileStopped
=============================================================================
