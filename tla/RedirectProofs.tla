--------------------------- MODULE RedirectProofs ---------------------------
(***************************************************************************)
(* The saved copies of the shell's descriptors are safe and private, and   *)
(* Redirect implements UndoLog, for any number of descriptors, files,      *)
(* redirections and nested commands, as long as the script names           *)
(* descriptors below SaveBase and no pipeline's last stage runs in this    *)
(* process: that one saves with dup(2), below SaveBase.                    *)
(***************************************************************************)
EXTENDS Redirect, SequenceTheorems, WellFoundedInduction, TLAPS

ScriptStaysLow == /\ \A fd \in ScriptFds : fd < SaveBase
                  /\ "body" \notin Kinds

Live(tab, c) == /\ c \in Fds /\ c >= SaveBase
                /\ IsOpen(tab, c) /\ tab[c].cloexec

(* A frame's copies are live and each belongs to one of its entries.       *)
FrameOK(f, tab) ==
  /\ f \in Frames
  /\ f.kind # "body" /\ (f.phase = "restore" => f.kind \in Inline)
  /\ \A k \in DOMAIN f.saved : f.saved[k].fd \in ScriptFds
  /\ \A c \in Copies(f) : Live(tab, c)
  /\ \A k, m \in DOMAIN f.saved :
       f.saved[k].copy = f.saved[m].copy /\ f.saved[k].copy # NoFd => k = m

(* A stack of such frames: no two share a copy, every frame but the top    *)
(* one runs a command, and the base is no command that can be left, or has *)
(* ended the shell.                                                        *)
StackOK(s, tab) ==
  /\ s \in Seq(Frames) /\ s # <<>>
  /\ \A i \in 1 .. Len(s) : FrameOK(s[i], tab)
  /\ \A i, j \in 1 .. Len(s) : i # j => Copies(s[i]) \cap Copies(s[j]) = {}
  /\ \A i \in 2 .. Len(s) : s[i].phase = "run"
  /\ s[Len(s)].kind \in Inline => s[Len(s)].phase = "gone"

IInv == /\ t \in [Fds -> Slot]
        /\ StackOK(stack, t)
        /\ forks \in 0 .. MaxForks

-----------------------------------------------------------------------------
(* Descriptors.                                                            *)

(* The lowest of a set of descriptors is one of them.                      *)
LEMMA LowestIn ==
  ASSUME NEW ns \in SUBSET Fds, ns # {}
  PROVE  Lowest(ns) \in ns
<1>1. ns \in SUBSET Nat
  BY DescriptorsAssumption
<1>2. \E n \in ns : \A m \in ns : ~(<<m, n>> \in OpToRel(<, Nat))
  BY <1>1, WFMin, NatLessThanWellFounded
<1>3. PICK n \in ns : \A m \in ns : ~(m < n)
  BY <1>1, <1>2 DEF OpToRel
<1>4. \A m \in ns : n <= m
  BY <1>1, <1>3
<1> QED
  BY <1>4 DEF Lowest

(* What the calls leave is a descriptor table.                             *)
LEMMA PlacedType ==
  ASSUME NEW tab \in [Fds -> Slot], NEW n, NEW file \in Files, NEW b \in BOOLEAN
  PROVE  Placed(tab, n, file, b) \in [Fds -> Slot]
BY DEF Placed, Slotted, Slot

LEMMA Dup2Type ==
  ASSUME NEW tab \in [Fds -> Slot], NEW a \in Fds, NEW n
  PROVE  Dup2(tab, a, n) \in [Fds -> Slot]
<1>1. IsOpen(tab, a) => tab[a].file \in Files
  BY DEF IsOpen, Slot
<1> QED
  BY <1>1, PlacedType DEF Dup2

LEMMA CloseType ==
  ASSUME NEW tab \in [Fds -> Slot], NEW ns
  PROVE  /\ Close(tab, ns) \in [Fds -> Slot]
         /\ Execed(tab) \in [Fds -> Slot]
BY DEF Close, Execed, Closed, Slotted, Slot

(* save_fd parks a copy on a free descriptor, or records that there is     *)
(* none.                                                                   *)
LEMMA SaveFresh ==
  ASSUME NEW fd, t \in [Fds -> Slot], fd \in Fds
  PROVE  /\ TableSaved(fd) \in [Fds -> Slot]
         /\ SavedCopy(fd) \in Fds \cup {NoFd}
         /\ SavedCopy(fd) # NoFd =>
              /\ SavedCopy(fd) \in Fds /\ ~IsOpen(t, SavedCopy(fd))
              /\ Live(TableSaved(fd), SavedCopy(fd))
         /\ \A c \in Fds : IsOpen(t, c) => TableSaved(fd)[c] = t[c]
<1>1. CASE SavedCopy(fd) = NoFd
  BY <1>1 DEF TableSaved
<1>2. CASE SavedCopy(fd) # NoFd
  <2>1. /\ IsOpen(t, fd) /\ FreeFrom(t, SaveBase) # {}
        /\ SavedCopy(fd) = Lowest(FreeFrom(t, SaveBase))
    BY <1>2 DEF SavedCopy
  <2>2. SavedCopy(fd) \in FreeFrom(t, SaveBase)
    BY <2>1, LowestIn DEF FreeFrom
  <2>3. SavedCopy(fd) \in Fds /\ SavedCopy(fd) >= SaveBase /\ ~IsOpen(t, SavedCopy(fd))
    BY <2>2 DEF FreeFrom
  <2>4. t[fd].file \in Files
    BY <2>1 DEF IsOpen, Slot
  <2>5. TableSaved(fd) = Placed(t, SavedCopy(fd), t[fd].file, TRUE)
    BY <1>2 DEF TableSaved
  <2>6. TableSaved(fd) \in [Fds -> Slot]
    <3>1. Placed(t, SavedCopy(fd), t[fd].file, TRUE) \in [Fds -> Slot]
      BY <2>4, PlacedType
    <3> QED
      BY <2>5, <3>1, Zenon
  <2>7. TableSaved(fd)[SavedCopy(fd)] = Slotted(t[fd].file, TRUE)
    BY <2>3, <2>5 DEF Placed
  <2>8. Live(TableSaved(fd), SavedCopy(fd))
    BY <2>3, <2>4, <2>7, DescriptorsAssumption DEF Live, IsOpen, Slotted
  <2>9. \A c \in Fds : IsOpen(t, c) => TableSaved(fd)[c] = t[c]
    BY <2>3, <2>5 DEF Placed
  <2> QED
    BY <2>3, <2>6, <2>8, <2>9
<1> QED
  BY <1>1, <1>2

-----------------------------------------------------------------------------
(* The stack.                                                              *)

(* A table that agrees on a frame's copies keeps the frame.                *)
LEMMA FrameKept ==
  ASSUME NEW f, NEW tab, NEW new, FrameOK(f, tab),
         \A c \in Copies(f) : new[c] = tab[c]
  PROVE  FrameOK(f, new)
BY DEF FrameOK, Live, IsOpen

(* A frame just pushed holds no copies.                                    *)
LEMMA NewFrame ==
  ASSUME NEW kind \in (AllKinds \ {"body"}) \cup {"script"},
         NEW phase \in Phases \ {"restore"}, NEW tab
  PROVE  /\ FrameOK(Frame(kind, phase), tab) /\ Copies(Frame(kind, phase)) = {}
         /\ Frame(kind, phase).kind = kind /\ Frame(kind, phase).phase = phase
<1>1. Frame(kind, phase).saved = <<>> /\ DOMAIN Frame(kind, phase).saved = {}
  BY DEF Frame
<1>2. Frame(kind, phase) \in Frames
  BY RedirectAssumption DEF Frame, Frames
<1>3. Copies(Frame(kind, phase)) = {}
  BY <1>1 DEF Copies
<1>4. Frame(kind, phase).phase # "restore"
  BY DEF Frame
<1>5. Frame(kind, phase).kind = kind /\ Frame(kind, phase).phase = phase
  BY DEF Frame
<1> QED
  BY <1>1, <1>2, <1>3, <1>4, <1>5 DEF FrameOK

(* The process becomes a command of its own: any table will do.            *)
LEMMA BecomeKeeps ==
  ASSUME NEW kind \in (AllKinds \ {"body"}) \cup {"script"},
         NEW phase \in Phases \ {"restore"}, kind \in Inline => phase = "gone", NEW tab
  PROVE  StackOK(<<Frame(kind, phase)>>, tab)
<1>1. /\ FrameOK(Frame(kind, phase), tab) /\ Frame(kind, phase) \in Frames
      /\ Frame(kind, phase).kind = kind /\ Frame(kind, phase).phase = phase
  BY NewFrame DEF FrameOK
<1> QED
  BY <1>1 DEF StackOK

(* The innermost frame.                                                    *)
LEMMA TopOK ==
  ASSUME NEW s, NEW tab, StackOK(s, tab)
  PROVE  /\ Head(s) = s[1] /\ FrameOK(Head(s), tab) /\ Head(s) \in Frames
         /\ Len(s) \in Nat /\ Len(s) >= 1
         /\ Head(s).kind \in Inline /\ Head(s).phase # "gone" => Len(s) > 1
<1>1. s \in Seq(Frames) /\ Len(s) \in Nat /\ Len(s) >= 1
  BY EmptySeq, LenProperties DEF StackOK
<1>2. Len(s) = 1 \/ Len(s) > 1
  <2>1. \A n \in Nat : n >= 1 => n = 1 \/ n > 1
    OBVIOUS
  <2> QED
    BY <1>1, <2>1, Zenon
<1>3. Head(s) = s[1]
  BY <1>1, LenProperties DEF StackOK
<1>4. FrameOK(s[1], tab) /\ s[1] \in Frames
  BY <1>1 DEF StackOK, FrameOK
<1>5. Len(s) = 1 => (s[1].kind \in Inline => s[1].phase = "gone")
  BY <1>1 DEF StackOK
<1>6. s[1].kind \in Inline /\ s[1].phase # "gone" => Len(s) > 1
  BY <1>2, <1>5
<1> QED
  BY <1>1, <1>3, <1>4, <1>6, Zenon

(* A command starts in this process.                                       *)
LEMMA PushKeeps ==
  ASSUME NEW s, NEW tab, StackOK(s, tab), Head(s).phase = "run",
         NEW kind \in Inline, NEW phase \in Phases \ {"restore"}
  PROVE  StackOK(<<Frame(kind, phase)>> \o s, tab)
<1> DEFINE f == Frame(kind, phase)
           n == <<f>> \o s
<1>1. FrameOK(f, tab) /\ Copies(f) = {} /\ f \in Frames
  BY NewFrame DEF AllKinds, Inline, FrameOK
<1>2. Head(s) = s[1] /\ Len(s) \in Nat /\ Len(s) >= 1 /\ s \in Seq(Frames)
  BY TopOK DEF StackOK
<1> HIDE DEF f
<1>3. /\ n \in Seq(Frames) /\ n # <<>> /\ Len(n) = Len(s) + 1 /\ n[1] = f
      /\ \A i \in 2 .. Len(n) : n[i] = s[i - 1] /\ i - 1 \in 1 .. Len(s)
  BY <1>1, <1>2
<1> HIDE DEF n
<1>4. \A i \in 1 .. Len(n) : i = 1 \/ i \in 2 .. Len(n)
  BY <1>2, <1>3
<1>5. \A i \in 1 .. Len(n) : FrameOK(n[i], tab)
  BY <1>1, <1>3, <1>4 DEF StackOK
<1>6. \A i, j \in 1 .. Len(n) : i # j => Copies(n[i]) \cap Copies(n[j]) = {}
  <2>1. \A i, j \in 2 .. Len(n) : i # j => Copies(n[i]) \cap Copies(n[j]) = {}
    <3> SUFFICES ASSUME NEW i \in 2 .. Len(n), NEW j \in 2 .. Len(n), i # j
                 PROVE  Copies(s[i - 1]) \cap Copies(s[j - 1]) = {}
      BY <1>3
    <3>1. i - 1 \in 1 .. Len(s) /\ j - 1 \in 1 .. Len(s) /\ i - 1 # j - 1
      BY <1>2, <1>3
    <3> QED
      BY <3>1 DEF StackOK
  <2> QED
    BY <1>1, <1>3, <1>4, <2>1
<1>7. \A i \in 2 .. Len(n) : n[i].phase = "run"
  <2> SUFFICES ASSUME NEW i \in 2 .. Len(n) PROVE s[i - 1].phase = "run"
    BY <1>3
  <2>1. i - 1 = 1 \/ i - 1 \in 2 .. Len(s)
    BY <1>2, <1>3
  <2> QED
    BY <1>2, <2>1 DEF StackOK
<1>8. n[Len(n)] = s[Len(s)]
  BY <1>2, <1>3
<1> QED
  BY <1>3, <1>5, <1>6, <1>7, <1>8 DEF StackOK, n, f

(* A command is over, and the one that started it goes on.                 *)
LEMMA PopKeeps ==
  ASSUME NEW s, NEW tab, NEW new, StackOK(s, tab),
         Head(s).kind \in Inline, Head(s).phase # "gone",
         \A i \in 2 .. Len(s) : \A c \in Copies(s[i]) : new[c] = tab[c]
  PROVE  StackOK(Tail(s), new)
<1> DEFINE n == Tail(s)
<1>1. Len(s) \in Nat /\ Len(s) > 1 /\ s \in Seq(Frames)
  BY TopOK DEF StackOK
<1>2. /\ n \in Seq(Frames) /\ Len(n) = Len(s) - 1
      /\ \A i \in 1 .. Len(n) : n[i] = s[i + 1] /\ i + 1 \in 2 .. Len(s)
  BY <1>1, HeadTailProperties DEF StackOK
<1>3. n # <<>>
  <2>1. Len(n) # 0
    BY <1>1, <1>2
  <2> QED
    BY <1>2, <2>1, EmptySeq
<1> HIDE DEF n
<1>4. \A i \in 1 .. Len(n) : FrameOK(n[i], new)
  BY <1>1, <1>2, FrameKept DEF StackOK
<1>5. \A i, j \in 1 .. Len(n) : i # j => Copies(n[i]) \cap Copies(n[j]) = {}
  <2> SUFFICES ASSUME NEW i \in 1 .. Len(n), NEW j \in 1 .. Len(n), i # j
               PROVE  Copies(s[i + 1]) \cap Copies(s[j + 1]) = {}
    BY <1>2
  <2>1. i + 1 \in 1 .. Len(s) /\ j + 1 \in 1 .. Len(s) /\ i + 1 # j + 1
    BY <1>1, <1>2
  <2> QED
    BY <2>1 DEF StackOK
<1>6. \A i \in 2 .. Len(n) : n[i].phase = "run"
  BY <1>1, <1>2 DEF StackOK
<1>7. n[Len(n)] = s[Len(s)]
  BY <1>1, <1>2
<1> QED
  BY <1>2, <1>3, <1>4, <1>5, <1>6, <1>7 DEF StackOK, n

(* The innermost command takes a step of its own, which no other frame's   *)
(* copies notice.                                                          *)
LEMMA SwapKeeps ==
  ASSUME NEW s, NEW tab, NEW new, StackOK(s, tab),
         NEW f, FrameOK(f, new), f.kind = Head(s).kind, Head(s).phase # "gone",
         \A i \in 2 .. Len(s) : /\ Copies(f) \cap Copies(s[i]) = {}
                                /\ \A c \in Copies(s[i]) : new[c] = tab[c]
  PROVE  StackOK(<<f>> \o Tail(s), new)
<1> DEFINE n == <<f>> \o Tail(s)
<1>1. /\ Len(s) \in Nat /\ Len(s) >= 1 /\ s \in Seq(Frames)
      /\ f \in Frames /\ Head(s) = s[1]
  BY TopOK DEF StackOK, FrameOK
<1>2. /\ Tail(s) \in Seq(Frames) /\ Len(Tail(s)) = Len(s) - 1
      /\ \A i \in 1 .. Len(Tail(s)) : Tail(s)[i] = s[i + 1]
  BY <1>1, HeadTailProperties DEF StackOK
<1>3. /\ n \in Seq(Frames) /\ n # <<>> /\ Len(n) = Len(s) /\ n[1] = f
      /\ \A i \in 2 .. Len(n) : n[i] = s[i]
  BY <1>1, <1>2
<1> HIDE DEF n
<1>4. \A i \in 1 .. Len(n) : i = 1 \/ i \in 2 .. Len(n)
  BY <1>1, <1>3
<1>5. \A i \in 2 .. Len(n) : i \in 1 .. Len(s) /\ i \in 2 .. Len(s)
  BY <1>1, <1>3
<1>6. \A i \in 1 .. Len(n) : FrameOK(n[i], new)
  BY <1>3, <1>4, <1>5, FrameKept DEF StackOK
<1>7. \A i, j \in 1 .. Len(n) : i # j => Copies(n[i]) \cap Copies(n[j]) = {}
  BY <1>3, <1>4, <1>5 DEF StackOK
<1>8. n[Len(n)].kind \in Inline => n[Len(n)].phase = "gone"
  <2>1. CASE Len(s) = 1
    <3>1. s[1].kind \notin Inline
      BY <1>1, <2>1 DEF StackOK
    <3> QED
      BY <1>1, <1>3, <2>1, <3>1
  <2>2. CASE Len(s) # 1
    <3>1. Len(n) \in 2 .. Len(n) /\ Len(n) = Len(s)
      BY <1>1, <1>3, <2>2
    <3>2. n[Len(n)] = s[Len(s)]
      BY <1>3, <3>1
    <3> QED
      BY <3>2 DEF StackOK
  <2> QED
    BY <2>1, <2>2
<1> QED
  BY <1>3, <1>5, <1>6, <1>7, <1>8 DEF StackOK, n

-----------------------------------------------------------------------------
(* The steps.                                                              *)

(* One turn of redirect_apply's loop: fd is saved, then only fd changes.   *)
LEMMA TurnKeeps ==
  ASSUME ScriptStaysLow, IInv, NEW fd \in ScriptFds, NEW ok \in BOOLEAN, Turn(fd, ok),
         t' \in [Fds -> Slot], \A c \in Fds : c # fd => t'[c] = TableSaved(fd)[c]
  PROVE  IInv'
<1> DEFINE e == [fd |-> fd, copy |-> SavedCopy(fd)]
           f == [Top EXCEPT !.saved = Append(@, e), !.left = @ - 1, !.failed = ~ok]
<1>1. /\ fd \in Fds /\ fd < SaveBase /\ SaveBase \in Nat /\ Fds \subseteq Nat
      /\ t \in [Fds -> Slot] /\ StackOK(stack, t)
      /\ stack' = <<f>> \o Tail(stack) /\ forks' = forks
      /\ Top.phase = "apply" /\ Top.left > 0
  BY RedirectAssumption, DescriptorsAssumption DEF ScriptStaysLow, IInv, Turn, Swap
<1>2. /\ Top = stack[1] /\ FrameOK(Top, t) /\ Top \in Frames
      /\ Len(stack) \in Nat /\ Len(stack) >= 1
  BY <1>1, TopOK DEF Top
<1>3. /\ SavedCopy(fd) \in Fds \cup {NoFd}
      /\ SavedCopy(fd) # NoFd =>
           /\ SavedCopy(fd) \in Fds /\ ~IsOpen(t, SavedCopy(fd))
           /\ Live(TableSaved(fd), SavedCopy(fd))
      /\ \A c \in Fds : IsOpen(t, c) => TableSaved(fd)[c] = t[c]
  BY <1>1, SaveFresh
<1>4. e \in Entry /\ e.fd = fd /\ e.copy = SavedCopy(fd)
  BY <1>1, <1>3 DEF Entry
<1> HIDE DEF e
<1>5. Top.saved \in Seq(Entry) /\ Top.left \in 0 .. MaxRedirs
  BY <1>2 DEF Frames
<1>6. /\ Append(Top.saved, e) \in Seq(Entry)
      /\ DOMAIN Top.saved = 1 .. Len(Top.saved) /\ Len(Top.saved) \in Nat
      /\ DOMAIN Append(Top.saved, e) = 1 .. Len(Top.saved) + 1
      /\ \A k \in DOMAIN Top.saved : Append(Top.saved, e)[k] = Top.saved[k]
      /\ Append(Top.saved, e)[Len(Top.saved) + 1] = e
  BY <1>4, <1>5, AppendProperties, LenProperties
<1>7. Top.left - 1 \in 0 .. MaxRedirs
  BY <1>1, <1>5, RedirectAssumption
<1>8. f \in Frames /\ f.kind = Top.kind /\ f.phase = "apply" /\ f.saved = Append(Top.saved, e)
  BY <1>1, <1>2, <1>6, <1>7 DEF Frames
<1> HIDE DEF f
<1>9. \A c : Live(t, c) => t'[c] = t[c] /\ c # SavedCopy(fd)
  <2> SUFFICES ASSUME NEW c, Live(t, c) PROVE t'[c] = t[c] /\ c # SavedCopy(fd)
    OBVIOUS
  <2>1. c \in Fds /\ c \in Nat /\ c >= SaveBase /\ IsOpen(t, c)
    BY <1>1 DEF Live
  <2>2. c # fd /\ c # NoFd
    BY <1>1, <2>1 DEF NoFd
  <2>3. t'[c] = t[c]
    BY <1>1, <1>3, <2>1, <2>2
  <2>4. c # SavedCopy(fd)
    BY <1>3, <2>1, <2>2
  <2> QED
    BY <2>3, <2>4
<1>10. \A i \in 1 .. Len(stack) : \A c \in Copies(stack[i]) : Live(t, c)
  BY <1>1 DEF StackOK, FrameOK
<1>11. SavedCopy(fd) # NoFd => Live(t', SavedCopy(fd))
  <2> DEFINE c == SavedCopy(fd)
  <2> SUFFICES ASSUME c # NoFd PROVE Live(t', c)
    OBVIOUS
  <2>1. c \in Fds /\ c >= SaveBase /\ Live(TableSaved(fd), c)
    BY <1>3 DEF Live
  <2> HIDE DEF c
  <2>2. c # fd
    BY <1>1, <2>1
  <2>3. t'[c] = TableSaved(fd)[c]
    BY <2>1, <2>2
  <2> QED
    BY <2>1, <2>3 DEF Live, IsOpen
<1>12. \A k \in DOMAIN f.saved :
         \/ k \in DOMAIN Top.saved /\ f.saved[k] = Top.saved[k]
         \/ k = Len(Top.saved) + 1 /\ f.saved[k] = e
  BY <1>6, <1>8
<1>13. \A c \in Copies(f) : c \in Copies(Top) \/ (c = SavedCopy(fd) /\ c # NoFd)
  BY <1>4, <1>12 DEF Copies
<1>14. FrameOK(f, t')
  <2>1. f.kind # "body" /\ f.phase # "restore"
    BY <1>2, <1>8 DEF FrameOK
  <2>2. \A k \in DOMAIN f.saved : f.saved[k].fd \in ScriptFds
    BY <1>2, <1>4, <1>12 DEF FrameOK
  <2>3. \A c \in Copies(f) : Live(t', c)
    BY <1>2, <1>9, <1>10, <1>11, <1>13 DEF Live, IsOpen
  <2>4. \A k \in DOMAIN Top.saved :
          Top.saved[k].copy # NoFd => Top.saved[k].copy # SavedCopy(fd)
    <3> SUFFICES ASSUME NEW k \in DOMAIN Top.saved, Top.saved[k].copy # NoFd
                 PROVE  Top.saved[k].copy # SavedCopy(fd)
      OBVIOUS
    <3>1. Top.saved[k].copy \in Copies(Top)
      BY DEF Copies
    <3>2. Live(t, Top.saved[k].copy)
      BY <1>2, <3>1 DEF FrameOK
    <3> QED
      BY <1>9, <3>2
  <2>5. \A k, m \in DOMAIN f.saved :
          f.saved[k].copy = f.saved[m].copy /\ f.saved[k].copy # NoFd => k = m
    BY <1>2, <1>4, <1>12, <2>4 DEF FrameOK
  <2> QED
    BY <1>8, <2>1, <2>2, <2>3, <2>5 DEF FrameOK
<1>15. \A i \in 2 .. Len(stack) : /\ Copies(f) \cap Copies(stack[i]) = {}
                                  /\ \A c \in Copies(stack[i]) : t'[c] = t[c]
  <2> SUFFICES ASSUME NEW i \in 2 .. Len(stack)
               PROVE  /\ Copies(f) \cap Copies(stack[i]) = {}
                      /\ \A c \in Copies(stack[i]) : t'[c] = t[c]
    OBVIOUS
  <2>1. i \in 1 .. Len(stack) /\ 1 \in 1 .. Len(stack) /\ i # 1
    BY <1>2
  <2>2. Copies(Top) \cap Copies(stack[i]) = {}
    BY <1>1, <1>2, <2>1 DEF StackOK
  <2>3. \A c \in Copies(stack[i]) : t'[c] = t[c] /\ c # SavedCopy(fd)
    BY <1>9, <1>10, <2>1
  <2> QED
    BY <1>13, <2>2, <2>3
<1>16. StackOK(<<f>> \o Tail(stack), t')
  <2>1. f.kind = Head(stack).kind /\ Head(stack).phase # "gone"
    BY <1>1, <1>8 DEF Top
  <2>2. StackOK(stack, t)
    BY <1>1
  <2> QED
    BY <1>14, <1>15, <2>1, <2>2, SwapKeeps
<1> QED
  BY <1>1, <1>16 DEF IInv

(* A sequence without its last element.                                    *)
LEMMA AllButLast ==
  ASSUME NEW S, NEW s \in Seq(S), s # <<>>
  PROVE  LET u == SubSeq(s, 1, Len(s) - 1)
         IN  /\ u \in Seq(S) /\ Len(u) = Len(s) - 1
             /\ \A k \in 1 .. Len(s) - 1 : u[k] = s[k]
<1>1. PICK m \in Nat : Len(s) = m + 1
  <2>1. \A k \in Nat \ {0} : \E m \in Nat : k = m + 1
    <3> SUFFICES ASSUME NEW k \in Nat \ {0} PROVE k - 1 \in Nat /\ k = (k - 1) + 1
      OBVIOUS
    <3> QED
      OBVIOUS
  <2> QED
    BY <2>1, EmptySeq
<1>2. Len(s) - 1 = m
  BY <1>1
<1>3. \A k \in 1 .. m : s[k] \in S
  BY <1>1, ElementOfSeq
<1>4. /\ SubSeq(s, 1, m) \in Seq(S)
      /\ Len(SubSeq(s, 1, m)) = IF 1 <= m THEN m - 1 + 1 ELSE 0
      /\ \A k \in 1 .. m - 1 + 1 : SubSeq(s, 1, m)[k] = s[1 + k - 1]
  BY <1>3, SubSeqProperties
<1>5. Len(SubSeq(s, 1, m)) = m /\ \A k \in 1 .. m : SubSeq(s, 1, m)[k] = s[k]
  BY <1>4
<1> QED
  BY <1>2, <1>4, <1>5

(* One turn of redirect_restore's loop: only the last saved descriptor and *)
(* its copy change, and the copy was this frame's alone.                   *)
LEMMA UndoKeeps ==
  ASSUME ScriptStaysLow, IInv, Undo
  PROVE  IInv'
<1> DEFINE f == [Top EXCEPT !.saved = SubSeq(@, 1, Len(@) - 1)]
           fd == LastSaved.fd
           copy == LastSaved.copy
<1>1. /\ t \in [Fds -> Slot] /\ StackOK(stack, t) /\ Fds \subseteq Nat /\ SaveBase \in Nat
      /\ stack' = <<f>> \o Tail(stack) /\ forks' = forks /\ t' = TableUndone
      /\ Top.phase = "restore" /\ Top.saved # <<>>
  BY RedirectAssumption, DescriptorsAssumption DEF IInv, Undo, Swap
<1>2. /\ Top = stack[1] /\ FrameOK(Top, t) /\ Top \in Frames
      /\ Len(stack) \in Nat /\ Len(stack) >= 1
  BY <1>1, TopOK DEF Top
<1>3. Top.saved \in Seq(Entry)
  BY <1>2 DEF Frames
<1>4. /\ Len(Top.saved) \in Nat /\ Len(Top.saved) >= 1
      /\ DOMAIN Top.saved = 1 .. Len(Top.saved)
  BY <1>1, <1>3, EmptySeq, LenProperties
<1>5. /\ Len(Top.saved) \in DOMAIN Top.saved /\ LastSaved \in Entry
      /\ LastSaved = Top.saved[Len(Top.saved)]
  BY <1>3, <1>4, ElementOfSeq DEF LastSaved
<1>6. /\ fd \in ScriptFds /\ fd \in Fds /\ fd < SaveBase
      /\ copy \in Fds \cup {NoFd}
  BY <1>2, <1>5, RedirectAssumption DEF FrameOK, ScriptStaysLow, Entry
<1>8. LET u == SubSeq(Top.saved, 1, Len(Top.saved) - 1)
      IN  /\ u \in Seq(Entry) /\ Len(u) = Len(Top.saved) - 1
          /\ \A k \in 1 .. Len(Top.saved) - 1 : u[k] = Top.saved[k]
  BY <1>1, <1>3, AllButLast
<1>9. /\ f \in Frames /\ f.kind = Top.kind /\ f.phase = Top.phase
      /\ f.saved = SubSeq(Top.saved, 1, Len(Top.saved) - 1)
  BY <1>2, <1>8 DEF Frames
<1> HIDE DEF f, fd, copy
<1>10. \A k \in DOMAIN f.saved : /\ k \in DOMAIN Top.saved /\ k # Len(Top.saved)
                                  /\ f.saved[k] = Top.saved[k]
  <2>1. DOMAIN f.saved = 1 .. Len(Top.saved) - 1
    BY <1>8, <1>9, LenProperties
  <2> QED
    BY <1>4, <1>8, <1>9, <2>1
<1>11. \A c \in Copies(f) : c \in Copies(Top) /\ c # copy
  BY <1>2, <1>5, <1>10 DEF Copies, FrameOK, copy
<1>12. \A c : Live(t, c) /\ c # copy => t'[c] = t[c]
  <2> SUFFICES ASSUME NEW c, Live(t, c), c # copy PROVE t'[c] = t[c]
    OBVIOUS
  <2>1. c \in Fds /\ c # fd
    BY <1>1, <1>6 DEF Live
  <2>2. t' = IF copy = NoFd THEN Close(t, {fd}) ELSE Close(Dup2(t, copy, fd), {copy})
    BY <1>1 DEF TableUndone, fd, copy
  <2>3. Close(t, {fd})[c] = t[c]
    BY <2>1 DEF Close
  <2>4. Dup2(t, copy, fd)[c] = t[c]
    BY <1>1, <2>1 DEF Dup2, Placed
  <2>5. Close(Dup2(t, copy, fd), {copy})[c] = t[c]
    BY <2>1, <2>4 DEF Close
  <2> QED
    BY <2>2, <2>3, <2>5
<1>13. t' \in [Fds -> Slot]
  <2>1. CASE copy = NoFd
    BY <1>1, <2>1, CloseType DEF TableUndone, copy
  <2>2. CASE copy # NoFd
    <3>1. Dup2(t, copy, fd) \in [Fds -> Slot]
      BY <1>1, <1>6, <2>2, Dup2Type
    <3>2. t' = Close(Dup2(t, copy, fd), {copy})
      BY <1>1, <2>2 DEF TableUndone, fd, copy
    <3> QED
      BY <3>1, <3>2, CloseType
  <2> QED
    BY <2>1, <2>2
<1>14. FrameOK(f, t')
  <2>1. f.kind # "body" /\ (f.phase = "restore" => f.kind \in Inline)
    BY <1>2, <1>9 DEF FrameOK
  <2>2. \A k \in DOMAIN f.saved : f.saved[k].fd \in ScriptFds
    BY <1>2, <1>10 DEF FrameOK
  <2>3. \A c \in Copies(f) : Live(t', c)
    BY <1>2, <1>11, <1>12 DEF FrameOK, Live, IsOpen
  <2>4. \A k, m \in DOMAIN f.saved :
          f.saved[k].copy = f.saved[m].copy /\ f.saved[k].copy # NoFd => k = m
    BY <1>2, <1>10 DEF FrameOK
  <2> QED
    BY <1>9, <2>1, <2>2, <2>3, <2>4 DEF FrameOK
<1>15. copy # NoFd => copy \in Copies(Top)
  BY <1>5 DEF Copies, copy
<1>16. \A i \in 2 .. Len(stack) : /\ Copies(f) \cap Copies(stack[i]) = {}
                                  /\ \A c \in Copies(stack[i]) : t'[c] = t[c]
  <2> SUFFICES ASSUME NEW i \in 2 .. Len(stack)
               PROVE  /\ Copies(f) \cap Copies(stack[i]) = {}
                      /\ \A c \in Copies(stack[i]) : t'[c] = t[c]
    OBVIOUS
  <2>1. i \in 1 .. Len(stack) /\ 1 \in 1 .. Len(stack) /\ i # 1
    BY <1>2
  <2>2. /\ Copies(Top) \cap Copies(stack[i]) = {}
        /\ \A c \in Copies(stack[i]) : Live(t, c)
    BY <1>1, <1>2, <2>1 DEF StackOK, FrameOK
  <2>3. \A c \in Copies(stack[i]) : c # copy
    BY <1>15, <2>2 DEF Copies
  <2> QED
    BY <1>11, <1>12, <2>2, <2>3
<1>17. StackOK(<<f>> \o Tail(stack), t')
  <2>1. f.kind = Head(stack).kind /\ Head(stack).phase # "gone"
    BY <1>1, <1>9 DEF Top
  <2>2. StackOK(stack, t)
    BY <1>1
  <2> QED
    BY <1>14, <1>16, <2>1, <2>2, SwapKeeps
<1>18. StackOK(stack', t')
  BY <1>1, <1>17
<1>19. forks' \in 0 .. MaxForks
  BY <1>1 DEF IInv
<1> QED
  BY <1>13, <1>18, <1>19 DEF IInv

(* A command moves on to another phase.                                    *)
LEMMA PhaseKeeps ==
  ASSUME IInv, NEW phase \in Phases, phase = "restore" => Top.kind \in Inline,
         Top.phase # "gone",
         Swap([Top EXCEPT !.phase = phase]), UNCHANGED <<t, forks>>
  PROVE  IInv'
<1> DEFINE f == [Top EXCEPT !.phase = phase]
<1>1. /\ StackOK(stack, t) /\ t' = t /\ forks' = forks
      /\ stack' = <<f>> \o Tail(stack)
  BY DEF IInv, Swap
<1>2. /\ Top = stack[1] /\ FrameOK(Top, t) /\ Top \in Frames
      /\ Len(stack) \in Nat /\ Len(stack) >= 1
  BY <1>1, TopOK DEF Top
<1>3. f \in Frames /\ f.kind = Top.kind /\ f.phase = phase /\ f.saved = Top.saved
  BY <1>2 DEF Frames
<1> HIDE DEF f
<1>4. Copies(f) = Copies(Top)
  BY <1>3 DEF Copies
<1>5. FrameOK(f, t)
  BY <1>2, <1>3, <1>4 DEF FrameOK
<1>6. \A i \in 2 .. Len(stack) : Copies(f) \cap Copies(stack[i]) = {}
  <2> SUFFICES ASSUME NEW i \in 2 .. Len(stack)
               PROVE  Copies(Top) \cap Copies(stack[i]) = {}
    BY <1>4
  <2>1. i \in 1 .. Len(stack) /\ 1 \in 1 .. Len(stack) /\ i # 1
    BY <1>2
  <2> QED
    BY <1>1, <1>2, <2>1 DEF StackOK
<1>7. StackOK(<<f>> \o Tail(stack), t)
  BY <1>1, <1>3, <1>5, <1>6, SwapKeeps DEF Top
<1>8. StackOK(stack', t')
  BY <1>1, <1>7
<1> QED
  BY <1>1, <1>8 DEF IInv

(* The process becomes a command of its own: a forked child, a program or  *)
(* nothing more.                                                           *)
LEMMA BecomesOwn ==
  ASSUME IInv, NEW kind \in (AllKinds \ {"body"}) \cup {"script"},
         NEW phase \in Phases \ {"restore"}, kind \in Inline => phase = "gone",
         Become(Frame(kind, phase)),
         t' \in [Fds -> Slot], forks' \in 0 .. MaxForks
  PROVE  IInv'
<1>1. stack' = <<Frame(kind, phase)>>
  BY DEF Become
<1>2. StackOK(stack', t')
  BY <1>1, BecomeKeeps
<1> QED
  BY <1>2 DEF IInv

(* A command of this process is over: Finish, and Commit, which closes the *)
(* copies of this command alone.                                           *)
LEMMA LeavesOff ==
  ASSUME IInv, Top.kind \in Inline, Top.phase # "gone", stack' = Tail(stack), forks' = forks,
         t' = t \/ t' = TableCommitted
  PROVE  IInv'
<1>1. StackOK(stack, t) /\ t \in [Fds -> Slot] /\ forks' \in 0 .. MaxForks
  BY DEF IInv
<1>2. /\ Top = stack[1] /\ Len(stack) \in Nat /\ Len(stack) >= 1
  BY <1>1, TopOK DEF Top
<1>3. t' \in [Fds -> Slot]
  BY <1>1, CloseType DEF TableCommitted
<1>4. \A i \in 2 .. Len(stack) : \A c \in Copies(stack[i]) : t'[c] = t[c]
  <2> SUFFICES ASSUME NEW i \in 2 .. Len(stack), NEW c \in Copies(stack[i])
               PROVE  t'[c] = t[c]
    OBVIOUS
  <2>1. i \in 1 .. Len(stack) /\ 1 \in 1 .. Len(stack) /\ i # 1
    BY <1>2
  <2>2. c \in Fds /\ c \notin Copies(Top)
    BY <1>1, <1>2, <2>1 DEF StackOK, FrameOK, Live
  <2> QED
    BY <2>2 DEF TableCommitted, Close
<1>5. StackOK(Tail(stack), t')
  BY <1>1, <1>4, PopKeeps DEF Top
<1>6. StackOK(stack', t')
  BY <1>5
<1> QED
  BY <1>1, <1>3, <1>6 DEF IInv

(* The shell starts with no copies.                                        *)
LEMMA InitIInv == ASSUME Init PROVE IInv
<1>1. t \in [Fds -> Slot]
  BY DescriptorsAssumption DEF Init, Slot, Slotted, Closed
<1>2. StackOK(stack, t)
  BY BecomeKeeps DEF Init, Phases, Inline, AllKinds
<1>3. forks \in 0 .. MaxForks
  BY RedirectAssumption DEF Init
<1> QED
  BY <1>1, <1>2, <1>3 DEF IInv

(* redirect_apply: each of its redirections is one turn.                   *)
LEMMA ApplyKeeps ==
  ASSUME ScriptStaysLow, IInv, Apply
  PROVE  IInv'
<1>1. \A fd \in ScriptFds : fd \in Fds /\ TableSaved(fd) \in [Fds -> Slot]
  BY RedirectAssumption, SaveFresh DEF IInv
<1>2. ASSUME NEW o \in Opens, Open(o[1], o[2]) PROVE IInv'
  <2>1. o[1] \in ScriptFds /\ o[2] \in Files
    BY RedirectAssumption
  <2>2. t' = Placed(TableSaved(o[1]), o[1], o[2], FALSE) /\ Turn(o[1], TRUE)
    BY <1>2 DEF Open
  <2>3. t' \in [Fds -> Slot]
    BY <1>1, <2>1, <2>2, PlacedType
  <2>4. \A c \in Fds : c # o[1] => t'[c] = TableSaved(o[1])[c]
    BY <1>1, <2>1, <2>2 DEF Placed
  <2> QED
    BY <2>1, <2>2, <2>3, <2>4, TurnKeeps
<1>3. ASSUME NEW d \in Dups, Dup(d[1], d[2]) PROVE IInv'
  <2> DEFINE ok == d[2] = d[1] \/ IsOpen(TableSaved(d[1]), d[2])
  <2>1. d[1] \in ScriptFds /\ d[2] \in Fds
    BY RedirectAssumption
  <2>2. t' = Dup2(TableSaved(d[1]), d[2], d[1]) /\ Turn(d[1], ok)
    BY <1>3 DEF Dup
  <2>3. t' \in [Fds -> Slot]
    BY <1>1, <2>1, <2>2, Dup2Type
  <2>4. \A c \in Fds : c # d[1] => t'[c] = TableSaved(d[1])[c]
    BY <1>1, <2>1, <2>2 DEF Dup2, Placed
  <2>5. ok \in BOOLEAN
    BY DEF IsOpen
  <2> QED
    BY <2>1, <2>2, <2>3, <2>4, <2>5, TurnKeeps
<1>4. ASSUME NEW fd \in Closes, CloseFd(fd) PROVE IInv'
  <2>1. fd \in ScriptFds
    BY RedirectAssumption
  <2>2. t' = Close(TableSaved(fd), {fd}) /\ Turn(fd, TRUE)
    BY <1>4 DEF CloseFd
  <2>3. t' \in [Fds -> Slot]
    BY <1>1, <2>1, <2>2, CloseType
  <2>4. \A c \in Fds : c # fd => t'[c] = TableSaved(fd)[c]
    BY <2>2 DEF Close
  <2> QED
    BY <2>1, <2>2, <2>3, <2>4, TurnKeeps
<1>5. ASSUME NEW fd \in ScriptFds, RedirectFails(fd) PROVE IInv'
  <2>1. t' = TableSaved(fd) /\ Turn(fd, FALSE)
    BY <1>5 DEF RedirectFails
  <2> QED
    BY <1>1, <2>1, TurnKeeps
<1> QED
  BY <1>2, <1>3, <1>4, <1>5 DEF Apply

(* pipe(2) takes two free descriptors.                                     *)
LEMMA TwoEnds ==
  ASSUME NEW tab \in [Fds -> Slot], HasTwo(tab)
  PROVE  LET r == Lowest(FreeFrom(tab, 0))
             w == Lowest(FreeFrom(tab, 0) \ {r})
         IN  r \in Fds /\ w \in Fds
<1> DEFINE free == FreeFrom(tab, 0)
           r == Lowest(free)
<1>1. free \in SUBSET Fds /\ free # {} /\ free # {r}
  BY DEF HasTwo, FreeFrom
<1>2. r \in free
  BY <1>1, LowestIn
<1>3. free \ {r} \in SUBSET Fds /\ free \ {r} # {}
  BY <1>1, <1>2
<1>4. Lowest(free \ {r}) \in free \ {r}
  BY <1>3, LowestIn
<1> QED
  BY <1>1, <1>2, <1>4

(* A child of a pipeline or a command substitution starts.                 *)
LEMMA PipesKeep ==
  ASSUME IInv, Stage \/ CmdSubst
  PROVE  IInv'
<1>1. /\ t \in [Fds -> Slot] /\ 1 \in Fds
      /\ {"pipe_in", "pipe_out", "report"} \subseteq Files
      /\ HasTwo(t) /\ forks' = forks + 1 /\ forks < MaxForks
  BY RedirectAssumption, DescriptorsAssumption DEF IInv, Stage, CmdSubst
<1>2. ReadEnd \in Fds /\ WriteEnd \in Fds
  BY <1>1, TwoEnds DEF ReadEnd, WriteEnd
<1>3. Placed(t, ReadEnd, "pipe_in", FALSE) \in [Fds -> Slot]
  BY <1>1, PlacedType
<1>4. Piped \in [Fds -> Slot]
  BY <1>1, <1>3, PlacedType DEF Piped
<1>5. forks' \in 0 .. MaxForks
  BY <1>1, RedirectAssumption DEF IInv
<1>6. CASE Stage
  <2>1. Dup2(Piped, WriteEnd, 1) \in [Fds -> Slot]
    BY <1>2, <1>4, Dup2Type
  <2>2. t' \in [Fds -> Slot]
    BY <1>6, <2>1, CloseType DEF Stage
  <2>3. Become(Frame("stage", "run"))
    BY <1>6 DEF Stage
  <2> QED
    BY <1>5, <2>2, <2>3, BecomesOwn DEF Phases, AllKinds, Inline
<1>7. CASE CmdSubst
  <2> DEFINE r == Lowest(FreeFrom(Piped, 0))
             w == Lowest(FreeFrom(Piped, 0) \ {r})
             reporting == Placed(Piped, w, "report", TRUE)
             closed == Close(reporting, {ReadEnd})
             moved == Dup2(closed, WriteEnd, 1)
  <2>1. t' = Close(moved, {WriteEnd}) /\ Become(Frame("cmd_subst", "run"))
    BY <1>7 DEF CmdSubst
  <2>2. reporting \in [Fds -> Slot]
    BY <1>1, <1>4, PlacedType
  <2>3. closed \in [Fds -> Slot]
    BY <2>2, CloseType
  <2>4. moved \in [Fds -> Slot]
    BY <1>2, <2>3, Dup2Type
  <2>5. t' \in [Fds -> Slot]
    BY <2>1, <2>4, CloseType
  <2> HIDE DEF moved
  <2> QED
    BY <1>5, <2>1, <2>5, BecomesOwn DEF Phases, AllKinds, Inline, Forking
<1> QED
  BY <1>6, <1>7

(* Every step of the shell keeps its saved copies safe.                    *)
LEMMA NextKeepsIInv ==
  ASSUME ScriptStaysLow, IInv, [Next]_vars
  PROVE  IInv'
<1>1. t \in [Fds -> Slot] /\ StackOK(stack, t) /\ forks \in 0 .. MaxForks
  BY DEF IInv
<1>2. Top = Head(stack) /\ FrameOK(Top, t) /\ Top \in Frames
  BY <1>1, TopOK DEF Top
<1>3. Top.kind \in (AllKinds \ {"body"}) \cup {"script"}
  BY <1>2 DEF FrameOK, Frames
<1>4. ASSUME NEW kind \in Kinds, Begin(kind) PROVE IInv'
  <2>1. /\ kind \in Inline /\ Head(stack).phase = "run"
        /\ stack' = <<Frame(kind, "apply")>> \o stack /\ UNCHANGED <<t, forks>>
    BY <1>4 DEF Begin, Push, Top
  <2>2. StackOK(<<Frame(kind, "apply")>> \o stack, t)
    BY <1>1, <2>1, PushKeeps DEF Phases
  <2>3. StackOK(stack', t')
    BY <2>1, <2>2
  <2> QED
    BY <1>1, <2>1, <2>3 DEF IInv
<1>5. ASSUME NEW kind \in Kinds, Fork(kind) PROVE IInv'
  <2>1. kind \in Forking /\ Become(Frame(kind, "apply")) /\ t' = t
    BY <1>5 DEF Fork
  <2>2. forks' \in 0 .. MaxForks
    BY <1>1, <1>5, RedirectAssumption DEF Fork
  <2> QED
    BY <1>1, <2>1, <2>2, BecomesOwn DEF Phases, AllKinds, Inline, Forking
<1>6. CASE Apply
  BY <1>6, ApplyKeeps
<1>7. CASE Start
  <2>1. Swap([Top EXCEPT !.phase = "run"]) /\ UNCHANGED <<t, forks>> /\ Top.phase = "apply"
    BY <1>7 DEF Start
  <2> QED
    BY <2>1, PhaseKeeps DEF Phases
<1>8. CASE ExecImage
  <2>1. /\ Top.kind \in {"external", "fork_applet"} /\ t' = Execed(t)
        /\ Become(Frame(Top.kind, "execed")) /\ forks' = forks
    BY <1>8 DEF ExecImage
  <2>2. t' \in [Fds -> Slot]
    BY <1>1, <2>1, CloseType
  <2> QED
    BY <1>1, <1>3, <2>1, <2>2, BecomesOwn DEF Phases, Inline
<1>9. CASE Abandon
  <2>1. /\ Swap([Top EXCEPT !.phase = "restore"]) /\ UNCHANGED <<t, forks>>
        /\ Top.phase = "apply" /\ Top.kind \in Inline
    BY <1>9 DEF Abandon, Inline
  <2> QED
    BY <2>1, PhaseKeeps DEF Phases
<1>10. CASE Die
  <2>1. Become(Frame(Top.kind, "gone")) /\ UNCHANGED <<t, forks>>
    BY <1>10 DEF Die
  <2> QED
    BY <1>1, <1>3, <2>1, BecomesOwn DEF Phases
<1>11. CASE Commit
  <2>1. /\ Top.kind \in Inline /\ Top.phase # "gone" /\ stack' = Tail(stack)
        /\ forks' = forks /\ t' = TableCommitted
    BY <1>11 DEF Commit, Inline
  <2> QED
    BY <2>1, LeavesOff
<1>12. CASE End
  <2>1. Top.phase = "run" /\ UNCHANGED <<t, forks>>
    BY <1>12 DEF End
  <2>2. CASE /\ Top.kind \in {"brace", "command", "special", "body"}
             /\ Swap([Top EXCEPT !.phase = "restore"])
    <3>1. Top.kind \in Inline
      BY <1>2, <2>2 DEF FrameOK, Inline
    <3> QED
      BY <2>1, <2>2, <3>1, PhaseKeeps DEF Phases
  <2>3. CASE /\ Top.kind \in {"subshell", "fork_applet", "cmd_subst", "stage"}
             /\ Become(Frame(Top.kind, "gone"))
    BY <1>1, <1>3, <2>1, <2>3, BecomesOwn DEF Phases
  <2> QED
    BY <1>12, <2>2, <2>3 DEF End
<1>13. CASE Undo
  BY <1>13, UndoKeeps
<1>14. CASE Finish
  <2>1. /\ Top.phase = "restore" /\ stack' = Tail(stack) /\ t' = t /\ forks' = forks
    BY <1>14 DEF Finish
  <2>2. Top.kind \in Inline
    BY <1>2, <2>1 DEF FrameOK
  <2> QED
    BY <2>1, <2>2, LeavesOff
<1>15. CASE Stage \/ CmdSubst
  BY <1>15, PipesKeep
<1>16. ~Body
  BY DEF Body, ScriptStaysLow
<1>17. CASE Ended \/ UNCHANGED vars
  <2>1. t' = t /\ stack' = stack /\ forks' = forks
    BY <1>17 DEF Ended, vars
  <2> QED
    BY <1>1, <2>1 DEF IInv
<1> QED
  BY <1>4, <1>5, <1>6, <1>7, <1>8, <1>9, <1>10, <1>11, <1>12, <1>13, <1>14, <1>15,
     <1>16, <1>17 DEF Next

-----------------------------------------------------------------------------
(* What the invariant says of the records on the stack.                    *)
LEMMA RecordOf ==
  ASSUME IInv, NEW r \in Records
  PROVE  /\ r[1] \in 1 .. Len(stack) /\ r[2] \in DOMAIN stack[r[1]].saved
         /\ r = <<r[1], r[2]>>
         /\ CopyAt(r) # NoFd /\ CopyAt(r) \in Copies(stack[r[1]])
         /\ FrameOK(stack[r[1]], t)
<1>1. DOMAIN stack = 1 .. Len(stack)
  BY LenProperties DEF IInv, StackOK
<1>2. PICK i \in DOMAIN stack : r \in {i} \X DOMAIN stack[i].saved
  BY DEF Records
<1>3. r[1] = i /\ r[2] \in DOMAIN stack[i].saved /\ r = <<r[1], r[2]>>
  BY <1>2
<1>4. CopyAt(r) # NoFd /\ CopyAt(r) = stack[i].saved[r[2]].copy
  BY <1>3 DEF Records, CopyAt
<1>5. CopyAt(r) \in Copies(stack[i])
  BY <1>3, <1>4 DEF Copies
<1>6. FrameOK(stack[i], t)
  BY <1>1, <1>2 DEF IInv, StackOK
<1> QED
  BY <1>1, <1>3, <1>4, <1>5, <1>6

LEMMA IInvImplies == ASSUME IInv PROVE TypeOK /\ SavedCopiesLive
<1>1. TypeOK
  BY DEF IInv, StackOK, TypeOK
<1>2. ASSUME NEW r \in Records
      PROVE  CopyAt(r) >= SaveBase /\ IsOpen(t, CopyAt(r)) /\ t[CopyAt(r)].cloexec
  BY RecordOf DEF FrameOK, Live
<1>3. ASSUME NEW r \in Records, NEW q \in Records, CopyAt(q) = CopyAt(r)
      PROVE  q = r
  <2>1. /\ r[1] \in 1 .. Len(stack) /\ CopyAt(r) \in Copies(stack[r[1]])
        /\ q[1] \in 1 .. Len(stack) /\ CopyAt(q) \in Copies(stack[q[1]])
    BY RecordOf
  <2>2. q[1] = r[1]
    <3>1. q[1] # r[1] => Copies(stack[q[1]]) \cap Copies(stack[r[1]]) = {}
      BY <2>1 DEF IInv, StackOK
    <3> QED
      BY <1>3, <2>1, <3>1
  <2>3. q[2] = r[2]
    BY <1>3, <2>2, RecordOf DEF FrameOK, CopyAt
  <2> QED
    BY <2>2, <2>3, RecordOf
<1> QED
  BY <1>1, <1>2, <1>3 DEF SavedCopiesLive

(* For any number of descriptors, files, redirections and nested commands, *)
(* every saved descriptor is open, close-on-exec, at SaveBase or above and *)
(* in one record only until its command restores or commits it, unless the *)
(* script itself names such a descriptor or a pipeline's body runs in the  *)
(* shell (redirect.c, exec.c).                                             *)
THEOREM SavedCopiesHold ==
  ASSUME ScriptStaysLow
  PROVE  Spec => [](TypeOK /\ SavedCopiesLive)
<1>1. Init => IInv
  BY InitIInv
<1>2. IInv /\ [Next]_vars => IInv'
  BY NextKeepsIInv
<1>3. IInv => TypeOK /\ SavedCopiesLive
  BY IInvImplies
<1> QED
  BY <1>1, <1>2, <1>3, PTL DEF Spec

-----------------------------------------------------------------------------
(* What the shell keeps for itself.                                        *)

(* The numbers of the shell's own copies are nobody else's: not the        *)
(* script's (ScriptStaysLow), nor those every process starts with.         *)
CopiesApart == ScriptStaysLow /\ SaveBase > 2

(* The script itself is the base of the stack and has nothing saved.       *)
ScriptBase(s) ==
  \A i \in 1 .. Len(s) : s[i].kind = "script" =>
    i = Len(s) /\ s[i].phase = "run" /\ s[i].saved = <<>>

(* Every descriptor from SaveBase on that is open in the process of the    *)
(* script is the one it is read through, or the copy of a record.          *)
Recorded(s, tab) ==
  s[Len(s)].kind = "script" =>
    \A n \in Fds : n >= SaveBase /\ IsOpen(tab, n) =>
      (ScriptOnStdin /\ n = SaveBase) \/ \E i \in 1 .. Len(s) : n \in Copies(s[i])

(* A program would inherit what the script named or found.                 *)
Reachable(tab) == \A n \in Fds : IsOpen(tab, n) /\ ~tab[n].cloexec => n \in 0 .. 2 \cup ScriptFds

(* A program that runs has inherited nothing else.                         *)
Shut(s, tab) == Head(s).phase = "execed" => \A n \in Fds : ~tab[n].cloexec

PrivInv == ScriptBase(stack) /\ Recorded(stack, t) /\ Reachable(t) /\ Shut(stack, t)

(* The three ways a stack changes.                                         *)
LEMMA Shapes ==
  ASSUME NEW S, NEW s \in Seq(S), s # <<>>, NEW f
  PROVE  /\ Len(s) \in Nat /\ Len(s) >= 1 /\ DOMAIN s = 1 .. Len(s) /\ Head(s) = s[1]
         /\ LET n == <<f>> \o Tail(s)
            IN  /\ Len(n) = Len(s) /\ n[1] = f /\ Head(n) = f
                /\ \A i \in 2 .. Len(s) : n[i] = s[i]
         /\ LET n == <<f>> \o s
            IN  /\ Len(n) = Len(s) + 1 /\ n[1] = f /\ Head(n) = f
                /\ \A i \in 1 .. Len(s) : n[i + 1] = s[i]
         /\ LET n == Tail(s)
            IN  /\ Len(n) = Len(s) - 1
                /\ \A i \in 1 .. Len(n) : n[i] = s[i + 1]
                /\ Len(n) >= 1 => Head(n) = n[1]
<1>1. Len(s) \in Nat /\ Len(s) >= 1 /\ DOMAIN s = 1 .. Len(s) /\ Head(s) = s[1]
  BY EmptySeq, LenProperties
<1>2. /\ Len(Tail(s)) = Len(s) - 1 /\ \A i \in 1 .. Len(s) - 1 : Tail(s)[i] = s[i + 1]
      /\ Tail(s) \in Seq(S)
  BY HeadTailProperties
<1>3. LET n == <<f>> \o Tail(s)
      IN  Len(n) = Len(s) /\ n[1] = f /\ Head(n) = f /\ \A i \in 2 .. Len(s) : n[i] = s[i]
  BY <1>1, <1>2
<1>4. LET n == <<f>> \o s
      IN  /\ Len(n) = Len(s) + 1 /\ n[1] = f /\ Head(n) = f
          /\ \A i \in 1 .. Len(s) : n[i + 1] = s[i]
  BY <1>1
<1>5. Len(Tail(s)) >= 1 => Head(Tail(s)) = Tail(s)[1]
  BY <1>2
<1> QED
  BY <1>1, <1>2, <1>3, <1>4, <1>5

(* What is known of a state before a step.                                 *)
LEMMA Known ==
  ASSUME IInv
  PROVE  /\ stack \in Seq(Frames) /\ stack # <<>> /\ Top = Head(stack) /\ Top = stack[1]
         /\ Len(stack) \in Nat /\ Len(stack) >= 1 /\ DOMAIN stack = 1 .. Len(stack)
         /\ FrameOK(Top, t) /\ Top \in Frames /\ Top.saved \in Seq(Entry)
         /\ \A i \in 1 .. Len(stack) : FrameOK(stack[i], t)
         /\ \A i \in 2 .. Len(stack) : stack[i].phase = "run"
         /\ t \in [Fds -> Slot] /\ Fds \subseteq Nat /\ SaveBase \in Nat /\ ScriptFds \subseteq Fds
<1>1. StackOK(stack, t) /\ t \in [Fds -> Slot]
  BY DEF IInv
<1>2. FrameOK(Head(stack), t) /\ Head(stack) = stack[1] /\ Head(stack) \in Frames
  BY <1>1, TopOK
<1>3. Head(stack).saved \in Seq(Entry)
  BY <1>2 DEF Frames
<1> QED
  BY <1>1, <1>2, <1>3, Shapes, RedirectAssumption, DescriptorsAssumption DEF StackOK, Top

(* The innermost frame is replaced by one of the same command.             *)
LEMMA SwapBase ==
  ASSUME IInv, ScriptBase(stack), NEW f, f.kind = Top.kind,
         Top.kind = "script" => f.phase = "run" /\ f.saved = <<>>
  PROVE  ScriptBase(<<f>> \o Tail(stack))
<1> DEFINE n == <<f>> \o Tail(stack)
<1>1. /\ Len(n) = Len(stack) /\ n[1] = f /\ \A i \in 2 .. Len(stack) : n[i] = stack[i]
      /\ Len(stack) \in Nat /\ Len(stack) >= 1 /\ Top = stack[1]
  BY Known, Shapes
<1> HIDE DEF n
<1>2. ScriptBase(n)
  <2> SUFFICES ASSUME NEW i \in 1 .. Len(n), n[i].kind = "script"
               PROVE  i = Len(n) /\ n[i].phase = "run" /\ n[i].saved = <<>>
    BY DEF ScriptBase
  <2>1. CASE i = 1
    BY <1>1, <2>1 DEF ScriptBase
  <2>2. CASE i \in 2 .. Len(stack)
    BY <1>1, <2>2 DEF ScriptBase
  <2> QED
    BY <1>1, <2>1, <2>2
<1> QED
  BY <1>2 DEF n

(* A copy that is recorded before and after the innermost frame changed.   *)
LEMMA SwapRecorded ==
  ASSUME IInv, Recorded(stack, t), NEW f, f.kind = Top.kind, NEW new,
         \A n \in Fds : n >= SaveBase /\ IsOpen(new, n) =>
           n \in Copies(f) \/ (IsOpen(t, n) /\ (n \in Copies(Top) => n \in Copies(f)))
  PROVE  Recorded(<<f>> \o Tail(stack), new)
<1> DEFINE s == <<f>> \o Tail(stack)
<1>1. /\ Len(s) = Len(stack) /\ s[1] = f /\ \A i \in 2 .. Len(stack) : s[i] = stack[i]
      /\ Len(stack) \in Nat /\ Len(stack) >= 1 /\ Top = stack[1]
  BY Known, Shapes
<1> HIDE DEF s
<1>2. s[Len(s)].kind = stack[Len(stack)].kind
  <2>1. CASE Len(stack) = 1
    BY <1>1, <2>1
  <2>2. CASE Len(stack) # 1
    <3>1. Len(stack) \in 2 .. Len(stack)
      BY <1>1, <2>2
    <3> QED
      BY <1>1, <3>1
  <2> QED
    BY <2>1, <2>2
<1>3. Recorded(s, new)
  <2> SUFFICES ASSUME stack[Len(stack)].kind = "script", NEW n \in Fds, n >= SaveBase,
                      IsOpen(new, n), ~(ScriptOnStdin /\ n = SaveBase)
               PROVE  \E i \in 1 .. Len(s) : n \in Copies(s[i])
    BY <1>2 DEF Recorded
  <2>1. CASE n \in Copies(f)
    <3>1. 1 \in 1 .. Len(s)
      BY <1>1
    <3> QED
      BY <1>1, <2>1, <3>1
  <2>2. CASE n \notin Copies(f)
    <3>1. IsOpen(t, n) /\ n \notin Copies(Top)
      BY <2>2
    <3>2. PICK i \in 1 .. Len(stack) : n \in Copies(stack[i])
      BY <3>1 DEF Recorded
    <3>3. i \in 2 .. Len(stack) /\ i \in 1 .. Len(s)
      BY <1>1, <3>1, <3>2
    <3> QED
      BY <1>1, <3>2, <3>3
  <2> QED
    BY <2>1, <2>2
<1> QED
  BY <1>3 DEF s

(* One turn of redirect_apply's loop: the copy it may make is recorded.    *)
LEMMA TurnPrivate ==
  ASSUME ScriptStaysLow, IInv, PrivInv, NEW fd \in ScriptFds, NEW ok, Turn(fd, ok),
         \A c \in Fds : c # fd => t'[c] = TableSaved(fd)[c]
  PROVE  PrivInv'
<1> DEFINE e == [fd |-> fd, copy |-> SavedCopy(fd)]
           f == [Top EXCEPT !.saved = Append(@, e), !.left = @ - 1, !.failed = ~ok]
<1>1. /\ fd \in Fds /\ fd < SaveBase /\ SaveBase \in Nat /\ Fds \subseteq Nat
      /\ t \in [Fds -> Slot] /\ Top \in Frames /\ Top.saved \in Seq(Entry)
      /\ stack \in Seq(Frames) /\ stack # <<>> /\ Len(stack) >= 1 /\ Len(stack) \in Nat
      /\ Top = stack[1]
      /\ stack' = <<f>> \o Tail(stack) /\ Top.phase = "apply"
  BY Known DEF ScriptStaysLow, Turn, Swap
<1>2. /\ f.kind = Top.kind /\ f.phase = "apply" /\ f.saved = Append(Top.saved, e)
  BY <1>1 DEF Frames
<1>3. e.copy = SavedCopy(fd)
  OBVIOUS
<1> HIDE DEF e, f
<1>4. \A c \in Fds : c # SavedCopy(fd) => TableSaved(fd)[c] = t[c]
  BY <1>1 DEF TableSaved, Placed
<1>5. SavedCopy(fd) # NoFd => TableSaved(fd)[SavedCopy(fd)].cloexec
  BY <1>1, SaveFresh DEF Live
<1>6. \A c \in Fds : c \in Copies(Top) \/ (c = SavedCopy(fd) /\ c # NoFd) => c \in Copies(f)
  <2>1. /\ \A k \in DOMAIN Top.saved : k \in DOMAIN f.saved /\ f.saved[k] = Top.saved[k]
        /\ \E k \in DOMAIN f.saved : f.saved[k] = e
    <3>1. /\ DOMAIN Top.saved = 1 .. Len(Top.saved) /\ Len(Top.saved) \in Nat
          /\ DOMAIN Append(Top.saved, e) = 1 .. Len(Top.saved) + 1
          /\ \A k \in 1 .. Len(Top.saved) : Append(Top.saved, e)[k] = Top.saved[k]
          /\ Append(Top.saved, e)[Len(Top.saved) + 1] = e
      BY <1>1
    <3> QED
      BY <1>2, <3>1
  <2> QED
    BY <1>3, <2>1 DEF Copies
<1>7. ScriptBase(stack')
  <2>1. Top.kind # "script"
    <3>1. 1 \in 1 .. Len(stack)
      BY <1>1
    <3> QED
      BY <1>1, <3>1 DEF PrivInv, ScriptBase
  <2> QED
    BY <1>1, <1>2, <2>1, SwapBase DEF PrivInv
<1>8. Recorded(stack', t')
  <2>1. \A n \in Fds : n >= SaveBase /\ IsOpen(t', n) =>
          n \in Copies(f) \/ (IsOpen(t, n) /\ (n \in Copies(Top) => n \in Copies(f)))
    <3> SUFFICES ASSUME NEW n \in Fds, n >= SaveBase, IsOpen(t', n), n \notin Copies(f)
                 PROVE  IsOpen(t, n) /\ n \notin Copies(Top)
      OBVIOUS
    <3>1. n # fd /\ n # NoFd
      BY <1>1 DEF NoFd
    <3>2. n # SavedCopy(fd) /\ n \notin Copies(Top)
      BY <1>6, <3>1
    <3> QED
      BY <1>4, <3>1, <3>2 DEF IsOpen
  <2>2. Recorded(<<f>> \o Tail(stack), t')
    BY <1>2, <2>1, SwapRecorded DEF PrivInv
  <2> QED
    BY <1>1, <2>2
<1>9. Reachable(t')
  <2> SUFFICES ASSUME NEW n \in Fds, IsOpen(t', n), ~t'[n].cloexec, n # fd
               PROVE  n \in 0 .. 2 \cup ScriptFds
    BY DEF Reachable
  <2>1. n # NoFd /\ t'[n] = TableSaved(fd)[n]
    BY <1>1 DEF NoFd
  <2>2. n # SavedCopy(fd)
    BY <1>5, <2>1
  <2>3. t'[n] = t[n]
    BY <1>4, <2>1, <2>2
  <2> QED
    BY <2>3 DEF PrivInv, Reachable, IsOpen
<1>10. Shut(stack', t')
  <2>1. Head(stack') = f
    BY <1>1, Shapes
  <2> QED
    BY <1>2, <2>1 DEF Shut
<1> QED
  BY <1>7, <1>8, <1>9, <1>10 DEF PrivInv

(* Another process: nothing of the script is left under way.               *)
LEMMA BecomePrivate ==
  ASSUME NEW kind, kind # "script", NEW phase, Become(Frame(kind, phase)),
         Reachable(t'), phase = "execed" => \A n \in Fds : ~t'[n].cloexec
  PROVE  PrivInv'
<1>1. /\ Len(stack') = 1 /\ Head(stack') = Frame(kind, phase) /\ stack'[1] = Frame(kind, phase)
  BY DEF Become
<1>2. Frame(kind, phase).kind = kind /\ Frame(kind, phase).phase = phase
  BY DEF Frame
<1>3. ScriptBase(stack') /\ Recorded(stack', t')
  BY <1>1, <1>2 DEF ScriptBase, Recorded
<1>4. Shut(stack', t')
  BY <1>1, <1>2 DEF Shut
<1> QED
  BY <1>3, <1>4 DEF PrivInv

(* A command moves on to another phase.                                    *)
LEMMA PhasePrivate ==
  ASSUME IInv, PrivInv, NEW phase, phase # "execed", Top.kind # "script",
         Swap([Top EXCEPT !.phase = phase]), t' = t
  PROVE  PrivInv'
<1> DEFINE f == [Top EXCEPT !.phase = phase]
<1>1. /\ stack' = <<f>> \o Tail(stack) /\ Top \in Frames
      /\ stack \in Seq(Frames) /\ stack # <<>>
  BY Known DEF Swap
<1>2. f.kind = Top.kind /\ f.phase = phase /\ f.saved = Top.saved
  BY <1>1 DEF Frames
<1> HIDE DEF f
<1>3. Copies(f) = Copies(Top)
  BY <1>2 DEF Copies
<1>4. ScriptBase(<<f>> \o Tail(stack))
  BY <1>2, SwapBase DEF PrivInv
<1>5. Recorded(<<f>> \o Tail(stack), t)
  BY <1>2, <1>3, SwapRecorded DEF PrivInv
<1>6. Head(stack') = f
  BY <1>1, Shapes
<1>7. Recorded(stack', t')
  BY <1>1, <1>5 DEF Recorded
<1> QED
  BY <1>1, <1>2, <1>4, <1>6, <1>7 DEF PrivInv, Shut, Reachable

(* A command is over: its copies are closed.                               *)
LEMMA LeavePrivate ==
  ASSUME IInv, PrivInv, Top.kind \in Inline, Top.phase # "gone", stack' = Tail(stack),
         \A n \in Fds : IsOpen(t', n) => n \notin Copies(Top) /\ t'[n] = t[n]
  PROVE  PrivInv'
<1>1. /\ stack \in Seq(Frames) /\ stack # <<>> /\ Len(stack) \in Nat /\ Top = stack[1]
      /\ \A i \in 2 .. Len(stack) : stack[i].phase = "run"
  BY Known
<1>2. Len(stack) > 1
  BY TopOK DEF IInv, Top
<1>3. /\ Len(stack') = Len(stack) - 1
      /\ \A i \in 1 .. Len(stack') : stack'[i] = stack[i + 1] /\ i + 1 \in 2 .. Len(stack)
      /\ Head(stack') = stack'[1] /\ Len(stack') >= 1
  BY <1>1, <1>2, Shapes
<1>4. ScriptBase(stack')
  <2> SUFFICES ASSUME NEW i \in 1 .. Len(stack'), stack'[i].kind = "script"
               PROVE  i = Len(stack') /\ stack'[i].phase = "run" /\ stack'[i].saved = <<>>
    BY DEF ScriptBase
  <2>1. stack'[i] = stack[i + 1] /\ i + 1 \in 1 .. Len(stack)
    BY <1>1, <1>2, <1>3
  <2>2. i + 1 = Len(stack) /\ stack[i + 1].phase = "run" /\ stack[i + 1].saved = <<>>
    BY <2>1 DEF PrivInv, ScriptBase
  <2>3. i = Len(stack')
    <3>1. \A j, k, n \in Int : n = k - 1 /\ j + 1 = k => j = n
      OBVIOUS
    <3>2. i \in Int /\ Len(stack') \in Int /\ Len(stack) \in Int
      BY <1>1, <1>3
    <3> QED
      BY <1>3, <2>2, <3>1, <3>2, Zenon
  <2> QED
    BY <2>1, <2>2, <2>3
<1>5. Recorded(stack', t')
  <2>1. stack'[Len(stack')] = stack[Len(stack)]
    BY <1>1, <1>2, <1>3
  <2> SUFFICES ASSUME stack[Len(stack)].kind = "script", NEW n \in Fds, n >= SaveBase,
                      IsOpen(t', n), ~(ScriptOnStdin /\ n = SaveBase)
               PROVE  \E i \in 1 .. Len(stack') : n \in Copies(stack'[i])
    BY <2>1 DEF Recorded
  <2>2. IsOpen(t, n) /\ n \notin Copies(Top)
    BY DEF IsOpen
  <2>3. PICK i \in 1 .. Len(stack) : n \in Copies(stack[i])
    BY <2>2 DEF PrivInv, Recorded
  <2>4. i # 1
    BY <1>1, <2>2, <2>3
  <2>5. i - 1 \in 1 .. Len(stack') /\ (i - 1) + 1 = i
    BY <1>1, <1>3, <2>4
  <2>6. stack'[i - 1] = stack[i]
    BY <1>3, <2>5
  <2> QED
    BY <2>3, <2>5, <2>6
<1>6. Reachable(t')
  BY DEF PrivInv, Reachable, IsOpen
<1>7. Shut(stack', t')
  <2>1. stack'[1] = stack[2] /\ 2 \in 2 .. Len(stack)
    BY <1>1, <1>2, <1>3
  <2> QED
    BY <1>1, <1>3, <2>1 DEF Shut
<1> QED
  BY <1>4, <1>5, <1>6, <1>7 DEF PrivInv

(* A command starts in this process.                                       *)
LEMMA BeginPrivate ==
  ASSUME IInv, PrivInv, NEW kind \in Kinds, Begin(kind)
  PROVE  PrivInv'
<1> DEFINE f == Frame(kind, "apply")
<1>1. /\ stack \in Seq(Frames) /\ stack # <<>> /\ Len(stack) \in Nat /\ Len(stack) >= 1
      /\ kind \in Inline /\ stack' = <<f>> \o stack /\ t' = t
  BY Known DEF Begin, Push
<1>2. f.kind = kind /\ f.phase = "apply" /\ f.kind # "script"
  BY <1>1 DEF Frame, Inline
<1> HIDE DEF f
<1>3. /\ Len(stack') = Len(stack) + 1 /\ stack'[1] = f /\ Head(stack') = f
      /\ \A i \in 1 .. Len(stack) : stack'[i + 1] = stack[i]
  BY <1>1, Shapes
<1>4. \A i \in 1 .. Len(stack') : i = 1 \/ (i - 1 \in 1 .. Len(stack) /\ stack'[i] = stack[i - 1])
  <2> SUFFICES ASSUME NEW i \in 1 .. Len(stack'), i # 1
               PROVE  i - 1 \in 1 .. Len(stack) /\ stack'[i] = stack[i - 1]
    OBVIOUS
  <2>1. i - 1 \in 1 .. Len(stack) /\ (i - 1) + 1 = i
    BY <1>1, <1>3
  <2> QED
    BY <1>3, <2>1
<1>5. ScriptBase(stack')
  BY <1>1, <1>2, <1>3, <1>4 DEF PrivInv, ScriptBase
<1>6. Recorded(stack', t')
  <2>1. stack'[Len(stack')] = stack[Len(stack)]
    BY <1>1, <1>3
  <2>2. \A i \in 1 .. Len(stack) : i + 1 \in 1 .. Len(stack')
    BY <1>1, <1>3
  <2> QED
    BY <1>1, <1>3, <2>1, <2>2 DEF PrivInv, Recorded
<1> QED
  BY <1>1, <1>2, <1>3, <1>5, <1>6 DEF PrivInv, Reachable, Shut

(* One turn of redirect_restore's loop closes the copy with its record.    *)
LEMMA UndoPrivate ==
  ASSUME ScriptStaysLow, IInv, PrivInv, Undo
  PROVE  PrivInv'
<1> DEFINE f == [Top EXCEPT !.saved = SubSeq(@, 1, Len(@) - 1)]
           fd == LastSaved.fd
           copy == LastSaved.copy
           m == Len(Top.saved)
<1>1. /\ stack \in Seq(Frames) /\ stack # <<>> /\ Len(stack) \in Nat /\ Len(stack) >= 1
      /\ Top = stack[1] /\ Top \in Frames /\ FrameOK(Top, t)
      /\ Fds \subseteq Nat /\ ScriptFds \subseteq Fds /\ SaveBase \in Nat
      /\ t \in [Fds -> Slot] /\ Top.saved \in Seq(Entry)
      /\ stack' = <<f>> \o Tail(stack) /\ t' = TableUndone
      /\ Top.phase = "restore" /\ Top.saved # <<>>
  BY Known DEF Undo, Swap
<1>2. f.kind = Top.kind /\ f.phase = "restore" /\ f.saved = SubSeq(Top.saved, 1, m - 1)
  BY <1>1 DEF Frames
<1>3. /\ m \in Nat /\ m >= 1 /\ DOMAIN Top.saved = 1 .. m /\ LastSaved = Top.saved[m]
  BY <1>1, EmptySeq, LenProperties DEF LastSaved
<1>4. /\ SubSeq(Top.saved, 1, m - 1) \in Seq(Entry) /\ Len(SubSeq(Top.saved, 1, m - 1)) = m - 1
      /\ \A k \in 1 .. m - 1 : SubSeq(Top.saved, 1, m - 1)[k] = Top.saved[k]
  BY <1>1, AllButLast
<1> HIDE DEF f, m
<1>5. fd \in ScriptFds /\ fd \in Fds /\ fd < SaveBase /\ copy \in Fds \cup {NoFd}
  <2>1. LastSaved \in Entry /\ LastSaved.fd \in ScriptFds
    BY <1>1, <1>3, ElementOfSeq DEF FrameOK, m
  <2> QED
    BY <1>1, <2>1 DEF ScriptStaysLow, Entry
<1> HIDE DEF fd, copy
<1>6. t' = IF copy = NoFd THEN Close(t, {fd}) ELSE Close(Dup2(t, copy, fd), {copy})
  BY <1>1 DEF TableUndone, fd, copy
<1>7. \A n \in Fds : n # fd /\ n # copy => t'[n] = t[n]
  <2>1. \A n \in Fds : n # fd => Dup2(t, copy, fd)[n] = t[n]
    BY <1>1 DEF Dup2, Placed
  <2> QED
    BY <1>6, <2>1 DEF Close
<1>8. copy # NoFd => ~IsOpen(t', copy)
  BY <1>5, <1>6 DEF Close, IsOpen, Closed, Slotted
<1>9. ScriptBase(<<f>> \o Tail(stack))
  <2>1. Top.kind # "script"
    BY <1>1 DEF FrameOK, Inline
  <2> QED
    BY <1>2, <2>1, SwapBase DEF PrivInv
<1>10. \A n \in Fds : n \in Copies(Top) /\ n # copy => n \in Copies(f)
  <2> SUFFICES ASSUME NEW n \in Fds, n \in Copies(Top), n # copy PROVE n \in Copies(f)
    OBVIOUS
  <2>1. PICK k \in 1 .. m : Top.saved[k].copy = n /\ n # NoFd
    BY <1>3 DEF Copies
  <2>2. k \in 1 .. m - 1
    BY <1>3, <2>1 DEF copy
  <2>3. DOMAIN f.saved = 1 .. m - 1 /\ f.saved[k] = Top.saved[k]
    BY <1>2, <1>4, <2>2, LenProperties
  <2> QED
    BY <2>1, <2>2, <2>3 DEF Copies
<1>11. Recorded(<<f>> \o Tail(stack), t')
  <2>1. \A n \in Fds : n >= SaveBase /\ IsOpen(t', n) =>
          n \in Copies(f) \/ (IsOpen(t, n) /\ (n \in Copies(Top) => n \in Copies(f)))
    <3> SUFFICES ASSUME NEW n \in Fds, n >= SaveBase, IsOpen(t', n)
                 PROVE  IsOpen(t, n) /\ (n \in Copies(Top) => n \in Copies(f))
      OBVIOUS
    <3>1. n # fd /\ n # NoFd
      BY <1>1, <1>5 DEF NoFd
    <3>2. n # copy
      BY <1>8, <3>1
    <3> QED
      BY <1>7, <1>10, <3>1, <3>2 DEF IsOpen
  <2> QED
    BY <1>2, <2>1, SwapRecorded DEF PrivInv
<1>12. Recorded(stack', t')
  BY <1>1, <1>11
<1>13. Reachable(t')
  <2> SUFFICES ASSUME NEW n \in Fds, IsOpen(t', n), ~t'[n].cloexec, n # fd
               PROVE  n \in 0 .. 2 \cup ScriptFds
    BY <1>5 DEF Reachable
  <2>1. n # NoFd
    BY <1>1 DEF NoFd
  <2>2. t'[n] = t[n]
    BY <1>7, <1>8, <2>1
  <2> QED
    BY <2>2 DEF PrivInv, Reachable, IsOpen
<1>14. Head(stack') = f
  BY <1>1, Shapes
<1> QED
  BY <1>1, <1>2, <1>9, <1>12, <1>13, <1>14 DEF PrivInv, Shut

(* A pipe end is closed where it was opened, or is the output.             *)
LEMMA PipesPrivate ==
  ASSUME IInv, PrivInv, Stage \/ CmdSubst
  PROVE  PrivInv'
<1>1. t \in [Fds -> Slot] /\ HasTwo(t) /\ Reachable(t)
  BY Known DEF Stage, CmdSubst, PrivInv
<1>2. ReadEnd \in Fds /\ WriteEnd \in Fds
  BY <1>1, TwoEnds DEF ReadEnd, WriteEnd
<1>3. DOMAIN Piped = Fds /\ \A m \in Fds \ {ReadEnd, WriteEnd} : Piped[m] = t[m]
  BY <1>1, <1>2 DEF Piped, Placed
<1>4. CASE Stage
  <2>1. t' = Close(Dup2(Piped, WriteEnd, 1), {ReadEnd, WriteEnd}) /\ Become(Frame("stage", "run"))
    BY <1>4 DEF Stage
  <2>2. \A m \in Fds : m # 1 => Dup2(Piped, WriteEnd, 1)[m] = Piped[m]
    BY DEF Dup2, Placed
  <2>3. \A m \in Fds : IsOpen(t', m) => m = 1 \/ t'[m] = t[m]
    BY <1>3, <2>1, <2>2 DEF Close, IsOpen, Closed, Slotted
  <2>4. Reachable(t')
    BY <1>1, <2>3 DEF Reachable, IsOpen
  <2> QED
    BY <2>1, <2>4, BecomePrivate
<1>5. CASE CmdSubst
  <2> DEFINE r == Lowest(FreeFrom(Piped, 0))
             w == Lowest(FreeFrom(Piped, 0) \ {r})
             reporting == Placed(Piped, w, "report", TRUE)
             closed == Close(reporting, {ReadEnd})
             moved == Dup2(closed, WriteEnd, 1)
  <2>1. t' = Close(moved, {WriteEnd}) /\ Become(Frame("cmd_subst", "run"))
    BY <1>5 DEF CmdSubst
  <2>2. \A m \in Fds \ {ReadEnd, WriteEnd} : reporting[m] = t[m] \/ reporting[m].cloexec
    BY <1>3 DEF Placed, Slotted
  <2>3. \A m \in Fds : m # 1 => moved[m] = closed[m]
    BY DEF Dup2, Placed
  <2>4. \A m \in Fds : closed[m] = IF m = ReadEnd THEN Closed ELSE reporting[m]
    BY DEF Close
  <2> HIDE DEF r, w, reporting, closed, moved
  <2>5. \A m \in Fds : IsOpen(t', m) => m = 1 \/ t'[m] = t[m] \/ t'[m].cloexec
    <3> SUFFICES ASSUME NEW m \in Fds, IsOpen(t', m), m # 1
                 PROVE  t'[m] = t[m] \/ t'[m].cloexec
      OBVIOUS
    <3>1. m # WriteEnd /\ t'[m] = moved[m]
      BY <2>1 DEF Close, IsOpen, Closed, Slotted
    <3>2. m # ReadEnd /\ t'[m] = reporting[m]
      BY <2>3, <2>4, <3>1 DEF IsOpen, Closed, Slotted
    <3> QED
      BY <2>2, <3>1, <3>2
  <2>6. Reachable(t')
    BY <1>1, <2>5 DEF Reachable, IsOpen
  <2> QED
    BY <2>1, <2>6, BecomePrivate
<1> QED
  BY <1>4, <1>5

(* Every step of the shell keeps its own descriptors to itself.            *)
LEMMA NextKeepsPrivate ==
  ASSUME ScriptStaysLow, IInv, PrivInv, [Next]_vars
  PROVE  PrivInv'
<1>1. /\ Top = Head(stack) /\ Top = stack[1] /\ FrameOK(Top, t) /\ Top \in Frames
      /\ Len(stack) \in Nat /\ Len(stack) >= 1 /\ t \in [Fds -> Slot]
  BY Known
<1>2. Reachable(t) /\ (Top.kind = "script" => Top.phase = "run")
  <2>1. 1 \in 1 .. Len(stack)
    BY <1>1
  <2> QED
    BY <1>1, <2>1 DEF PrivInv, ScriptBase
<1>3. ASSUME NEW kind \in Kinds, Begin(kind) PROVE PrivInv'
  BY <1>3, BeginPrivate
<1>4. ASSUME NEW kind \in Kinds, Fork(kind) PROVE PrivInv'
  <2>1. /\ kind # "script" /\ Become(Frame(kind, "apply")) /\ Reachable(t')
        /\ "apply" # "execed"
    BY <1>2, <1>4 DEF Fork, Forking, Reachable
  <2> QED
    BY <2>1, BecomePrivate
<1>5. CASE Apply
  <2>1. ASSUME NEW o \in Opens, Open(o[1], o[2]) PROVE PrivInv'
    <3>1. o[1] \in ScriptFds /\ o[1] \in Fds /\ Turn(o[1], TRUE)
      BY <2>1, RedirectAssumption DEF Open
    <3>2. \A c \in Fds : c # o[1] => t'[c] = TableSaved(o[1])[c]
      BY <2>1, <3>1, SaveFresh, <1>1 DEF Open, Placed
    <3> QED
      BY <3>1, <3>2, TurnPrivate
  <2>2. ASSUME NEW d \in Dups, Dup(d[1], d[2]) PROVE PrivInv'
    <3> DEFINE ok == d[2] = d[1] \/ IsOpen(TableSaved(d[1]), d[2])
    <3>1. d[1] \in ScriptFds /\ d[1] \in Fds /\ Turn(d[1], ok)
      BY <2>2, RedirectAssumption DEF Dup
    <3>2. \A c \in Fds : c # d[1] => t'[c] = TableSaved(d[1])[c]
      BY <2>2, <3>1, SaveFresh, <1>1 DEF Dup, Dup2, Placed
    <3> QED
      BY <3>1, <3>2, TurnPrivate
  <2>3. ASSUME NEW fd \in Closes, CloseFd(fd) PROVE PrivInv'
    <3>1. fd \in ScriptFds /\ Turn(fd, TRUE)
      BY <2>3, RedirectAssumption DEF CloseFd
    <3>2. \A c \in Fds : c # fd => t'[c] = TableSaved(fd)[c]
      BY <2>3 DEF CloseFd, Close
    <3> QED
      BY <3>1, <3>2, TurnPrivate
  <2>4. ASSUME NEW fd \in ScriptFds, RedirectFails(fd) PROVE PrivInv'
    BY <2>4, TurnPrivate DEF RedirectFails
  <2> QED
    BY <1>5, <2>1, <2>2, <2>3, <2>4 DEF Apply
<1>6. CASE Start
  <2>1. /\ Swap([Top EXCEPT !.phase = "run"]) /\ t' = t
        /\ Top.kind # "script" /\ "run" # "execed"
    BY <1>2, <1>6 DEF Start
  <2> QED
    BY <2>1, PhasePrivate
<1>7. CASE ExecImage
  <2>1. Top.kind # "script" /\ t' = Execed(t) /\ Become(Frame(Top.kind, "execed"))
    BY <1>7 DEF ExecImage
  <2>2. \A n \in Fds : ~t'[n].cloexec /\ (IsOpen(t', n) => t'[n] = t[n])
    <3>1. ~Closed.cloexec /\ Closed.file = "closed"
      BY DEF Closed, Slotted
    <3>2. \A n \in Fds : t'[n] = IF t[n].cloexec THEN Closed ELSE t[n]
      BY <2>1 DEF Execed
    <3> SUFFICES ASSUME NEW n \in Fds
                 PROVE  ~t'[n].cloexec /\ (t'[n].file # "closed" => t'[n] = t[n])
      BY DEF IsOpen
    <3>3. CASE t[n].cloexec
      <4>1. t'[n] = Closed
        BY <3>2, <3>3
      <4> QED
        BY <3>1, <4>1
    <3>4. CASE ~t[n].cloexec
      <4>1. t'[n] = t[n]
        BY <3>2, <3>4
      <4> QED
        BY <3>4, <4>1
    <3> QED
      BY <3>3, <3>4
  <2>3. Reachable(t')
    BY <1>2, <2>2 DEF Reachable, IsOpen
  <2> QED
    BY <2>1, <2>2, <2>3, BecomePrivate
<1>8. CASE Abandon
  <2>1. /\ Swap([Top EXCEPT !.phase = "restore"]) /\ t' = t
        /\ Top.kind # "script" /\ "restore" # "execed"
    BY <1>8 DEF Abandon
  <2> QED
    BY <2>1, PhasePrivate
<1>9. CASE Die
  <2>1. Become(Frame(Top.kind, "gone")) /\ Top.kind # "script" /\ Reachable(t')
        /\ "gone" # "execed"
    BY <1>2, <1>9 DEF Die, Reachable
  <2> QED
    BY <2>1, BecomePrivate
<1>10. CASE Commit
  <2>1. /\ Top.kind \in Inline /\ Top.phase # "gone" /\ stack' = Tail(stack)
        /\ t' = Close(t, Copies(Top))
    BY <1>10 DEF Commit, Inline, TableCommitted
  <2>2. \A n \in Fds : IsOpen(t', n) => n \notin Copies(Top) /\ t'[n] = t[n]
    BY <2>1 DEF Close, IsOpen, Closed, Slotted
  <2> QED
    BY <2>1, <2>2, LeavePrivate
<1>11. CASE End
  <2>1. t' = t /\ Reachable(t')
    BY <1>2, <1>11 DEF End, Reachable
  <2>2. CASE Top.kind \in {"brace", "command", "special", "body"}
             /\ Swap([Top EXCEPT !.phase = "restore"])
    <3>1. Top.kind # "script" /\ "restore" # "execed"
      BY <2>2
    <3> QED
      BY <2>1, <2>2, <3>1, PhasePrivate
  <2>3. CASE Top.kind \in {"subshell", "fork_applet", "cmd_subst", "stage"}
             /\ Become(Frame(Top.kind, "gone"))
    <3>1. Top.kind # "script" /\ "gone" # "execed"
      BY <2>3
    <3> QED
      BY <2>1, <2>3, <3>1, BecomePrivate
  <2> QED
    BY <1>11, <2>2, <2>3 DEF End
<1>12. CASE Undo
  BY <1>12, UndoPrivate
<1>13. CASE Finish
  <2>1. /\ Top.kind \in Inline /\ Top.phase # "gone" /\ stack' = Tail(stack) /\ t' = t
        /\ Top.saved = <<>>
    BY <1>1, <1>13 DEF Finish, FrameOK
  <2>2. Copies(Top) = {}
    BY <2>1 DEF Copies
  <2> QED
    BY <2>1, <2>2, LeavePrivate
<1>14. CASE Stage \/ CmdSubst
  BY <1>14, PipesPrivate
<1>15. ~Body
  BY DEF Body, ScriptStaysLow
<1>16. CASE Ended \/ UNCHANGED vars
  <2>1. t' = t /\ stack' = stack
    BY <1>16 DEF Ended, vars
  <2> QED
    BY <2>1 DEF PrivInv, ScriptBase, Recorded, Reachable, Shut
<1> QED
  BY <1>3, <1>4, <1>5, <1>6, <1>7, <1>8, <1>9, <1>10, <1>11, <1>12, <1>13, <1>14,
     <1>15, <1>16 DEF Next

(* For any number of descriptors, files, redirections and nested commands: *)
(* between commands the shell holds no descriptor of its own but the one   *)
(* it reads the script through, also after a list of redirections failed   *)
(* half way or `exec` committed one; and no program inherits a saved copy, *)
(* whichever command of whichever child becomes it (redirect_apply,        *)
(* redirect_restore, redirect_commit).                                     *)
THEOREM CopiesKeptPrivate == CopiesApart => (Spec => []CopiesStayPrivate)
<1> SUFFICES ASSUME CopiesApart PROVE Spec => []CopiesStayPrivate
  OBVIOUS
<1>1. ScriptStaysLow /\ SaveBase > 2
  BY DEF CopiesApart
<1>2. Init => IInv
  BY InitIInv
<1>3. IInv /\ [Next]_vars => IInv'
  BY <1>1, NextKeepsIInv
<1>4. Init => PrivInv
  <2> SUFFICES ASSUME Init PROVE PrivInv
    OBVIOUS
  <2>1. Len(stack) = 1 /\ stack[1] = Frame("script", "run") /\ Head(stack) = stack[1]
    BY DEF Init
  <2>2. ScriptBase(stack) /\ Shut(stack, t)
    BY <2>1 DEF ScriptBase, Shut, Frame
  <2>3. /\ \A n \in Fds : IsOpen(t, n) =>
             n \in 0 .. 2 \/ (ScriptOnStdin /\ n = SaveBase /\ t[n].cloexec)
        /\ Fds \subseteq Nat /\ SaveBase \in Nat
    BY DescriptorsAssumption, RedirectAssumption DEF Init, IsOpen, Closed, Slotted
  <2>4. Recorded(stack, t)
    BY <1>1, <2>3 DEF Recorded
  <2>5. Reachable(t)
    BY <2>3 DEF Reachable
  <2> QED
    BY <2>2, <2>4, <2>5 DEF PrivInv
<1>5. IInv /\ PrivInv /\ [Next]_vars => PrivInv'
  BY <1>1, NextKeepsPrivate
<1>6. IInv /\ PrivInv => CopiesStayPrivate
  <2> SUFFICES ASSUME IInv, PrivInv PROVE CopiesStayPrivate
    OBVIOUS
  <2>1. Len(stack) \in Nat /\ Len(stack) >= 1 /\ Top = stack[1] /\ Top = Head(stack)
    BY Known
  <2>2. NothingLeaks
    <3> SUFFICES ASSUME Len(stack) = 1, Top.kind = "script", NEW n \in Fds,
                        n >= SaveBase, IsOpen(t, n)
                 PROVE  ScriptOnStdin /\ n = SaveBase
      BY DEF NothingLeaks
    <3>1. Top.saved = <<>>
      BY <2>1 DEF PrivInv, ScriptBase
    <3>2. Copies(Top) = {}
      BY <3>1 DEF Copies
    <3> QED
      BY <2>1, <3>2 DEF PrivInv, Recorded
  <2>3. ExecedSeesScript
    BY <2>1 DEF ExecedSeesScript, PrivInv, Shut, Reachable
  <2> QED
    BY <2>2, <2>3 DEF CopiesStayPrivate
<1> QED
  BY <1>2, <1>3, <1>4, <1>5, <1>6, PTL DEF Spec

-----------------------------------------------------------------------------
(* The undo log the stack stands for.                                      *)

WasIn(tab, e) == IF e.copy = NoFd THEN "closed" ELSE tab[e.copy].file

EntryLog(e, tab) == [fd |-> e.fd, was |-> WasIn(tab, e)]

FrameLog(f, tab) == [k \in DOMAIN f.saved |-> EntryLog(f.saved[k], tab)]

LogOf(s, tab) == [i \in DOMAIN s |-> FrameLog(s[i], tab)]

ViewOf(tab) == [n \in ScriptFds |-> tab[n].file]

(* Log and View are those of the stack and the table, before and after.    *)
LEMMA LogRead ==
  /\ Log = LogOf(stack, t) /\ Log' = LogOf(stack', t')
  /\ View = ViewOf(t) /\ View' = ViewOf(t')
BY DEF Log, LogOf, FrameLog, EntryLog, WasIn, Was, View, ViewOf

(* The log of a frame has an entry for each of its records.                *)
LEMMA FrameLogType ==
  ASSUME NEW f, f.saved \in Seq(Entry), NEW tab
  PROVE  /\ FrameLog(f, tab) \in Seq({EntryLog(e, tab) : e \in Entry})
         /\ Len(FrameLog(f, tab)) = Len(f.saved)
         /\ \A k \in 1 .. Len(f.saved) : FrameLog(f, tab)[k] = EntryLog(f.saved[k], tab)
<1> DEFINE S == {EntryLog(e, tab) : e \in Entry}
           g == FrameLog(f, tab)
<1>1. Len(f.saved) \in Nat /\ DOMAIN f.saved = 1 .. Len(f.saved)
  BY LenProperties
<1>2. \A k \in 1 .. Len(f.saved) : f.saved[k] \in Entry
  BY ElementOfSeq
<1>3. g \in [1 .. Len(f.saved) -> S]
  BY <1>1, <1>2 DEF FrameLog
<1>4. \A k \in 1 .. Len(f.saved) : g[k] = EntryLog(f.saved[k], tab)
  BY <1>1 DEF FrameLog
<1> HIDE DEF S, g
<1>5. g \in Seq(S)
  BY <1>1, <1>3, SeqDef
<1>6. Len(g) = Len(f.saved)
  BY <1>1, <1>3, <1>5
<1> QED
  BY <1>4, <1>5, <1>6 DEF S, g

(* The log of a stack has one of each of its frames.                       *)
LEMMA LogType ==
  ASSUME NEW s \in Seq(Frames), NEW tab
  PROVE  /\ LogOf(s, tab) \in Seq({FrameLog(f, tab) : f \in Frames})
         /\ Len(LogOf(s, tab)) = Len(s)
         /\ \A i \in 1 .. Len(s) : LogOf(s, tab)[i] = FrameLog(s[i], tab)
<1> DEFINE S == {FrameLog(f, tab) : f \in Frames}
           g == LogOf(s, tab)
<1>1. Len(s) \in Nat /\ DOMAIN s = 1 .. Len(s)
  BY LenProperties
<1>2. \A k \in 1 .. Len(s) : s[k] \in Frames
  BY ElementOfSeq
<1>3. g \in [1 .. Len(s) -> S]
  BY <1>1, <1>2 DEF LogOf
<1>4. \A k \in 1 .. Len(s) : g[k] = FrameLog(s[k], tab)
  BY <1>1 DEF LogOf
<1> HIDE DEF S, g
<1>5. g \in Seq(S)
  BY <1>1, <1>3, SeqDef
<1>6. Len(g) = Len(s)
  BY <1>1, <1>3, <1>5
<1> QED
  BY <1>4, <1>5, <1>6 DEF S, g

(* A frame on top of a stack, and the frames below the top.                *)
LEMMA LogPush ==
  ASSUME NEW s \in Seq(Frames), NEW f \in Frames, NEW tab
  PROVE  LogOf(<<f>> \o s, tab) = <<FrameLog(f, tab)>> \o LogOf(s, tab)
<1> DEFINE S == {FrameLog(g, tab) : g \in Frames}
           n == <<f>> \o s
           a == LogOf(n, tab)
           l == LogOf(s, tab)
           b == <<FrameLog(f, tab)>> \o l
<1>1. /\ n \in Seq(Frames) /\ Len(n) = Len(s) + 1 /\ Len(s) \in Nat /\ n[1] = f
      /\ \A i \in 2 .. Len(s) + 1 : n[i] = s[i - 1] /\ i - 1 \in 1 .. Len(s)
  OBVIOUS
<1> HIDE DEF n
<1>2. /\ a \in Seq(S) /\ Len(a) = Len(n)
      /\ \A i \in 1 .. Len(n) : a[i] = FrameLog(n[i], tab)
  BY <1>1, LogType
<1>3. /\ l \in Seq(S) /\ Len(l) = Len(s)
      /\ \A i \in 1 .. Len(s) : l[i] = FrameLog(s[i], tab)
  BY LogType
<1>4. FrameLog(f, tab) \in S
  OBVIOUS
<1> HIDE DEF S, a, l
<1>5. /\ b \in Seq(S) /\ Len(b) = Len(l) + 1 /\ b[1] = FrameLog(f, tab)
      /\ \A i \in 2 .. Len(l) + 1 : b[i] = l[i - 1]
  BY <1>3, <1>4
<1> HIDE DEF b
<1>6. \A i \in 1 .. Len(a) : a[i] = b[i]
  <2> SUFFICES ASSUME NEW i \in 1 .. Len(s) + 1 PROVE a[i] = b[i]
    BY <1>1, <1>2
  <2>1. CASE i = 1
    BY <1>1, <1>2, <1>5, <2>1
  <2>2. CASE i \in 2 .. Len(s) + 1
    BY <1>1, <1>2, <1>3, <1>5, <2>2
  <2> QED
    BY <1>1, <2>1, <2>2
<1>7. a = b
  BY <1>1, <1>2, <1>3, <1>5, <1>6, SeqEqual
<1> QED
  BY <1>7 DEF a, b, n, l

LEMMA LogTail ==
  ASSUME NEW s \in Seq(Frames), s # <<>>, NEW tab
  PROVE  /\ LogOf(Tail(s), tab) = Tail(LogOf(s, tab)) /\ LogOf(s, tab) # <<>>
         /\ Head(LogOf(s, tab)) = FrameLog(Head(s), tab)
<1> DEFINE S == {FrameLog(g, tab) : g \in Frames}
           n == Tail(s)
           a == LogOf(n, tab)
           l == LogOf(s, tab)
           b == Tail(l)
<1>1. /\ n \in Seq(Frames) /\ Len(n) = Len(s) - 1 /\ Len(s) \in Nat /\ Len(s) >= 1
      /\ \A i \in 1 .. Len(n) : n[i] = s[i + 1]
      /\ Head(s) = s[1]
  BY HeadTailProperties, EmptySeq, LenProperties
<1> HIDE DEF n
<1>2. /\ a \in Seq(S) /\ Len(a) = Len(n)
      /\ \A i \in 1 .. Len(n) : a[i] = FrameLog(n[i], tab)
  BY <1>1, LogType
<1>3. /\ l \in Seq(S) /\ Len(l) = Len(s)
      /\ \A i \in 1 .. Len(s) : l[i] = FrameLog(s[i], tab)
  BY LogType
<1> HIDE DEF S, a, l
<1>4. l # <<>> /\ Head(l) = l[1]
  BY <1>1, <1>3
<1>5. b \in Seq(S) /\ Len(b) = Len(l) - 1 /\ \A i \in 1 .. Len(b) : b[i] = l[i + 1]
  BY <1>3, <1>4, HeadTailProperties
<1> HIDE DEF b
<1>6. \A i \in 1 .. Len(a) : a[i] = b[i]
  <2> SUFFICES ASSUME NEW i \in 1 .. Len(n) PROVE a[i] = b[i]
    BY <1>2
  <2>1. i + 1 \in 1 .. Len(s) /\ i \in 1 .. Len(b)
    BY <1>1, <1>3, <1>5
  <2> QED
    BY <1>1, <1>2, <1>3, <1>5, <2>1
<1>7. a = b
  <2>1. Len(a) = Len(b)
    BY <1>1, <1>2, <1>3, <1>5
  <2> QED
    BY <1>2, <1>5, <1>6, <2>1, SeqEqual
<1>8. Head(l) = FrameLog(Head(s), tab)
  BY <1>1, <1>3, <1>4
<1> QED
  BY <1>4, <1>7, <1>8 DEF a, b, n, l

(* Only the copies of a frame matter to its log.                           *)
LEMMA FrameLogSame ==
  ASSUME NEW f, NEW tab, NEW new, \A c \in Copies(f) : new[c] = tab[c]
  PROVE  FrameLog(f, new) = FrameLog(f, tab)
<1>1. \A k \in DOMAIN f.saved : EntryLog(f.saved[k], new) = EntryLog(f.saved[k], tab)
  BY DEF EntryLog, WasIn, Copies
<1> QED
  BY <1>1 DEF FrameLog

LEMMA LogSame ==
  ASSUME NEW s \in Seq(Frames), NEW tab, NEW new,
         \A i \in 1 .. Len(s) : \A c \in Copies(s[i]) : new[c] = tab[c]
  PROVE  LogOf(s, new) = LogOf(s, tab)
<1>1. DOMAIN s = 1 .. Len(s)
  BY LenProperties
<1>2. \A i \in DOMAIN s : FrameLog(s[i], new) = FrameLog(s[i], tab)
  BY <1>1, FrameLogSame
<1> QED
  BY <1>2 DEF LogOf

(* A record added to a frame, or taken from it again.                      *)
LEMMA FrameLogAppend ==
  ASSUME NEW f, NEW g, f.saved \in Seq(Entry), NEW e \in Entry,
         g.saved = Append(f.saved, e), NEW tab
  PROVE  FrameLog(g, tab) = Append(FrameLog(f, tab), EntryLog(e, tab))
<1> DEFINE S == {EntryLog(x, tab) : x \in Entry}
           a == FrameLog(g, tab)
           l == FrameLog(f, tab)
           x1 == EntryLog(e, tab)
           m == Len(f.saved)
           b == Append(l, x1)
<1>1. /\ g.saved \in Seq(Entry) /\ Len(g.saved) = m + 1 /\ m \in Nat
      /\ \A k \in 1 .. m : g.saved[k] = f.saved[k]
      /\ g.saved[m + 1] = e
  BY AppendProperties, LenProperties
<1>2. /\ a \in Seq(S) /\ Len(a) = m + 1
      /\ \A k \in 1 .. m + 1 : a[k] = EntryLog(g.saved[k], tab)
  BY <1>1, FrameLogType
<1>3. /\ l \in Seq(S) /\ Len(l) = m
      /\ \A k \in 1 .. m : l[k] = EntryLog(f.saved[k], tab)
  BY FrameLogType
<1>4. x1 \in S
  OBVIOUS
<1>5. x1 = EntryLog(e, tab)
  OBVIOUS
<1> HIDE DEF S, a, l, x1, m
<1>6. b \in Seq(S) /\ Len(b) = m + 1 /\ (\A k \in 1 .. m : b[k] = l[k]) /\ b[m + 1] = x1
  BY <1>1, <1>3, <1>4, AppendProperties
<1> HIDE DEF b
<1>7. \A k \in 1 .. Len(a) : a[k] = b[k]
  <2> SUFFICES ASSUME NEW k \in 1 .. m + 1 PROVE a[k] = b[k]
    BY <1>2
  <2>1. CASE k \in 1 .. m
    BY <1>1, <1>2, <1>3, <1>6, <2>1
  <2>2. CASE k = m + 1
    BY <1>1, <1>2, <1>5, <1>6, <2>2
  <2> QED
    BY <1>1, <2>1, <2>2
<1>8. a = b
  BY <1>2, <1>6, <1>7, SeqEqual
<1> QED
  BY <1>8 DEF a, b, l, x1

LEMMA FrameLogShort ==
  ASSUME NEW f, NEW g, f.saved \in Seq(Entry), f.saved # <<>>,
         g.saved = SubSeq(f.saved, 1, Len(f.saved) - 1), NEW tab
  PROVE  /\ FrameLog(f, tab) # <<>>
         /\ FrameLog(f, tab)[Len(FrameLog(f, tab))] = EntryLog(f.saved[Len(f.saved)], tab)
         /\ FrameLog(g, tab) = SubSeq(FrameLog(f, tab), 1, Len(FrameLog(f, tab)) - 1)
<1> DEFINE S == {EntryLog(x, tab) : x \in Entry}
           a == FrameLog(g, tab)
           l == FrameLog(f, tab)
           m == Len(f.saved)
           b == SubSeq(l, 1, Len(l) - 1)
<1>1. /\ g.saved \in Seq(Entry) /\ Len(g.saved) = m - 1 /\ m \in Nat /\ m >= 1
      /\ \A k \in 1 .. m - 1 : g.saved[k] = f.saved[k]
  BY AllButLast, EmptySeq, LenProperties
<1>2. /\ a \in Seq(S) /\ Len(a) = m - 1
      /\ \A k \in 1 .. m - 1 : a[k] = EntryLog(g.saved[k], tab)
  BY <1>1, FrameLogType
<1>3. /\ l \in Seq(S) /\ Len(l) = m
      /\ \A k \in 1 .. m : l[k] = EntryLog(f.saved[k], tab)
  BY FrameLogType
<1>4. m = Len(f.saved)
  OBVIOUS
<1> HIDE DEF S, a, l, m
<1>5. l # <<>>
  BY <1>1, <1>3
<1>6. b \in Seq(S) /\ Len(b) = m - 1 /\ \A k \in 1 .. m - 1 : b[k] = l[k]
  BY <1>3, <1>5, AllButLast
<1> HIDE DEF b
<1>7. \A k \in 1 .. Len(a) : a[k] = b[k]
  <2> SUFFICES ASSUME NEW k \in 1 .. m - 1 PROVE a[k] = b[k]
    BY <1>2
  <2>1. k \in 1 .. m
    BY <1>1
  <2> QED
    BY <1>1, <1>2, <1>3, <1>6, <2>1
<1>8. a = b
  BY <1>2, <1>6, <1>7, SeqEqual
<1>9. l[Len(l)] = EntryLog(f.saved[m], tab)
  BY <1>1, <1>3
<1> QED
  BY <1>4, <1>5, <1>8, <1>9 DEF a, b, l

-----------------------------------------------------------------------------
(* The refinement: every step of the shell is one of UndoLog.              *)

(* Descriptors do not run out: there is always a number for a copy.        *)
RoomToSave == FreeFrom(t, SaveBase) # {}

(* The pipe end on which a command substitution would report an error is   *)
(* at no number that the script names.                                     *)
ReportOutOfReach ==
  "cmd_subst" \in Kinds /\ HasTwo(t) /\ HasTwo(Piped) =>
    Lowest(FreeFrom(Piped, 0) \ {Lowest(FreeFrom(Piped, 0))}) \notin ScriptFds

(* No descriptor of the script is closed in a program it runs.             *)
ScriptsPass(tab) == \A n \in ScriptFds : ~tab[n].cloexec

(* The steps of the abstract specification, for the log and the view of a  *)
(* stack and a table.                                                      *)
LEMMA ViewSame ==
  ASSUME \A n \in ScriptFds : t'[n].file = t[n].file
  PROVE  View' = View
BY LogRead DEF ViewOf

(* The log of the frames below the top, whose copies nothing has touched.  *)
LEMMA TailLog ==
  ASSUME NEW s \in Seq(Frames), s # <<>>, NEW tab, NEW new,
         \A i \in 2 .. Len(s) : \A c \in Copies(s[i]) : new[c] = tab[c]
  PROVE  /\ LogOf(Tail(s), new) = Tail(LogOf(s, tab)) /\ LogOf(s, tab) # <<>>
         /\ Head(LogOf(s, tab)) = FrameLog(Head(s), tab)
<1> DEFINE n == Tail(s)
<1>1. n \in Seq(Frames) /\ Len(n) = Len(s) - 1 /\ \A i \in 1 .. Len(n) : n[i] = s[i + 1]
  BY HeadTailProperties
<1>2. Len(s) \in Nat
  BY LenProperties
<1> HIDE DEF n
<1>3. \A i \in 1 .. Len(n) : \A c \in Copies(n[i]) : new[c] = tab[c]
  <2> SUFFICES ASSUME NEW i \in 1 .. Len(n), NEW c \in Copies(n[i]) PROVE new[c] = tab[c]
    OBVIOUS
  <2>1. n[i] = s[i + 1] /\ i + 1 \in 2 .. Len(s)
    BY <1>1, <1>2
  <2> QED
    BY <2>1
<1>4. LogOf(n, new) = LogOf(n, tab)
  BY <1>1, <1>3, LogSame
<1> QED
  BY <1>4, LogTail DEF n

(* The innermost frame is replaced.                                        *)
LEMMA SwapLog ==
  ASSUME IInv, NEW f \in Frames, stack' = <<f>> \o Tail(stack),
         \A i \in 2 .. Len(stack) : \A c \in Copies(stack[i]) : t'[c] = t[c]
  PROVE  /\ Log' = <<FrameLog(f, t')>> \o Tail(Log)
         /\ Head(Log) = FrameLog(Top, t) /\ Log # <<>>
<1>1. stack \in Seq(Frames) /\ stack # <<>> /\ Top = Head(stack)
  BY Known
<1>2. Tail(stack) \in Seq(Frames)
  BY <1>1, HeadTailProperties
<1>3. LogOf(<<f>> \o Tail(stack), t') = <<FrameLog(f, t')>> \o LogOf(Tail(stack), t')
  BY <1>2, LogPush
<1>4. /\ LogOf(Tail(stack), t') = Tail(LogOf(stack, t)) /\ LogOf(stack, t) # <<>>
      /\ Head(LogOf(stack, t)) = FrameLog(Head(stack), t)
  BY <1>1, TailLog
<1> QED
  BY <1>1, <1>3, <1>4, LogRead

(* The innermost frame is left.                                            *)
LEMMA PopLog ==
  ASSUME IInv, stack' = Tail(stack),
         \A i \in 2 .. Len(stack) : \A c \in Copies(stack[i]) : t'[c] = t[c]
  PROVE  Log' = Tail(Log) /\ Head(Log) = FrameLog(Top, t) /\ Log # <<>>
<1>1. stack \in Seq(Frames) /\ stack # <<>> /\ Top = Head(stack)
  BY Known
<1>2. /\ LogOf(Tail(stack), t') = Tail(LogOf(stack, t)) /\ LogOf(stack, t) # <<>>
      /\ Head(LogOf(stack, t)) = FrameLog(Head(stack), t)
  BY <1>1, TailLog
<1> QED
  BY <1>1, <1>2, LogRead

(* The process becomes another one.                                        *)
LEMMA BecomeLog ==
  ASSUME NEW kind, NEW phase, Become(Frame(kind, phase))
  PROVE  Log' = << <<>> >>
<1> DEFINE f == Frame(kind, phase)
<1>1. stack' = <<f>> /\ f.saved = <<>>
  BY DEF Become, Frame
<1> HIDE DEF f
<1>2. FrameLog(f, t') = <<>>
  BY <1>1 DEF FrameLog
<1>3. DOMAIN stack' = {1} /\ stack'[1] = f
  BY <1>1
<1>4. Log' = [i \in {1} |-> FrameLog(stack'[i], t')]
  BY <1>3, LogRead DEF LogOf
<1>5. Log' = [i \in {1} |-> <<>>]
  BY <1>2, <1>3, <1>4
<1>6. [i \in {1} |-> <<>>] = << <<>> >>
  OBVIOUS
<1> QED
  BY <1>5, <1>6

(* A forked child starts without a log and with the view of its parent,    *)
(* but for an output that is a pipe.                                       *)
LEMMA ForkScoped ==
  ASSUME NEW kind, NEW phase, Become(Frame(kind, phase)),
         \A n \in ScriptFds : n # 1 => t'[n].file = t[n].file,
         1 \in ScriptFds => t'[1].file \in {t[1].file, "pipe_out"}
  PROVE  Undoing!Next
<1>1. Log' = << <<>> >>
  BY BecomeLog
<1>2. View' \in {View, [n \in ScriptFds |-> IF n = 1 THEN "pipe_out" ELSE View[n]]}
  <2>1. CASE 1 \in ScriptFds /\ t'[1].file # t[1].file
    <3>1. \A n \in ScriptFds : View'[n] = IF n = 1 THEN "pipe_out" ELSE View[n]
      BY <2>1, LogRead DEF ViewOf
    <3>2. View' = [n \in ScriptFds |-> View'[n]]
      BY LogRead DEF ViewOf
    <3> QED
      BY <3>1, <3>2
  <2>2. CASE ~(1 \in ScriptFds /\ t'[1].file # t[1].file)
    <3>1. \A n \in ScriptFds : t'[n].file = t[n].file
      BY <2>2
    <3> QED
      BY <3>1, ViewSame
  <2> QED
    BY <2>1, <2>2
<1>3. Undoing!Fork
  BY <1>1, <1>2 DEF Undoing!Fork
<1> QED
  BY <1>3 DEF Undoing!Next

(* The copies of a stack are live, and those of two frames differ.         *)
LEMMA CopiesKnown ==
  ASSUME ScriptStaysLow, IInv
  PROVE  /\ \A i \in 1 .. Len(stack) : \A c \in Copies(stack[i]) :
              Live(t, c) /\ c \in Fds /\ c \notin ScriptFds /\ c # NoFd
         /\ \A i \in 2 .. Len(stack) : Copies(Top) \cap Copies(stack[i]) = {}
         /\ \A c : Live(t, c) => c \in Fds /\ c \notin ScriptFds /\ c # NoFd
<1>1. \A c : Live(t, c) => c \in Fds /\ c \notin ScriptFds /\ c # NoFd
  BY Known DEF Live, ScriptStaysLow, NoFd
<1>2. \A i \in 1 .. Len(stack) : \A c \in Copies(stack[i]) : Live(t, c)
  BY Known DEF FrameOK
<1>3. \A i \in 2 .. Len(stack) : Copies(Top) \cap Copies(stack[i]) = {}
  <2> SUFFICES ASSUME NEW i \in 2 .. Len(stack) PROVE Copies(Top) \cap Copies(stack[i]) = {}
    OBVIOUS
  <2>1. i \in 1 .. Len(stack) /\ 1 \in 1 .. Len(stack) /\ i # 1 /\ Top = stack[1]
    BY Known
  <2> QED
    BY <2>1 DEF IInv, StackOK
<1> QED
  BY <1>1, <1>2, <1>3

(* save_fd changes nothing that the script or a record refers to.          *)
LEMMA SaveSpares ==
  ASSUME ScriptStaysLow, IInv, NEW fd \in ScriptFds
  PROVE  /\ \A n \in ScriptFds : TableSaved(fd)[n] = t[n]
         /\ \A c : Live(t, c) => TableSaved(fd)[c] = t[c]
         /\ SavedCopy(fd) # NoFd =>
              /\ SavedCopy(fd) \in Fds /\ SavedCopy(fd) \notin ScriptFds
              /\ TableSaved(fd)[SavedCopy(fd)].file = t[fd].file
         /\ SavedCopy(fd) \in Fds \cup {NoFd}
         /\ DOMAIN TableSaved(fd) = Fds
<1>1. /\ t \in [Fds -> Slot] /\ fd \in Fds /\ ScriptFds \subseteq Fds
      /\ Fds \subseteq Nat /\ SaveBase \in Nat
  BY Known
<1>2. /\ TableSaved(fd) \in [Fds -> Slot] /\ SavedCopy(fd) \in Fds \cup {NoFd}
      /\ SavedCopy(fd) # NoFd => Live(TableSaved(fd), SavedCopy(fd))
      /\ \A c \in Fds : IsOpen(t, c) => TableSaved(fd)[c] = t[c]
  BY <1>1, SaveFresh
<1>3. SavedCopy(fd) # NoFd => SavedCopy(fd) \in Fds /\ SavedCopy(fd) \notin ScriptFds
  <2>1. \A c : Live(TableSaved(fd), c) => c \in Fds /\ c \notin ScriptFds
    BY <1>1 DEF Live, ScriptStaysLow
  <2> QED
    BY <1>2, <2>1
<1>4. \A c \in Fds : c # SavedCopy(fd) => TableSaved(fd)[c] = t[c]
  BY <1>1 DEF TableSaved, Placed
<1>5. \A n \in ScriptFds : TableSaved(fd)[n] = t[n]
  <2>1. \A n \in ScriptFds : n \in Fds /\ n # NoFd /\ n # SavedCopy(fd)
    BY <1>1, <1>3 DEF NoFd
  <2> QED
    BY <1>4, <2>1
<1>6. \A c : Live(t, c) => TableSaved(fd)[c] = t[c]
  BY <1>2 DEF Live
<1>7. SavedCopy(fd) # NoFd => TableSaved(fd)[SavedCopy(fd)].file = t[fd].file
  BY <1>1, <1>2 DEF TableSaved, Placed, Slotted
<1> QED
  BY <1>2, <1>3, <1>5, <1>6, <1>7

(* One turn of redirect_apply's loop is one Redirect: what fd referred to  *)
(* is logged, and nothing else of the script's changes.                    *)
LEMMA TurnScoped ==
  ASSUME ScriptStaysLow, IInv, RoomToSave, NEW fd \in ScriptFds, NEW ok \in BOOLEAN, Turn(fd, ok),
         t' \in [Fds -> Slot], \A c \in Fds : c # fd => t'[c] = TableSaved(fd)[c]
  PROVE  Undoing!Next
<1> DEFINE e == [fd |-> fd, copy |-> SavedCopy(fd)]
           f == [Top EXCEPT !.saved = Append(@, e), !.left = @ - 1, !.failed = ~ok]
           v == t'[fd].file
<1>1. /\ fd \in Fds /\ ScriptFds \subseteq Fds /\ t \in [Fds -> Slot]
      /\ Top \in Frames /\ Top.saved \in Seq(Entry) /\ Top = stack[1]
      /\ Len(stack) \in Nat /\ Len(stack) >= 1
      /\ stack' = <<f>> \o Tail(stack) /\ Top.left > 0
  BY Known DEF Turn, Swap
<1>2. /\ \A n \in ScriptFds : TableSaved(fd)[n] = t[n]
      /\ \A c : Live(t, c) => TableSaved(fd)[c] = t[c]
      /\ SavedCopy(fd) # NoFd =>
           /\ SavedCopy(fd) \in Fds /\ SavedCopy(fd) \notin ScriptFds
           /\ TableSaved(fd)[SavedCopy(fd)].file = t[fd].file
      /\ SavedCopy(fd) \in Fds \cup {NoFd}
  BY SaveSpares
<1>3. e \in Entry /\ e.fd = fd /\ e.copy = SavedCopy(fd)
  BY <1>1, <1>2 DEF Entry
<1>4. f \in Frames /\ f.saved = Append(Top.saved, e)
  <2>1. Append(Top.saved, e) \in Seq(Entry)
    BY <1>1, <1>3, AppendProperties
  <2>2. Top.left \in 0 .. MaxRedirs /\ MaxRedirs \in Nat
    BY <1>1, RedirectAssumption DEF Frames
  <2>3. Top.left - 1 \in 0 .. MaxRedirs
    BY <1>1, <2>2
  <2> QED
    BY <1>1, <2>1, <2>3 DEF Frames
<1> HIDE DEF e, f
<1>5. \A c : Live(t, c) => t'[c] = t[c]
  <2> SUFFICES ASSUME NEW c, Live(t, c) PROVE t'[c] = t[c]
    OBVIOUS
  <2>1. c \in Fds /\ c # fd
    BY CopiesKnown
  <2> QED
    BY <1>2, <2>1
<1>6. \A i \in 1 .. Len(stack) : \A c \in Copies(stack[i]) : t'[c] = t[c]
  BY <1>5, CopiesKnown
<1>7. /\ Log' = <<FrameLog(f, t')>> \o Tail(Log)
      /\ Head(Log) = FrameLog(Top, t) /\ Log # <<>>
  <2>1. \A i \in 2 .. Len(stack) : \A c \in Copies(stack[i]) : t'[c] = t[c]
    BY <1>1, <1>6
  <2> QED
    BY <1>1, <1>4, <2>1, SwapLog
<1>8. FrameLog(f, t') = Append(Head(Log), [fd |-> fd, was |-> View[fd]])
  <2>1. FrameLog(f, t') = Append(FrameLog(Top, t'), EntryLog(e, t'))
    <3>1. Top.saved \in Seq(Entry) /\ e \in Entry /\ f.saved = Append(Top.saved, e)
      BY <1>1, <1>3, <1>4
    <3> QED
      BY <3>1, FrameLogAppend
  <2>2. \A c \in Copies(Top) : t'[c] = t[c]
    BY <1>1, <1>6
  <2>3. FrameLog(Top, t') = Head(Log)
    BY <1>7, <2>2, FrameLogSame
  <2>4. WasIn(t', e) = t[fd].file
    <3>1. CASE SavedCopy(fd) = NoFd
      <4>1. FreeFrom(t, SaveBase) \in SUBSET Fds /\ FreeFrom(t, SaveBase) # {}
        BY DEF RoomToSave, FreeFrom
      <4>2. Lowest(FreeFrom(t, SaveBase)) \in Fds
        BY <4>1, LowestIn
      <4>3. ~IsOpen(t, fd)
        BY <3>1, <4>1, <4>2, Known DEF SavedCopy, NoFd
      <4> QED
        BY <1>3, <3>1, <4>3 DEF WasIn, IsOpen
    <3>2. CASE SavedCopy(fd) # NoFd
      <4>1. t'[SavedCopy(fd)] = TableSaved(fd)[SavedCopy(fd)]
        BY <1>2, <3>2
      <4> QED
        BY <1>2, <1>3, <3>2, <4>1 DEF WasIn
    <3> QED
      BY <3>1, <3>2
  <2>5. View[fd] = t[fd].file
    BY LogRead DEF ViewOf
  <2> QED
    BY <1>3, <2>1, <2>3, <2>4, <2>5 DEF EntryLog
<1>9. View' = [View EXCEPT ![fd] = v]
  <2>1. \A n \in ScriptFds : n # fd => t'[n] = t[n]
    BY <1>1, <1>2
  <2> QED
    BY <2>1, LogRead DEF ViewOf
<1>10. v \in Undoing!States
  BY <1>1 DEF Undoing!States, Slot
<1> HIDE DEF v
<1>11. Undoing!Redirect(fd, v)
  BY <1>7, <1>8, <1>9 DEF Undoing!Redirect, Undoing!Logged
<1> QED
  BY <1>7, <1>10, <1>11 DEF Undoing!Next

(* One turn of redirect_restore's loop is one Undo.                        *)
LEMMA UndoScoped ==
  ASSUME ScriptStaysLow, IInv, Undo
  PROVE  Undoing!Next
<1> DEFINE f == [Top EXCEPT !.saved = SubSeq(@, 1, Len(@) - 1)]
           e == LastSaved
           fd == e.fd
           copy == e.copy
<1>1. /\ t \in [Fds -> Slot] /\ ScriptFds \subseteq Fds
      /\ Top \in Frames /\ Top.saved \in Seq(Entry) /\ Top = stack[1] /\ FrameOK(Top, t)
      /\ Len(stack) \in Nat /\ Len(stack) >= 1
      /\ stack' = <<f>> \o Tail(stack) /\ t' = TableUndone
      /\ Top.saved # <<>>
  BY Known DEF Undo, Swap
<1>2. /\ Len(Top.saved) \in Nat /\ Len(Top.saved) >= 1
      /\ DOMAIN Top.saved = 1 .. Len(Top.saved) /\ e = Top.saved[Len(Top.saved)]
      /\ e \in Entry
  BY <1>1, EmptySeq, LenProperties, ElementOfSeq DEF LastSaved
<1>3. LET u == SubSeq(Top.saved, 1, Len(Top.saved) - 1)
      IN  /\ u \in Seq(Entry) /\ Len(u) = Len(Top.saved) - 1
          /\ \A k \in 1 .. Len(Top.saved) - 1 : u[k] = Top.saved[k]
  BY <1>1, AllButLast
<1>4. f \in Frames /\ f.saved = SubSeq(Top.saved, 1, Len(Top.saved) - 1)
  BY <1>1, <1>3 DEF Frames
<1>5. t' = IF copy = NoFd THEN Close(t, {fd}) ELSE Close(Dup2(t, copy, fd), {copy})
  BY <1>1 DEF TableUndone
<1>6. copy # NoFd => copy \in Copies(Top)
  BY <1>2 DEF Copies
<1>7. fd \in ScriptFds /\ (copy # NoFd => Live(t, copy) /\ copy \notin ScriptFds /\ copy \in Fds)
  <2>1. fd \in ScriptFds
    BY <1>1, <1>2 DEF FrameOK
  <2>2. copy # NoFd => Live(t, copy)
    BY <1>1, <1>6 DEF FrameOK
  <2> QED
    BY <2>1, <2>2, CopiesKnown
<1> HIDE DEF f
<1>8. \A n \in Fds : n # fd /\ n # copy => t'[n] = t[n]
  <2>1. \A n \in Fds : n # fd => Dup2(t, copy, fd)[n] = t[n]
    BY <1>1 DEF Dup2, Placed
  <2> QED
    BY <1>5, <2>1 DEF Close
<1>9. t'[fd].file = WasIn(t, e)
  <2>1. CASE copy = NoFd
    BY <1>1, <1>5, <1>7, <2>1 DEF WasIn, Close, Closed, Slotted
  <2>2. CASE copy # NoFd
    <3>1. copy # fd /\ IsOpen(t, copy)
      BY <1>7, <2>2 DEF Live
    <3>2. Dup2(t, copy, fd)[fd].file = t[copy].file
      BY <1>1, <1>7, <3>1 DEF Dup2, Placed, Slotted
    <3>3. t'[fd] = Dup2(t, copy, fd)[fd]
      BY <1>1, <1>5, <1>7, <2>2, <3>1 DEF Close
    <3> QED
      BY <2>2, <3>2, <3>3 DEF WasIn
  <2> QED
    BY <2>1, <2>2
<1>10. \A c : Live(t, c) /\ c # copy => t'[c] = t[c]
  <2> SUFFICES ASSUME NEW c, Live(t, c), c # copy PROVE t'[c] = t[c]
    OBVIOUS
  <2>1. c \in Fds /\ c # fd
    BY <1>7, CopiesKnown
  <2> QED
    BY <1>8, <2>1
<1>11. \A i \in 2 .. Len(stack) : \A c \in Copies(stack[i]) : t'[c] = t[c]
  <2> SUFFICES ASSUME NEW i \in 2 .. Len(stack), NEW c \in Copies(stack[i])
               PROVE  t'[c] = t[c]
    OBVIOUS
  <2>1. Live(t, c) /\ c \notin Copies(Top) /\ c # NoFd
    <3>1. i \in 1 .. Len(stack)
      BY <1>1
    <3> QED
      BY <3>1, CopiesKnown
  <2>2. c # copy
    BY <1>6, <2>1
  <2> QED
    BY <1>10, <2>1, <2>2
<1>12. /\ Log' = <<FrameLog(f, t')>> \o Tail(Log)
       /\ Head(Log) = FrameLog(Top, t) /\ Log # <<>>
  BY <1>1, <1>4, <1>11, SwapLog
<1>13. FrameLog(f, t') = FrameLog(f, t)
  <2>1. \A c \in Copies(f) : c \in Copies(Top) /\ c # copy
    <3>1. \A k \in DOMAIN f.saved : /\ k \in DOMAIN Top.saved /\ k # Len(Top.saved)
                                    /\ f.saved[k] = Top.saved[k]
      <4>1. DOMAIN f.saved = 1 .. Len(Top.saved) - 1
        BY <1>3, <1>4, LenProperties
      <4> QED
        BY <1>2, <1>3, <1>4, <4>1
    <3> QED
      BY <1>1, <1>2, <3>1, SMTT(40) DEF Copies, FrameOK
  <2>2. \A c \in Copies(Top) : Live(t, c)
    BY <1>1 DEF FrameOK
  <2>3. \A c \in Copies(f) : t'[c] = t[c]
    BY <1>10, <2>1, <2>2
  <2> QED
    BY <2>3, FrameLogSame
<1>14. /\ FrameLog(Top, t) # <<>>
       /\ FrameLog(Top, t)[Len(FrameLog(Top, t))] = EntryLog(e, t)
       /\ FrameLog(f, t) = SubSeq(FrameLog(Top, t), 1, Len(FrameLog(Top, t)) - 1)
  <2>1. /\ Top.saved \in Seq(Entry) /\ Top.saved # <<>>
        /\ f.saved = SubSeq(Top.saved, 1, Len(Top.saved) - 1)
    BY <1>1, <1>4
  <2>2. /\ FrameLog(Top, t) # <<>>
        /\ FrameLog(Top, t)[Len(FrameLog(Top, t))] = EntryLog(Top.saved[Len(Top.saved)], t)
        /\ FrameLog(f, t) = SubSeq(FrameLog(Top, t), 1, Len(FrameLog(Top, t)) - 1)
    BY <2>1, FrameLogShort
  <2> QED
    BY <1>2, <2>2
<1>15. View' = [View EXCEPT ![EntryLog(e, t).fd] = EntryLog(e, t).was]
  <2>1. EntryLog(e, t).fd = fd /\ EntryLog(e, t).was = t'[fd].file
    BY <1>9 DEF EntryLog
  <2>2. \A n \in ScriptFds : n # fd => t'[n] = t[n]
    <3>1. \A n \in ScriptFds : n \in Fds /\ n # copy
      BY <1>1, <1>7, Known DEF NoFd
    <3> QED
      BY <1>8, <3>1
  <2> QED
    BY <2>1, <2>2, LogRead DEF ViewOf
<1> HIDE DEF e
<1>16. Undoing!Undo
  BY <1>12, <1>13, <1>14, <1>15 DEF Undoing!Undo
<1> QED
  BY <1>16 DEF Undoing!Next

(* A sequence is its head and its tail.                                    *)
LEMMA HeadAndTail ==
  ASSUME NEW S, NEW s \in Seq(S), s # <<>>
  PROVE  <<Head(s)>> \o Tail(s) = s
<1> DEFINE r == <<Head(s)>> \o Tail(s)
<1>1. /\ Head(s) = s[1] /\ Head(s) \in S /\ Tail(s) \in Seq(S) /\ Len(Tail(s)) = Len(s) - 1
      /\ Len(s) \in Nat /\ Len(s) >= 1
      /\ \A i \in 1 .. Len(s) - 1 : Tail(s)[i] = s[i + 1]
  BY HeadTailProperties, EmptySeq, LenProperties
<1>2. /\ r \in Seq(S) /\ Len(r) = Len(s) /\ r[1] = s[1]
      /\ \A i \in 2 .. Len(s) : r[i] = s[i]
  BY <1>1
<1> HIDE DEF r
<1>3. \A i \in 1 .. Len(r) : r[i] = s[i]
  BY <1>1, <1>2
<1>4. r = s
  BY <1>2, <1>3, SeqEqual
<1> QED
  BY <1>4 DEF r

(* A command moves on to another phase: UndoLog does not see it.           *)
LEMMA PhaseScoped ==
  ASSUME ScriptStaysLow, IInv, NEW phase \in Phases, Swap([Top EXCEPT !.phase = phase]), t' = t
  PROVE  UNCHANGED <<View, Log>>
<1> DEFINE f == [Top EXCEPT !.phase = phase]
<1>1. /\ stack \in Seq(Frames) /\ stack # <<>> /\ Top = Head(stack) /\ Top \in Frames
      /\ stack' = <<f>> \o Tail(stack)
  BY Known DEF Swap
<1>2. f \in Frames /\ f.saved = Top.saved
  BY <1>1 DEF Frames
<1> HIDE DEF f
<1>3. FrameLog(f, t) = FrameLog(Top, t)
  BY <1>2 DEF FrameLog
<1>4. /\ Log' = <<FrameLog(f, t')>> \o Tail(Log)
      /\ Head(Log) = FrameLog(Top, t) /\ Log # <<>>
  BY <1>1, <1>2, SwapLog
<1>5. Log \in Seq({FrameLog(g, t) : g \in Frames})
  BY <1>1, LogType, LogRead
<1>6. <<Head(Log)>> \o Tail(Log) = Log
  BY <1>4, <1>5, HeadAndTail
<1>7. Log' = Log
  BY <1>3, <1>4, <1>6
<1> QED
  BY <1>7, ViewSame

(* A command is over, with nothing left to undo or by committing.          *)
LEMMA LeaveScoped ==
  ASSUME ScriptStaysLow, IInv, stack' = Tail(stack), t' = Close(t, Copies(Top))
  PROVE  Undoing!Next
<1>1. /\ t \in [Fds -> Slot] /\ ScriptFds \subseteq Fds /\ Len(stack) \in Nat
      /\ Len(stack) >= 1 /\ Top = stack[1]
  BY Known
<1>2. \A c \in Fds : c \notin Copies(Top) => t'[c] = t[c]
  BY DEF Close
<1>3. \A i \in 2 .. Len(stack) : \A c \in Copies(stack[i]) : t'[c] = t[c]
  <2> SUFFICES ASSUME NEW i \in 2 .. Len(stack), NEW c \in Copies(stack[i])
               PROVE  t'[c] = t[c]
    OBVIOUS
  <2>1. i \in 1 .. Len(stack)
    BY <1>1
  <2> QED
    BY <1>2, <2>1, CopiesKnown
<1>4. Log' = Tail(Log) /\ Log # <<>>
  BY <1>3, PopLog
<1>5. View' = View
  <2>1. \A n \in ScriptFds : n \notin Copies(Top)
    <3>1. 1 \in 1 .. Len(stack)
      BY <1>1
    <3> QED
      BY <1>1, <3>1, CopiesKnown
  <2>2. \A n \in ScriptFds : t'[n] = t[n]
    BY <1>1, <1>2, <2>1
  <2> QED
    BY <2>2, ViewSame
<1>6. Undoing!Keep
  BY <1>4, <1>5 DEF Undoing!Keep
<1> QED
  BY <1>6 DEF Undoing!Next

(* A command starts with an empty log.                                     *)
LEMMA BeginScoped ==
  ASSUME IInv, NEW kind \in Kinds, Begin(kind)
  PROVE  Undoing!Next
<1> DEFINE f == Frame(kind, "apply")
<1>1. /\ stack \in Seq(Frames) /\ kind \in Inline /\ stack' = <<f>> \o stack /\ t' = t
  BY Known DEF Begin, Push
<1>2. f \in Frames /\ f.saved = <<>>
  BY <1>1, RedirectAssumption DEF Frame, Frames, Inline, AllKinds, Phases
<1> HIDE DEF f
<1>3. FrameLog(f, t) = <<>>
  BY <1>2 DEF FrameLog
<1>4. LogOf(<<f>> \o stack, t) = <<FrameLog(f, t)>> \o LogOf(stack, t)
  BY <1>1, <1>2, LogPush
<1>5. Log' = << <<>> >> \o Log
  BY <1>1, <1>3, <1>4, LogRead
<1>6. View' = View
  BY <1>1, ViewSame
<1>7. Undoing!Enter
  BY <1>5, <1>6 DEF Undoing!Enter
<1> QED
  BY <1>7 DEF Undoing!Next

(* pipe(2) takes two descriptors that were closed.                         *)
LEMMA EndsWereFree ==
  ASSUME NEW tab, HasTwo(tab), Fds \subseteq Nat
  PROVE  LET r == Lowest(FreeFrom(tab, 0))
             w == Lowest(FreeFrom(tab, 0) \ {r})
         IN  /\ r \in Fds /\ w \in Fds /\ r # w
             /\ ~IsOpen(tab, r) /\ ~IsOpen(tab, w)
<1> DEFINE free == FreeFrom(tab, 0)
           r == Lowest(free)
<1>1. free \in SUBSET Fds /\ free # {} /\ free # {r}
  BY DEF HasTwo, FreeFrom
<1>2. r \in free
  BY <1>1, LowestIn
<1>3. free \ {r} \in SUBSET Fds /\ free \ {r} # {}
  BY <1>1, <1>2
<1>4. Lowest(free \ {r}) \in free \ {r}
  BY <1>3, LowestIn
<1> QED
  BY <1>1, <1>2, <1>4 DEF FreeFrom

(* The two ends and what they refer to.                                    *)
LEMMA PipedEnds ==
  ASSUME IInv, HasTwo(t)
  PROVE  /\ ReadEnd \in Fds /\ WriteEnd \in Fds /\ ReadEnd # WriteEnd
         /\ t[ReadEnd].file = "closed" /\ t[WriteEnd].file = "closed"
         /\ DOMAIN Piped = Fds
         /\ \A n \in Fds : n \notin {ReadEnd, WriteEnd} => Piped[n] = t[n]
         /\ Piped[WriteEnd].file = "pipe_out"
         /\ ~Piped[ReadEnd].cloexec /\ ~Piped[WriteEnd].cloexec
<1>1. t \in [Fds -> Slot] /\ Fds \subseteq Nat
  BY Known
<1>2. /\ ReadEnd \in Fds /\ WriteEnd \in Fds /\ ReadEnd # WriteEnd
      /\ t[ReadEnd].file = "closed" /\ t[WriteEnd].file = "closed"
  BY <1>1, EndsWereFree DEF ReadEnd, WriteEnd, IsOpen
<1> QED
  BY <1>1, <1>2 DEF Piped, Placed, Slotted

(* A forked stage, or the child of a command substitution: its output is   *)
(* the pipe, and the script sees nothing of the pipe's own descriptors.    *)
LEMMA PipesScoped ==
  ASSUME IInv, ScriptsPass(t), ReportOutOfReach, Stage \/ CmdSubst
  PROVE  Undoing!Next /\ ScriptsPass(t')
<1>1. /\ t \in [Fds -> Slot] /\ Fds \subseteq Nat /\ ScriptFds \subseteq Fds /\ 1 \in Fds
      /\ HasTwo(t)
  BY Known, RedirectAssumption DEF Stage, CmdSubst
<1>2. /\ ReadEnd \in Fds /\ WriteEnd \in Fds /\ ReadEnd # WriteEnd
      /\ t[ReadEnd].file = "closed" /\ t[WriteEnd].file = "closed"
      /\ DOMAIN Piped = Fds
      /\ \A n \in Fds : n \notin {ReadEnd, WriteEnd} => Piped[n] = t[n]
      /\ Piped[WriteEnd].file = "pipe_out"
      /\ ~Piped[ReadEnd].cloexec /\ ~Piped[WriteEnd].cloexec
  BY <1>1, PipedEnds
<1>3. Closed.file = "closed" /\ ~Closed.cloexec
  BY DEF Closed, Slotted
<1>4. CASE Stage
  <2> DEFINE moved == Dup2(Piped, WriteEnd, 1)
  <2>1. t' = Close(moved, {ReadEnd, WriteEnd}) /\ Become(Frame("stage", "run"))
    BY <1>4 DEF Stage
  <2>2. \A n \in Fds : n # 1 => moved[n] = Piped[n]
    BY DEF Dup2, Placed
  <2>3. 1 # WriteEnd => moved[1] = Slotted("pipe_out", FALSE)
    BY <1>1, <1>2 DEF Dup2, Placed, IsOpen
  <2>4. \A n \in Fds : t'[n] = IF n \in {ReadEnd, WriteEnd} THEN Closed ELSE moved[n]
    BY <2>1 DEF Close
  <2> HIDE DEF moved
  <2>5. \A n \in ScriptFds : n # 1 => t'[n].file = t[n].file
    BY <1>1, <1>2, <1>3, <2>2, <2>4
  <2>6. 1 \in ScriptFds => t'[1].file \in {t[1].file, "pipe_out"}
    BY <1>1, <1>2, <1>3, <2>3, <2>4 DEF Slotted
  <2>7. \A n \in ScriptFds : ~t'[n].cloexec
    <3>1. ~Slotted("pipe_out", FALSE).cloexec
      BY DEF Slotted
    <3> SUFFICES ASSUME NEW n \in ScriptFds PROVE ~t'[n].cloexec
      OBVIOUS
    <3>2. CASE n \in {ReadEnd, WriteEnd}
      BY <1>1, <1>3, <2>4, <3>2
    <3>3. CASE n \notin {ReadEnd, WriteEnd} /\ n = 1
      BY <1>1, <2>3, <2>4, <3>1, <3>3
    <3>4. CASE n \notin {ReadEnd, WriteEnd} /\ n # 1
      <4>1. t'[n] = t[n]
        BY <1>1, <1>2, <2>2, <2>4, <3>4
      <4> QED
        BY <4>1 DEF ScriptsPass
    <3> QED
      BY <3>2, <3>3, <3>4
  <2> QED
    BY <2>1, <2>5, <2>6, <2>7, ForkScoped DEF ScriptsPass
<1>5. CASE CmdSubst
  <2> DEFINE r == Lowest(FreeFrom(Piped, 0))
             w == Lowest(FreeFrom(Piped, 0) \ {r})
             reporting == Placed(Piped, w, "report", TRUE)
             closed == Close(reporting, {ReadEnd})
             moved == Dup2(closed, WriteEnd, 1)
  <2>1. /\ t' = Close(moved, {WriteEnd}) /\ Become(Frame("cmd_subst", "run"))
        /\ "cmd_subst" \in Kinds /\ HasTwo(Piped)
    BY <1>5 DEF CmdSubst
  <2>2. w \notin ScriptFds
    BY <1>1, <2>1 DEF ReportOutOfReach
  <2>3. w # WriteEnd
    <3>1. ~IsOpen(Piped, w)
      BY <1>1, <2>1, EndsWereFree
    <3> QED
      BY <1>2, <3>1 DEF IsOpen
  <2>4. \A n \in Fds : n # w => reporting[n] = Piped[n]
    BY <1>2 DEF Placed
  <2> HIDE DEF r, w, reporting
  <2>5. \A n \in Fds : closed[n] = IF n = ReadEnd THEN Closed ELSE reporting[n]
    BY DEF Close
  <2>6. closed[WriteEnd].file = "pipe_out" /\ DOMAIN closed = Fds
    BY <1>2, <2>3, <2>4, <2>5 DEF Close
  <2> HIDE DEF closed
  <2>7. \A n \in Fds : n # 1 => moved[n] = closed[n]
    BY DEF Dup2, Placed
  <2>8. 1 # WriteEnd => moved[1] = Slotted("pipe_out", FALSE)
    BY <1>1, <2>6 DEF Dup2, Placed, IsOpen
  <2>9. \A n \in Fds : t'[n] = IF n = WriteEnd THEN Closed ELSE moved[n]
    BY <2>1 DEF Close
  <2> HIDE DEF moved
  <2>10. ASSUME NEW n \in ScriptFds, n # 1
         PROVE  t'[n].file = t[n].file /\ ~t'[n].cloexec
    <3>1. n \in Fds /\ n # w
      BY <1>1, <2>2, <2>10
    <3>2. CASE n = WriteEnd \/ n = ReadEnd
      <4>1. t'[n] = Closed
        BY <2>5, <2>7, <2>9, <2>10, <3>1, <3>2
      <4> QED
        BY <1>2, <1>3, <3>2, <4>1
    <3>3. CASE n # WriteEnd /\ n # ReadEnd
      <4>1. t'[n] = t[n]
        BY <1>2, <2>4, <2>5, <2>7, <2>9, <2>10, <3>1, <3>3
      <4> QED
        BY <4>1 DEF ScriptsPass
    <3> QED
      BY <3>2, <3>3
  <2>11. t'[1].file \in {t[1].file, "pipe_out"} /\ ~t'[1].cloexec
    <3>1. CASE 1 = WriteEnd
      BY <1>1, <1>2, <1>3, <2>9, <3>1
    <3>2. CASE 1 # WriteEnd
      <4>1. t'[1] = Slotted("pipe_out", FALSE)
        BY <1>1, <2>8, <2>9, <3>2
      <4> QED
        BY <4>1 DEF Slotted
    <3> QED
      BY <3>1, <3>2
  <2>12. \A n \in ScriptFds : n # 1 => t'[n].file = t[n].file
    BY <2>10
  <2>13. ScriptsPass(t')
    BY <2>10, <2>11 DEF ScriptsPass
  <2>14. Undoing!Next
    BY <2>1, <2>11, <2>12, ForkScoped
  <2> QED
    BY <2>13, <2>14
<1> QED
  BY <1>4, <1>5

(* A step of redirect_apply is a turn of its loop for some descriptor of   *)
(* the script, and leaves it open to the programs the script runs.         *)
LEMMA ApplyTurns ==
  ASSUME ScriptStaysLow, IInv, ScriptsPass(t), Apply
  PROVE  \E fd \in ScriptFds, ok \in BOOLEAN :
           /\ Turn(fd, ok) /\ t' \in [Fds -> Slot]
           /\ \A c \in Fds : c # fd => t'[c] = TableSaved(fd)[c]
           /\ ~t'[fd].cloexec
<1> DEFINE Goal == \E fd \in ScriptFds, ok \in BOOLEAN :
                     /\ Turn(fd, ok) /\ t' \in [Fds -> Slot]
                     /\ \A c \in Fds : c # fd => t'[c] = TableSaved(fd)[c]
                     /\ ~t'[fd].cloexec
<1>1. /\ \A fd \in ScriptFds : fd \in Fds /\ TableSaved(fd) \in [Fds -> Slot]
      /\ \A fd \in ScriptFds : ~TableSaved(fd)[fd].cloexec
  <2>1. \A fd \in ScriptFds : fd \in Fds /\ TableSaved(fd) \in [Fds -> Slot]
    BY RedirectAssumption, SaveFresh DEF IInv
  <2>2. \A fd \in ScriptFds : TableSaved(fd)[fd] = t[fd]
    BY SaveSpares
  <2> QED
    BY <2>1, <2>2 DEF ScriptsPass
<1>2. ASSUME NEW o \in Opens, Open(o[1], o[2]) PROVE Goal
  <2>1. o[1] \in ScriptFds /\ o[2] \in Files
    BY RedirectAssumption
  <2>2. t' = Placed(TableSaved(o[1]), o[1], o[2], FALSE) /\ Turn(o[1], TRUE)
    BY <1>2 DEF Open
  <2>3. t' \in [Fds -> Slot]
    BY <1>1, <2>1, <2>2, PlacedType
  <2>4. \A c \in Fds : c # o[1] => t'[c] = TableSaved(o[1])[c]
    BY <1>1, <2>1, <2>2 DEF Placed
  <2>5. ~t'[o[1]].cloexec
    BY <1>1, <2>1, <2>2 DEF Placed, Slotted
  <2> QED
    BY <2>1, <2>2, <2>3, <2>4, <2>5
<1>3. ASSUME NEW d \in Dups, Dup(d[1], d[2]) PROVE Goal
  <2> DEFINE ok == d[2] = d[1] \/ IsOpen(TableSaved(d[1]), d[2])
  <2>1. d[1] \in ScriptFds /\ d[2] \in Fds
    BY RedirectAssumption
  <2>2. t' = Dup2(TableSaved(d[1]), d[2], d[1]) /\ Turn(d[1], ok)
    BY <1>3 DEF Dup
  <2>3. t' \in [Fds -> Slot]
    BY <1>1, <2>1, <2>2, Dup2Type
  <2>4. \A c \in Fds : c # d[1] => t'[c] = TableSaved(d[1])[c]
    BY <1>1, <2>1, <2>2 DEF Dup2, Placed
  <2>5. ok \in BOOLEAN
    BY DEF IsOpen
  <2>6. ~t'[d[1]].cloexec
    <3>1. ~TableSaved(d[1])[d[1]].cloexec
      BY <1>1, <2>1
    <3>2. CASE d[2] = d[1] \/ ~IsOpen(TableSaved(d[1]), d[2])
      <4>1. t' = TableSaved(d[1])
        BY <2>2, <3>2 DEF Dup2
      <4> QED
        BY <3>1, <4>1
    <3>3. CASE ~(d[2] = d[1] \/ ~IsOpen(TableSaved(d[1]), d[2]))
      <4>1. t'[d[1]] = Slotted(TableSaved(d[1])[d[2]].file, FALSE)
        BY <1>1, <2>1, <2>2, <3>3 DEF Dup2, Placed
      <4> QED
        BY <4>1 DEF Slotted
    <3> QED
      BY <3>2, <3>3
  <2> HIDE DEF ok
  <2> QED
    BY <2>1, <2>2, <2>3, <2>4, <2>5, <2>6
<1>4. ASSUME NEW fd \in Closes, CloseFd(fd) PROVE Goal
  <2>1. fd \in ScriptFds
    BY RedirectAssumption
  <2>2. t' = Close(TableSaved(fd), {fd}) /\ Turn(fd, TRUE)
    BY <1>4 DEF CloseFd
  <2>3. t' \in [Fds -> Slot]
    BY <1>1, <2>1, <2>2, CloseType
  <2>4. \A c \in Fds : c # fd => t'[c] = TableSaved(fd)[c]
    BY <2>2 DEF Close
  <2>5. ~t'[fd].cloexec
    BY <1>1, <2>1, <2>2 DEF Close, Closed, Slotted
  <2> QED
    BY <2>1, <2>2, <2>3, <2>4, <2>5
<1>5. ASSUME NEW fd \in ScriptFds, RedirectFails(fd) PROVE Goal
  <2>1. t' = TableSaved(fd) /\ Turn(fd, FALSE)
    BY <1>5 DEF RedirectFails
  <2>2. t' \in [Fds -> Slot] /\ ~t'[fd].cloexec
    BY <1>1, <2>1
  <2> QED
    BY <2>1, <2>2
<1> HIDE DEF Goal
<1>6. Goal
  BY <1>2, <1>3, <1>4, <1>5 DEF Apply
<1> QED
  BY <1>6 DEF Goal

(* What does not change the script's descriptors leaves them open to the   *)
(* programs it runs.                                                       *)
LEMMA PassSame ==
  ASSUME ScriptsPass(t), \A n \in ScriptFds : t'[n] = t[n]
  PROVE  ScriptsPass(t')
BY DEF ScriptsPass

(* One turn of redirect_apply's or redirect_restore's loop.                *)
LEMMA TurnPasses ==
  ASSUME ScriptStaysLow, IInv, ScriptsPass(t), Apply \/ Undo
  PROVE  ScriptsPass(t')
<1>1. t \in [Fds -> Slot] /\ ScriptFds \subseteq Fds
  BY Known
<1>2. CASE Apply
  <2>1. PICK fd \in ScriptFds, ok \in BOOLEAN :
           /\ Turn(fd, ok) /\ t' \in [Fds -> Slot]
           /\ \A c \in Fds : c # fd => t'[c] = TableSaved(fd)[c]
           /\ ~t'[fd].cloexec
    BY <1>2, ApplyTurns
  <2>2. \A n \in ScriptFds : TableSaved(fd)[n] = t[n]
    BY SaveSpares
  <2>3. \A n \in ScriptFds : n # fd => t'[n] = t[n]
    BY <1>1, <2>1, <2>2
  <2> QED
    BY <2>1, <2>3 DEF ScriptsPass
<1>3. CASE Undo
  <2> DEFINE fd == LastSaved.fd
             copy == LastSaved.copy
  <2>1. t' = IF copy = NoFd THEN Close(t, {fd}) ELSE Close(Dup2(t, copy, fd), {copy})
    BY <1>3 DEF Undo, TableUndone
  <2> HIDE DEF fd, copy
  <2>2. Closed.cloexec = FALSE
    BY DEF Closed, Slotted
  <2>3. \A n \in Fds : ~t[n].cloexec => ~Dup2(t, copy, fd)[n].cloexec
    <3> SUFFICES ASSUME NEW n \in Fds, ~t[n].cloexec PROVE ~Dup2(t, copy, fd)[n].cloexec
      OBVIOUS
    <3>1. CASE Dup2(t, copy, fd) = t
      BY <3>1
    <3>2. CASE Dup2(t, copy, fd) = [t EXCEPT ![fd] = Slotted(t[copy].file, FALSE)]
      BY <1>1, <3>2 DEF Slotted
    <3> QED
      BY <3>1, <3>2 DEF Dup2, Placed
  <2>4. \A n \in Fds : ~t[n].cloexec => ~t'[n].cloexec
    <3> SUFFICES ASSUME NEW n \in Fds, ~t[n].cloexec PROVE ~t'[n].cloexec
      OBVIOUS
    <3>1. CASE copy = NoFd
      <4>1. t'[n] = IF n = fd THEN Closed ELSE t[n]
        BY <2>1, <3>1 DEF Close
      <4> QED
        BY <2>2, <4>1
    <3>2. CASE copy # NoFd
      <4>1. t'[n] = IF n = copy THEN Closed ELSE Dup2(t, copy, fd)[n]
        BY <2>1, <3>2 DEF Close
      <4> QED
        BY <2>2, <2>3, <4>1
    <3> QED
      BY <3>1, <3>2
  <2> QED
    BY <1>1, <2>4 DEF ScriptsPass
<1> QED
  BY <1>2, <1>3

(* A program that is executed sees the script's descriptors unchanged.     *)
LEMMA ExecPasses ==
  ASSUME ScriptStaysLow, IInv, ScriptsPass(t), ExecImage
  PROVE  \A n \in ScriptFds : t'[n] = t[n]
<1>1. ScriptFds \subseteq Fds /\ t' = Execed(t)
  BY Known DEF ExecImage
<1> QED
  BY <1>1 DEF ScriptsPass, Execed

(* No copy that the innermost command saved is one of the script's         *)
(* descriptors, and without saved descriptors it holds none.               *)
LEMMA TopCopies ==
  ASSUME ScriptStaysLow, IInv
  PROVE  /\ \A n \in ScriptFds : n \notin Copies(Top)
         /\ Top.saved = <<>> => Close(t, Copies(Top)) = t
<1>1. 1 \in 1 .. Len(stack) /\ Top = stack[1] /\ t \in [Fds -> Slot]
  BY Known
<1>2. \A n \in ScriptFds : n \notin Copies(Top)
  BY <1>1, CopiesKnown
<1>3. ASSUME Top.saved = <<>> PROVE Close(t, Copies(Top)) = t
  <2>1. Copies(Top) = {}
    BY <1>3 DEF Copies
  <2>2. \A n \in Fds : Close(t, Copies(Top))[n] = t[n]
    BY <2>1 DEF Close
  <2> QED
    BY <1>1, <2>2 DEF Close
<1> QED
  BY <1>2, <1>3

(* Whatever the shell does, the script's descriptors stay open to the      *)
(* programs it runs.                                                       *)
LEMMA NextPasses ==
  ASSUME ScriptStaysLow, IInv, ReportOutOfReach, ScriptsPass(t), [Next]_vars
  PROVE  ScriptsPass(t')
<1>1. t \in [Fds -> Slot] /\ ScriptFds \subseteq Fds
  BY Known
<1>2. ASSUME NEW kind \in Kinds, Begin(kind) \/ Fork(kind) PROVE t' = t
  BY <1>2 DEF Begin, Fork
<1>3. CASE Apply \/ Undo
  BY <1>3, TurnPasses
<1>4. Start \/ Abandon \/ Die \/ End \/ Finish \/ Ended \/ UNCHANGED vars => t' = t
  BY DEF Start, Abandon, Die, End, Finish, Ended, vars
<1>5. CASE t' = t
  BY <1>5
<1>6. CASE ExecImage
  BY <1>6, ExecPasses, PassSame
<1>7. CASE Commit
  <2>1. t' = Close(t, Copies(Top))
    BY <1>7 DEF Commit, TableCommitted
  <2>2. \A n \in ScriptFds : t'[n] = t[n]
    BY <1>1, <2>1, TopCopies DEF Close
  <2> QED
    BY <2>2, PassSame
<1>8. CASE Stage \/ CmdSubst
  BY <1>8, PipesScoped
<1>9. ~Body
  BY DEF Body, ScriptStaysLow
<1> QED
  BY <1>2, <1>3, <1>4, <1>5, <1>6, <1>7, <1>8, <1>9 DEF Next

(* Every step of the shell is one of UndoLog, or none that UndoLog sees.   *)
LEMMA NextScoped ==
  ASSUME ScriptStaysLow, IInv, RoomToSave, ReportOutOfReach, ScriptsPass(t), [Next]_vars
  PROVE  Undoing!Next \/ UNCHANGED <<View, Log>>
<1> DEFINE Seen == Undoing!Next
           Unseen == UNCHANGED <<View, Log>>
<1>1. ASSUME NEW kind \in Kinds, Begin(kind) PROVE Seen
  BY <1>1, BeginScoped
<1>2. ASSUME NEW kind, NEW phase, Become(Frame(kind, phase)),
             \A n \in ScriptFds : t'[n] = t[n]
      PROVE  Seen
  BY <1>2, ForkScoped
<1>3. ASSUME NEW kind \in Kinds, Fork(kind) PROVE Seen
  <2>1. Become(Frame(kind, "apply")) /\ t' = t
    BY <1>3 DEF Fork
  <2> QED
    BY <1>2, <2>1
<1>4. CASE Apply
  <2>1. PICK fd \in ScriptFds, ok \in BOOLEAN :
           /\ Turn(fd, ok) /\ t' \in [Fds -> Slot]
           /\ \A c \in Fds : c # fd => t'[c] = TableSaved(fd)[c]
           /\ ~t'[fd].cloexec
    BY <1>4, ApplyTurns
  <2>2. Turn(fd, ok) /\ t' \in [Fds -> Slot] /\ \A c \in Fds : c # fd => t'[c] = TableSaved(fd)[c]
    BY <2>1
  <2> QED
    BY <2>2, TurnScoped
<1>5. ASSUME NEW phase \in Phases, Swap([Top EXCEPT !.phase = phase]), t' = t
      PROVE  Unseen
  BY <1>5, PhaseScoped
<1>6. CASE Start
  <2>1. Swap([Top EXCEPT !.phase = "run"]) /\ t' = t /\ "run" \in Phases
    BY <1>6 DEF Start, Phases
  <2> QED
    BY <1>5, <2>1
<1>7. CASE ExecImage
  <2>1. Become(Frame(Top.kind, "execed"))
    BY <1>7 DEF ExecImage
  <2>2. \A n \in ScriptFds : t'[n] = t[n]
    BY <1>7, ExecPasses
  <2> QED
    BY <1>2, <2>1, <2>2
<1>8. CASE Abandon
  <2>1. Swap([Top EXCEPT !.phase = "restore"]) /\ t' = t /\ "restore" \in Phases
    BY <1>8 DEF Abandon, Phases
  <2> QED
    BY <1>5, <2>1
<1>9. CASE Die
  <2>1. Become(Frame(Top.kind, "gone")) /\ t' = t
    BY <1>9 DEF Die
  <2> QED
    BY <1>2, <2>1
<1>10. CASE Commit
  <2>1. stack' = Tail(stack) /\ t' = Close(t, Copies(Top))
    BY <1>10 DEF Commit, TableCommitted
  <2> QED
    BY <2>1, LeaveScoped
<1>11. CASE End
  <2>1. t' = t /\ "restore" \in Phases
    BY <1>11 DEF End, Phases
  <2>2. CASE Swap([Top EXCEPT !.phase = "restore"])
    BY <1>5, <2>1, <2>2
  <2>3. CASE Become(Frame(Top.kind, "gone"))
    BY <1>2, <2>1, <2>3
  <2> QED
    BY <1>11, <2>2, <2>3 DEF End
<1>12. CASE Undo
  BY <1>12, UndoScoped
<1>13. CASE Finish
  <2>1. stack' = Tail(stack) /\ t' = t /\ Top.saved = <<>>
    BY <1>13 DEF Finish
  <2>2. t' = Close(t, Copies(Top))
    BY <2>1, TopCopies
  <2> QED
    BY <2>1, <2>2, LeaveScoped
<1>14. CASE Stage \/ CmdSubst
  BY <1>14, PipesScoped
<1>15. ~Body
  BY DEF Body, ScriptStaysLow
<1>16. CASE Ended \/ UNCHANGED vars
  <2>1. t' = t /\ stack' = stack
    BY <1>16 DEF Ended, vars
  <2>2. View' = View /\ Log' = Log
    BY <2>1, LogRead DEF ViewOf, LogOf, FrameLog, EntryLog, WasIn
  <2> QED
    BY <2>2
<1> QED
  BY <1>1, <1>3, <1>4, <1>6, <1>7, <1>8, <1>9, <1>10, <1>11, <1>12, <1>13, <1>14,
     <1>15, <1>16 DEF Next

(* For any number of descriptors, files, redirections and nested commands, *)
(* redirect_apply, redirect_restore and redirect_commit over a table of    *)
(* saved copies implement UndoLog: every command undoes exactly its own    *)
(* redirections, and the script never meets a copy.  While a copy can be   *)
(* parked (save_fd takes "no copy" for "was closed") and the report pipe   *)
(* of a command substitution lies where the script does not look.          *)
THEOREM RedirectionsUndone ==
  ASSUME ScriptStaysLow
  PROVE  Spec /\ [](RoomToSave /\ ReportOutOfReach) => RedirectionsAreScoped
<1>1. Init => IInv
  BY InitIInv
<1>2. IInv /\ [Next]_vars => IInv'
  BY NextKeepsIInv
<1>3. Init => ScriptsPass(t)
  <2> SUFFICES ASSUME Init, NEW n \in ScriptFds PROVE ~t[n].cloexec
    BY DEF ScriptsPass
  <2>1. n \in Fds /\ n \in Nat /\ SaveBase \in Nat /\ n < SaveBase
    BY DescriptorsAssumption, RedirectAssumption DEF ScriptStaysLow
  <2>2. t[n] = IF n \in 0 .. 2 THEN Slotted("tty", FALSE) ELSE Closed
    <3>1. n # SaveBase
      BY <2>1
    <3>2. t = [m \in Fds |-> IF m \in 0 .. 2 THEN Slotted("tty", FALSE)
                            ELSE IF ScriptOnStdin /\ m = SaveBase THEN Slotted("tty", TRUE)
                            ELSE Closed]
      BY DEF Init
    <3>3. t[n] = IF n \in 0 .. 2 THEN Slotted("tty", FALSE)
                 ELSE IF ScriptOnStdin /\ n = SaveBase THEN Slotted("tty", TRUE) ELSE Closed
      BY <2>1, <3>2, Zenon
    <3> QED
      BY <3>1, <3>3
  <2>3. ~Slotted("tty", FALSE).cloexec /\ ~Closed.cloexec
    BY DEF Closed, Slotted
  <2>4. CASE n \in 0 .. 2
    BY <2>2, <2>3, <2>4
  <2>5. CASE n \notin 0 .. 2
    BY <2>2, <2>3, <2>5
  <2> QED
    BY <2>4, <2>5
<1>4. IInv /\ ReportOutOfReach /\ ScriptsPass(t) /\ [Next]_vars => ScriptsPass(t)'
  <2>1. ScriptsPass(t)' <=> ScriptsPass(t')
    BY DEF ScriptsPass
  <2> QED
    BY <2>1, NextPasses
<1>5. Init => Undoing!Init
  <2> SUFFICES ASSUME Init PROVE Undoing!Init
    OBVIOUS
  <2>1. t \in [Fds -> Slot] /\ ScriptFds \subseteq Fds /\ stack = <<Frame("script", "run")>>
    BY InitIInv, Known DEF Init
  <2>2. View \in [ScriptFds -> Undoing!States]
    BY <2>1 DEF View, Undoing!States, Slot
  <2>3. Frame("script", "run").saved = <<>>
    BY DEF Frame
  <2>4. DOMAIN stack = {1} /\ stack[1].saved = <<>>
    BY <2>1, <2>3
  <2>5. FrameLog(stack[1], t) = <<>>
    BY <2>4 DEF FrameLog
  <2>6. Log = [i \in {1} |-> <<>>]
    BY <2>4, <2>5, LogRead DEF LogOf
  <2>7. [i \in {1} |-> <<>>] = << <<>> >>
    OBVIOUS
  <2> QED
    BY <2>2, <2>6, <2>7 DEF Undoing!Init
<1>6. /\ IInv /\ RoomToSave /\ ReportOutOfReach /\ ScriptsPass(t) /\ [Next]_vars
      => [Undoing!Next]_<<View, Log>>
  BY NextScoped
<1> QED
  BY <1>1, <1>2, <1>3, <1>4, <1>5, <1>6, PTL DEF Spec, RedirectionsAreScoped, Undoing!Spec
=============================================================================
