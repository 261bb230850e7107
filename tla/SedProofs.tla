----------------------------- MODULE SedProofs -----------------------------
(***************************************************************************)
(* The records and the files of sed (core/sed.c): the proofs that in every *)
(* reachable state RecordsKept holds, for every script, every input, every *)
(* size of the append queue and of the table of w files, and InPlaceIsSafe *)
(* for operands that are different files.                                  *)
(*                                                                         *)
(* Output: a stream owes a delimiter only for its last piece, and then     *)
(* pend says so.  Input: the records fetched are the lines counted, and    *)
(* the one looked at.  Files: the operands before the one being edited are *)
(* edited, those after it untouched, and its own phase tells of it.  What  *)
(* a queue, a prologue or an output comes to is a recursive function: that *)
(* it exists, and what it keeps, is shown by its least exception.          *)
(***************************************************************************)
EXTENDS Sed, SequenceTheorems, FiniteSetTheorems, WellFoundedInduction, TLAPS

Least(ns) == CHOOSE i \in ns : \A j \in ns : i <= j

(* A set of numbers that is not empty has a least member.                    *)
LEMMA LeastIsIn ==
  ASSUME NEW ns \in SUBSET Nat, ns # {}
  PROVE  Least(ns) \in ns /\ \A m \in ns : Least(ns) <= m
<1>1. \E n \in ns : \A m \in ns : ~(<<m, n>> \in OpToRel(<, Nat))
  BY WFMin, NatLessThanWellFounded
<1>2. PICK n \in ns : \A m \in ns : ~(m < n)
  BY <1>1 DEF OpToRel
<1>3. \A m \in ns : n <= m
  BY <1>2
<1> QED
  BY <1>3 DEF Least

(***************************************************************************)
(* Sequences of anything.                                                  *)
(***************************************************************************)
IsSeq(x) == x \in Seq(Range(x))

(* A sequence of anything is one of the values it holds.                     *)
LEMMA IsSeqOf ==
  ASSUME NEW S, NEW x \in Seq(S)
  PROVE  IsSeq(x)
<1>1. DOMAIN x = 1 .. Len(x) /\ Len(x) \in Nat /\ x \in [1 .. Len(x) -> S]
  BY LenProperties
<1>2. x \in [1 .. Len(x) -> Range(x)]
  BY <1>1 DEF Range
<1> QED
  BY <1>1, <1>2, SeqDef DEF IsSeq

(* ... with the domain of a sequence, and in every set that holds its        *)
(* values.                                                                   *)
LEMMA IsSeqRead ==
  ASSUME NEW x, IsSeq(x)
  PROVE  /\ Len(x) \in Nat /\ DOMAIN x = 1 .. Len(x)
         /\ \A S : Range(x) \subseteq S => x \in Seq(S)
<1>1. x \in Seq(Range(x))
  BY DEF IsSeq
<1> QED
  BY <1>1, LenProperties, SeqMonotonic

(* What Append gives.                                                        *)
LEMMA IsSeqAppend ==
  ASSUME NEW x, IsSeq(x), NEW e
  PROVE  /\ IsSeq(Append(x, e)) /\ Len(Append(x, e)) = Len(x) + 1
         /\ \A i \in 1 .. Len(x) : Append(x, e)[i] = x[i]
         /\ Append(x, e)[Len(x) + 1] = e
<1> DEFINE S == Range(x) \cup {e}
<1>1. x \in Seq(S) /\ e \in S
  <2>1. Range(x) \subseteq S
    OBVIOUS
  <2> QED
    BY <2>1, IsSeqRead
<1>2. Append(x, e) \in Seq(S)
  BY <1>1, AppendProperties
<1> HIDE DEF S
<1>3. IsSeq(Append(x, e))
  BY <1>2, IsSeqOf
<1>4. /\ Len(Append(x, e)) = Len(x) + 1 /\ Len(x) \in Nat
      /\ \A i \in 1 .. Len(x) + 1 : Append(x, e)[i] = IF i <= Len(x) THEN x[i] ELSE e
  BY <1>1, AppendProperties, LenProperties
<1> QED
  BY <1>3, <1>4

(* What concatenation gives.                                                 *)
LEMMA IsSeqConcat ==
  ASSUME NEW x, NEW y, IsSeq(x), IsSeq(y)
  PROVE  /\ IsSeq(x \o y) /\ Len(x \o y) = Len(x) + Len(y)
         /\ \A i \in 1 .. Len(x) : (x \o y)[i] = x[i]
         /\ \A i \in 1 .. Len(y) : (x \o y)[Len(x) + i] = y[i]
<1> DEFINE S == Range(x) \cup Range(y)
<1>1. x \in Seq(S) /\ y \in Seq(S)
  <2>1. Range(x) \subseteq S /\ Range(y) \subseteq S
    OBVIOUS
  <2> QED
    BY <2>1, IsSeqRead
<1>2. x \o y \in Seq(S)
  BY <1>1, ConcatProperties
<1> HIDE DEF S
<1>3. Len(x) \in Nat /\ Len(y) \in Nat
  BY <1>1
<1>4. IsSeq(x \o y)
  BY <1>2, IsSeqOf
<1>5. /\ Len(x \o y) = Len(x) + Len(y)
      /\ \A i \in 1 .. Len(x) + Len(y) :
            (x \o y)[i] = IF i <= Len(x) THEN x[i] ELSE y[i - Len(x)]
  BY <1>1, ConcatProperties
<1>6. \A i \in 1 .. Len(x) : (x \o y)[i] = x[i]
  BY <1>3, <1>5
<1>7. ASSUME NEW i \in 1 .. Len(y) PROVE (x \o y)[Len(x) + i] = y[i]
  <2>1. Len(x) + i \in 1 .. Len(x) + Len(y) /\ ~(Len(x) + i <= Len(x)) /\ (Len(x) + i) - Len(x) = i
    BY <1>3
  <2> QED
    BY <1>5, <2>1
<1> QED
  BY <1>4, <1>5, <1>6, <1>7

(* A number from which a property is passed on to the next passes it on to   *)
(* all: no set of exceptions has a least member.                             *)
LEMMA NoException ==
  ASSUME NEW n \in Nat, NEW T, T \subseteq 0 .. n, 0 \notin T,
         \A k \in 1 .. n : k - 1 \notin T => k \notin T
  PROVE  T = {}
<1>1. SUFFICES ASSUME T # {} PROVE FALSE
  OBVIOUS
<1>2. T \in SUBSET Nat
  OBVIOUS
<1>3. PICK m \in T : \A k \in T : m <= k
  BY <1>1, <1>2, LeastIsIn
<1>4. m \in 1 .. n /\ m - 1 \notin T
  BY <1>3
<1> QED
  BY <1>3, <1>4

(***************************************************************************)
(* What is written to a stream.                                            *)
(***************************************************************************)
Told == {"rec", "text"}
Executes == \E i \in DOMAIN Script : Script[i].cmd = "e"

(* Nothing is owed but by the last piece, and then pend says so.             *)
Stream(o) ==
  /\ {"out", "pend"} \subseteq DOMAIN o
  /\ IsSeq(o.out) /\ o.pend \in BOOLEAN
  /\ Executes \/ ~UnfinishedIn(o.out)
  /\ Executes \/ o.pend \/ \A i \in DOMAIN o.out : i = Len(o.out) => o.out[i][1] \notin Told

Same(s, t, fs) == DOMAIN t = DOMAIN s /\ \A f \in DOMAIN s \ fs : t[f] = s[f]

(* A piece after a last one that owes nothing.                               *)
LEMMA OnePieceMore ==
  ASSUME NEW out, IsSeq(out), ~UnfinishedIn(out), NEW p,
         p = Delim \/ \A i \in DOMAIN out : i = Len(out) => out[i][1] \notin Told
  PROVE  ~UnfinishedIn(Append(out, p))
<1>1. /\ Len(out) \in Nat /\ Len(Append(out, p)) = Len(out) + 1 /\ DOMAIN out = 1 .. Len(out)
      /\ \A i \in 1 .. Len(out) : Append(out, p)[i] = out[i]
      /\ Append(out, p)[Len(out) + 1] = p
  BY IsSeqRead, IsSeqAppend
<1>2. SUFFICES ASSUME NEW i \in 1 .. Len(out), out[i][1] \in Told, Append(out, p)[i + 1] # Delim
               PROVE  FALSE
  BY <1>1 DEF UnfinishedIn, Told
<1>3. CASE i = Len(out)
  BY <1>1, <1>2, <1>3
<1>4. CASE i < Len(out)
  <2>1. i \in 1 .. (Len(out) - 1) /\ i + 1 \in 1 .. Len(out)
    BY <1>1, <1>4
  <2> QED
    BY <1>1, <1>2, <2>1 DEF UnfinishedIn, Told
<1>5. i = Len(out) \/ i < Len(out)
  <2>1. Len(out) \in Nat
    BY <1>1
  <2>2. i <= Len(out) /\ i \in Nat
    BY <2>1
  <2> QED
    BY <2>1, <2>2
<1> QED
  BY <1>3, <1>4, <1>5

(* After out_flush_pending a stream owes nothing.                            *)
LEMMA FlushPendingStream ==
  ASSUME NEW s, Stream(s)
  PROVE  /\ Stream(FlushPending(s)) /\ ~FlushPending(s).pend
         /\ Same(s, FlushPending(s), {"out", "pend"})
<1> DEFINE out == Append(s.out, Delim)
<1>1. CASE s.pend
  <2>1. /\ FlushPending(s).out = out /\ FlushPending(s).pend = FALSE
        /\ Same(s, FlushPending(s), {"out", "pend"})
    BY <1>1 DEF FlushPending, Stream, Same
  <2>2. IsSeq(s.out)
    BY DEF Stream
  <2>3. /\ IsSeq(out) /\ Len(out) = Len(s.out) + 1 /\ out[Len(s.out) + 1] = Delim
    BY <2>2, IsSeqAppend
  <2>4. Executes \/ ~UnfinishedIn(out)
    BY <2>2, OnePieceMore DEF Stream
  <2>5. Delim[1] \notin Told
    BY DEF Delim, Told
  <2>6. \A i \in DOMAIN out : i = Len(out) => out[i][1] \notin Told
    BY <2>3, <2>5
  <2> HIDE DEF out
  <2> QED
    BY <2>1, <2>3, <2>4, <2>6 DEF Stream, Same
<1>2. CASE ~s.pend
  BY <1>2 DEF FlushPending, Stream, Same
<1> QED
  BY <1>1, <1>2 DEF Stream

(* out_record writes what was owed first, and owes only its own delimiter.   *)
LEMMA OutRecordStream ==
  ASSUME NEW s, Stream(s), NEW kind, NEW l
  PROVE  /\ Stream(OutRecord(s, kind, l))
         /\ Same(s, OutRecord(s, kind, l), {"out", "pend"})
<1> DEFINE f == FlushPending(s)
           p == <<kind, l.text>>
           o == Append(f.out, p)
           d == Append(o, Delim)
           r == OutRecord(s, kind, l)
<1>1. Stream(f) /\ ~f.pend /\ Same(s, f, {"out", "pend"})
  BY FlushPendingStream
<1> HIDE DEF f
<1>2. IsSeq(f.out) /\ f.pend = FALSE
  BY <1>1 DEF Stream
<1>3. IsSeq(o) /\ Len(o) = Len(f.out) + 1 /\ o[Len(f.out) + 1] = p
  BY <1>2, IsSeqAppend
<1>4. Executes \/ ~UnfinishedIn(o)
  <2>1. Executes \/ (~UnfinishedIn(f.out) /\ \A i \in DOMAIN f.out : i = Len(f.out) => f.out[i][1] \notin Told)
    BY <1>1, <1>2 DEF Stream
  <2> QED
    BY <1>2, <2>1, OnePieceMore
<1> HIDE DEF o
<1>5. IsSeq(d) /\ Len(d) = Len(o) + 1 /\ d[Len(o) + 1] = Delim
  BY <1>3, IsSeqAppend
<1>6. Executes \/ ~UnfinishedIn(d)
  BY <1>3, <1>4, OnePieceMore
<1> HIDE DEF d
<1>7. Delim[1] \notin Told
  BY DEF Delim, Told
<1>8. CASE l.nl
  <2>1. r.out = d /\ r.pend = FALSE /\ Same(f, r, {"out", "pend"})
    BY <1>1, <1>2, <1>8 DEF OutRecord, Stream, Same, f, o, d
  <2> HIDE DEF r
  <2> QED
    BY <1>1, <1>5, <1>6, <1>7, <2>1 DEF Stream, Same, r
<1>9. CASE ~l.nl
  <2>1. r.out = o /\ r.pend = TRUE /\ Same(f, r, {"out", "pend"})
    BY <1>1, <1>2, <1>9 DEF OutRecord, Stream, Same, f, o
  <2> HIDE DEF r
  <2> QED
    BY <1>1, <1>3, <1>4, <2>1 DEF Stream, Same, r
<1> QED
  BY <1>8, <1>9

(***************************************************************************)
(* exec_t: what the commands do to it.                                     *)
(***************************************************************************)
Fields == {"ps", "hs", "line", "last", "tflag", "peek", "at", "files", "failed", "out",
           "pend", "aq", "w", "r", "re", "quit", "pc", "print", "ranges", "more", "fi", "exit",
           "edits"}
Streams == {"out", "pend"}
Elsewhere == {"ps", "hs", "tflag", "re", "print", "quit", "ranges", "r"}
Reading == {"line", "last", "peek", "at", "files", "failed", "more", "fi", "pc",
            "edits"}

Entry(e) ==
  \/ e.type \in {"text", "R"}
  \/ e.type = "r" /\ e.file \in DOMAIN disk

Exec(s) ==
  /\ DOMAIN s = Fields /\ Stream(s)
  /\ \A f \in DOMAIN s.w : Stream(s.w[f])
  /\ IsSeq(s.aq) /\ \A k \in DOMAIN s.aq : Entry(s.aq[k])

(* The input is where it was.                                                *)
Kept(s, t) == \A f \in Reading : t[f] = s[f]

Files == DOMAIN disk = DOMAIN job.disk /\ \A f \in DOMAIN disk : IsFile(disk[f])

(* Two steps that leave the input where it was are one.                      *)
LEMMA KeptOnAndOn ==
  ASSUME NEW s, NEW t, NEW u, Kept(s, t), Kept(t, u)
  PROVE  Kept(s, u)
BY DEF Kept

(* Fields other than the input's leave it where it was.                      *)
LEMMA KeptSame ==
  ASSUME NEW s, NEW t, NEW fs, Reading \cap fs = {}, DOMAIN s = Fields, Same(s, t, fs)
  PROVE  Kept(s, t)
BY DEF Kept, Same, Reading, Fields

(* Fields other than the streams and the queue leave those as they were.     *)
LEMMA NotStreams ==
  ASSUME NEW s, NEW t, Exec(s), Same(s, t, Elsewhere)
  PROVE  Exec(t) /\ Kept(s, t) /\ t.aq = s.aq
<1>1. /\ DOMAIN t = Fields /\ t.out = s.out /\ t.pend = s.pend /\ t.w = s.w /\ t.aq = s.aq
      /\ \A f \in Reading : t[f] = s[f]
  BY DEF Exec, Same, Elsewhere, Fields, Reading
<1>2. Stream(t)
  BY <1>1 DEF Stream, Exec, Fields
<1> QED
  BY <1>1, <1>2 DEF Exec, Kept

(* out_record, as a command sees it.                                         *)
LEMMA OutRecordExec ==
  ASSUME NEW s, Exec(s), NEW kind, NEW l
  PROVE  /\ Exec(OutRecord(s, kind, l)) /\ Kept(s, OutRecord(s, kind, l))
         /\ OutRecord(s, kind, l).aq = s.aq
<1> DEFINE t == OutRecord(s, kind, l)
<1>1. Stream(t) /\ Same(s, t, {"out", "pend"})
  BY OutRecordStream DEF Exec
<1> HIDE DEF t
<1>2. DOMAIN t = Fields /\ t.w = s.w /\ t.aq = s.aq /\ \A f \in Reading : t[f] = s[f]
  BY <1>1 DEF Exec, Same, Fields, Reading
<1>3. Exec(t) /\ Kept(s, t)
  BY <1>1, <1>2 DEF Exec, Kept
<1> QED
  BY <1>2, <1>3 DEF t

(* out_text_line and out_data, as a command sees them.                       *)
LEMMA OutTextExec ==
  ASSUME NEW s, Exec(s), NEW kind, NEW x
  PROVE  /\ Exec(OutText(s, kind, x)) /\ Kept(s, OutText(s, kind, x))
         /\ OutText(s, kind, x).aq = s.aq
BY OutRecordExec DEF OutText

(* wfile_write: every w file is a stream of its own, opened or not.          *)
LEMMA WriteFileExec ==
  ASSUME NEW s, Exec(s), NEW name, NEW l
  PROVE  /\ Exec(WriteFile(s, name, l)) /\ Kept(s, WriteFile(s, name, l))
         /\ WriteFile(s, name, l).aq = s.aq
<1>1. CASE name = "/dev/stdout"
  BY <1>1, OutRecordExec DEF WriteFile
<1>2. CASE name # "/dev/stdout" /\ name \notin DOMAIN s.w /\ Cardinality(DOMAIN s.w) >= MaxStreams
  BY <1>2 DEF WriteFile, Kept
<1>3. CASE name # "/dev/stdout" /\ ~(name \notin DOMAIN s.w /\ Cardinality(DOMAIN s.w) >= MaxStreams)
  <2> DEFINE old == IF name \in DOMAIN s.w THEN s.w[name] ELSE [out |-> <<>>, pend |-> FALSE]
             new == OutRecord(old, "rec", l)
             w == Put(s.w, name, new)
             t == [s EXCEPT !.w = w]
  <2>1. WriteFile(s, name, l) = t
    BY <1>3 DEF WriteFile
  <2>2. Stream(old)
    <3>1. CASE name \in DOMAIN s.w
      BY <3>1 DEF Exec
    <3>2. CASE name \notin DOMAIN s.w
      <4>1. old = [out |-> <<>>, pend |-> FALSE]
        BY <3>2
      <4>2. IsSeq(<<>>) /\ Len(<<>>) = 0
        BY EmptySeq, IsSeqOf
      <4> HIDE DEF old
      <4>3. old.out = <<>> /\ old.pend = FALSE /\ {"out", "pend"} \subseteq DOMAIN old
        BY <4>1
      <4>4. ~UnfinishedIn(<<>>) /\ DOMAIN <<>> = {}
        BY <4>2 DEF UnfinishedIn
      <4> QED
        BY <4>2, <4>3, <4>4 DEF Stream
    <3> QED
      BY <3>1, <3>2
  <2>3. Stream(new)
    BY <2>2, OutRecordStream
  <2> HIDE DEF old, new
  <2>4. \A f \in DOMAIN w : Stream(w[f])
    BY <2>3 DEF Exec, Put
  <2> HIDE DEF w
  <2>5. /\ DOMAIN t = Fields /\ t.w = w /\ t.aq = s.aq /\ t.out = s.out /\ t.pend = s.pend
        /\ \A f \in Reading : t[f] = s[f]
    BY DEF Exec, Fields, Reading
  <2> HIDE DEF t
  <2>6. Stream(t)
    BY <2>5 DEF Exec, Stream, Fields
  <2>7. Exec(t) /\ Kept(s, t)
    BY <2>4, <2>5, <2>6 DEF Exec, Kept
  <2> QED
    BY <2>1, <2>5, <2>7
<1> QED
  BY <1>1, <1>2, <1>3

(* queue_append_text and queue_append_cmd: the entry joins those queued, or  *)
(* does not.                                                                 *)
LEMMA QueueExec ==
  ASSUME NEW s, Exec(s), NEW e, Entry(e)
  PROVE  Exec(Queue(s, e)) /\ Kept(s, Queue(s, e))
<1>1. CASE Len(s.aq) >= MaxAppends
  BY <1>1 DEF Queue, Kept
<1>2. CASE ~(Len(s.aq) >= MaxAppends)
  <2> DEFINE aq == Append(s.aq, e)
             t == [s EXCEPT !.aq = aq]
  <2>1. Queue(s, e) = t
    BY <1>2 DEF Queue
  <2>2. IsSeq(s.aq)
    BY DEF Exec
  <2>3. /\ IsSeq(aq) /\ DOMAIN aq = 1 .. Len(s.aq) + 1 /\ DOMAIN s.aq = 1 .. Len(s.aq)
        /\ Len(s.aq) \in Nat
        /\ \A i \in 1 .. Len(s.aq) : aq[i] = s.aq[i]
        /\ aq[Len(s.aq) + 1] = e
    BY <2>2, IsSeqRead, IsSeqAppend
  <2> HIDE DEF aq
  <2>4. \A k \in DOMAIN aq : Entry(aq[k])
    <3>1. \A k \in 1 .. Len(s.aq) : Entry(aq[k])
      BY <2>3 DEF Exec
    <3>2. \A k \in DOMAIN aq : k \in 1 .. Len(s.aq) \/ k = Len(s.aq) + 1
      BY <2>3
    <3> QED
      BY <2>3, <3>1, <3>2
  <2>5. /\ DOMAIN t = Fields /\ t.w = s.w /\ t.aq = aq /\ t.out = s.out /\ t.pend = s.pend
        /\ \A f \in Reading : t[f] = s[f]
    BY DEF Exec, Fields, Reading
  <2> HIDE DEF t
  <2>6. Stream(t)
    BY <2>5 DEF Exec, Stream, Fields
  <2>7. Exec(t) /\ Kept(s, t)
    BY <2>3, <2>4, <2>5, <2>6 DEF Exec, Kept
  <2> QED
    BY <2>1, <2>7
<1> QED
  BY <1>1, <1>2

(***************************************************************************)
(* The append queue.                                                       *)
(***************************************************************************)
(* The pieces of an r file are those of no record, so that they owe          *)
(* nothing.                                                                  *)
LEMMA WholeOwesNothing ==
  ASSUME NEW lines, IsSeq(lines)
  PROVE  IsSeq(Whole(lines)) /\ \A i \in DOMAIN Whole(lines) : Whole(lines)[i][1] \notin Told
<1> DEFINE n == Len(lines)
           m == IF n > 0 /\ ~lines[n].nl THEN 2 * n - 1 ELSE 2 * n
           W == Whole(lines)
           P(k) == IF k % 2 = 0 THEN Delim ELSE <<"file", lines[(k + 1) \div 2].text>>
<1>1. m \in Nat
  <2>1. n \in Nat
    BY IsSeqRead
  <2> HIDE DEF n
  <2> QED
    BY <2>1
<1>2. W = [k \in 1 .. m |-> P(k)]
  BY DEF Whole
<1> HIDE DEF m, W
<1>3. W \in [1 .. m -> Range(W)]
  BY <1>2 DEF Range
<1>4. IsSeq(W)
  BY <1>1, <1>3, SeqDef DEF IsSeq
<1>5. ASSUME NEW k PROVE P(k)[1] \notin Told
  BY DEF Delim, Told
<1> HIDE DEF P
<1>6. \A i \in DOMAIN W : W[i][1] \notin Told
  BY <1>2, <1>5
<1> QED
  BY <1>4, <1>6 DEF W

(* Such pieces after a last one that owes nothing.                           *)
LEMMA WholeAfter ==
  ASSUME NEW out, IsSeq(out), ~UnfinishedIn(out),
         \A i \in DOMAIN out : i = Len(out) => out[i][1] \notin Told,
         NEW W, IsSeq(W), \A i \in DOMAIN W : W[i][1] \notin Told
  PROVE  /\ IsSeq(out \o W) /\ ~UnfinishedIn(out \o W)
         /\ \A i \in DOMAIN (out \o W) : i = Len(out \o W) => (out \o W)[i][1] \notin Told
<1> DEFINE o == out \o W
<1>0. PICK a \in Nat, b \in Nat : a = Len(out) /\ b = Len(W)
  BY IsSeqRead
<1>1. DOMAIN out = 1 .. a /\ DOMAIN W = 1 .. b
  BY <1>0, IsSeqRead
<1>2. /\ IsSeq(o) /\ Len(o) = a + b
      /\ \A i \in 1 .. a : o[i] = out[i]
      /\ \A i \in 1 .. b : o[a + i] = W[i]
  BY <1>0, IsSeqConcat
<1> HIDE DEF o
<1>3. DOMAIN o = 1 .. a + b
  BY <1>2, IsSeqRead
<1>4. ASSUME NEW i \in 1 .. a + b, ~(i \in 1 .. a) PROVE o[i][1] \notin Told
  <2>1. i - a \in 1 .. b /\ a + (i - a) = i
    BY <1>4
  <2>2. o[i] = W[i - a]
    BY <1>2, <2>1
  <2> QED
    BY <1>1, <2>1, <2>2
<1>5. ASSUME NEW i \in 1 .. a + b, o[i][1] \in Told
      PROVE  i \in 1 .. (a - 1) /\ o[i + 1] = Delim
  <2>1. i \in 1 .. a
    BY <1>4, <1>5
  <2>2. o[i] = out[i]
    BY <1>2, <2>1
  <2>3. i # a
    BY <1>0, <1>1, <1>5, <2>1, <2>2
  <2>4. i \in 1 .. (a - 1) /\ i + 1 \in 1 .. a
    BY <2>1, <2>3
  <2>5. out[i + 1] = Delim
    BY <1>0, <1>5, <2>2, <2>4 DEF UnfinishedIn, Told
  <2> QED
    BY <1>2, <2>4, <2>5
<1>6. ~UnfinishedIn(o)
  <2>1. SUFFICES ASSUME NEW i \in 1 .. (a + b - 1), o[i][1] \in Told, o[i + 1] # Delim PROVE FALSE
    BY <1>2 DEF UnfinishedIn, Told
  <2>2. i \in 1 .. a + b
    OBVIOUS
  <2> QED
    BY <1>5, <2>1, <2>2
<1>7. \A i \in DOMAIN o : i = Len(o) => o[i][1] \notin Told
  <2>1. SUFFICES ASSUME a + b \in 1 .. a + b, o[a + b][1] \in Told PROVE FALSE
    BY <1>2, <1>3
  <2>2. a + b \in 1 .. (a - 1)
    BY <1>5, <2>1
  <2> QED
    BY <2>2
<1> QED
  BY <1>2, <1>6, <1>7 DEF o

(* An entry that comes out of the queue, whatever became of its file.        *)
LEMMA FlushOneExec ==
  ASSUME NEW s, Exec(s), NEW e, Entry(e), Files
  PROVE  Exec(FlushOne(s, e)) /\ Kept(s, FlushOne(s, e))
<1>1. CASE e.type = "text"
  BY <1>1, OutTextExec DEF FlushOne
<1>2. CASE e.type = "R"
  <2> DEFINE name == e.file
             n == IF name \in DOMAIN s.r THEN s.r[name] + 1 ELSE 1
             t == [s EXCEPT !.r = Put(@, name, n)]
  <2>1. Same(s, t, Elsewhere)
    BY DEF Same, Elsewhere
  <2>2. Exec(t) /\ Kept(s, t)
    BY <2>1, NotStreams
  <2>3. FlushOne(s, e) = t \/ \E x : FlushOne(s, e) = OutText(t, "file", x)
    BY <1>2 DEF FlushOne, ReadLine
  <2> HIDE DEF t
  <2> QED
    BY <2>2, <2>3, OutTextExec, KeptOnAndOn
<1>3. CASE e.type = "r"
  <2>1. CASE ~disk[e.file].there
    BY <1>3, <2>1 DEF FlushOne, Kept
  <2>2. CASE disk[e.file].there
    <3> DEFINE f == FlushPending(s)
               W == Whole(disk[e.file].lines)
               o == f.out \o W
               t == [f EXCEPT !.out = o]
    <3>1. FlushOne(s, e) = t
      BY <1>3, <2>2 DEF FlushOne
    <3>2. Stream(f) /\ ~f.pend /\ Same(s, f, {"out", "pend"})
      BY FlushPendingStream DEF Exec
    <3>3. IsSeq(W) /\ \A i \in DOMAIN W : W[i][1] \notin Told
      <4>1. e.file \in DOMAIN disk
        BY <1>3 DEF Entry
      <4>2. disk[e.file] = Holding(disk[e.file].lines) /\ disk[e.file].lines \in Seq(Range(disk[e.file].lines))
        BY <2>2, <4>1 DEF Files, IsFile, Absent
      <4> QED
        BY <4>2, WholeOwesNothing DEF IsSeq
    <3> HIDE DEF f, W
    <3>4. IsSeq(o) /\ (Executes \/ (~UnfinishedIn(o) /\ \A i \in DOMAIN o : i = Len(o) => o[i][1] \notin Told))
      <4>1. IsSeq(f.out) /\ (Executes \/ (~UnfinishedIn(f.out) /\ \A i \in DOMAIN f.out : i = Len(f.out) => f.out[i][1] \notin Told))
        BY <3>2 DEF Stream
      <4>2. IsSeq(o)
        BY <3>3, <4>1, IsSeqConcat
      <4>3. CASE ~Executes
        BY <3>3, <4>1, <4>3, WholeAfter
      <4> QED
        BY <4>2, <4>3
    <3> HIDE DEF o
    <3>5. /\ DOMAIN t = Fields /\ t.w = s.w /\ t.aq = s.aq /\ t.out = o /\ t.pend = f.pend
          /\ \A g \in Reading : t[g] = s[g]
      BY <3>2 DEF Exec, Fields, Reading, Same
    <3> HIDE DEF t
    <3>6. Stream(t)
      BY <3>2, <3>4, <3>5 DEF Stream, Fields
    <3>7. Exec(t) /\ Kept(s, t)
      BY <3>5, <3>6 DEF Exec, Kept
    <3> QED
      BY <3>1, <3>7
  <2> QED
    BY <2>1, <2>2
<1> QED
  BY <1>1, <1>2, <1>3 DEF Entry

FlushTo(f, s, n) == f = [k \in 0 .. n |-> IF k = 0 THEN s ELSE FlushOne(f[k - 1], s.aq[k])]

(* What the function over the queue does at each entry.                      *)
LEMMA FlushOneMore ==
  ASSUME NEW s, NEW n \in Nat, NEW f, FlushTo(f, s, n)
  PROVE  f[0] = s /\ \A k \in 1 .. n : f[k] = FlushOne(f[k - 1], s.aq[k])
<1> DEFINE h == [k \in 0 .. n |-> IF k = 0 THEN s ELSE FlushOne(f[k - 1], s.aq[k])]
<1>1. f = h
  BY DEF FlushTo
<1>2. h[0] = s
  OBVIOUS
<1>3. ASSUME NEW k \in 1 .. n PROVE h[k] = FlushOne(f[k - 1], s.aq[k])
  <2>1. k \in 0 .. n /\ k # 0
    OBVIOUS
  <2> QED
    BY <2>1
<1> HIDE DEF h
<1> QED
  BY <1>1, <1>2, <1>3

(* It goes on by one entry more.                                             *)
LEMMA FlushesGrow ==
  ASSUME NEW s, NEW n \in Nat, NEW f, FlushTo(f, s, n)
  PROVE  \E g : FlushTo(g, s, n + 1)
<1> DEFINE g == [k \in 0 .. n + 1 |-> IF k = n + 1 THEN FlushOne(f[n], s.aq[k]) ELSE f[k]]
           h == [k \in 0 .. n + 1 |-> IF k = 0 THEN s ELSE FlushOne(g[k - 1], s.aq[k])]
<1>1. f[0] = s /\ \A k \in 1 .. n : f[k] = FlushOne(f[k - 1], s.aq[k])
  BY FlushOneMore
<1>2. \A k \in 0 .. n : g[k] = f[k]
  OBVIOUS
<1>3. g[n + 1] = FlushOne(f[n], s.aq[n + 1])
  OBVIOUS
<1>4. ASSUME NEW k \in 0 .. n + 1 PROVE h[k] = IF k = 0 THEN s ELSE FlushOne(g[k - 1], s.aq[k])
  OBVIOUS
<1>5. g = [k \in 0 .. n + 1 |-> g[k]] /\ h = [k \in 0 .. n + 1 |-> h[k]]
  OBVIOUS
<1> HIDE DEF g
<1>6. ASSUME NEW k \in 0 .. n + 1 PROVE g[k] = h[k]
  <2> HIDE DEF h
  <2>1. CASE k = 0
    BY <1>1, <1>2, <1>4, <2>1
  <2>2. CASE k \in 1 .. n
    <3>1. k - 1 \in 0 .. n /\ k # 0 /\ k \in 0 .. n
      BY <2>2
    <3>2. g[k] = f[k] /\ g[k - 1] = f[k - 1]
      BY <1>2, <3>1
    <3> QED
      BY <1>1, <1>4, <2>2, <3>1, <3>2
  <2>3. CASE k = n + 1
    <3>1. k - 1 = n /\ n \in 0 .. n /\ k # 0
      BY <2>3
    <3>2. g[k] = FlushOne(f[n], s.aq[k]) /\ g[n] = f[n]
      BY <1>2, <1>3, <2>3, <3>1
    <3> QED
      BY <1>4, <3>1, <3>2
  <2> QED
    BY <2>1, <2>2, <2>3
<1>7. g = h
  <2> HIDE DEF h
  <2> QED
    BY <1>5, <1>6
<1> QED
  BY <1>7 DEF FlushTo

(* So it exists for a queue of any length.                                   *)
LEMMA FlushesExist ==
  ASSUME NEW s, NEW n \in Nat
  PROVE  \E f : FlushTo(f, s, n)
<1> DEFINE T == {m \in 0 .. n : ~\E f : FlushTo(f, s, m)}
<1>1. 0 \notin T
  <2> DEFINE f == [k \in 0 .. 0 |-> s]
  <2>1. f = [k \in 0 .. 0 |-> IF k = 0 THEN s ELSE FlushOne(f[k - 1], s.aq[k])]
    OBVIOUS
  <2>2. FlushTo(f, s, 0)
    BY <2>1 DEF FlushTo
  <2> QED
    BY <2>2
<1>2. ASSUME NEW m \in 1 .. n, m - 1 \notin T PROVE m \notin T
  <2>1. m - 1 \in Nat /\ (m - 1) + 1 = m /\ m - 1 \in 0 .. n
    OBVIOUS
  <2>2. PICK f : FlushTo(f, s, m - 1)
    BY <1>2, <2>1
  <2>3. \E g : FlushTo(g, s, (m - 1) + 1)
    BY <2>1, <2>2, FlushesGrow
  <2> QED
    BY <2>1, <2>3
<1>3. T \subseteq 0 .. n
  OBVIOUS
<1> HIDE DEF T
<1>4. T = {}
  BY <1>1, <1>2, <1>3, NoException
<1> QED
  BY <1>4 DEF T

(* The whole queue comes out, entry by entry.                                *)
LEMMA FlushedExec ==
  ASSUME NEW s, Exec(s), Files
  PROVE  Exec(Flushed(s)) /\ Kept(s, Flushed(s))
<1> DEFINE n == Len(s.aq)
<1>1. n \in Nat /\ DOMAIN s.aq = 1 .. n
  BY IsSeqRead DEF Exec
<1>2. FlushTo(CHOOSE g : FlushTo(g, s, n), s, n)
  BY <1>1, FlushesExist
<1>3. Flushed(s) = (CHOOSE g : FlushTo(g, s, n))[n]
  BY DEF Flushed, FlushTo
<1> HIDE DEF n
<1>a. PICK m \in Nat : m = n
  BY <1>1
<1>b. PICK f : FlushTo(f, s, m) /\ Flushed(s) = f[m]
  BY <1>2, <1>3, <1>a
<1> DEFINE T == {k \in 0 .. m : ~(Exec(f[k]) /\ Kept(s, f[k]))}
<1>4. f[0] = s /\ \A k \in 1 .. m : f[k] = FlushOne(f[k - 1], s.aq[k])
  <2>1. FlushTo(f, s, m)
    BY <1>b
  <2> HIDE DEF T
  <2> QED
    BY <2>1, FlushOneMore
<1>5. 0 \notin T
  BY <1>4 DEF Kept
<1>6. ASSUME NEW k \in 1 .. m, k - 1 \notin T PROVE k \notin T
  <2>1. k - 1 \in 0 .. m
    OBVIOUS
  <2>2. Exec(f[k - 1]) /\ Kept(s, f[k - 1])
    BY <1>6, <2>1
  <2>3. Entry(s.aq[k])
    BY <1>a, <1>1 DEF Exec
  <2>4. Exec(f[k]) /\ Kept(f[k - 1], f[k])
    BY <1>4, <2>2, <2>3, FlushOneExec
  <2>5. Kept(s, f[k])
    BY <2>2, <2>4, KeptOnAndOn
  <2> QED
    BY <2>4, <2>5
<1>7. T \subseteq 0 .. m
  OBVIOUS
<1>8. m \in 0 .. m
  OBVIOUS
<1> HIDE DEF T
<1>9. T = {}
  BY <1>5, <1>6, <1>7, NoException
<1> QED
  BY <1>b, <1>8, <1>9 DEF T

(* flush_appends: the streams stay as they should be and the queue is        *)
(* empty.                                                                    *)
LEMMA FlushAppendsExec ==
  ASSUME NEW s, Exec(s), Files
  PROVE  Exec(FlushAppends(s)) /\ Kept(s, FlushAppends(s)) /\ FlushAppends(s).aq = <<>>
<1> DEFINE u == Flushed(s)
           t == [u EXCEPT !.aq = <<>>]
<1>1. Exec(u) /\ Kept(s, u)
  BY FlushedExec
<1> HIDE DEF u
<1>2. /\ DOMAIN t = Fields /\ t.w = u.w /\ t.aq = <<>> /\ t.out = u.out /\ t.pend = u.pend
      /\ \A f \in Reading : t[f] = u[f]
  BY <1>1 DEF Exec, Fields, Reading
<1> HIDE DEF t
<1>3. Stream(t)
  BY <1>1, <1>2 DEF Exec, Stream, Fields
<1>4. IsSeq(<<>>) /\ DOMAIN <<>> = {}
  <2>1. <<>> \in Seq({})
    BY EmptySeq
  <2>2. IsSeq(<<>>)
    BY <2>1, IsSeqOf
  <2> QED
    BY <2>2
<1>5. Exec(t) /\ Kept(u, t)
  BY <1>1, <1>2, <1>3, <1>4 DEF Exec, Kept
<1>6. Kept(s, t)
  BY <1>1, <1>5, KeptOnAndOn
<1>7. FlushAppends(s) = t
  BY DEF FlushAppends, t, u
<1> QED
  BY <1>2, <1>5, <1>6, <1>7

(***************************************************************************)
(* What is known of a job.                                                 *)
(***************************************************************************)
(* What is known of the job being run.                                       *)
LEMMA JobRead ==
  ASSUME job \in Jobs
  PROVE  /\ IsSeq(Script) /\ job.files \in Seq(DOMAIN job.disk)
         /\ \A i \in DOMAIN Script :
               /\ Script[i].jump \in Nat
               /\ Script[i].cmd \in {"r", "R"} => Script[i].file \in DOMAIN job.disk
         /\ \A f \in DOMAIN job.disk : IsFile(job.disk[f])
         /\ InPlace =>
               /\ "tmp" \in DOMAIN job.disk /\ job.disk["tmp"] = Absent
               /\ \A i \in DOMAIN job.files : Backups[job.files[i]] \in DOMAIN job.disk
BY SedAssumption DEF Script, IsSeq, InPlace

EarlyTo(f, s, n) ==
  f = [k \in 0 .. n |->
          IF k = 0 THEN s
          ELSE IF Early(Script[k])
          THEN Queue(f[k - 1], [type |-> Script[k].cmd, file |-> Script[k].file])
          ELSE f[k - 1]]
EarlyStep(s, k) ==
  IF Early(Script[k]) THEN Queue(s, [type |-> Script[k].cmd, file |-> Script[k].file]) ELSE s

EarlyRun(f, s, n) == f[0] = s /\ \A k \in 1 .. n : f[k] = EarlyStep(f[k - 1], k)

(* What the function over the script does at each command.                   *)
LEMMA EarlyOneMore ==
  ASSUME NEW s, NEW n \in Nat, NEW f, EarlyTo(f, s, n)
  PROVE  EarlyRun(f, s, n)
<1> DEFINE h == [k \in 0 .. n |-> IF k = 0 THEN s ELSE EarlyStep(f[k - 1], k)]
<1>1. f = h
  BY DEF EarlyTo, EarlyStep
<1>2. h[0] = s
  OBVIOUS
<1>3. ASSUME NEW k \in 1 .. n PROVE h[k] = EarlyStep(f[k - 1], k)
  <2>1. k \in 0 .. n /\ k # 0
    OBVIOUS
  <2> QED
    BY <2>1
<1> HIDE DEF h
<1> QED
  BY <1>1, <1>2, <1>3 DEF EarlyRun

(* It goes on by one command more.                                           *)
LEMMA EarlyGrow ==
  ASSUME NEW s, NEW n \in Nat, NEW f, EarlyTo(f, s, n)
  PROVE  \E g : EarlyTo(g, s, n + 1)
<1> DEFINE g == [k \in 0 .. n + 1 |-> IF k = n + 1 THEN EarlyStep(f[n], k) ELSE f[k]]
           h == [k \in 0 .. n + 1 |-> IF k = 0 THEN s ELSE EarlyStep(g[k - 1], k)]
<1>1. f[0] = s /\ \A k \in 1 .. n : f[k] = EarlyStep(f[k - 1], k)
  BY EarlyOneMore DEF EarlyRun
<1>2. \A k \in 0 .. n : g[k] = f[k]
  OBVIOUS
<1>3. g[n + 1] = EarlyStep(f[n], n + 1)
  OBVIOUS
<1>4. ASSUME NEW k \in 0 .. n + 1 PROVE h[k] = IF k = 0 THEN s ELSE EarlyStep(g[k - 1], k)
  OBVIOUS
<1>5. g = [k \in 0 .. n + 1 |-> g[k]] /\ h = [k \in 0 .. n + 1 |-> h[k]]
  OBVIOUS
<1> HIDE DEF g
<1>6. ASSUME NEW k \in 0 .. n + 1 PROVE g[k] = h[k]
  <2> HIDE DEF h
  <2>1. CASE k = 0
    BY <1>1, <1>2, <1>4, <2>1
  <2>2. CASE k \in 1 .. n
    <3>1. k - 1 \in 0 .. n /\ k # 0 /\ k \in 0 .. n
      BY <2>2
    <3>2. g[k] = f[k] /\ g[k - 1] = f[k - 1]
      BY <1>2, <3>1
    <3> QED
      BY <1>1, <1>4, <2>2, <3>1, <3>2
  <2>3. CASE k = n + 1
    <3>1. k - 1 = n /\ n \in 0 .. n /\ k # 0
      BY <2>3
    <3>2. g[k] = EarlyStep(f[n], k) /\ g[n] = f[n]
      BY <1>2, <1>3, <2>3, <3>1
    <3> QED
      BY <1>4, <3>1, <3>2
  <2> QED
    BY <2>1, <2>2, <2>3
<1>7. g = h
  <2> HIDE DEF h
  <2> QED
    BY <1>5, <1>6
<1> QED
  BY <1>7 DEF EarlyTo, EarlyStep

(* So it exists for a script of any length.                                  *)
LEMMA EarlyExist ==
  ASSUME NEW s, NEW n \in Nat
  PROVE  \E f : EarlyTo(f, s, n)
<1> DEFINE T == {m \in 0 .. n : ~\E f : EarlyTo(f, s, m)}
<1>1. 0 \notin T
  <2> DEFINE f == [k \in 0 .. 0 |-> s]
  <2>1. f = [k \in 0 .. 0 |-> IF k = 0 THEN s ELSE EarlyStep(f[k - 1], k)]
    OBVIOUS
  <2>2. EarlyTo(f, s, 0)
    BY <2>1 DEF EarlyTo, EarlyStep
  <2> QED
    BY <2>2
<1>2. ASSUME NEW m \in 1 .. n, m - 1 \notin T PROVE m \notin T
  <2>1. m - 1 \in Nat /\ (m - 1) + 1 = m /\ m - 1 \in 0 .. n
    OBVIOUS
  <2>2. PICK f : EarlyTo(f, s, m - 1)
    BY <1>2, <2>1
  <2>3. \E g : EarlyTo(g, s, (m - 1) + 1)
    BY <2>1, <2>2, EarlyGrow
  <2> QED
    BY <2>1, <2>3
<1>3. T \subseteq 0 .. n
  OBVIOUS
<1> HIDE DEF T
<1>4. T = {}
  BY <1>1, <1>2, <1>3, NoException
<1> QED
  BY <1>4 DEF T

(* GNU's 0r: the files that come before the first record are queued.         *)
LEMMA EarlyQueuedExec ==
  ASSUME job \in Jobs, Files, NEW s, Exec(s)
  PROVE  Exec(EarlyQueued(s)) /\ Kept(s, EarlyQueued(s))
<1> DEFINE n == Len(Script)
<1>1. n \in Nat /\ DOMAIN Script = 1 .. n
  BY JobRead, IsSeqRead
<1>2. EarlyTo(CHOOSE g : EarlyTo(g, s, n), s, n)
  BY <1>1, EarlyExist
<1>3. EarlyQueued(s) = (CHOOSE g : EarlyTo(g, s, n))[n]
  BY DEF EarlyQueued, EarlyTo
<1> HIDE DEF n
<1>a. PICK m \in Nat : m = n
  BY <1>1
<1>b. PICK f : EarlyTo(f, s, m) /\ EarlyQueued(s) = f[m]
  BY <1>2, <1>3, <1>a
<1> DEFINE T == {k \in 0 .. m : ~(Exec(f[k]) /\ Kept(s, f[k]))}
<1>4. f[0] = s /\ \A k \in 1 .. m : f[k] = EarlyStep(f[k - 1], k)
  <2>1. EarlyTo(f, s, m)
    BY <1>b
  <2> HIDE DEF T
  <2>2. EarlyRun(f, s, m)
    BY <2>1, EarlyOneMore
  <2> QED
    BY <2>2 DEF EarlyRun
<1>5. 0 \notin T
  BY <1>4 DEF Kept
<1>6. ASSUME NEW k \in 1 .. m, k - 1 \notin T PROVE k \notin T
  <2>1. k - 1 \in 0 .. m
    OBVIOUS
  <2>2. Exec(f[k - 1]) /\ Kept(s, f[k - 1])
    BY <1>6, <2>1
  <2>3. Early(Script[k]) => Entry([type |-> Script[k].cmd, file |-> Script[k].file])
    <3>1. SUFFICES ASSUME Early(Script[k]) PROVE Entry([type |-> Script[k].cmd, file |-> Script[k].file])
      OBVIOUS
    <3>2. Script[k].cmd \in {"r", "R"} /\ Script[k].file \in DOMAIN disk
      BY <1>1, <1>a, <3>1, JobRead DEF Early, Files
    <3> QED
      BY <3>2 DEF Entry
  <2>4. Exec(f[k]) /\ Kept(f[k - 1], f[k])
    BY <1>4, <2>2, <2>3, QueueExec DEF EarlyStep, Kept
  <2>5. Kept(s, f[k])
    BY <2>2, <2>4, KeptOnAndOn
  <2> QED
    BY <2>4, <2>5
<1>7. T \subseteq 0 .. m
  OBVIOUS
<1>8. m \in 0 .. m
  OBVIOUS
<1> HIDE DEF T
<1>9. T = {}
  BY <1>5, <1>6, <1>7, NoException
<1> QED
  BY <1>b, <1>8, <1>9 DEF T

(* What s does: print, execute and write as its flags say.                   *)
LEMMA SubstExec ==
  ASSUME NEW s, Exec(s)
  PROVE  Exec(SubstEffect(s)) /\ Kept(s, SubstEffect(s)) /\ SubstEffect(s).aq = s.aq
<1> DEFINE re == Effective(s, Cur.re)
           r == Substitute(Cur, re, s.ps.text)
           s0 == [s EXCEPT !.re = re]
           s1 == [s EXCEPT !.re = re, !.ps.text = r.text, !.tflag = TRUE]
           s2 == IF Cur.p = "before" THEN OutText(s1, "rec", s1.ps.text) ELSE s1
           s3 == IF Cur.e THEN [s2 EXCEPT !.ps.text = ShellText] ELSE s2
           s4 == IF Cur.p = "after" THEN OutText(s3, "rec", s3.ps.text) ELSE s3
           s5 == IF Cur.file # None THEN WriteFile(s4, Cur.file, s4.ps) ELSE s4
           Good(t) == Exec(t) /\ Kept(s, t) /\ t.aq = s.aq
<1>1. SubstEffect(s) = IF ~r.made THEN s0 ELSE s5
  BY DEF SubstEffect
<1> HIDE DEF re, r
<1>2. Good(s0) /\ Good(s1)
  <2>1. Same(s, s0, Elsewhere) /\ Same(s, s1, Elsewhere)
    BY DEF Same, Elsewhere
  <2> HIDE DEF s0, s1
  <2> QED
    BY <2>1, NotStreams
<1> HIDE DEF s0, s1
<1>3. Good(s2)
  BY <1>2, OutTextExec, KeptOnAndOn
<1> HIDE DEF s2
<1>4. Good(s3)
  <2>1. Same(s2, [s2 EXCEPT !.ps.text = ShellText], Elsewhere)
    BY DEF Same, Elsewhere
  <2> QED
    BY <1>3, <2>1, NotStreams, KeptOnAndOn
<1> HIDE DEF s3
<1>5. Good(s4)
  BY <1>4, OutTextExec, KeptOnAndOn
<1> HIDE DEF s4
<1>6. Good(s5)
  BY <1>5, WriteFileExec, KeptOnAndOn
<1> HIDE DEF s5
<1> QED
  BY <1>1, <1>2, <1>6

(***************************************************************************)
(* Reading.                                                                *)
(***************************************************************************)
Lines(s, f) == Len(Records(s, f))

Placed(s) ==
  /\ s.files \in Seq(DOMAIN disk)
  /\ \E a, b \in Nat :
        /\ s.at = <<a, b>> /\ a <= Len(s.files)
        /\ IF a = 0 THEN b = 0 ELSE b <= Lines(s, a)

Taken(s, n) == IsFiniteSet(Fetched(s)) /\ Cardinality(Fetched(s)) = n

ReadSound(s) ==
  /\ Placed(s) /\ s.line \in Nat
  /\ \/ s.peek = <<>>
     \/ (\E x : s.peek = <<x>>) /\ NeedLookahead /\ ~s.last
  /\ Taken(s, s.line + Len(s.peek))

(* The operands hold sequences of lines, which are counted.                  *)
LEMMA LinesAreCounted ==
  ASSUME Files, NEW s, s.files \in Seq(DOMAIN disk)
  PROVE  /\ Len(s.files) \in Nat
         /\ \A f \in 1 .. Len(s.files) : Lines(s, f) \in Nat /\ (Records(s, f) = <<>> <=> Lines(s, f) = 0)
<1>1. Len(s.files) \in Nat
  BY LenProperties
<1>2. ASSUME NEW f \in 1 .. Len(s.files)
      PROVE  Lines(s, f) \in Nat /\ (Records(s, f) = <<>> <=> Lines(s, f) = 0)
  <2>1. s.files[f] \in DOMAIN disk
    BY ElementOfSeq
  <2>2. IsFile(disk[s.files[f]])
    BY <2>1 DEF Files
  <2>3. PICK ls : ls = Records(s, f)
    OBVIOUS
  <2>4. ls = <<>> \/ IsSeq(ls)
    BY <2>2, <2>3 DEF IsFile, Absent, Holding, Records, IsSeq
  <2>5. IsSeq(ls)
    <3>1. IsSeq(<<>>)
      <4>1. <<>> \in Seq({})
        BY EmptySeq
      <4> QED
        BY <4>1, IsSeqOf
    <3> QED
      BY <2>4, <3>1
  <2>6. ls \in Seq(Range(ls))
    BY <2>5 DEF IsSeq
  <2>7. Len(ls) \in Nat /\ (ls = <<>> <=> Len(ls) = 0)
    BY <2>6, EmptySeq
  <2> QED
    BY <2>3, <2>7 DEF Lines
<1> QED
  BY <1>1, <1>2

(* The records fetched: those of the operands before, and the first of this  *)
(* one.                                                                      *)
LEMMA InFetched ==
  ASSUME NEW s, NEW a \in Nat, NEW b \in Nat, s.at = <<a, b>>
  PROVE  /\ Fetched(s) = (UNION {FirstOf(f, Lines(s, f)) : f \in 1 .. (a - 1)}) \cup FirstOf(a, b)
         /\ \A p : p \in Fetched(s) <=>
               \E f, k : p = <<f, k>> /\ \/ f \in 1 .. (a - 1) /\ k \in 1 .. Lines(s, f)
                                         \/ f = a /\ k \in 1 .. b
<1>1. Fetched(s) = (UNION {FirstOf(f, Lines(s, f)) : f \in 1 .. (a - 1)}) \cup FirstOf(a, b)
  BY DEF Fetched, Lines
<1> QED
  BY <1>1 DEF FirstOf

(* Fetching counts one record more, or comes to the end of the operands.      *)
LEMMA FetchCounts ==
  ASSUME Files, NEW s, DOMAIN s = Fields, Placed(s), NEW t, t = Took(s, Fetch(s))
  PROVE  /\ Placed(t)
         /\ Fetch(s).ok => /\ Fetch(s).at \notin Fetched(s)
                           /\ Fetched(t) = Fetched(s) \cup {Fetch(s).at}
         /\ ~Fetch(s).ok => Fetched(t) = Fetched(s)
<1>1. PICK a \in Nat, b \in Nat :
         /\ s.at = <<a, b>> /\ a <= Len(s.files)
         /\ IF a = 0 THEN b = 0 ELSE b <= Lines(s, a)
  BY DEF Placed
<1>2. s.files \in Seq(DOMAIN disk)
  BY DEF Placed
<1>3. PICK n \in Nat : n = Len(s.files)
  BY <1>2, LinesAreCounted
<1>4. \A f \in 1 .. n : Lines(s, f) \in Nat /\ (Records(s, f) = <<>> <=> Lines(s, f) = 0)
  BY <1>2, <1>3, LinesAreCounted
<1> DEFINE inHere == a > 0 /\ b + 1 <= Lines(s, a)
           later == {f \in (a + 1) .. n : Records(s, f) # <<>>}
           c == Min(later)
<1>5. /\ Fetch(s).ok <=> inHere \/ later # {}
      /\ Fetch(s).at = IF inHere THEN <<a, b + 1>>
                       ELSE IF later # {} THEN <<c, 1>>
                       ELSE <<n, IF s.files = <<>> THEN 0 ELSE Lines(s, n)>>
  <2> DEFINE H == s.at[1] > 0 /\ s.at[2] + 1 <= Len(Records(s, s.at[1]))
             L == {f \in (s.at[1] + 1) .. Len(s.files) : Records(s, f) # <<>>}
  <2>1. s.at[1] = a /\ s.at[2] = b
    BY <1>1
  <2>2. (inHere <=> H) /\ later = L
    BY <1>3, <2>1 DEF Lines
  <2>3. /\ Fetch(s).ok <=> H \/ L # {}
        /\ Fetch(s).at = IF H THEN <<s.at[1], s.at[2] + 1>>
                         ELSE IF L # {} THEN <<Min(L), 1>>
                         ELSE <<Len(s.files), IF s.files = <<>> THEN 0
                                              ELSE Len(Records(s, Len(s.files)))>>
    BY DEF Fetch
  <2> HIDE DEF inHere, later, H, L
  <2> QED
    BY <1>3, <2>1, <2>2, <2>3 DEF Lines
<1>6. t.at = Fetch(s).at /\ t.files = s.files
  BY DEF Took, Fields
<1>7. \A f : Lines(t, f) = Lines(s, f)
  BY <1>6 DEF Lines, Records
<1>8. /\ \A p : p \in Fetched(s) <=>
               \E f, k : p = <<f, k>> /\ \/ f \in 1 .. (a - 1) /\ k \in 1 .. Lines(s, f)
                                         \/ f = a /\ k \in 1 .. b
  BY <1>1, InFetched
<1>9. ASSUME NEW x \in Nat, NEW y \in Nat, t.at = <<x, y>>
      PROVE  \A p : p \in Fetched(t) <=>
               \E f, k : p = <<f, k>> /\ \/ f \in 1 .. (x - 1) /\ k \in 1 .. Lines(s, f)
                                         \/ f = x /\ k \in 1 .. y
  <2>1. \A p : p \in Fetched(t) <=>
               \E f, k : p = <<f, k>> /\ \/ f \in 1 .. (x - 1) /\ k \in 1 .. Lines(t, f)
                                         \/ f = x /\ k \in 1 .. y
    BY <1>9, InFetched
  <2> QED
    BY <1>7, <2>1
<1>10. ASSUME NEW x \in Nat, NEW y \in Nat, t.at = <<x, y>>, x <= n,
              IF x = 0 THEN y = 0 ELSE y <= Lines(s, x)
       PROVE  Placed(t)
  <2>1. Lines(t, x) = Lines(s, x)
    BY <1>7
  <2> QED
    BY <1>2, <1>3, <1>6, <1>10, <2>1 DEF Placed
<1> HIDE DEF c
<1>11. CASE inHere
  <2>1. Fetch(s).ok /\ Fetch(s).at = <<a, b + 1>> /\ t.at = <<a, b + 1>>
    BY <1>5, <1>6, <1>11
  <2>2. Placed(t)
    BY <1>1, <1>3, <1>10, <1>11, <2>1
  <2>3. <<a, b + 1>> \notin Fetched(s)
    BY <1>8
  <2>4. \A p : p \in Fetched(t) <=> p \in Fetched(s) \/ p = <<a, b + 1>>
    <3>1. \A p : p \in Fetched(t) <=>
               \E f, k : p = <<f, k>> /\ \/ f \in 1 .. (a - 1) /\ k \in 1 .. Lines(s, f)
                                         \/ f = a /\ k \in 1 .. (b + 1)
      BY <1>9, <2>1
    <3>2. \A k : k \in 1 .. (b + 1) <=> k \in 1 .. b \/ k = b + 1
      OBVIOUS
    <3> QED
      BY <1>8, <3>1, <3>2
  <2> QED
    BY <2>1, <2>2, <2>3, <2>4
<1>12. CASE ~inHere
  <2>0. (a = 0 /\ b = 0) \/ (a \in 1 .. n /\ b = Lines(s, a))
    BY <1>1, <1>3, <1>4, <1>12
  <2>1. CASE later # {}
    <3>1. c \in later /\ \A g \in later : c <= g
      <4>1. later \in SUBSET Nat
        OBVIOUS
      <4>2. c = Least(later)
        BY DEF c, Min, Least
      <4> HIDE DEF later
      <4> QED
        BY <2>1, <4>1, <4>2, LeastIsIn
    <3>2. /\ c \in (a + 1) .. n /\ Lines(s, c) >= 1 /\ Lines(s, c) \in Nat
          /\ \A g \in (a + 1) .. (c - 1) : Lines(s, g) = 0
      <4>1. c \in (a + 1) .. n /\ c \in 1 .. n /\ Records(s, c) # <<>>
        BY <3>1
      <4>2. \A g \in (a + 1) .. (c - 1) : g \in 1 .. n /\ Records(s, g) = <<>>
        BY <3>1, <4>1
      <4> QED
        BY <1>4, <4>1, <4>2
    <3>3. Fetch(s).ok /\ Fetch(s).at = <<c, 1>> /\ t.at = <<c, 1>>
      BY <1>5, <1>6, <1>12, <2>1
    <3> HIDE DEF later, inHere
    <3>4. Placed(t)
      BY <1>10, <3>2, <3>3
    <3>5. <<c, 1>> \notin Fetched(s)
      BY <1>8, <3>2
    <3>6. \A p : p \in Fetched(t) <=>
               \E f, k : p = <<f, k>> /\ \/ f \in 1 .. (c - 1) /\ k \in 1 .. Lines(s, f)
                                         \/ f = c /\ k \in 1 .. 1
      BY <1>9, <3>2, <3>3
    <3>7. ASSUME NEW f, NEW k
          PROVE  f \in 1 .. (c - 1) /\ k \in 1 .. Lines(s, f) <=>
                 (f \in 1 .. (a - 1) /\ k \in 1 .. Lines(s, f)) \/ (f = a /\ k \in 1 .. b)
      <4>1. CASE f \in (a + 1) .. (c - 1)
        <5>1. Lines(s, f) = 0
          BY <3>2, <4>1
        <5>2. k \notin 1 .. Lines(s, f)
          BY <5>1
        <5> QED
          BY <4>1, <5>2
      <4>2. CASE f = a
        BY <2>0, <3>2, <4>2
      <4>3. CASE f \notin (a + 1) .. (c - 1) /\ f # a
        <5>1. f \in 1 .. (c - 1) <=> f \in 1 .. (a - 1)
          BY <3>2, <4>3
        <5> QED
          BY <4>3, <5>1
      <4> QED
        BY <4>1, <4>2, <4>3
    <3>8. \A p : p \in Fetched(t) <=> p \in Fetched(s) \/ p = <<c, 1>>
      <4>1. \A k : k \in 1 .. 1 <=> k = 1
        OBVIOUS
      <4> QED
        BY <1>8, <3>6, <3>7, <4>1
    <3> QED
      BY <3>3, <3>4, <3>5, <3>8
  <2>2. CASE later = {}
    <3>1. \A g \in (a + 1) .. n : Lines(s, g) = 0
      BY <1>4, <2>2
    <3>2. PICK y \in Nat : t.at = <<n, y>> /\ (n = 0 => y = 0) /\ (n # 0 => y = Lines(s, n))
      <4>1. s.files = <<>> <=> n = 0
        BY <1>2, <1>3, EmptySeq
      <4>2. t.at = <<n, IF n = 0 THEN 0 ELSE Lines(s, n)>>
        BY <1>5, <1>6, <1>12, <2>2, <4>1
      <4> QED
        BY <1>4, <4>2
    <3>3. ~Fetch(s).ok
      BY <1>5, <1>12, <2>2
    <3> HIDE DEF later, inHere
    <3>4. Placed(t)
      BY <1>4, <1>10, <3>2
    <3>5. \A p : p \in Fetched(t) <=>
               \E f, k : p = <<f, k>> /\ \/ f \in 1 .. (n - 1) /\ k \in 1 .. Lines(s, f)
                                         \/ f = n /\ k \in 1 .. y
      BY <1>9, <3>2
    <3>6. ASSUME NEW f, NEW k
          PROVE  (f \in 1 .. (n - 1) /\ k \in 1 .. Lines(s, f)) \/ (f = n /\ k \in 1 .. y) <=>
                 (f \in 1 .. (a - 1) /\ k \in 1 .. Lines(s, f)) \/ (f = a /\ k \in 1 .. b)
      <4>1. CASE f \in (a + 1) .. n
        <5>1. Lines(s, f) = 0
          BY <3>1, <4>1
        <5>2. k \notin 1 .. Lines(s, f)
          BY <5>1
        <5>3. f # a /\ f \notin 1 .. (a - 1) /\ (f = n => y = 0)
          BY <3>2, <4>1, <5>1
        <5> QED
          BY <5>2, <5>3
      <4>2. CASE f = a
        BY <1>1, <1>3, <2>0, <3>2, <4>2
      <4>3. CASE f \notin (a + 1) .. n /\ f # a
        <5>1. f # n /\ (f \in 1 .. (n - 1) <=> f \in 1 .. (a - 1))
          BY <1>1, <1>3, <4>3
        <5> QED
          BY <4>3, <5>1
      <4> QED
        BY <4>1, <4>2, <4>3
    <3>7. \A p : p \in Fetched(t) <=> p \in Fetched(s)
      BY <1>8, <3>5, <3>6
    <3>8. Fetched(t) = Fetched(s)
      <4>1. Fetched(t) = {p \in Fetched(t) : TRUE} /\ Fetched(s) \subseteq Fetched(t) /\ Fetched(t) \subseteq Fetched(s)
        BY <3>7
      <4> QED
        BY <4>1
    <3> QED
      BY <3>3, <3>4, <3>8
  <2> QED
    BY <2>1, <2>2
<1> QED
  BY <1>11, <1>12

NotWritten == Fields \ {"out", "pend", "w", "aq"}

(* A step that writes nothing leaves the streams as they were.               *)
LEMMA NothingWritten ==
  ASSUME NEW s, NEW t, Exec(s), Same(s, t, NotWritten)
  PROVE  Exec(t) /\ t.aq = s.aq
<1>1. /\ DOMAIN t = Fields /\ t.out = s.out /\ t.pend = s.pend /\ t.w = s.w /\ t.aq = s.aq
  BY DEF Exec, Same, NotWritten, Fields
<1>2. Stream(t)
  BY <1>1 DEF Stream, Exec, Fields
<1> QED
  BY <1>1, <1>2 DEF Exec

(* What was fetched depends on where the input stands.                       *)
LEMMA SameInput ==
  ASSUME NEW s, NEW t, t.at = s.at, t.files = s.files
  PROVE  /\ Placed(s) => Placed(t)
         /\ Fetched(t) = Fetched(s)
<1>1. \A f : Records(t, f) = Records(s, f)
  BY DEF Records
<1>2. Placed(s) => Placed(t)
  BY <1>1 DEF Placed, Lines
<1>3. Fetched(t) = Fetched(s)
  BY <1>1 DEF Fetched
<1> QED
  BY <1>2, <1>3

(* The record taken is counted as a line, the one looked at as the peeked.    *)
LEMMA AdvanceReads ==
  ASSUME Files, NEW s, Exec(s), Placed(s), s.line \in Nat, Taken(s, s.line + 1), NEW l,
         NEW u, u = Advance(s, l)
  PROVE  Exec(u) /\ u.aq = s.aq /\ u.files = s.files /\ u.fi = s.fi
         /\ u.edits = s.edits /\ u.pc = s.pc /\ ReadSound(u)
<1> DEFINE t == [s EXCEPT !.ps = l, !.line = @ + 1, !.peek = <<>>,
                          !.tflag = FALSE, !.more = TRUE]
           f == Fetch(t)
           v == Took(t, f)
           x == [v EXCEPT !.peek = <<RecordAt(t, f.at)>>, !.last = FALSE]
           y == [v EXCEPT !.last = TRUE]
<1>1. u = IF ~NeedLookahead THEN t ELSE IF f.ok THEN x ELSE y
  BY DEF Advance
<1>2. /\ Same(s, t, NotWritten) /\ t.at = s.at /\ t.files = s.files /\ t.fi = s.fi
         /\ t.edits = s.edits /\ t.pc = s.pc
      /\ t.line = s.line + 1 /\ t.peek = <<>> /\ DOMAIN t = Fields
  BY DEF Same, NotWritten, Fields, Exec
<1> HIDE DEF t
<1>3. Exec(t) /\ t.aq = s.aq
  BY <1>2, NothingWritten
<1>4. Placed(t) /\ Fetched(t) = Fetched(s)
  BY <1>2, SameInput
<1>5. /\ Placed(v)
      /\ f.ok => f.at \notin Fetched(t) /\ Fetched(v) = Fetched(t) \cup {f.at}
      /\ ~f.ok => Fetched(v) = Fetched(t)
  BY <1>2, <1>4, FetchCounts
<1>6. Same(t, v, NotWritten) /\ v.files = t.files /\ v.fi = t.fi
      /\ v.edits = t.edits /\ v.pc = t.pc /\ v.line = t.line /\ v.peek = t.peek
  BY <1>2 DEF Took, Same, NotWritten, Fields
<1> HIDE DEF v, f
<1>7. Taken(t, t.line)
  BY <1>2, <1>4 DEF Taken
<1>8. Len(<<>>) = 0
  OBVIOUS
<1>9. CASE ~NeedLookahead
  <2>1. u = t
    BY <1>1, <1>9
  <2>2. t.line + Len(t.peek) = t.line /\ t.line \in Nat
    BY <1>2, <1>8
  <2>3. ReadSound(t)
    BY <1>2, <1>4, <1>7, <2>2 DEF ReadSound
  <2> QED
    BY <1>2, <1>3, <2>1, <2>3
<1>10. CASE NeedLookahead /\ f.ok
  <2>1. u = x
    BY <1>1, <1>10
  <2>2. /\ Same(t, x, NotWritten) /\ x.at = v.at /\ x.files = t.files /\ x.fi = t.fi
           /\ x.edits = t.edits /\ x.pc = t.pc
        /\ x.line = t.line /\ x.last = FALSE /\ x.peek = <<RecordAt(t, f.at)>>
    BY <1>2, <1>6 DEF Same, NotWritten, Fields
  <2> HIDE DEF x
  <2>3. Exec(x) /\ x.aq = t.aq
    BY <1>3, <2>2, NothingWritten
  <2>4. Placed(x) /\ Fetched(x) = Fetched(t) \cup {f.at}
    <3>1. x.files = v.files
      BY <1>6, <2>2
    <3> QED
      BY <1>5, <1>10, <2>2, <3>1, SameInput
  <2>5. Taken(x, t.line + 1)
    <3>1. IsFiniteSet(Fetched(t)) /\ Cardinality(Fetched(t)) = t.line
      BY <1>7 DEF Taken
    <3>2. f.at \notin Fetched(t)
      BY <1>5, <1>10
    <3>3. IsFiniteSet(Fetched(t) \cup {f.at}) /\ Cardinality(Fetched(t) \cup {f.at}) = Cardinality(Fetched(t)) + 1
      BY <3>1, <3>2, FS_AddElement
    <3> QED
      BY <2>4, <3>1, <3>3 DEF Taken
  <2>6. x.line + Len(x.peek) = t.line + 1 /\ x.line \in Nat
    <3>1. Len(<<RecordAt(t, f.at)>>) = 1
      OBVIOUS
    <3> QED
      BY <1>2, <2>2, <3>1
  <2>7. ReadSound(x)
    BY <1>10, <2>2, <2>4, <2>5, <2>6 DEF ReadSound
  <2> QED
    BY <1>2, <1>3, <2>1, <2>2, <2>3, <2>7
<1>11. CASE NeedLookahead /\ ~f.ok
  <2>1. u = y
    BY <1>1, <1>11
  <2>2. /\ Same(t, y, NotWritten) /\ y.at = v.at /\ y.files = t.files /\ y.fi = t.fi
           /\ y.edits = t.edits /\ y.pc = t.pc
        /\ y.line = t.line /\ y.peek = <<>>
    BY <1>2, <1>6 DEF Same, NotWritten, Fields
  <2> HIDE DEF y
  <2>3. Exec(y) /\ y.aq = t.aq
    BY <1>3, <2>2, NothingWritten
  <2>4. Placed(y) /\ Fetched(y) = Fetched(t)
    <3>1. y.files = v.files
      BY <1>6, <2>2
    <3> QED
      BY <1>5, <1>11, <2>2, <3>1, SameInput
  <2>5. Taken(y, t.line)
    BY <1>7, <2>4 DEF Taken
  <2>6. y.line + Len(y.peek) = t.line /\ y.line \in Nat
    BY <1>2, <1>8, <2>2
  <2>7. ReadSound(y)
    BY <2>2, <2>4, <2>5, <2>6 DEF ReadSound
  <2> QED
    BY <1>2, <1>3, <2>1, <2>2, <2>3, <2>7
<1> QED
  BY <1>9, <1>10, <1>11

(* next_record, with a record looked at before or not.                       *)
LEMMA NextRecordReads ==
  ASSUME Files, NEW s, Exec(s), ReadSound(s), NEW u, u = NextRecord(s)
  PROVE  Exec(u) /\ u.aq = s.aq /\ u.files = s.files /\ u.fi = s.fi
         /\ u.edits = s.edits /\ u.pc = s.pc /\ ReadSound(u)
<1>1. CASE s.peek # <<>>
  <2>1. u = Advance(s, s.peek[1])
    BY <1>1 DEF NextRecord
  <2>2. PICK x : s.peek = <<x>>
    BY <1>1 DEF ReadSound
  <2>3. Len(<<x>>) = 1
    OBVIOUS
  <2>4. Placed(s) /\ s.line \in Nat /\ Taken(s, s.line + 1)
    BY <2>2, <2>3 DEF ReadSound
  <2> QED
    BY <2>1, <2>4, AdvanceReads
<1>2. CASE s.peek = <<>>
  <2> DEFINE f == Fetch(s)
             v == Took(s, f)
             z == [v EXCEPT !.more = FALSE]
  <2>1. u = IF f.ok THEN Advance(v, RecordAt(s, f.at)) ELSE z
    BY <1>2 DEF NextRecord
  <2>2. DOMAIN s = Fields /\ Placed(s) /\ s.line \in Nat
    BY DEF Exec, ReadSound
  <2>3. Taken(s, s.line)
    <3>1. s.line + Len(<<>>) = s.line
      BY <2>2
    <3> QED
      BY <1>2, <3>1 DEF ReadSound
  <2>4. /\ Placed(v)
        /\ f.ok => f.at \notin Fetched(s) /\ Fetched(v) = Fetched(s) \cup {f.at}
        /\ ~f.ok => Fetched(v) = Fetched(s)
    BY <2>2, FetchCounts
  <2>5. Same(s, v, NotWritten) /\ v.files = s.files /\ v.fi = s.fi
        /\ v.edits = s.edits /\ v.pc = s.pc /\ v.line = s.line /\ v.peek = s.peek
    BY <2>2 DEF Took, Same, NotWritten, Fields
  <2> HIDE DEF v, f
  <2>6. Exec(v) /\ v.aq = s.aq
    BY <2>5, NothingWritten
  <2>7. CASE f.ok
    <3>1. Taken(v, v.line + 1)
      <4>1. IsFiniteSet(Fetched(s)) /\ Cardinality(Fetched(s)) = s.line
        BY <2>3 DEF Taken
      <4>2. f.at \notin Fetched(s)
        BY <2>4, <2>7
      <4>3. IsFiniteSet(Fetched(s) \cup {f.at}) /\ Cardinality(Fetched(s) \cup {f.at}) = Cardinality(Fetched(s)) + 1
        BY <4>1, <4>2, FS_AddElement
      <4> QED
        BY <2>4, <2>5, <2>7, <4>1, <4>3 DEF Taken
    <3>2. u = Advance(v, RecordAt(s, f.at))
      BY <2>1, <2>7
    <3>3. v.line \in Nat
      BY <2>2, <2>5
    <3>4. Exec(u) /\ u.aq = v.aq /\ u.files = v.files /\ u.fi = v.fi
          /\ u.edits = v.edits /\ u.pc = v.pc /\ ReadSound(u)
      BY <2>4, <2>6, <3>1, <3>2, <3>3, AdvanceReads
    <3> QED
      BY <2>5, <2>6, <3>4
  <2>8. CASE ~f.ok
    <3>1. u = z
      BY <2>1, <2>8
    <3>2. /\ Same(v, z, NotWritten) /\ z.at = v.at /\ z.files = v.files /\ z.fi = v.fi
             /\ z.edits = v.edits /\ z.pc = v.pc
          /\ z.line = v.line /\ z.peek = <<>>
      BY <1>2, <2>5, <2>6 DEF Same, NotWritten, Fields, Exec
    <3> HIDE DEF z
    <3>3. Exec(z) /\ z.aq = v.aq
      BY <2>6, <3>2, NothingWritten
    <3>4. Placed(z) /\ Fetched(z) = Fetched(s)
      BY <2>4, <2>8, <3>2, SameInput
    <3>5. Taken(z, s.line) /\ z.line + Len(z.peek) = s.line /\ z.line \in Nat
      <4>1. s.line + Len(<<>>) = s.line
        BY <2>2
      <4> QED
        BY <2>2, <2>3, <2>5, <3>2, <3>4, <4>1 DEF Taken
    <3>6. ReadSound(z)
      BY <3>2, <3>4, <3>5 DEF ReadSound
    <3> QED
      BY <2>5, <2>6, <3>1, <3>2, <3>3, <3>6
  <2> QED
    BY <2>7, <2>8
<1> QED
  BY <1>1, <1>2

(***************************************************************************)
(* What goes to the disk is a file.                                        *)
(***************************************************************************)
(* A piece more on the disk gives lines again.                               *)
LEMMA LaidIsSeq ==
  ASSUME NEW lines, IsSeq(lines), NEW p
  PROVE  IsSeq(Laid(lines, p))
<1>1. IsSeq(Front(lines))
  <2>1. lines \in Seq(Range(lines)) /\ Len(lines) \in Nat /\ Len(lines) - 1 \in Int
    BY IsSeqRead DEF IsSeq
  <2>2. \A i \in 1 .. (Len(lines) - 1) : lines[i] \in Range(lines)
    <3>1. DOMAIN lines = 1 .. Len(lines)
      BY IsSeqRead
    <3> QED
      BY <2>1, <3>1 DEF Range
  <2>3. SubSeq(lines, 1, Len(lines) - 1) \in Seq(Range(lines))
    BY <2>1, <2>2, SubSeqProperties
  <2>4. IsSeq(SubSeq(lines, 1, Len(lines) - 1))
    BY <2>3, IsSeqOf
  <2> QED
    BY <2>4 DEF Front
<1>2. \E rest, line : (rest = lines \/ rest = Front(lines)) /\ Laid(lines, p) = Append(rest, line)
  BY DEF Laid
<1> QED
  BY <1>1, <1>2, IsSeqAppend

LaidTo(f, s, n) == f = [k \in 0 .. n |-> IF k = 0 THEN <<>> ELSE Laid(f[k - 1], s[k])]
LaidRun(f, s, n) == f[0] = <<>> /\ \A k \in 1 .. n : f[k] = Laid(f[k - 1], s[k])

(* What the function over the pieces does at each.                           *)
LEMMA LaidOneMore ==
  ASSUME NEW s, NEW n \in Nat, NEW f, LaidTo(f, s, n)
  PROVE  LaidRun(f, s, n)
<1> DEFINE h == [k \in 0 .. n |-> IF k = 0 THEN <<>> ELSE Laid(f[k - 1], s[k])]
<1>1. f = h
  BY DEF LaidTo
<1>2. h[0] = <<>>
  OBVIOUS
<1>3. ASSUME NEW k \in 1 .. n PROVE h[k] = Laid(f[k - 1], s[k])
  <2>1. k \in 0 .. n /\ k # 0
    OBVIOUS
  <2> QED
    BY <2>1
<1> HIDE DEF h
<1> QED
  BY <1>1, <1>2, <1>3 DEF LaidRun

(* It goes on by one piece more.                                             *)
LEMMA LaidGrow ==
  ASSUME NEW s, NEW n \in Nat, NEW f, LaidTo(f, s, n)
  PROVE  \E g : LaidTo(g, s, n + 1)
<1> DEFINE g == [k \in 0 .. n + 1 |-> IF k = n + 1 THEN Laid(f[n], s[k]) ELSE f[k]]
           h == [k \in 0 .. n + 1 |-> IF k = 0 THEN <<>> ELSE Laid(g[k - 1], s[k])]
<1>1. f[0] = <<>> /\ \A k \in 1 .. n : f[k] = Laid(f[k - 1], s[k])
  BY LaidOneMore DEF LaidRun
<1>2. \A k \in 0 .. n : g[k] = f[k]
  OBVIOUS
<1>3. g[n + 1] = Laid(f[n], s[n + 1])
  OBVIOUS
<1>4. ASSUME NEW k \in 0 .. n + 1 PROVE h[k] = IF k = 0 THEN <<>> ELSE Laid(g[k - 1], s[k])
  OBVIOUS
<1>5. g = [k \in 0 .. n + 1 |-> g[k]] /\ h = [k \in 0 .. n + 1 |-> h[k]]
  OBVIOUS
<1> HIDE DEF g
<1>6. ASSUME NEW k \in 0 .. n + 1 PROVE g[k] = h[k]
  <2> HIDE DEF h
  <2>1. CASE k = 0
    BY <1>1, <1>2, <1>4, <2>1
  <2>2. CASE k \in 1 .. n
    <3>1. k - 1 \in 0 .. n /\ k # 0 /\ k \in 0 .. n
      BY <2>2
    <3>2. g[k] = f[k] /\ g[k - 1] = f[k - 1]
      BY <1>2, <3>1
    <3> QED
      BY <1>1, <1>4, <2>2, <3>1, <3>2
  <2>3. CASE k = n + 1
    <3>1. k - 1 = n /\ n \in 0 .. n /\ k # 0
      BY <2>3
    <3>2. g[k] = Laid(f[n], s[k]) /\ g[n] = f[n]
      BY <1>2, <1>3, <2>3, <3>1
    <3> QED
      BY <1>4, <3>1, <3>2
  <2> QED
    BY <2>1, <2>2, <2>3
<1>7. g = h
  <2> HIDE DEF h
  <2> QED
    BY <1>5, <1>6
<1> QED
  BY <1>7 DEF LaidTo

(* So it exists for an output of any length.                                 *)
LEMMA LaidExist ==
  ASSUME NEW s, NEW n \in Nat
  PROVE  \E f : LaidTo(f, s, n)
<1> DEFINE T == {m \in 0 .. n : ~\E f : LaidTo(f, s, m)}
<1>1. 0 \notin T
  <2> DEFINE f == [k \in 0 .. 0 |-> <<>>]
  <2>1. f = [k \in 0 .. 0 |-> IF k = 0 THEN <<>> ELSE Laid(f[k - 1], s[k])]
    OBVIOUS
  <2>2. LaidTo(f, s, 0)
    BY <2>1 DEF LaidTo
  <2> QED
    BY <2>2
<1>2. ASSUME NEW m \in 1 .. n, m - 1 \notin T PROVE m \notin T
  <2>1. m - 1 \in Nat /\ (m - 1) + 1 = m /\ m - 1 \in 0 .. n
    OBVIOUS
  <2>2. PICK f : LaidTo(f, s, m - 1)
    BY <1>2, <2>1
  <2>3. \E g : LaidTo(g, s, (m - 1) + 1)
    BY <2>1, <2>2, LaidGrow
  <2> QED
    BY <2>1, <2>3
<1>3. T \subseteq 0 .. n
  OBVIOUS
<1> HIDE DEF T
<1>4. T = {}
  BY <1>1, <1>2, <1>3, NoException
<1> QED
  BY <1>4 DEF T

(* Whatever was written, what is on the disk is a file.                      *)
LEMMA OnDiskIsFile ==
  ASSUME NEW out, IsSeq(out)
  PROVE  IsFile(OnDisk(out)) /\ OnDisk(out).there
<1> DEFINE n == Len(out)
<1>1. n \in Nat
  BY IsSeqRead
<1>2. LaidTo(CHOOSE g : LaidTo(g, out, n), out, n)
  BY <1>1, LaidExist
<1>3. OnDisk(out) = Holding((CHOOSE g : LaidTo(g, out, n))[n])
  BY DEF OnDisk, LaidTo
<1> HIDE DEF n
<1>a. PICK m \in Nat : m = n
  BY <1>1
<1>b. PICK f : LaidTo(f, out, m) /\ OnDisk(out) = Holding(f[m])
  BY <1>2, <1>3, <1>a
<1> DEFINE T == {k \in 0 .. m : ~IsSeq(f[k])}
<1>4. f[0] = <<>> /\ \A k \in 1 .. m : f[k] = Laid(f[k - 1], out[k])
  <2>1. LaidTo(f, out, m)
    BY <1>b
  <2> HIDE DEF T
  <2>2. LaidRun(f, out, m)
    BY <2>1, LaidOneMore
  <2> QED
    BY <2>2 DEF LaidRun
<1>5. 0 \notin T
  <2>1. <<>> \in Seq({})
    BY EmptySeq
  <2>2. IsSeq(<<>>)
    BY <2>1, IsSeqOf
  <2> QED
    BY <1>4, <2>2
<1>6. ASSUME NEW k \in 1 .. m, k - 1 \notin T PROVE k \notin T
  <2>1. k - 1 \in 0 .. m
    OBVIOUS
  <2>2. IsSeq(f[k - 1])
    BY <1>6, <2>1
  <2>3. IsSeq(f[k])
    BY <1>4, <2>2, LaidIsSeq
  <2> QED
    BY <2>3
<1>7. T \subseteq 0 .. m
  OBVIOUS
<1>8. m \in 0 .. m
  OBVIOUS
<1> HIDE DEF T
<1>9. T = {}
  BY <1>5, <1>6, <1>7, NoException
<1>10. PICK ls : ls = f[m] /\ IsSeq(ls)
  BY <1>8, <1>9 DEF T
<1> QED
  BY <1>b, <1>10 DEF Holding, IsFile, IsSeq
(***************************************************************************)
(* The invariant.                                                          *)
(***************************************************************************)
Phases == {"open", "run", "cycle", "end", "backup", "replace", "done", "panic"}

(* A stream that has ended owes no delimiter any more, whatever its last      *)
(* piece was.                                                                *)
AtRest(s) ==
  /\ DOMAIN s = Fields /\ IsSeq(s.out)
  /\ Executes \/ ~UnfinishedIn(s.out)
  /\ \A f \in DOMAIN s.w : Stream(s.w[f])
  /\ IsSeq(s.aq) /\ \A k \in DOMAIN s.aq : Entry(s.aq[k])

Shape ==
  /\ job \in Jobs /\ Files /\ phase \in Phases
  /\ AtRest(st) /\ (phase \in {"run", "cycle", "end"} => Exec(st))
  /\ st.pc \in Nat \ {0} /\ st.fi \in Nat
  /\ Separate => st.fi <= Len(Operands)
  /\ phase \in {"backup", "replace"} => InPlace
  /\ phase = "backup" => job.opts.suffix

Input == phase \in {"run", "cycle"} => ReadSound(st)

Queued == phase \in {"open", "end", "backup", "replace", "done"} => st.aq = <<>>

(* The temporary file is there only while an operand is edited.              *)
TmpGone == InPlace /\ phase \in {"open", "done", "panic"} => disk["tmp"] = Absent

Editing ==
  InPlace /\ phase \in {"run", "cycle", "end", "backup", "replace"} =>
      st.fi \in DOMAIN Operands /\ st.files = <<Operands[st.fi]>>

Untouched(i) == disk[Operands[i]] = job.disk[Operands[i]]
Saved(i) == disk[BackupOf(Operands[i])] = job.disk[Operands[i]]
Made(i, f) == \E m \in st.edits : m.of = i /\ (m.short \/ disk[f] = m.file)
Rewritten(i) ==
  Made(i, Operands[i]) /\ disk[Operands[i]].there /\ (job.opts.suffix => Saved(i))
Edited(i) == Untouched(i) \/ Rewritten(i)

(* The operands before the one being edited are edited, those after it are   *)
(* as they were, and its own backup is made before it is replaced.           *)
EditedSoFar ==
  InPlace /\ OperandsApart =>
      /\ \A i \in DOMAIN Operands :
            /\ i < st.fi => Edited(i)
            /\ st.fi < i => Untouched(i)
            /\ i = st.fi =>
                  /\ phase \in {"open", "done"} => Edited(i)
                  /\ phase \in {"run", "cycle", "end", "backup"} => Untouched(i)
                  /\ phase = "replace" => IF job.opts.suffix THEN Saved(i) ELSE Untouched(i)
                  /\ phase = "panic" => Untouched(i) \/ (job.opts.suffix /\ Saved(i))
      /\ phase \in {"backup", "replace"} => disk["tmp"].there /\ Made(st.fi, "tmp")

Inv == Shape /\ Input /\ Queued /\ TmpGone /\ Editing /\ EditedSoFar

(* Fields the input does not depend on.                                      *)
LEMMA ReadSoundKept ==
  ASSUME NEW s, NEW t, ReadSound(s), \A f \in Reading \ {"pc"} : t[f] = s[f]
  PROVE  ReadSound(t)
<1>1. /\ t.at = s.at /\ t.files = s.files /\ t.line = s.line /\ t.peek = s.peek /\ t.last = s.last
  BY DEF Reading
<1>2. Fetched(t) = Fetched(s) /\ (Placed(s) => Placed(t))
  BY <1>1, SameInput
<1> QED
  BY <1>1, <1>2 DEF ReadSound, Taken

(* What a step inside a stream has to keep.                                  *)
Goes ==
  /\ phase \in {"run", "cycle"} /\ phase' \in {"run", "cycle", "end"}
  /\ job' = job /\ disk' = disk
  /\ Exec(st') /\ st'.pc \in Nat \ {0} /\ st'.files = st.files /\ st'.fi = st.fi
     /\ st'.edits = st.edits
  /\ phase' \in {"run", "cycle"} => ReadSound(st')
  /\ phase' = "end" => st'.aq = <<>>

(* ... is then kept by it.                                                   *)
LEMMA GoesOn ==
  ASSUME Inv, Goes
  PROVE  Inv'
<1>1. job' = job /\ disk' = disk /\ Exec(st') /\ phase \in {"run", "cycle"}
      /\ phase' \in {"run", "cycle", "end"} /\ st'.files = st.files /\ st'.fi = st.fi
         /\ st'.edits = st.edits
  BY DEF Goes
<1>2. /\ (InPlace)' = InPlace /\ (Operands)' = Operands /\ Script' = Script
      /\ (OperandsApart)' = OperandsApart /\ Separate' = Separate
  BY <1>1 DEF InPlace, Operands, Script, OperandsApart, BackupOf, Separate
<1>3. Files' /\ Exec(st)' /\ AtRest(st)'
  <2>1. Files'
    BY <1>1 DEF Inv, Shape, Files
  <2>2. Executes' <=> Executes
    BY <1>2 DEF Executes
  <2>3. Exec(st)'
    BY <1>1, <2>2 DEF Exec, Stream, Entry
  <2>4. AtRest(st)'
    BY <2>3 DEF Exec, AtRest, Stream
  <2> QED
    BY <2>1, <2>3, <2>4
<1>4. Shape'
  BY <1>1, <1>2, <1>3 DEF Inv, Shape, Phases, Goes
<1>5. Input' /\ Queued'
  <2>1. ASSUME phase' \in {"run", "cycle"} PROVE ReadSound(st)'
    <3>1. ReadSound(st')
      BY <2>1 DEF Goes
    <3>2. NeedLookahead' <=> NeedLookahead
      BY <1>2 DEF NeedLookahead
    <3>3. Fetched(st)' = Fetched(st')
      BY <1>1 DEF Fetched, Records, FirstOf
    <3>4. Placed(st)' <=> Placed(st')
      BY <1>1 DEF Placed, Lines, Records
    <3> QED
      BY <3>1, <3>2, <3>3, <3>4 DEF ReadSound, Taken
  <2> QED
    BY <1>1, <2>1 DEF Input, Queued, Goes
<1>6. TmpGone' /\ Editing'
  BY <1>1, <1>2 DEF Inv, TmpGone, Editing
<1>7. EditedSoFar'
  <2>1. \A i : /\ Untouched(i)' <=> Untouched(i)
               /\ Saved(i)' <=> Saved(i)
               /\ Edited(i) => Edited(i)'
    BY <1>1, <1>2 DEF Untouched, Saved, Edited, Rewritten, Made, BackupOf
  <2>2. EditedSoFar
    BY DEF Inv
  <2> QED
    BY <1>1, <1>2, <2>1, <2>2 DEF EditedSoFar
<1> QED
  BY <1>4, <1>5, <1>6, <1>7 DEF Inv

(* A command that wrote t from st, or from u written from st.                *)
LEMMA RunGoes ==
  ASSUME Inv, phase = "run", NEW u, Exec(u), Kept(st, u),
         Same(u, st', Elsewhere \cup {"pc"}), st'.pc \in Nat \ {0},
         phase' \in {"run", "cycle"}, job' = job, disk' = disk
  PROVE  Goes
<1>1. \A f \in Reading \ {"pc"} : st'[f] = st[f]
  BY DEF Same, Kept, Reading, Elsewhere, Exec, Fields
<1>2. Exec(st')
  <2>1. Same(u, st', NotWritten)
    BY DEF Same, Elsewhere, NotWritten, Fields
  <2> QED
    BY <2>1, NothingWritten
<1>3. ReadSound(st')
  BY <1>1, ReadSoundKept DEF Inv, Input
<1>4. st'.files = st.files /\ st'.fi = st.fi /\ st'.edits = st.edits
  BY <1>1 DEF Reading
<1> QED
  BY <1>2, <1>3, <1>4 DEF Goes

(* Trying the addresses of a command writes nothing.                         *)
LEMMA ChosenExec ==
  ASSUME Inv, phase = "run", st.pc <= Len(Script)
  PROVE  /\ Exec(Chosen) /\ Kept(st, Chosen) /\ Chosen.aq = st.aq
         /\ Chosen.pc = st.pc /\ st.pc \in DOMAIN Script /\ Same(st, Chosen, {"ranges", "re"})
         /\ DOMAIN Chosen = Fields
<1>1. Exec(st)
  BY DEF Inv, Shape
<1>2. Same(st, Chosen, {"ranges", "re"})
  BY DEF Chosen, Same
<1>3. Same(st, Chosen, Elsewhere)
  BY <1>2 DEF Same, Elsewhere
<1>4. Exec(Chosen) /\ Kept(st, Chosen) /\ Chosen.aq = st.aq
  BY <1>1, <1>3, NotStreams
<1>5. st.pc \in DOMAIN Script
  <2>1. IsSeq(Script)
    BY JobRead DEF Inv, Shape
  <2>2. Len(Script) \in Nat /\ DOMAIN Script = 1 .. Len(Script)
    BY <2>1, IsSeqRead
  <2> QED
    BY <2>2 DEF Inv, Shape
<1> QED
  BY <1>1, <1>2, <1>4, <1>5 DEF Exec, Kept, Reading

(* The last thing most commands do is to go on to the next.                  *)
LEMMA NextPc ==
  ASSUME NEW c, NEW d, DOMAIN c = Fields, Same(c, d, Elsewhere \cup {"pc"}), d.pc \in Nat,
         NEW t, t = [d EXCEPT !.pc = @ + 1]
  PROVE  Same(c, t, Elsewhere \cup {"pc"}) /\ t.pc \in Nat \ {0}
<1>1. DOMAIN d = Fields /\ "pc" \in Fields
  BY DEF Same, Fields
<1>2. DOMAIN t = Fields /\ t.pc = d.pc + 1 /\ \A f \in Fields \ {"pc"} : t[f] = d[f]
  BY <1>1
<1>3. t.pc \in Nat \ {0}
  BY <1>2
<1> QED
  BY <1>1, <1>2, <1>3 DEF Same

(* A branch goes to a mark or to the end of the script.                      *)
LEMMA JumpStays ==
  ASSUME NEW c, DOMAIN c = Fields, c.pc \in Nat, Cur.jump \in Nat, Len(Script) \in Nat, NEW b
  PROVE  Same(c, Jump(c, b), {"tflag", "pc"}) /\ Jump(c, b).pc \in Nat
<1> DEFINE p == IF ~b THEN c.pc ELSE IF Cur.jump = 0 THEN Len(Script) ELSE Cur.jump
           d == Jump(c, b)
<1>1. p \in Nat
  OBVIOUS
<1>2. d = [c EXCEPT !.tflag = FALSE, !.pc = p]
  BY DEF Jump
<1> HIDE DEF p, d
<1>3. "pc" \in DOMAIN c
  BY DEF Fields
<1>4. DOMAIN d = DOMAIN c /\ d.pc = p /\ \A f \in DOMAIN c \ {"tflag", "pc"} : d[f] = c[f]
  BY <1>2, <1>3
<1> QED
  BY <1>1, <1>4 DEF Same, d

(* The commands that change no stream.                                       *)
Quietly == Skip \/ Mark \/ Get \/ Hold \/ Exchange \/ GetAppend \/ HoldAppend \/ Zap
           \/ Transliterate \/ Branch \/ BranchIf \/ BranchUnless

(* They go on, or elsewhere in the script.                                   *)
LEMMA QuietlyGoes ==
  ASSUME Inv, Quietly
  PROVE  Goes
<1>1. phase = "run" /\ st.pc <= Len(Script)
  BY DEF Quietly, Skip, Mark, Get, Hold, Exchange, GetAppend, HoldAppend, Zap,
         Transliterate, Branch, BranchIf, BranchUnless, Do, Tries
<1>2. phase' = "run" /\ job' = job /\ disk' = disk
  BY <1>1 DEF Quietly, Skip, Mark, Get, Hold, Exchange, GetAppend, HoldAppend, Zap,
         Transliterate, Branch, BranchIf, BranchUnless, Do
<1>3. /\ Exec(Chosen) /\ Kept(st, Chosen) /\ Chosen.pc = st.pc /\ DOMAIN Chosen = Fields
      /\ Cur.jump \in Nat /\ st.pc \in Nat \ {0} /\ Len(Script) \in Nat
  <2>1. st.pc \in DOMAIN Script /\ job \in Jobs
    BY <1>1, ChosenExec DEF Inv, Shape
  <2>2. Cur.jump \in Nat /\ IsSeq(Script)
    BY <2>1, JobRead DEF Cur
  <2> QED
    BY <1>1, <2>2, IsSeqRead, ChosenExec DEF Inv, Shape
<1> DEFINE c == Chosen
<1>4. c.pc \in Nat /\ c.pc # 0 /\ DOMAIN c = Fields
  BY <1>3
<1>5. Same(c, st', Elsewhere \cup {"pc"}) /\ st'.pc \in Nat \ {0}
  <2>1. CASE Skip
    <3> DEFINE p == IF Cur.cmd = "{" THEN Cur.jump + 1 ELSE c.pc + 1
    <3>1. st' = [c EXCEPT !.pc = p]
      BY <2>1 DEF Skip
    <3> HIDE DEF c
    <3>a. p \in Nat /\ p # 0
      <4>1. Cur.jump \in Nat /\ c.pc \in Nat
        BY <1>3, <1>4
      <4>2. \A n \in Nat : n + 1 \in Nat /\ n + 1 # 0
        OBVIOUS
      <4>3. p = Cur.jump + 1 \/ p = c.pc + 1
        OBVIOUS
      <4> HIDE DEF p
      <4> QED
        BY <4>1, <4>2, <4>3
    <3>2. p \in Nat \ {0} /\ "pc" \in DOMAIN c
      BY <1>4, <3>a DEF Fields
    <3> HIDE DEF p
    <3>3. DOMAIN st' = DOMAIN c /\ st'.pc = p /\ \A f \in DOMAIN c \ {"pc"} : st'[f] = c[f]
      BY <3>1, <3>2
    <3> QED
      BY <3>2, <3>3 DEF Same
  <2>2. CASE Mark
    <3> DEFINE d == c
    <3>1. st' = [d EXCEPT !.pc = @ + 1]
      BY <2>2 DEF Mark, Do
    <3> HIDE DEF c
    <3>2. Same(c, d, Elsewhere \cup {"pc"}) /\ d.pc \in Nat
      BY <1>4 DEF Same, Elsewhere
    <3> HIDE DEF d
    <3> QED
      BY <1>4, <3>1, <3>2, NextPc
  <2>3. CASE Get
    <3> DEFINE d == [c EXCEPT !.ps = c.hs]
    <3>1. st' = [d EXCEPT !.pc = @ + 1]
      BY <2>3 DEF Get, Do
    <3> HIDE DEF c
    <3>2. Same(c, d, Elsewhere \cup {"pc"}) /\ d.pc \in Nat
      BY <1>4 DEF Same, Elsewhere
    <3> HIDE DEF d
    <3> QED
      BY <1>4, <3>1, <3>2, NextPc
  <2>4. CASE Hold
    <3> DEFINE d == [c EXCEPT !.hs = c.ps]
    <3>1. st' = [d EXCEPT !.pc = @ + 1]
      BY <2>4 DEF Hold, Do
    <3> HIDE DEF c
    <3>2. Same(c, d, Elsewhere \cup {"pc"}) /\ d.pc \in Nat
      BY <1>4 DEF Same, Elsewhere
    <3> HIDE DEF d
    <3> QED
      BY <1>4, <3>1, <3>2, NextPc
  <2>5. CASE Exchange
    <3> DEFINE d == [c EXCEPT !.ps = c.hs, !.hs = c.ps]
    <3>1. st' = [d EXCEPT !.pc = @ + 1]
      BY <2>5 DEF Exchange, Do
    <3> HIDE DEF c
    <3>a. Same(c, d, {"ps", "hs"}) /\ d.pc = c.pc
      BY <1>4 DEF Same, Fields
    <3> HIDE DEF d
    <3>2. Same(c, d, Elsewhere \cup {"pc"}) /\ d.pc \in Nat
      BY <1>4, <3>a DEF Same, Elsewhere
    <3> HIDE DEF d
    <3> QED
      BY <1>4, <3>1, <3>2, NextPc
  <2>6. CASE GetAppend
    <3> DEFINE d == [c EXCEPT !.ps = Joined(c.ps, c.hs)]
    <3>1. st' = [d EXCEPT !.pc = @ + 1]
      BY <2>6 DEF GetAppend, Do
    <3> HIDE DEF c
    <3>2. Same(c, d, Elsewhere \cup {"pc"}) /\ d.pc \in Nat
      BY <1>4 DEF Same, Elsewhere
    <3> HIDE DEF d
    <3> QED
      BY <1>4, <3>1, <3>2, NextPc
  <2>7. CASE HoldAppend
    <3> DEFINE d == [c EXCEPT !.hs = Joined(c.hs, c.ps)]
    <3>1. st' = [d EXCEPT !.pc = @ + 1]
      BY <2>7 DEF HoldAppend, Do
    <3> HIDE DEF c
    <3>2. Same(c, d, Elsewhere \cup {"pc"}) /\ d.pc \in Nat
      BY <1>4 DEF Same, Elsewhere
    <3> HIDE DEF d
    <3> QED
      BY <1>4, <3>1, <3>2, NextPc
  <2>8. CASE Zap
    <3> DEFINE d == [c EXCEPT !.ps.text = <<>>]
    <3>1. st' = [d EXCEPT !.pc = @ + 1]
      BY <2>8 DEF Zap, Do
    <3> HIDE DEF c
    <3>2. Same(c, d, Elsewhere \cup {"pc"}) /\ d.pc \in Nat
      BY <1>4 DEF Same, Elsewhere
    <3> HIDE DEF d
    <3> QED
      BY <1>4, <3>1, <3>2, NextPc
  <2>9. CASE Transliterate
    <3> DEFINE d == [c EXCEPT !.ps.text = Translate(@, Cur.map)]
    <3>1. st' = [d EXCEPT !.pc = @ + 1]
      BY <2>9 DEF Transliterate, Do
    <3> HIDE DEF c
    <3>2. Same(c, d, Elsewhere \cup {"pc"}) /\ d.pc \in Nat
      BY <1>4 DEF Same, Elsewhere
    <3> HIDE DEF d
    <3> QED
      BY <1>4, <3>1, <3>2, NextPc
  <2>10. CASE Branch
    <3> DEFINE d == [Jump(c, TRUE) EXCEPT !.tflag = c.tflag]
    <3>1. st' = [d EXCEPT !.pc = @ + 1]
      BY <2>10 DEF Branch, Do
    <3> HIDE DEF c
    <3>2. Same(c, Jump(c, TRUE), {"tflag", "pc"}) /\ Jump(c, TRUE).pc \in Nat
      BY <1>3, <1>4, JumpStays
    <3>3. Same(c, d, Elsewhere \cup {"pc"}) /\ d.pc \in Nat
      BY <1>4, <3>2 DEF Same, Elsewhere, Fields
    <3> HIDE DEF d
    <3> QED
      BY <1>4, <3>1, <3>3, NextPc
  <2>11. CASE BranchIf
    <3> DEFINE d == Jump(c, c.tflag)
    <3>1. st' = [d EXCEPT !.pc = @ + 1]
      BY <2>11 DEF BranchIf, Do
    <3> HIDE DEF c
    <3>2. Same(c, Jump(c, c.tflag), {"tflag", "pc"}) /\ Jump(c, c.tflag).pc \in Nat
      BY <1>3, <1>4, JumpStays
    <3>3. Same(c, d, Elsewhere \cup {"pc"}) /\ d.pc \in Nat
      BY <1>4, <3>2 DEF Same, Elsewhere, Fields
    <3> HIDE DEF d
    <3> QED
      BY <1>4, <3>1, <3>3, NextPc
  <2>12. CASE BranchUnless
    <3> DEFINE d == Jump(c, ~c.tflag)
    <3>1. st' = [d EXCEPT !.pc = @ + 1]
      BY <2>12 DEF BranchUnless, Do
    <3> HIDE DEF c
    <3>2. Same(c, Jump(c, ~c.tflag), {"tflag", "pc"}) /\ Jump(c, ~c.tflag).pc \in Nat
      BY <1>3, <1>4, JumpStays
    <3>3. Same(c, d, Elsewhere \cup {"pc"}) /\ d.pc \in Nat
      BY <1>4, <3>2 DEF Same, Elsewhere, Fields
    <3> HIDE DEF d
    <3> QED
      BY <1>4, <3>1, <3>3, NextPc
  <2> HIDE DEF c
  <2> QED
    BY <2>1, <2>2, <2>3, <2>4, <2>5, <2>6, <2>7, <2>8, <2>9, <2>10, <2>11, <2>12 DEF Quietly
<1> QED
  BY <1>1, <1>2, <1>3, <1>5, RunGoes

(* A command that goes on to the next.                                       *)
LEMMA DoGoes ==
  ASSUME Inv, phase = "run", st.pc <= Len(Script), NEW u, Exec(u), Kept(Chosen, u),
         st' = [u EXCEPT !.pc = @ + 1], job' = job, disk' = disk, phase' = phase
  PROVE  Goes
<1>1. Kept(st, u) /\ st.pc \in Nat
  BY ChosenExec, KeptOnAndOn DEF Inv, Shape
<1>2. u.pc \in Nat /\ DOMAIN u = Fields
  BY <1>1 DEF Kept, Reading, Exec
<1>3. Same(u, u, Elsewhere \cup {"pc"})
  BY DEF Same
<1>4. Same(u, st', Elsewhere \cup {"pc"}) /\ st'.pc \in Nat \ {0}
  BY <1>2, <1>3, NextPc
<1> QED
  BY <1>1, <1>4, RunGoes

(* A command that ends the cycle.                                            *)
LEMMA EndsGoes ==
  ASSUME Inv, phase = "run", st.pc <= Len(Script), NEW u, Exec(u), Kept(Chosen, u), NEW b,
         st' = [u EXCEPT !.print = b], job' = job, disk' = disk, phase' = "cycle"
  PROVE  Goes
<1>1. Kept(st, u) /\ st.pc \in Nat \ {0}
  BY ChosenExec, KeptOnAndOn DEF Inv, Shape
<1>2. u.pc = st.pc /\ DOMAIN u = Fields
  BY <1>1 DEF Kept, Reading, Exec
<1>3. DOMAIN st' = DOMAIN u /\ \A f \in DOMAIN u \ {"print"} : st'[f] = u[f]
  OBVIOUS
<1>4. "pc" \in Fields \ {"print"}
  BY DEF Fields
<1>5. Same(u, st', Elsewhere \cup {"pc"}) /\ st'.pc \in Nat \ {0}
  BY <1>1, <1>2, <1>3, <1>4 DEF Same, Elsewhere
<1> QED
  BY <1>1, <1>5, RunGoes

(* The commands that write, or queue what is to be written.                  *)
Writes == PrintAll \/ PrintFirst \/ Say \/ Insert \/ AppendText \/ ReadCmd \/ Write
          \/ Execute \/ Subst

(* What each of them writes is a record, a text or an entry of the queue.    *)
LEMMA WritesGoes ==
  ASSUME Inv, Writes
  PROVE  Goes
<1> DEFINE c == Chosen
<1>1. phase = "run" /\ st.pc <= Len(Script)
  BY DEF Writes, PrintAll, PrintFirst, Say, Insert, AppendText, ReadCmd, Write, Execute, Subst,
         Do, Tries
<1>2. phase' = phase /\ job' = job /\ disk' = disk
  BY DEF Writes, PrintAll, PrintFirst, Say, Insert, AppendText, ReadCmd, Write, Execute, Subst, Do
<1>3. Exec(c) /\ st.pc \in DOMAIN Script /\ DOMAIN c = Fields
  BY <1>1, ChosenExec
<1>4. job \in Jobs /\ DOMAIN disk = DOMAIN job.disk
  BY DEF Inv, Shape, Files
<1>5. CASE PrintAll
  <2> DEFINE u == OutRecord(c, "rec", c.ps)
  <2>1. st' = [u EXCEPT !.pc = @ + 1]
    BY <1>5 DEF PrintAll, Do
  <2>2. Exec(u) /\ Kept(c, u)
    BY <1>3, OutRecordExec
  <2> HIDE DEF u
  <2> QED
    BY <1>1, <1>2, <2>1, <2>2, DoGoes
<1>6. CASE PrintFirst
  <2> DEFINE u == OutText(c, "rec", SubSeq(c.ps.text, 1, FirstLine(c.ps.text)))
  <2>1. st' = [u EXCEPT !.pc = @ + 1]
    BY <1>6 DEF PrintFirst, Do
  <2>2. Exec(u) /\ Kept(c, u)
    BY <1>3, OutTextExec
  <2> HIDE DEF u
  <2> QED
    BY <1>1, <1>2, <2>1, <2>2, DoGoes
<1>7. CASE Say
  <2> DEFINE u == OutText(c, "text", <<Cur.cmd>>)
  <2>1. st' = [u EXCEPT !.pc = @ + 1]
    BY <1>7 DEF Say, Do
  <2>2. Exec(u) /\ Kept(c, u)
    BY <1>3, OutTextExec
  <2> HIDE DEF u
  <2> QED
    BY <1>1, <1>2, <2>1, <2>2, DoGoes
<1>8. CASE Insert
  <2> DEFINE u == OutText(c, "text", Cur.text)
  <2>1. st' = [u EXCEPT !.pc = @ + 1]
    BY <1>8 DEF Insert, Do
  <2>2. Exec(u) /\ Kept(c, u)
    BY <1>3, OutTextExec
  <2> HIDE DEF u
  <2> QED
    BY <1>1, <1>2, <2>1, <2>2, DoGoes
<1>9. CASE AppendText
  <2> DEFINE u == Queue(c, [type |-> "text", text |-> Cur.text])
  <2>1. st' = [u EXCEPT !.pc = @ + 1]
    BY <1>9 DEF AppendText, Do
  <2>a. Entry([type |-> "text", text |-> Cur.text])
    BY DEF Entry
  <2>2. Exec(u) /\ Kept(c, u)
    BY <1>3, <2>a, QueueExec
  <2> HIDE DEF u
  <2> QED
    BY <1>1, <1>2, <2>1, <2>2, DoGoes
<1>10. CASE ReadCmd
  <2> DEFINE u == Queue(c, [type |-> Cur.cmd, file |-> Cur.file])
  <2>1. st' = [u EXCEPT !.pc = @ + 1]
    BY <1>10 DEF ReadCmd, Do
  <2>a. Entry([type |-> Cur.cmd, file |-> Cur.file])
    BY <1>3, <1>4, <1>10, JobRead DEF Entry, ReadCmd, Do, Cur
  <2>2. Exec(u) /\ Kept(c, u)
    BY <1>3, <2>a, QueueExec
  <2> HIDE DEF u
  <2> QED
    BY <1>1, <1>2, <2>1, <2>2, DoGoes
<1>11. CASE Write
  <2> DEFINE n == FirstLine(c.ps.text)
             all == Cur.cmd = "w" \/ n = Len(c.ps.text)
             l == [text |-> IF Cur.cmd = "w" THEN c.ps.text ELSE SubSeq(c.ps.text, 1, n),
                   nl |-> ~all \/ c.ps.nl]
             u == WriteFile(c, Cur.file, l)
  <2>1. st' = [u EXCEPT !.pc = @ + 1]
    BY <1>11 DEF Write, Do
  <2> HIDE DEF l
  <2>2. Exec(u) /\ Kept(c, u)
    BY <1>3, WriteFileExec
  <2> HIDE DEF u
  <2> QED
    BY <1>1, <1>2, <2>1, <2>2, DoGoes
<1>12. CASE Execute
  <2> DEFINE two == <<<<"text", ShellText>>, Delim>>
             a == [c EXCEPT !.out = @ \o two]
             b == [c EXCEPT !.ps.text = ShellText]
             u == IF Cur.text # <<>> THEN a ELSE b
  <2>1. st' = [u EXCEPT !.pc = @ + 1]
    BY <1>12 DEF Execute, Do
  <2>2. Executes
    BY <1>3, <1>12 DEF Execute, Do, Executes, Cur
  <2>3. Exec(a) /\ Kept(c, a)
    <3>1. IsSeq(two)
      <4>1. two \in Seq({<<"text", ShellText>>, Delim})
        OBVIOUS
      <4> HIDE DEF two
      <4> QED
        BY <4>1, IsSeqOf
    <3> HIDE DEF two, c
    <3>2. IsSeq(c.out) /\ c.pend \in BOOLEAN
      BY <1>3 DEF Exec, Stream
    <3>3. IsSeq(c.out \o two)
      BY <3>1, <3>2, IsSeqConcat
    <3>4. DOMAIN a = DOMAIN c /\ a.out = c.out \o two /\ \A f \in Fields \ {"out"} : a[f] = c[f]
      BY <1>3 DEF Fields
    <3> HIDE DEF a
    <3>5. Stream(a)
      BY <1>3, <2>2, <3>2, <3>3, <3>4 DEF Stream, Fields
    <3> QED
      BY <1>3, <3>4, <3>5 DEF Exec, Kept, Reading, Fields
  <2>4. Exec(b) /\ Kept(c, b)
    <3> HIDE DEF c
    <3>1. Same(c, b, Elsewhere)
      BY <1>3 DEF Same, Elsewhere
    <3> QED
      BY <1>3, <3>1, NotStreams
  <2>5. Exec(u) /\ Kept(c, u)
    <3> HIDE DEF a, b
    <3> QED
      BY <2>3, <2>4
  <2> HIDE DEF u
  <2> QED
    BY <1>1, <1>2, <2>1, <2>5, DoGoes
<1>13. CASE Subst
  <2> DEFINE u == SubstEffect(c)
  <2>1. st' = [u EXCEPT !.pc = @ + 1]
    BY <1>13 DEF Subst, Do
  <2>2. Exec(u) /\ Kept(c, u)
    BY <1>3, SubstExec
  <2> HIDE DEF u
  <2> QED
    BY <1>1, <1>2, <2>1, <2>2, DoGoes
<1> QED
  BY <1>5, <1>6, <1>7, <1>8, <1>9, <1>10, <1>11, <1>12, <1>13 DEF Writes

(* The commands that end the cycle.                                          *)
Closing == Delete \/ Change \/ Quit \/ QuitSilently

(* d, c, q and Q.                                                            *)
LEMMA ClosingGoes ==
  ASSUME Inv, Closing
  PROVE  Goes
<1> DEFINE c == Chosen
<1>1. phase = "run" /\ st.pc <= Len(Script) /\ phase' = "cycle" /\ job' = job /\ disk' = disk
  BY DEF Closing, Delete, Change, Quit, QuitSilently, Ends, Tries
<1>2. Exec(c) /\ DOMAIN c = Fields
  BY <1>1, ChosenExec
<1>3. CASE Delete
  <2>1. st' = [c EXCEPT !.print = FALSE]
    BY <1>3 DEF Delete, Ends
  <2>2. Kept(c, c)
    BY DEF Kept
  <2> HIDE DEF c
  <2> QED
    BY <1>1, <1>2, <2>1, <2>2, EndsGoes DEF c
<1>4. CASE Change
  <2> DEFINE u == IF Sel.last THEN OutText(c, "text", Cur.text) ELSE c
  <2>1. st' = [u EXCEPT !.print = FALSE]
    BY <1>4 DEF Change, Ends
  <2>2. Exec(u) /\ Kept(c, u)
    BY <1>2, OutTextExec DEF Kept
  <2> HIDE DEF u
  <2> QED
    BY <1>1, <2>1, <2>2, EndsGoes
<1>5. CASE Quit \/ QuitSilently
  <2> DEFINE u == [c EXCEPT !.quit = Cur.code]
  <2>1. PICK b \in BOOLEAN : st' = [u EXCEPT !.print = b]
    BY <1>5 DEF Quit, QuitSilently, Ends
  <2>2. Exec(u) /\ Kept(c, u)
    <3> HIDE DEF c
    <3>1. Same(c, u, Elsewhere)
      BY <1>2 DEF Same, Elsewhere
    <3> QED
      BY <1>2, <3>1, NotStreams
  <2> HIDE DEF u
  <2> QED
    BY <1>1, <2>1, <2>2, EndsGoes
<1> QED
  BY <1>3, <1>4, <1>5 DEF Closing

(* D, which ends the cycle or restarts the script.                           *)
LEMMA DeleteFirstGoes ==
  ASSUME Inv, DeleteFirst
  PROVE  Goes
<1> DEFINE c == Chosen
           x == SubSeq(st.ps.text, FirstLine(st.ps.text) + 2, Len(st.ps.text))
           d == [c EXCEPT !.pc = 0, !.ps.text = x]
<1>1. phase = "run" /\ st.pc <= Len(Script) /\ job' = job /\ disk' = disk
  BY DEF DeleteFirst, Ends, Do, Tries
<1>2. Exec(c) /\ DOMAIN c = Fields /\ Kept(st, c) /\ Kept(c, c)
  BY <1>1, ChosenExec DEF Kept
<1>3. CASE phase' = "cycle" /\ st' = [c EXCEPT !.print = FALSE]
  <2> HIDE DEF c
  <2> QED
    BY <1>1, <1>2, <1>3, EndsGoes DEF c
<1>4. CASE phase' = "run" /\ st' = [d EXCEPT !.pc = @ + 1]
  <2> HIDE DEF c, x
  <2>1. Same(c, d, {"pc", "ps"}) /\ d.pc = 0
    BY <1>2 DEF Same, Fields
  <2> HIDE DEF d
  <2>2. Same(c, d, Elsewhere \cup {"pc"}) /\ d.pc \in Nat
    BY <2>1 DEF Same, Elsewhere
  <2>3. Same(c, st', Elsewhere \cup {"pc"}) /\ st'.pc \in Nat \ {0}
    BY <1>2, <1>4, <2>2, NextPc
  <2> QED
    BY <1>1, <1>2, <1>4, <2>3, RunGoes
<1> QED
  BY <1>1, <1>3, <1>4 DEF DeleteFirst, Ends, Do

(* The next record, after what was queued has come out.                      *)
LEMMA ReadsOn ==
  ASSUME Inv, phase \in {"run", "cycle"}, NEW s, Exec(s), Kept(st, s), NEW u,
         u = NextRecord(FlushAppends(s))
  PROVE  /\ Exec(u) /\ ReadSound(u) /\ u.aq = <<>> /\ u.files = st.files /\ u.fi = st.fi
            /\ u.edits = st.edits
         /\ u.pc = st.pc
<1> DEFINE t == FlushAppends(s)
<1>1. Exec(t) /\ Kept(s, t) /\ t.aq = <<>>
  BY FlushAppendsExec DEF Inv, Shape
<1> HIDE DEF t
<1>2. Kept(st, t)
  BY <1>1, KeptOnAndOn
<1>3. ReadSound(t)
  BY <1>2, ReadSoundKept DEF Inv, Input, Kept
<1>4. t.files = st.files /\ t.fi = st.fi /\ t.edits = st.edits /\ t.pc = st.pc
  BY <1>2 DEF Kept, Reading
<1>5. Exec(u) /\ u.aq = t.aq /\ u.files = t.files /\ u.fi = t.fi
      /\ u.edits = t.edits /\ u.pc = t.pc /\ ReadSound(u)
  BY <1>1, <1>3, NextRecordReads DEF Inv, Shape, t
<1> QED
  BY <1>1, <1>4, <1>5

(* n: nothing stays queued, whether there is a next record or not.           *)
LEMMA NextCmdGoes ==
  ASSUME Inv, NextCmd
  PROVE  Goes
<1> DEFINE c == Chosen
           s == IF Quiet THEN c ELSE OutRecord(c, "rec", c.ps)
           u == NextRecord(FlushAppends(s))
<1>1. phase = "run" /\ st.pc <= Len(Script) /\ job' = job /\ disk' = disk
  BY DEF NextCmd, Tries
<1>2. st' = [u EXCEPT !.pc = @ + 1] /\ phase' = IF u.more THEN "run" ELSE "end"
  BY DEF NextCmd
<1>3. Exec(s) /\ Kept(st, s)
  <2>1. Exec(c) /\ Kept(st, c) /\ Kept(c, c)
    BY <1>1, ChosenExec DEF Kept
  <2> HIDE DEF c
  <2>2. Exec(s) /\ Kept(c, s)
    BY <2>1, OutRecordExec
  <2> HIDE DEF s
  <2> QED
    BY <2>1, <2>2, KeptOnAndOn
<1> HIDE DEF c, s
<1>4. /\ Exec(u) /\ ReadSound(u) /\ u.aq = <<>> /\ u.files = st.files /\ u.fi = st.fi
         /\ u.edits = st.edits
      /\ u.pc = st.pc
  BY <1>1, <1>3, ReadsOn
<1> HIDE DEF u
<1>5. u.pc \in Nat /\ DOMAIN u = Fields /\ Same(u, u, Elsewhere \cup {"pc"})
  BY <1>4 DEF Inv, Shape, Exec, Same
<1>6. DOMAIN st' = Fields /\ st'.pc = u.pc + 1 /\ \A f \in Fields \ {"pc"} : st'[f] = u[f]
  BY <1>2, <1>5 DEF Fields
<1>7. Same(u, st', NotWritten) /\ st'.files = st.files /\ st'.fi = st.fi /\ st'.edits = st.edits
  BY <1>4, <1>5, <1>6 DEF Same, NotWritten, Fields
<1>8. Exec(st') /\ st'.aq = <<>>
  BY <1>4, <1>7, NothingWritten
<1>9. ReadSound(st')
  <2>1. \A f \in Reading \ {"pc"} : st'[f] = u[f]
    BY <1>6 DEF Reading, Fields
  <2> QED
    BY <1>4, <2>1, ReadSoundKept
<1>10. st'.pc \in Nat \ {0}
  BY <1>5, <1>6
<1> QED
  BY <1>1, <1>2, <1>7, <1>8, <1>9, <1>10 DEF Goes

(* N: likewise; without a next record the cycle ends.                        *)
LEMMA NextAppendGoes ==
  ASSUME Inv, NextAppend
  PROVE  Goes
<1> DEFINE c == Chosen
           u == NextRecord(FlushAppends(c))
           j == Joined(st.ps, u.ps)
<1>1. phase = "run" /\ st.pc <= Len(Script) /\ job' = job /\ disk' = disk
  BY DEF NextAppend, Tries
<1>2. /\ IF u.more THEN st' = [u EXCEPT !.ps = j, !.pc = @ + 1]
                   ELSE st' = [u EXCEPT !.print = ~Posix]
      /\ phase' = IF u.more THEN "run" ELSE "cycle"
  BY DEF NextAppend
<1>3. Exec(c) /\ Kept(st, c)
  BY <1>1, ChosenExec
<1> HIDE DEF c
<1>4. /\ Exec(u) /\ ReadSound(u) /\ u.aq = <<>> /\ u.files = st.files /\ u.fi = st.fi
         /\ u.edits = st.edits
      /\ u.pc = st.pc
  BY <1>1, <1>3, ReadsOn
<1> HIDE DEF u, j
<1>5. u.pc \in Nat /\ u.pc # 0 /\ DOMAIN u = Fields
  BY <1>4 DEF Inv, Shape, Exec
<1>6. /\ DOMAIN st' = Fields /\ \A f \in Fields \ {"pc", "ps", "print"} : st'[f] = u[f]
      /\ st'.pc \in {u.pc, u.pc + 1}
  <2>1. CASE u.more
    BY <1>2, <1>5, <2>1 DEF Fields
  <2>2. CASE ~u.more
    BY <1>2, <1>5, <2>2 DEF Fields
  <2> QED
    BY <2>1, <2>2
<1>7. Same(u, st', NotWritten) /\ st'.files = st.files /\ st'.fi = st.fi /\ st'.edits = st.edits
  BY <1>4, <1>5, <1>6 DEF Same, NotWritten, Fields
<1>8. Exec(st')
  BY <1>4, <1>7, NothingWritten
<1>9. ReadSound(st')
  <2>1. \A f \in Reading \ {"pc"} : st'[f] = u[f]
    BY <1>6 DEF Reading, Fields
  <2> QED
    BY <1>4, <2>1, ReadSoundKept
<1>10. st'.pc \in Nat \ {0}
  BY <1>5, <1>6
<1> QED
  BY <1>1, <1>2, <1>7, <1>8, <1>9, <1>10 DEF Goes

(* The end of the script.                                                    *)
LEMMA FallthroughGoes ==
  ASSUME Inv, Fallthrough
  PROVE  Goes
<1>1. /\ phase = "run" /\ phase' = "cycle" /\ st' = [st EXCEPT !.print = TRUE]
      /\ job' = job /\ disk' = disk
  BY DEF Fallthrough
<1>2. Exec(st) /\ Kept(st, st) /\ st.pc \in Nat \ {0} /\ DOMAIN st = Fields
  BY <1>1 DEF Inv, Shape, Kept, Exec
<1>3. DOMAIN st' = Fields /\ \A f \in Fields \ {"print"} : st'[f] = st[f]
  BY <1>1, <1>2
<1>4. Same(st, st', Elsewhere \cup {"pc"}) /\ st'.pc \in Nat \ {0}
  BY <1>2, <1>3 DEF Same, Elsewhere, Fields
<1> QED
  BY <1>1, <1>2, <1>4, RunGoes

(* The end of a cycle: nothing stays queued.                                 *)
LEMMA EndCycleGoes ==
  ASSUME Inv, EndCycle
  PROVE  Goes
<1> DEFINE s == IF st.print /\ ~Quiet THEN OutRecord(st, "rec", st.ps) ELSE st
           shown == FlushAppends(s)
           stop == st.quit >= 0 \/ ~st.more
           u == NextRecord(shown)
           t == IF stop THEN shown ELSE u
<1>1. /\ phase = "cycle" /\ job' = job /\ disk' = disk /\ st' = [t EXCEPT !.pc = 1]
      /\ phase' = IF stop \/ ~t.more THEN "end" ELSE "run"
  BY DEF EndCycle
<1>2. Exec(st) /\ Kept(st, st) /\ Files
  BY <1>1 DEF Inv, Shape, Kept
<1>3. Exec(s) /\ Kept(st, s)
  BY <1>2, OutRecordExec
<1> HIDE DEF s
<1>4. Exec(shown) /\ Kept(s, shown) /\ shown.aq = <<>>
  BY <1>2, <1>3, FlushAppendsExec
<1>5. Kept(st, shown)
  BY <1>3, <1>4, KeptOnAndOn
<1>6. Exec(u) /\ ReadSound(u) /\ u.aq = <<>> /\ u.files = st.files /\ u.fi = st.fi
      /\ u.edits = st.edits
  BY <1>1, <1>3, ReadsOn
<1> HIDE DEF shown, u
<1>7. /\ Exec(t) /\ t.aq = <<>> /\ t.files = st.files /\ t.fi = st.fi /\ t.edits = st.edits
      /\ ~stop => ReadSound(t)
  BY <1>4, <1>5, <1>6 DEF Kept, Reading
<1> HIDE DEF t, stop
<1>8. DOMAIN t = Fields
  BY <1>7 DEF Exec
<1>9. DOMAIN st' = Fields /\ st'.pc = 1 /\ \A f \in Fields \ {"pc"} : st'[f] = t[f]
  BY <1>1, <1>8 DEF Fields
<1>10. Same(t, st', NotWritten) /\ st'.files = st.files /\ st'.fi = st.fi /\ st'.edits = st.edits
  BY <1>7, <1>8, <1>9 DEF Same, NotWritten, Fields
<1>11. Exec(st') /\ st'.aq = <<>>
  BY <1>7, <1>10, NothingWritten
<1>12. phase' = "run" => ReadSound(st')
  <2>1. \A f \in Reading \ {"pc"} : st'[f] = t[f]
    BY <1>9 DEF Reading, Fields
  <2> QED
    BY <1>1, <1>7, <2>1, ReadSoundKept
<1> QED
  BY <1>1, <1>9, <1>10, <1>11, <1>12 DEF Goes
(***************************************************************************)
(* The steps between the streams, which touch the disk.                    *)
(***************************************************************************)
(* The names a job uses are on the disk.                                     *)
LEMMA TheDisk ==
  ASSUME Inv
  PROVE  /\ \A i \in DOMAIN Operands : Operands[i] \in DOMAIN disk
         /\ InPlace => "tmp" \in DOMAIN disk
         /\ InPlace => \A i \in DOMAIN Operands : BackupOf(Operands[i]) \in DOMAIN disk
         /\ Operands \in Seq(DOMAIN disk) /\ Len(Operands) \in Nat
         /\ DOMAIN Operands = 1 .. Len(Operands)
<1>1. job \in Jobs /\ DOMAIN disk = DOMAIN job.disk
  BY DEF Inv, Shape, Files
<1>2. Operands \in Seq(DOMAIN disk)
  BY <1>1, JobRead DEF Operands
<1>3. /\ InPlace => "tmp" \in DOMAIN disk
      /\ InPlace => \A i \in DOMAIN Operands : BackupOf(Operands[i]) \in DOMAIN disk
  BY <1>1, JobRead DEF Operands, BackupOf
<1>4. Len(Operands) \in Nat /\ DOMAIN Operands = 1 .. Len(Operands)
  BY <1>2, LenProperties
<1>5. \A i \in DOMAIN Operands : Operands[i] \in DOMAIN disk
  BY <1>2, <1>4, ElementOfSeq
<1> QED
  BY <1>2, <1>3, <1>4, <1>5

(* The whole of exec_t, in the state it is left in.                          *)
LEMMA LeftAs ==
  ASSUME job' = job, DOMAIN disk' = DOMAIN disk
  PROVE  /\ Exec(st') => Exec(st)'
         /\ AtRest(st') => AtRest(st)'
<1>1. Script' = Script
  BY DEF Script
<1>2. Executes' <=> Executes
  BY <1>1 DEF Executes
<1> QED
  BY <1>2 DEF Exec, AtRest, Stream, Entry

(* A step that writes to no stream leaves them at rest.                      *)
LEMMA RestAfter ==
  ASSUME NEW s, AtRest(s), NEW t, Same(s, t, NotWritten \cup {"pend"})
  PROVE  AtRest(t) /\ t.aq = s.aq
<1>1. DOMAIN t = Fields /\ t.out = s.out /\ t.w = s.w /\ t.aq = s.aq
  BY DEF AtRest, Same, NotWritten, Fields
<1> QED
  BY <1>1 DEF AtRest

(* Streams that are as they should be are so at rest.                        *)
LEMMA ExecIsAtRest ==
  ASSUME NEW s, Exec(s)
  PROVE  AtRest(s)
BY DEF Exec, AtRest, Stream

(* One file is written.                                                      *)
LEMMA OneFile ==
  ASSUME Inv, NEW f, f \in DOMAIN disk, NEW v, IsFile(v), disk' = [disk EXCEPT ![f] = v], job' = job
  PROVE  /\ Files' /\ DOMAIN disk' = DOMAIN disk /\ disk'[f] = v
         /\ \A g \in DOMAIN disk : g # f => disk'[g] = disk[g]
<1>1. DOMAIN disk' = DOMAIN disk /\ \A g \in DOMAIN disk : disk'[g] = IF g = f THEN v ELSE disk[g]
  OBVIOUS
<1>2. Files
  BY DEF Inv, Shape
<1>3. \A g \in DOMAIN disk : IsFile(disk'[g])
  BY <1>1, <1>2 DEF Files
<1> QED
  BY <1>1, <1>2, <1>3 DEF Files

(* What of the edited files depends on the temporary file: nothing.          *)
LEMMA TmpOnly ==
  ASSUME Inv, InPlace, OperandsApart, job' = job,
         \A g \in DOMAIN disk : g # "tmp" => disk'[g] = disk[g],
         \A m \in st.edits : m \in st'.edits,
         NEW i, i \in DOMAIN Operands
  PROVE  /\ Untouched(i)' <=> Untouched(i)
         /\ Edited(i) => Edited(i)'
         /\ job.opts.suffix => (Saved(i)' <=> Saved(i))
<1>1. Operands' = Operands /\ Operands[i] \in DOMAIN disk /\ BackupOf(Operands[i]) \in DOMAIN disk
  BY TheDisk DEF Operands
<1>2. Operands[i] # "tmp" /\ (job.opts.suffix => BackupOf(Operands[i]) # "tmp")
  BY DEF OperandsApart
<1>3. disk'[Operands[i]] = disk[Operands[i]]
      /\ (job.opts.suffix => disk'[BackupOf(Operands[i])] = disk[BackupOf(Operands[i])])
  BY <1>1, <1>2
<1> QED
  BY <1>1, <1>3 DEF Untouched, Edited, Rewritten, Made, Saved, BackupOf

(* The options and operands are those of the job.                            *)
LEMMA SameJob ==
  ASSUME job' = job
  PROVE  /\ InPlace' = InPlace /\ Operands' = Operands /\ Separate' = Separate
         /\ OperandsApart' = OperandsApart
BY DEF InPlace, Operands, OperandsApart, BackupOf, Separate

(* sed gives up: the temporary file goes.                                    *)
LEMMA GivesUp ==
  ASSUME Inv, phase \in {"run", "backup", "replace"}, phase' = "panic", job' = job,
         NEW x, st' = [st EXCEPT !.exit = x],
         IF InPlace THEN disk' = [disk EXCEPT !["tmp"] = Absent] ELSE disk' = disk
  PROVE  Inv'
<1>1. AtRest(st) /\ DOMAIN st = Fields /\ Files
  BY DEF Inv, Shape, AtRest
<1>2. DOMAIN st' = Fields /\ \A f \in Fields \ {"exit"} : st'[f] = st[f]
  BY <1>1
<1>3. Same(st, st', NotWritten \cup {"pend"}) /\ st'.pc = st.pc /\ st'.fi = st.fi
      /\ st'.edits = st.edits
  BY <1>1, <1>2 DEF Same, NotWritten, Fields
<1>4. AtRest(st') /\ InPlace' = InPlace /\ Operands' = Operands /\ Separate' = Separate
      /\ OperandsApart' = OperandsApart
  BY <1>1, <1>3, RestAfter, SameJob
<1>5. /\ Files' /\ DOMAIN disk' = DOMAIN disk
      /\ InPlace => disk'["tmp"] = Absent
      /\ \A g \in DOMAIN disk : g # "tmp" => disk'[g] = disk[g]
  <2>1. CASE InPlace
    <3>1. "tmp" \in DOMAIN disk /\ IsFile(Absent)
      BY <2>1, TheDisk DEF IsFile
    <3> QED
      BY <2>1, <3>1, OneFile
  <2>2. CASE ~InPlace
    BY <1>1, <2>2 DEF Files
  <2> QED
    BY <2>1, <2>2
<1>6. AtRest(st)'
  BY <1>4, <1>5, LeftAs
<1>7. Shape'
  BY <1>3, <1>4, <1>5, <1>6 DEF Inv, Shape, Phases
<1>8. Input' /\ Queued' /\ TmpGone' /\ Editing'
  BY <1>4, <1>5 DEF Input, Queued, TmpGone, Editing
<1>9. EditedSoFar'
  <2>1. ASSUME InPlace, OperandsApart, NEW i \in DOMAIN Operands
        PROVE  /\ i < st.fi => Edited(i)'
               /\ st.fi < i => Untouched(i)'
               /\ i = st.fi => Untouched(i)' \/ (job.opts.suffix /\ Saved(i)')
    <3>1. /\ Untouched(i)' <=> Untouched(i)
          /\ Edited(i) => Edited(i)'
          /\ job.opts.suffix => (Saved(i)' <=> Saved(i))
      BY <1>5, <2>1, TmpOnly
    <3> QED
      BY <2>1, <3>1 DEF Inv, EditedSoFar
  <2> QED
    BY <1>3, <1>4, <2>1 DEF EditedSoFar
<1> QED
  BY <1>7, <1>8, <1>9 DEF Inv

(* A script error at run time, or a rename that fails.                       *)
LEMMA PanicKeeps ==
  ASSUME Inv, Panic \/ RenameFails
  PROVE  Inv'
<1>1. CASE Panic
  BY <1>1, GivesUp DEF Panic, Tries
<1>2. CASE RenameFails
  <2>1. InPlace
    BY <1>2 DEF RenameFails, Inv, Shape
  <2> QED
    BY <1>2, <2>1, GivesUp DEF RenameFails
<1> QED
  BY <1>1, <1>2

(* sed returns.                                                              *)
LEMMA FinishKeeps ==
  ASSUME Inv, Finish
  PROVE  Inv'
<1>1. /\ phase = "open" /\ phase' = "done" /\ job' = job /\ disk' = disk
      /\ \E x : st' = [st EXCEPT !.exit = x]
  BY DEF Finish
<1>2. AtRest(st) /\ DOMAIN st = Fields /\ Files
  BY DEF Inv, Shape, AtRest
<1>3. DOMAIN st' = Fields /\ \A f \in Fields \ {"exit"} : st'[f] = st[f]
  BY <1>1, <1>2
<1>4. Same(st, st', NotWritten \cup {"pend"}) /\ st'.pc = st.pc /\ st'.fi = st.fi
      /\ st'.edits = st.edits /\ st'.aq = st.aq
  BY <1>2, <1>3 DEF Same, NotWritten, Fields
<1>5. AtRest(st') /\ InPlace' = InPlace /\ Operands' = Operands /\ Separate' = Separate
      /\ OperandsApart' = OperandsApart
  BY <1>1, <1>2, <1>4, RestAfter, SameJob
<1>6. AtRest(st)' /\ Files'
  BY <1>1, <1>2, <1>5, LeftAs DEF Files
<1>7. Shape' /\ Input' /\ Queued' /\ TmpGone' /\ Editing'
  BY <1>1, <1>4, <1>5, <1>6 DEF Inv, Shape, Phases, Input, Queued, TmpGone, Editing
<1>8. EditedSoFar'
  <2>1. \A i : /\ Untouched(i)' <=> Untouched(i)
               /\ Saved(i)' <=> Saved(i)
               /\ Edited(i) => Edited(i)'
    BY <1>1, <1>5 DEF Untouched, Saved, Edited, Rewritten, Made, BackupOf
  <2> QED
    BY <1>1, <1>4, <1>5, <2>1 DEF Inv, EditedSoFar
<1> QED
  BY <1>7, <1>8 DEF Inv

(* The stream ends and goes to the temporary file, or half of it does.       *)
LEMMA EndStreamKeeps ==
  ASSUME Inv, EndStream
  PROVE  Inv'
<1>1. /\ phase = "end" /\ job' = job
      /\ \E r : st' = [st EXCEPT !.pend = FALSE, !.edits = r]
  <2>1. CASE InPlace
    BY <2>1 DEF EndStream
  <2>2. CASE ~InPlace
    <3>1. st' = [st EXCEPT !.pend = FALSE, !.edits = st.edits]
      BY <2>2 DEF EndStream, Inv, Shape, AtRest, Fields
    <3> QED
      BY <2>2, <3>1 DEF EndStream
  <2> QED
    BY <2>1, <2>2
<1>2. Exec(st) /\ AtRest(st) /\ DOMAIN st = Fields /\ Files /\ st.aq = <<>>
  BY <1>1 DEF Inv, Shape, AtRest, Queued
<1>3. DOMAIN st' = Fields /\ \A f \in Fields \ {"pend", "edits"} : st'[f] = st[f]
  BY <1>1, <1>2
<1>4. Same(st, st', NotWritten \cup {"pend"}) /\ st'.pc = st.pc /\ st'.fi = st.fi
      /\ st'.aq = st.aq /\ st'.files = st.files
  BY <1>2, <1>3 DEF Same, NotWritten, Fields
<1>5. AtRest(st') /\ InPlace' = InPlace /\ Operands' = Operands /\ Separate' = Separate
      /\ OperandsApart' = OperandsApart
  BY <1>1, <1>2, <1>4, RestAfter, SameJob
<1>6. CASE ~InPlace
  <2>1. phase' = "open" /\ disk' = disk
    BY <1>6 DEF EndStream
  <2>2. AtRest(st)' /\ Files'
    BY <1>1, <1>2, <1>5, <2>1, LeftAs DEF Files
  <2> QED
    BY <1>1, <1>2, <1>4, <1>5, <1>6, <2>1, <2>2
       DEF Inv, Shape, Phases, Input, Queued, TmpGone, Editing, EditedSoFar
<1>7. CASE InPlace
  <2>1. phase' = IF job.opts.suffix THEN "backup" ELSE "replace"
    BY <1>7 DEF EndStream
  <2>2. PICK n \in {Len(st.out), Len(st.out) \div 2} :
            /\ disk' = [disk EXCEPT !["tmp"] = OnDisk(SubSeq(st.out, 1, n))]
            /\ st' = [st EXCEPT !.pend = FALSE, !.edits = st.edits \cup {Result(n)}]
    BY <1>7 DEF EndStream
  <2>3. IsFile(OnDisk(SubSeq(st.out, 1, n))) /\ OnDisk(SubSeq(st.out, 1, n)).there
    <3>1. IsSeq(st.out)
      BY <1>2 DEF AtRest
    <3>2. PICK m \in Nat : m = Len(st.out)
      BY <3>1, IsSeqRead
    <3>3. n \in Nat /\ n <= m
      <4>1. n = m \/ n = m \div 2
        BY <3>2
      <4>2. m \div 2 \in Nat /\ m \div 2 <= m
        OBVIOUS
      <4> QED
        BY <4>1, <4>2
    <3>4. st.out \in Seq(Range(st.out))
      BY <3>1 DEF IsSeq
    <3>5. SubSeq(st.out, 1, n) \in Seq(Range(st.out))
      <4>1. \A i \in 1 .. n : st.out[i] \in Range(st.out)
        <5>1. \A i \in 1 .. n : i \in 1 .. m
          BY <3>2, <3>3
        <5>2. DOMAIN st.out = 1 .. m
          BY <3>1, <3>2, IsSeqRead
        <5> QED
          BY <5>1, <5>2 DEF Range
      <4> QED
        BY <3>2, <3>3, <3>4, <4>1, SubSeqProperties
    <3>6. IsSeq(SubSeq(st.out, 1, n))
      BY <3>5, IsSeqOf
    <3> QED
      BY <3>6, OnDiskIsFile
  <2> DEFINE v == OnDisk(SubSeq(st.out, 1, n))
  <2> HIDE DEF v
  <2>4. disk' = [disk EXCEPT !["tmp"] = v] /\ IsFile(v) /\ v.there
    BY <2>2, <2>3 DEF v
  <2>5. /\ Files' /\ DOMAIN disk' = DOMAIN disk /\ disk'["tmp"] = v
        /\ \A g \in DOMAIN disk : g # "tmp" => disk'[g] = disk[g]
    BY <1>1, <1>7, <2>4, TheDisk, OneFile
  <2>6. AtRest(st)'
    BY <1>1, <1>5, <2>5, LeftAs
  <2>9. st'.edits = st.edits \cup {Result(n)}
    BY <1>2, <2>2 DEF Fields
  <2>10. Made(st.fi, "tmp")'
    <3>1. st.fi = st'.fi /\ Result(n) \in st'.edits /\ Result(n).of = st.fi
          /\ Result(n).short = (n < Len(st.out)) /\ Result(n).file = OnDisk(st.out)
      BY <1>4, <2>9 DEF Result
    <3>2. CASE n = Len(st.out)
      <4>1. SubSeq(st.out, 1, n) = st.out
        BY <1>2, <3>2, IsSeqRead DEF AtRest, IsSeq
      <4> QED
        BY <2>2, <2>5, <3>1, <4>1 DEF Made, v
    <3>3. CASE n # Len(st.out)
      <4>1. Len(st.out) \in Nat
        BY <1>2, IsSeqRead DEF AtRest
      <4>2. PICK m \in Nat : m = Len(st.out)
        BY <4>1
      <4>3. n = m \div 2 /\ n # m
        BY <2>2, <3>3, <4>2
      <4>4. m \div 2 \in Nat /\ m \div 2 <= m
        OBVIOUS
      <4>5. n < m
        BY <4>3, <4>4
      <4>6. Result(n).short
        BY <3>1, <4>2, <4>5
      <4> QED
        BY <3>1, <4>6 DEF Made
    <3> QED
      BY <3>2, <3>3
  <2>7. Shape' /\ Input' /\ Queued' /\ TmpGone' /\ Editing'
    BY <1>1, <1>2, <1>4, <1>5, <1>7, <2>1, <2>5, <2>6
       DEF Inv, Shape, Phases, Input, Queued, TmpGone, Editing
  <2>8. EditedSoFar'
    <3>1. ASSUME OperandsApart, NEW i \in DOMAIN Operands
          PROVE  /\ i < st.fi => Edited(i)'
                 /\ st.fi < i => Untouched(i)'
                 /\ i = st.fi => Untouched(i)'
      <4>1. (Untouched(i)' <=> Untouched(i)) /\ (Edited(i) => Edited(i)')
        BY <1>1, <1>7, <2>5, <2>9, <3>1, TmpOnly
      <4> QED
        BY <1>1, <1>7, <3>1, <4>1 DEF Inv, EditedSoFar
    <3> QED
      BY <1>1, <1>4, <1>5, <2>1, <2>4, <2>5, <2>10, <3>1 DEF EditedSoFar
  <2> QED
    BY <2>7, <2>8 DEF Inv
<1> QED
  BY <1>6, <1>7

(* A rename from one name to another.                                        *)
LEMMA OneMove ==
  ASSUME Inv, job' = job, NEW from \in DOMAIN disk, NEW to \in DOMAIN disk,
         disk' = Moved(from, to)
  PROVE  /\ Files' /\ DOMAIN disk' = DOMAIN disk /\ disk'[from] = Absent
         /\ from # to => disk'[to] = disk[from]
         /\ \A g \in DOMAIN disk : g \notin {from, to} => disk'[g] = disk[g]
<1> DEFINE d == [disk EXCEPT ![to] = disk[from]]
<1>1. disk' = [d EXCEPT ![from] = Absent]
  BY DEF Moved
<1>2. DOMAIN d = DOMAIN disk /\ \A g \in DOMAIN disk : d[g] = IF g = to THEN disk[from] ELSE disk[g]
  OBVIOUS
<1> HIDE DEF d
<1>3. /\ DOMAIN disk' = DOMAIN disk
      /\ \A g \in DOMAIN disk : disk'[g] = IF g = from THEN Absent ELSE d[g]
  BY <1>1, <1>2
<1>4. IsFile(Absent) /\ Files
  BY DEF IsFile, Inv, Shape
<1>5. Files'
  BY <1>2, <1>3, <1>4 DEF Files
<1> QED
  BY <1>2, <1>3, <1>5

(* What a rename leaves as it was.                                           *)
LEMMA RenamedKeeps ==
  ASSUME Inv, phase \in {"backup", "replace"}, st' = st, job' = job,
         phase' \in {"replace", "open"}, Files', DOMAIN disk' = DOMAIN disk,
         phase' = "open" => disk'["tmp"] = Absent, (EditedSoFar)'
  PROVE  Inv'
<1>1. /\ InPlace' = InPlace /\ Operands' = Operands /\ Separate' = Separate
  BY SameJob
<1>2. AtRest(st)'
  BY LeftAs DEF Inv, Shape
<1>3. Shape'
  BY <1>1, <1>2 DEF Inv, Shape, Phases
<1>4. Input' /\ Queued' /\ TmpGone' /\ Editing'
  BY <1>1 DEF Inv, Input, Queued, TmpGone, Editing
<1> QED
  BY <1>3, <1>4 DEF Inv

(* The operand takes its backup's name: from now on the backup is what it    *)
(* was.                                                                      *)
LEMMA BackupKeeps ==
  ASSUME Inv, Backup
  PROVE  Inv'
<1>0. PICK me \in Nat : me = st.fi
  BY DEF Inv, Shape
<1> DEFINE f == Operands[me]
<1>1. /\ phase = "backup" /\ phase' = "replace" /\ job' = job /\ st' = st
      /\ disk' = IF BackupOf(Name) = Name THEN disk ELSE Moved(Name, BackupOf(Name))
  BY DEF Backup
<1>2. InPlace /\ job.opts.suffix /\ me \in DOMAIN Operands /\ Name = f
  BY <1>0, <1>1 DEF Inv, Shape, Editing, Name
<1>3. f \in DOMAIN disk /\ BackupOf(f) \in DOMAIN disk
  BY <1>2, TheDisk
<1> HIDE DEF f
<1>4. /\ Files' /\ DOMAIN disk' = DOMAIN disk
      /\ f # BackupOf(f) => disk'[BackupOf(f)] = disk[f]
      /\ \A g \in DOMAIN disk : g \notin {f, BackupOf(f)} => disk'[g] = disk[g]
  <2>1. CASE BackupOf(f) = f
    <3>1. disk' = disk
      BY <1>1, <1>2, <2>1
    <3> QED
      BY <1>1, <2>1, <3>1 DEF Files, Inv, Shape
  <2>2. CASE BackupOf(f) # f
    BY <1>1, <1>2, <1>3, <2>2, OneMove
  <2> QED
    BY <2>1, <2>2
<1>5. Operands' = Operands /\ InPlace' = InPlace /\ OperandsApart' = OperandsApart
  BY <1>1, SameJob
<1>6. EditedSoFar'
  <2>1. SUFFICES ASSUME OperandsApart PROVE EditedSoFar'
    BY <1>5 DEF EditedSoFar
  <2>2. Saved(me)'
    <3>1. Untouched(me)
      BY <1>0, <1>1, <1>2, <2>1 DEF Inv, EditedSoFar
    <3>2. f # BackupOf(f)
      BY <1>2, <2>1 DEF OperandsApart, f
    <3> QED
      BY <1>1, <1>4, <1>5, <3>1, <3>2 DEF Saved, Untouched, f, BackupOf
  <2>3. ASSUME NEW i \in DOMAIN Operands, i # me
        PROVE  (Untouched(i)' <=> Untouched(i)) /\ (Edited(i) => Edited(i)')
    <3>1. Operands[i] \notin {f, BackupOf(f)} /\ BackupOf(Operands[i]) \notin {f, BackupOf(f)}
      BY <1>2, <2>1, <2>3 DEF OperandsApart, f
    <3>2. Operands[i] \in DOMAIN disk /\ BackupOf(Operands[i]) \in DOMAIN disk
      BY <1>2, TheDisk
    <3>3. disk'[Operands[i]] = disk[Operands[i]]
          /\ disk'[BackupOf(Operands[i])] = disk[BackupOf(Operands[i])]
      BY <1>4, <3>1, <3>2
    <3> QED
      BY <1>1, <1>5, <3>3 DEF Untouched, Edited, Rewritten, Made, Saved, BackupOf
  <2>4. disk'["tmp"] = disk["tmp"] /\ disk["tmp"].there /\ Made(st.fi, "tmp")'
    <3>1. "tmp" \in DOMAIN disk /\ "tmp" \notin {f, BackupOf(f)}
      BY <1>2, <2>1, TheDisk DEF OperandsApart, f
    <3> QED
      BY <1>1, <1>2, <1>4, <2>1, <3>1 DEF Inv, EditedSoFar, Made
  <2>5. /\ \A i \in DOMAIN Operands : (i < me => Edited(i)) /\ (me < i => Untouched(i))
        /\ DOMAIN Operands \subseteq Nat
    BY <1>0, <1>2, <2>1, TheDisk DEF Inv, EditedSoFar
  <2>6. \A i \in DOMAIN Operands : /\ i < me => Edited(i)'
                                   /\ me < i => Untouched(i)'
                                   /\ i = me => Saved(i)'
    <3>1. \A i \in DOMAIN Operands : (i < me \/ me < i) => i # me
      BY <2>5
    <3> QED
      BY <2>2, <2>3, <2>5, <3>1
  <2> QED
    BY <1>0, <1>1, <1>2, <1>5, <2>4, <2>6 DEF EditedSoFar
<1> QED
  BY <1>1, <1>4, <1>6, RenamedKeeps

(* The temporary file takes the operand's name.                              *)
LEMMA ReplaceKeeps ==
  ASSUME Inv, Replace
  PROVE  Inv'
<1>0. PICK me \in Nat : me = st.fi
  BY DEF Inv, Shape
<1> DEFINE f == Operands[me]
<1>1. /\ phase = "replace" /\ phase' = "open" /\ job' = job /\ st' = st
      /\ disk' = Moved("tmp", Name)
  BY DEF Replace
<1>2. InPlace /\ me \in DOMAIN Operands /\ Name = f
  BY <1>0, <1>1 DEF Inv, Shape, Editing, Name
<1>3. f \in DOMAIN disk /\ "tmp" \in DOMAIN disk
  BY <1>2, TheDisk
<1> HIDE DEF f
<1>4. /\ Files' /\ DOMAIN disk' = DOMAIN disk /\ disk'["tmp"] = Absent
      /\ f # "tmp" => disk'[f] = disk["tmp"]
      /\ \A g \in DOMAIN disk : g \notin {"tmp", f} => disk'[g] = disk[g]
  BY <1>1, <1>2, <1>3, OneMove
<1>5. Operands' = Operands /\ InPlace' = InPlace /\ OperandsApart' = OperandsApart
  BY <1>1, SameJob
<1>6. EditedSoFar'
  <2>1. SUFFICES ASSUME OperandsApart PROVE EditedSoFar'
    BY <1>5 DEF EditedSoFar
  <2>2. ASSUME NEW i \in DOMAIN Operands, job.opts.suffix PROVE Saved(i)' <=> Saved(i)
    <3>1. BackupOf(Operands[i]) \notin {"tmp", f} /\ BackupOf(Operands[i]) \in DOMAIN disk
      BY <1>2, <2>1, <2>2, TheDisk DEF OperandsApart, f
    <3> QED
      BY <1>1, <1>4, <1>5, <3>1 DEF Saved, BackupOf
  <2>3. ASSUME NEW i \in DOMAIN Operands, i # me
        PROVE  (Untouched(i)' <=> Untouched(i)) /\ (Edited(i) => Edited(i)')
    <3>1. Operands[i] \notin {"tmp", f} /\ Operands[i] \in DOMAIN disk
      BY <1>2, <2>1, <2>3, TheDisk DEF OperandsApart, f
    <3>2. disk'[Operands[i]] = disk[Operands[i]]
      BY <1>4, <3>1
    <3> QED
      BY <1>1, <1>5, <2>2, <3>2 DEF Untouched, Edited, Rewritten, Made
  <2>4. Edited(me)'
    <3>1. f # "tmp" /\ disk["tmp"].there /\ Made(me, "tmp")
          /\ (job.opts.suffix => Saved(me))
      BY <1>0, <1>1, <1>2, <2>1 DEF OperandsApart, f, Inv, EditedSoFar
    <3>2. disk'[f] = disk["tmp"] /\ f = Operands'[me]
      BY <1>4, <1>5, <3>1 DEF f
    <3>3. Made(me, Operands[me])'
      BY <1>1, <3>1, <3>2 DEF Made
    <3>4. job.opts.suffix => Saved(me)'
      BY <1>2, <2>2, <3>1
    <3> QED
      BY <1>1, <3>1, <3>2, <3>3, <3>4 DEF Edited, Rewritten
  <2>5. /\ \A i \in DOMAIN Operands : (i < me => Edited(i)) /\ (me < i => Untouched(i))
        /\ DOMAIN Operands \subseteq Nat
    BY <1>0, <1>2, <2>1, TheDisk DEF Inv, EditedSoFar
  <2>6. \A i \in DOMAIN Operands : /\ i < me => Edited(i)'
                                   /\ me < i => Untouched(i)'
                                   /\ i = me => Edited(i)'
    <3>1. \A i \in DOMAIN Operands : (i < me \/ me < i) => i # me
      BY <2>5
    <3> QED
      BY <2>3, <2>4, <2>5, <3>1
  <2> QED
    BY <1>0, <1>1, <1>2, <1>5, <2>6 DEF EditedSoFar
<1> QED
  BY <1>1, <1>4, <1>6, RenamedKeeps

(* The empty sequence.                                                       *)
LEMMA NothingYet ==
  IsSeq(<<>>) /\ Len(<<>>) = 0 /\ DOMAIN <<>> = {} /\ ~UnfinishedIn(<<>>)
<1>1. IsSeq(<<>>)
  <2>1. <<>> \in Seq({})
    BY EmptySeq
  <2> QED
    BY <2>1, IsSeqOf
<1>2. Len(<<>>) = 0 /\ DOMAIN <<>> = {}
  BY EmptySeq
<1> QED
  BY <1>1, <1>2 DEF UnfinishedIn

(* A stream begins with nothing fetched.                                     *)
LEMMA StreamedReads ==
  ASSUME Inv, NEW files, files \in Seq(DOMAIN disk), NEW s, s = Streamed(files)
  PROVE  Exec(s) /\ ReadSound(s) /\ s.files = files /\ s.fi = st.fi + 1
         /\ s.edits = st.edits /\ s.pc = 1
<1>1. AtRest(st) /\ DOMAIN st = Fields
  BY DEF Inv, Shape, AtRest
<1>2. /\ DOMAIN s = Fields /\ s.files = files /\ s.at = <<0, 0>> /\ s.peek = <<>> /\ s.line = 0
      /\ s.aq = <<>> /\ s.pend = FALSE /\ s.out = <<>> /\ s.pc = 1 /\ s.fi = st.fi + 1
         /\ s.edits = st.edits
      /\ s.w = st.w
  BY <1>1 DEF Streamed, Fields
<1>3. Stream(s)
  BY <1>2, NothingYet DEF Stream, Fields
<1>4. Exec(s)
  BY <1>1, <1>2, <1>3, NothingYet DEF Exec, AtRest
<1>5. Placed(s)
  <2>1. Len(files) \in Nat
    BY LenProperties
  <2> QED
    BY <1>2, <2>1 DEF Placed
<1>6. Taken(s, 0)
  <2>1. \A p : p \notin Fetched(s)
    <3>1. \A p : p \in Fetched(s) <=>
             \E f, k : p = <<f, k>> /\ \/ f \in 1 .. (0 - 1) /\ k \in 1 .. Lines(s, f)
                                       \/ f = 0 /\ k \in 1 .. 0
      BY <1>2, InFetched
    <3>2. (\A x : x \notin 1 .. (0 - 1)) /\ (\A x : x \notin 1 .. 0)
      OBVIOUS
    <3> QED
      BY <3>1, <3>2
  <2>2. Fetched(s) = {}
    BY <2>1
  <2>3. IsFiniteSet({}) /\ Cardinality({}) = 0
    BY FS_EmptySet
  <2> QED
    BY <2>2, <2>3 DEF Taken
<1>7. ReadSound(s)
  <2>1. s.line + Len(s.peek) = 0
    BY <1>2, NothingYet
  <2> QED
    BY <1>2, <1>5, <1>6, <2>1 DEF ReadSound
<1> QED
  BY <1>2, <1>4, <1>7

(* The files being read are not written.                                     *)
LEMMA ReadAs ==
  ASSUME job' = job, DOMAIN disk' = DOMAIN disk, ReadSound(st'),
         \A f \in DOMAIN st'.files : disk'[st'.files[f]] = disk[st'.files[f]]
  PROVE  ReadSound(st)'
<1>1. PICK a \in Nat, b \in Nat : st'.at = <<a, b>> /\ a <= Len(st'.files)
  BY DEF ReadSound, Placed
<1>2. st'.files \in Seq(DOMAIN disk)
  BY DEF ReadSound, Placed
<1>3. Len(st'.files) \in Nat /\ DOMAIN st'.files = 1 .. Len(st'.files)
  BY <1>2, LenProperties
<1>4. \A f \in DOMAIN st'.files : (Lines(st, f))' = Lines(st', f) /\ (Records(st, f))' = Records(st', f)
  BY DEF Lines, Records
<1>5. Placed(st)'
  <2>1. a \in 1 .. Len(st'.files) => a \in DOMAIN st'.files
    BY <1>3
  <2>2. IF a = 0 THEN b = 0 ELSE b <= Lines(st', a)
    BY <1>1 DEF ReadSound, Placed
  <2>3. IF a = 0 THEN b = 0 ELSE b <= (Lines(st, a))'
    <3>1. CASE a = 0
      BY <2>2, <3>1
    <3>2. CASE a # 0
      <4>1. a \in 1 .. Len(st'.files)
        BY <1>1, <1>3, <3>2
      <4> QED
        BY <1>4, <2>1, <2>2, <3>2, <4>1
    <3> QED
      BY <3>1, <3>2
  <2> QED
    BY <1>1, <1>2, <2>3 DEF Placed
<1>6. Fetched(st)' = Fetched(st')
  <2>1. \A f \in 1 .. (st'.at[1] - 1) : f \in DOMAIN st'.files
    BY <1>1, <1>3
  <2>2. \A f \in 1 .. (st'.at[1] - 1) : (Len(Records(st, f)))' = Len(Records(st', f))
    BY <1>4, <2>1 DEF Lines
  <2> QED
    BY <2>2 DEF Fetched
<1>7. NeedLookahead' <=> NeedLookahead
  BY DEF NeedLookahead, Script
<1> QED
  BY <1>5, <1>6, <1>7 DEF ReadSound, Taken

(* An operand edited in place that cannot be opened is passed over.          *)
LEMMA SkipsMissing ==
  ASSUME Inv, phase = "open", phase' = "open", ~LastStream, InPlace, job' = job, disk' = disk,
         st' = [st EXCEPT !.failed = TRUE, !.fi = @ + 1]
  PROVE  Inv'
<1>1. AtRest(st) /\ DOMAIN st = Fields /\ Files
  BY DEF Inv, Shape, AtRest
<1>2. DOMAIN st' = Fields /\ st'.fi = st.fi + 1
      /\ st'.edits = st.edits /\ \A f \in Fields \ {"fi", "failed"} : st'[f] = st[f]
  BY <1>1 DEF Fields
<1>3. Same(st, st', NotWritten \cup {"pend"}) /\ st'.pc = st.pc
  BY <1>1, <1>2 DEF Same, NotWritten, Fields
<1>4. AtRest(st') /\ st'.aq = st.aq /\ InPlace' = InPlace /\ Operands' = Operands
      /\ Separate' = Separate /\ OperandsApart' = OperandsApart
  BY <1>1, <1>3, RestAfter, SameJob
<1>5. AtRest(st)' /\ Files'
  BY <1>1, <1>4, LeftAs DEF Files
<1>6. st.fi \in Nat /\ st.fi + 1 <= Len(Operands) /\ Len(Operands) \in Nat
  <2>1. st.fi # Len(Operands) /\ st.fi <= Len(Operands) /\ st.fi \in Nat /\ Len(Operands) \in Nat
    BY TheDisk DEF LastStream, Separate, Inv, Shape
  <2> QED
    BY <2>1
<1>7. Shape' /\ Input' /\ Queued' /\ TmpGone' /\ Editing'
  BY <1>2, <1>3, <1>4, <1>5, <1>6 DEF Inv, Shape, Phases, Input, Queued, TmpGone, Editing
<1>8. EditedSoFar'
  <2>1. \A i : /\ Untouched(i)' <=> Untouched(i)
               /\ Edited(i) => Edited(i)'
    BY <1>4 DEF Untouched, Saved, Edited, Rewritten, Made, BackupOf
  <2>2. ASSUME OperandsApart, NEW i \in DOMAIN Operands
        PROVE  /\ i < st.fi + 1 => Edited(i)
               /\ st.fi + 1 < i => Untouched(i)
               /\ i = st.fi + 1 => Edited(i)
    <3>1. /\ i < st.fi => Edited(i)
          /\ st.fi < i => Untouched(i)
          /\ i = st.fi => Edited(i)
      BY <2>2 DEF Inv, EditedSoFar
    <3>2. i \in Nat
      BY TheDisk
    <3>3. \/ i < st.fi \/ i = st.fi \/ st.fi < i
      BY <1>6, <3>2
    <3>4. (i < st.fi + 1 => i < st.fi \/ i = st.fi) /\ (st.fi + 1 < i => st.fi < i)
          /\ (i = st.fi + 1 => st.fi < i)
      BY <1>6, <3>2
    <3>5. Untouched(i) => Edited(i)
      BY DEF Edited
    <3> QED
      BY <3>1, <3>4, <3>5
  <2> QED
    BY <1>2, <1>4, <2>1, <2>2 DEF EditedSoFar
<1> QED
  BY <1>7, <1>8 DEF Inv

(* A stream is opened; with -i, so is the temporary file.                    *)
LEMMA OpenKeeps ==
  ASSUME Inv, Open
  PROVE  Inv'
<1> DEFINE files == IF Separate THEN <<Operands[st.fi + 1]>> ELSE Operands
           missing == InPlace /\ ~disk[files[1]].there
           u == NextRecord(Prologue(Streamed(files)))
<1>1. /\ phase = "open" /\ ~LastStream /\ job' = job
      /\ IF missing
         THEN st' = [st EXCEPT !.failed = TRUE, !.fi = @ + 1] /\ phase' = phase
         ELSE st' = u /\ phase' = IF u.more THEN "run" ELSE "end"
      /\ disk' = IF InPlace /\ ~missing THEN [disk EXCEPT !["tmp"] = Holding(<<>>)] ELSE disk
  BY DEF Open
<1>2. CASE missing
  <2>1. InPlace /\ disk' = disk /\ st' = [st EXCEPT !.failed = TRUE, !.fi = @ + 1] /\ phase' = phase
    BY <1>1, <1>2
  <2> QED
    BY <1>1, <2>1, SkipsMissing
<1>3. CASE ~missing
  <2>1. st' = u /\ phase' = IF u.more THEN "run" ELSE "end"
    BY <1>1, <1>3
  <2>2. /\ st.fi \in Nat /\ Len(Operands) \in Nat
        /\ Separate => st.fi + 1 <= Len(Operands) /\ st.fi + 1 \in DOMAIN Operands
    <3>1. st.fi \in Nat /\ Len(Operands) \in Nat /\ DOMAIN Operands = 1 .. Len(Operands)
          /\ (Separate => st.fi <= Len(Operands) /\ st.fi # Len(Operands))
      BY <1>1, TheDisk DEF LastStream, Inv, Shape
    <3> QED
      BY <3>1
  <2>3. files \in Seq(DOMAIN disk)
    <3>1. CASE Separate
      <4>1. Operands[st.fi + 1] \in DOMAIN disk
        BY <2>2, <3>1, TheDisk
      <4> QED
        BY <3>1, <4>1
    <3>2. CASE ~Separate
      BY <3>2, TheDisk
    <3> QED
      BY <3>1, <3>2
  <2>4. InPlace => /\ Separate /\ files = <<Operands[st.fi + 1]>>
                   /\ disk[Operands[st.fi + 1]].there
    BY <1>3 DEF Separate
  <2> DEFINE s == Streamed(files)
             p == Prologue(s)
             e == EarlyQueued(s)
  <2> HIDE DEF files, missing
  <2>5. Exec(s) /\ ReadSound(s) /\ s.files = files /\ s.fi = st.fi + 1
        /\ s.edits = st.edits /\ s.pc = 1
    BY <2>3, StreamedReads
  <2> HIDE DEF s
  <2>6. Exec(p) /\ Kept(s, p) /\ p.aq = <<>>
    <3>1. Exec(e) /\ Kept(s, e)
      BY <2>5, EarlyQueuedExec DEF Inv, Shape
    <3> HIDE DEF e
    <3>2. Exec(FlushAppends(e)) /\ Kept(e, FlushAppends(e)) /\ FlushAppends(e).aq = <<>>
      BY <3>1, FlushAppendsExec DEF Inv, Shape
    <3>3. p = FlushAppends(e)
      BY DEF Prologue, e
    <3> QED
      BY <3>1, <3>2, <3>3, KeptOnAndOn
  <2>7. u = NextRecord(p)
    BY DEF s
  <2> HIDE DEF p, u
  <2>8. ReadSound(p) /\ p.files = files /\ p.fi = st.fi + 1 /\ p.edits = st.edits /\ p.pc = 1
    <3>1. ReadSound(p)
      BY <2>5, <2>6, ReadSoundKept DEF Kept
    <3> QED
      BY <2>5, <2>6, <3>1 DEF Kept, Reading
  <2>9. /\ Exec(u) /\ u.aq = <<>> /\ u.files = files /\ u.fi = st.fi + 1
           /\ u.edits = st.edits /\ u.pc = 1 /\ ReadSound(u)
    BY <2>6, <2>7, <2>8, NextRecordReads DEF Inv, Shape
  <2>10. /\ Files' /\ DOMAIN disk' = DOMAIN disk
         /\ InPlace => disk'["tmp"] = Holding(<<>>)
         /\ \A g \in DOMAIN disk : g # "tmp" => disk'[g] = disk[g]
         /\ ~InPlace => disk' = disk
    <3>1. CASE InPlace
      <4>1. "tmp" \in DOMAIN disk /\ disk' = [disk EXCEPT !["tmp"] = Holding(<<>>)]
        BY <1>1, <1>3, <3>1, TheDisk
      <4>2. IsFile(Holding(<<>>))
        <5>1. <<>> \in Seq(Range(<<>>))
          BY NothingYet DEF IsSeq
        <5> QED
          BY <5>1 DEF IsFile, Holding
      <4> QED
        BY <1>1, <3>1, <4>1, <4>2, OneFile
    <3>2. CASE ~InPlace
      <4>1. disk' = disk
        BY <1>1, <3>2
      <4> QED
        BY <1>1, <3>2, <4>1 DEF Files, Inv, Shape
    <3> QED
      BY <3>1, <3>2
  <2>11. ReadSound(st)'
    <3>1. ASSUME InPlace PROVE Operands[st.fi + 1] # "tmp"
      BY <1>1, <2>4, <3>1 DEF Inv, TmpGone, Absent
    <3>2. \A f \in DOMAIN st'.files : disk'[st'.files[f]] = disk[st'.files[f]]
      <4>1. CASE InPlace
        <5>1. st'.files = <<Operands[st.fi + 1]>> /\ Operands[st.fi + 1] \in DOMAIN disk
          BY <2>1, <2>2, <2>4, <2>9, <4>1, TheDisk
        <5>2. disk'[Operands[st.fi + 1]] = disk[Operands[st.fi + 1]]
          BY <2>10, <3>1, <4>1, <5>1
        <5>3. \A f \in DOMAIN st'.files : st'.files[f] = Operands[st.fi + 1]
          BY <5>1
        <5> QED
          BY <5>2, <5>3
      <4>2. CASE ~InPlace
        BY <2>10, <4>2
      <4> QED
        BY <4>1, <4>2
    <3> QED
      BY <1>1, <2>1, <2>9, <2>10, <3>2, ReadAs
  <2>12. InPlace' = InPlace /\ Operands' = Operands /\ Separate' = Separate
         /\ OperandsApart' = OperandsApart
    BY <1>1, SameJob
  <2>13. Exec(st)' /\ AtRest(st)'
    BY <1>1, <2>1, <2>9, <2>10, LeftAs, ExecIsAtRest
  <2>14. st'.fi = st.fi + 1
         /\ st'.edits = st.edits /\ st'.pc = 1 /\ st'.aq = <<>> /\ st'.files = files
         /\ phase' \in {"run", "end"}
    BY <2>1, <2>9
  <2>15. Shape'
    BY <1>1, <2>2, <2>10, <2>12, <2>13, <2>14 DEF Inv, Shape, Phases
  <2>16. Input' /\ Queued' /\ TmpGone' /\ Editing'
    BY <2>2, <2>4, <2>11, <2>12, <2>14 DEF Input, Queued, TmpGone, Editing
  <2>17. EditedSoFar'
    <3>1. ASSUME InPlace, OperandsApart, NEW i \in DOMAIN Operands
          PROVE  /\ i < st.fi + 1 => Edited(i)'
                 /\ st.fi + 1 < i => Untouched(i)'
                 /\ i = st.fi + 1 => Untouched(i)'
      <4>1. /\ i < st.fi => Edited(i)
            /\ st.fi < i => Untouched(i)
            /\ i = st.fi => Edited(i)
        BY <1>1, <3>1 DEF Inv, EditedSoFar
      <4>2. i \in Nat
        BY TheDisk
      <4>3. (i < st.fi + 1 => i < st.fi \/ i = st.fi) /\ (st.fi + 1 < i => st.fi < i)
            /\ (i = st.fi + 1 => st.fi < i)
        BY <2>2, <4>2
      <4>4. (Untouched(i)' <=> Untouched(i)) /\ (Edited(i) => Edited(i)')
        BY <1>1, <2>10, <2>14, <3>1, TmpOnly
      <4> QED
        BY <4>1, <4>3, <4>4
    <3> QED
      BY <2>12, <2>14, <3>1 DEF EditedSoFar
  <2> QED
    BY <2>15, <2>16, <2>17 DEF Inv
<1> QED
  BY <1>2, <1>3

(* sed starts soundly.                                                       *)
LEMMA InitInv ==
  ASSUME Init
  PROVE  Inv
<1>1. /\ job \in Jobs /\ st = Started(job) /\ phase = "open" /\ disk = job.disk
  BY DEF Init
<1>2. /\ DOMAIN st = Fields /\ st.out = <<>> /\ st.w = <<>> /\ st.aq = <<>> /\ st.pc = 1
      /\ st.fi = 0
  BY <1>1 DEF Started, Fields
<1>3. AtRest(st)
  BY <1>2, NothingYet DEF AtRest
<1>4. Files
  BY <1>1, JobRead DEF Files
<1>5. Len(Operands) \in Nat /\ DOMAIN Operands = 1 .. Len(Operands)
  BY <1>1, JobRead, LenProperties DEF Operands
<1>6. Shape
  BY <1>1, <1>2, <1>3, <1>4, <1>5 DEF Shape, Phases
<1>7. Input /\ Queued /\ Editing
  BY <1>1, <1>2 DEF Input, Queued, Editing
<1>8. TmpGone
  BY <1>1, JobRead DEF TmpGone
<1>9. EditedSoFar
  <2>1. \A i \in DOMAIN Operands : Untouched(i) /\ Edited(i)
    BY <1>1 DEF Untouched, Edited
  <2> QED
    BY <1>1, <2>1 DEF EditedSoFar
<1> QED
  BY <1>6, <1>7, <1>8, <1>9 DEF Inv

(* Every step keeps the invariant.                                           *)
LEMMA NextInv ==
  ASSUME Inv, [Next]_sedVars
  PROVE  Inv'
<1>1. CASE Quietly
  BY <1>1, QuietlyGoes, GoesOn
<1>2. CASE Writes
  BY <1>2, WritesGoes, GoesOn
<1>3. CASE Closing
  BY <1>3, ClosingGoes, GoesOn
<1>4. CASE DeleteFirst
  BY <1>4, DeleteFirstGoes, GoesOn
<1>5. CASE NextCmd
  BY <1>5, NextCmdGoes, GoesOn
<1>6. CASE NextAppend
  BY <1>6, NextAppendGoes, GoesOn
<1>7. CASE Panic \/ RenameFails
  BY <1>7, PanicKeeps
<1>8. CASE Fallthrough
  BY <1>8, FallthroughGoes, GoesOn
<1>9. CASE EndCycle
  BY <1>9, EndCycleGoes, GoesOn
<1>10. CASE Open
  BY <1>10, OpenKeeps
<1>11. CASE EndStream
  BY <1>11, EndStreamKeeps
<1>12. CASE Backup
  BY <1>12, BackupKeeps
<1>13. CASE Replace
  BY <1>13, ReplaceKeeps
<1>14. CASE Finish
  BY <1>14, FinishKeeps
<1>15. CASE UNCHANGED sedVars
  <2>1. job' = job /\ st' = st /\ phase' = phase /\ disk' = disk
    BY <1>15 DEF sedVars
  <2> QED
    BY <2>1 DEF Inv, Shape, Files, AtRest, Exec, Stream, Executes, Script, Entry, Operands,
       InPlace, Separate, Input, ReadSound, Placed, Lines, Records, Taken, Fetched,
       NeedLookahead, Queued, TmpGone, Editing, EditedSoFar, OperandsApart, Untouched,
       Saved, Edited, Rewritten, Made, BackupOf
<1>16. Command => \/ Quietly \/ Writes \/ Closing \/ DeleteFirst \/ NextCmd \/ NextAppend
                  \/ Panic
  BY DEF Command, Quietly, Writes, Closing
<1> QED
  BY <1>1, <1>2, <1>3, <1>4, <1>5, <1>6, <1>7, <1>8, <1>9, <1>10, <1>11, <1>12, <1>13, <1>14,
     <1>15, <1>16 DEF Next

(* The inductive invariant holds of every behaviour of sed.                  *)
LEMMA SedIsSound == Spec => []Inv
<1>1. Init => Inv
  BY InitInv
<1>2. Inv /\ [Next]_sedVars => Inv'
  BY NextInv
<1> QED
  BY <1>1, <1>2, PTL DEF Spec

(* sed keeps its records, whatever the script, the operands and what they    *)
(* hold: a record printed without its delimiter (pending_nl, pending_delim)  *)
(* gets it before whatever follows, on the output and in every w file; no    *)
(* record is fetched before it is needed, one more for a script with $; and  *)
(* flush_appends leaves nothing queued behind a cycle.                       *)
THEOREM RecordsAreKept == Spec => []RecordsKept
<1>1. Inv => RecordsStayApart
  <2>1. \A o : Stream(o) => Executes \/ ~UnfinishedIn(o.out)
    BY DEF Stream
  <2> QED
    BY <2>1 DEF Inv, Shape, AtRest, RecordsStayApart, Executes
<1>2. Inv => ReadsNoFurther
  <2>1. SUFFICES ASSUME Inv, phase \in {"run", "cycle"}
                 PROVE  /\ Cardinality(Fetched(st)) = st.line + Len(st.peek)
                        /\ st.peek # <<>> => NeedLookahead /\ ~st.last
    BY DEF ReadsNoFurther
  <2>2. ReadSound(st)
    BY <2>1 DEF Inv, Input
  <2> QED
    BY <2>2 DEF ReadSound, Taken
<1>3. Inv => NothingStaysQueued
  BY DEF Inv, Queued, NothingStaysQueued
<1>4. Inv => RecordsKept
  BY <1>1, <1>2, <1>3 DEF RecordsKept
<1> QED
  BY <1>4, SedIsSound, PTL

(* Editing in place loses no file: at every moment an operand is what it     *)
(* was, or all of what the script made of it (what a full disk left of that, *)
(* when a write failed), its backup being what it was; between the renames,  *)
(* and after a second one that failed, the backup alone holds it.  A script  *)
(* that panics is included, and no temporary file is left behind.  The       *)
(* operands have to be different files, none of them a backup or the         *)
(* temporary file of another.                                                *)
THEOREM EditsAreSafe == Spec => [](OperandsApart => InPlaceIsSafe)
<1>1. Inv => (OperandsApart => InPlaceIsSafe)
  <2>1. SUFFICES ASSUME Inv, OperandsApart, InPlace PROVE InPlaceIsSafe
    BY DEF InPlaceIsSafe
  <2>2. phase \in {"done", "panic"} => disk["tmp"] = Absent
    BY <2>1 DEF Inv, TmpGone
  <2>3. ASSUME NEW i \in DOMAIN Operands
        PROVE  \/ Untouched(i) \/ Rewritten(i)
               \/ /\ job.opts.suffix /\ Saved(i)
                  /\ i = st.fi /\ phase \in {"replace", "panic"}
    <3>1. i \in Nat /\ st.fi \in Nat /\ phase \in Phases
      BY <2>1, TheDisk DEF Inv, Shape
    <3>2. i < st.fi \/ i = st.fi \/ st.fi < i
      BY <3>1
    <3> QED
      BY <2>1, <3>1, <3>2 DEF Inv, EditedSoFar, Edited, Phases
  <2> QED
    BY <2>2, <2>3 DEF InPlaceIsSafe, Untouched, Saved, Rewritten, Made
<1> QED
  BY <1>1, SedIsSound, PTL
=============================================================================
