------------------------------- MODULE Paths -------------------------------
(* How the kernel resolves a path, as far as the applets depend on it.  A   *)
(* path is a sequence of names, absolute; `ns' maps the paths there are to  *)
(* inodes, `is' tells the type of an inode and where a link leads.          *)
EXTENDS Sequences, SequencesExt

DerefIn(ns, is, p) ==
    IF p \in DOMAIN ns /\ is[ns[p]].type = "link" THEN is[ns[p]].to ELSE p

(* The file itself, links followed (stat), and the name, the last link not    *)
(* followed (lstat).                                                          *)
RealIn(ns, is, p) == FoldLeft(LAMBDA d, n : DerefIn(ns, is, Append(d, n)), <<>>, p)
NameIn(ns, is, p) == IF p = <<>> THEN <<>> ELSE Append(RealIn(ns, is, Front(p)), Last(p))

EntriesIn(ns, p) == {q \in DOMAIN ns : Len(q) = Len(p) + 1 /\ IsPrefix(p, q)}
=============================================================================
