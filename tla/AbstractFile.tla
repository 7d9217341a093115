---------------------------- MODULE AbstractFile -----------------------------
(***************************************************************************)
(* What regular files promise (spec.md, the inode read/write and the file *)
(* layer): a file is a sequence of bytes.  A write through a File starts  *)
(* at the File's offset, never past the end of the file, puts its bytes   *)
(* there (extending the file up to MaxSize) and advances the offset by    *)
(* the bytes written, which on a partial write are a prefix of the        *)
(* request.  A read returns the bytes from the offset to at most the end  *)
(* and advances the offset by as many.  Opening f with O_TRUNC empties    *)
(* its file and starts f at 0; other Files keep their offsets.             *)
(***************************************************************************)
EXTENDS Integers, Sequences

CONSTANTS Threads, Files, Ino, Inodes, MaxSize, Counts

VARIABLES content, aoff, got   \* got: what the last read returned

avars == <<content, aoff, got>>

\* s with n copies of b from position o on.
Splice(s, o, n, b) ==
  [k \in 1 .. IF o + n > Len(s) THEN o + n ELSE Len(s) |->
     IF o < k /\ k <= o + n THEN b ELSE s[k]]

Init ==
  /\ content = [i \in Inodes |-> << >>]
  /\ aoff = [f \in Files |-> 0]
  /\ got = << >>

\* Thread t writes n of its bytes through f.
Write(t, f, n) ==
  /\ aoff[f] <= Len(content[Ino[f]]) /\ aoff[f] + n <= MaxSize
  /\ content' = [content EXCEPT ![Ino[f]] = Splice(@, aoff[f], n, t)]
  /\ aoff' = [aoff EXCEPT ![f] = @ + n]
  /\ UNCHANGED got

\* Thread t reads up to n bytes through f.
Read(t, f, n) ==
  LET s == content[Ino[f]]
      m == IF aoff[f] > Len(s) THEN 0
           ELSE IF n < Len(s) - aoff[f] THEN n ELSE Len(s) - aoff[f]
  IN /\ got' = SubSeq(s, aoff[f] + 1, aoff[f] + m)
     /\ aoff' = [aoff EXCEPT ![f] = @ + m]
     /\ UNCHANGED content

Truncate(f) ==
  /\ content' = [content EXCEPT ![Ino[f]] = << >>]
  /\ aoff' = [aoff EXCEPT ![f] = 0]
  /\ UNCHANGED got

Next ==
  \/ \E t \in Threads, f \in Files, n \in 0 .. MaxSize : Write(t, f, n)
  \/ \E t \in Threads, f \in Files, n \in Counts : Read(t, f, n)
  \/ \E f \in Files : Truncate(f)

Spec == Init /\ [][Next]_avars
=============================================================================
