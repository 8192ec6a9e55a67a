------------------------------ MODULE FileCopy ------------------------------
(***************************************************************************)
(* Four programs that copy bytes: copy (SP_HW1/hw1-2) measures the file    *)
(* and reads it at once, mmap (SP_HW9/49/49-1) maps both files, mycat      *)
(* (SP_HW4/part1) reads block after block, and tee (SP_HW1/hw1-1) copies   *)
(* its input to its output and to a file, with "-a" after what the file    *)
(* holds.  While copy, mmap and mycat run, others write to the file.       *)
(***************************************************************************)
EXTENDS Integers, Sequences, FiniteSetsExt, SequencesExt

CONSTANTS
  Bytes,    \* the bytes of a file, NUL aside
  BLOCK,    \* the size of the buffers of mycat and tee, and of a page
  MaxLen    \* bound on the length of the file

VARIABLES
  step,     \* the program's next step
  tool,     \* which program runs; tee_a is tee with "-a"
  src,      \* the file that is read; for tee, what is left of the input
  dst,      \* the file that is written
  size,     \* the length that was measured, or mycat's offset in the file
  buf,      \* what copy has read
  stdout,   \* what mycat and tee have written to their output
  old,      \* history: src, for tee dst, at the start
  cut       \* history: src has been truncated

vars == <<step, tool, src, dst, size, buf, stdout, old, cut>>

NUL == "NUL"
Odd == "uninitialised"
Contents == SeqOf(Bytes \cup {NUL}, MaxLen)
Take(s, n) == SubSeq(s, 1, n)
Least(m, n) == IF m < n THEN m ELSE n
Fill(b, n) == [i \in 1..n |-> b]

Init ==
  /\ step = "start" /\ tool = "none"
  /\ src = <<>> /\ dst = <<>> /\ size = 0 /\ buf = <<>> /\ stdout = <<>>
  /\ old = <<>> /\ cut = FALSE

Start ==
  /\ step = "start"
  /\ tool' \in {"copy", "mmap", "mycat", "tee", "tee_a"}
  /\ step' = tool'
  /\ src' \in Contents
  /\ dst' \in {<<>>} \cup {<<b>> : b \in Bytes}
  /\ old' = IF tool' \in {"tee", "tee_a"} THEN dst' ELSE src'
  /\ UNCHANGED <<size, buf, stdout, cut>>

-----------------------------------------------------------------------------
(* copy                                                                    *)

\* open(), lseek(SEEK_END), malloc() and close().
Measure ==
  /\ step = "copy" /\ step' = "copy_read"
  /\ size' = Len(src)
  /\ UNCHANGED <<tool, src, dst, buf, stdout, old, cut>>

\* The file is opened again; a read that gets less than size bytes leaves
\* the rest of the buffer as malloc() made it.
ReadAll ==
  /\ step = "copy_read" /\ step' = "copy_write"
  /\ LET n == Least(size, Len(src)) IN buf' = Take(src, n) \o Fill(Odd, size - n)
  /\ UNCHANGED <<tool, src, dst, size, stdout, old, cut>>

\* A slip: the file is opened without O_TRUNC.
WriteAllOver ==
  /\ step = "copy_write" /\ step' = "ended"
  /\ dst' = buf \o SubSeq(dst, size + 1, Len(dst))
  /\ UNCHANGED <<tool, src, size, buf, stdout, old, cut>>

WriteAll ==
  /\ step = "copy_write" /\ step' = "ended"
  /\ dst' = buf
  /\ UNCHANGED <<tool, src, size, buf, stdout, old, cut>>

-----------------------------------------------------------------------------
(* mmap                                                                    *)

\* An empty file cannot be mapped, but MAP_FAILED is not NULL.
MapSource ==
  /\ step = "mmap" /\ step' = "mmap_target"
  /\ size' = Len(src)
  /\ UNCHANGED <<tool, src, dst, buf, stdout, old, cut>>

\* O_TRUNC and ftruncate().
MapTarget ==
  /\ step = "mmap_target" /\ step' = "mmap_copy"
  /\ dst' = Fill(NUL, size)
  /\ UNCHANGED <<tool, src, size, buf, stdout, old, cut>>

\* memcpy(): the last page is filled up with NUL; a page that begins after
\* the end of the file raises SIGBUS.
MapCopy ==
  /\ step = "mmap_copy"
  /\ LET pages == ((Len(src) + BLOCK - 1) \div BLOCK) * BLOCK
         there == Least(size, Len(src)) IN
       /\ step' = IF size > pages THEN "killed" ELSE "ended"
       /\ dst' = Take(src, there) \o Fill(NUL, size - there)
  /\ UNCHANGED <<tool, src, size, buf, stdout, old, cut>>

-----------------------------------------------------------------------------
(* mycat                                                                   *)

CatBlock ==
  /\ step = "mycat"
  /\ LET n == Least(BLOCK, Len(src) - size) IN
       IF n > 0 THEN /\ stdout' = stdout \o SubSeq(src, size + 1, size + n)
                     /\ size' = size + n
                     /\ UNCHANGED step
       ELSE step' = "ended" /\ UNCHANGED <<stdout, size>>
  /\ UNCHANGED <<tool, src, dst, buf, old, cut>>

-----------------------------------------------------------------------------
(* tee                                                                     *)

\* What strlen() makes of what was read: it stops at a NUL byte, and runs
\* over the end of a full buffer into whatever comes there.
Texts(block) ==
  IF Contains(block, NUL)
  THEN {Take(block, Min({i \in DOMAIN block : block[i] = NUL}) - 1)}
  ELSE {block} \cup (IF Len(block) = BLOCK THEN {block \o <<Odd>>} ELSE {})

\* read() and write() to the output; then open(), write() and close() of the
\* file, which without "-a" is truncated every time.
TeeBlock ==
  /\ step \in {"tee", "tee_a"} /\ src # <<>>
  /\ \E n \in 1..Least(BLOCK, Len(src)) : \E text \in Texts(Take(src, n)) :
       /\ src' = SubSeq(src, n + 1, Len(src))
       /\ stdout' = stdout \o text
       /\ IF text = <<>> THEN step' = "failed" /\ UNCHANGED dst
          ELSE /\ dst' = (IF tool = "tee_a" THEN dst ELSE <<>>) \o text
               /\ UNCHANGED step
  /\ UNCHANGED <<tool, size, buf, old, cut>>

\* The end of the input is taken for an error.
TeeEnds ==
  /\ step \in {"tee", "tee_a"} /\ src = <<>>
  /\ step' = "failed"
  /\ UNCHANGED <<tool, src, dst, size, buf, stdout, old, cut>>

-----------------------------------------------------------------------------
(* Other programs write to the file that is copied.                        *)

Busy == tool \in {"copy", "mmap", "mycat"} /\ step \notin {"ended", "killed"}

Grow ==
  /\ Busy /\ Len(src) < MaxLen
  /\ \E b \in Bytes : src' = Append(src, b)
  /\ UNCHANGED <<step, tool, dst, size, buf, stdout, old, cut>>

Shrink ==
  /\ Busy /\ src # <<>>
  /\ \E n \in 0..Len(src) - 1 : src' = Take(src, n)
  /\ cut' = TRUE
  /\ UNCHANGED <<step, tool, dst, size, buf, stdout, old>>

Next ==
  \/ Start \/ Measure \/ ReadAll \/ WriteAll \/ MapSource \/ MapTarget \/ MapCopy
  \/ CatBlock \/ TeeBlock \/ TeeEnds \/ Grow \/ Shrink

Spec == Init /\ [][Next]_vars

-----------------------------------------------------------------------------
\* A file that only grows while it is copied: the copy begins it, and holds
\* at least what it held before.  (One that shrinks may be copied with bytes
\* that were never in it, or mmap be killed by SIGBUS.)
GrowingFileCopied ==
  step = "ended" /\ ~cut =>
    LET copied == IF tool = "mycat" THEN stdout ELSE dst IN
      IsPrefix(old, copied) /\ IsPrefix(copied, src)

\* tee: the file holds what was shown, with "-a" after what it held before,
\* without it from the last block only.
TeeCopies ==
  /\ tool = "tee_a" => dst = old \o stdout
  /\ tool = "tee" /\ stdout # <<>> => IsSuffix(dst, stdout) /\ dst # <<>>

CopyFaithful == GrowingFileCopied /\ TeeCopies
=============================================================================
