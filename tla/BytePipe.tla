------------------------------ MODULE BytePipe ------------------------------
(***************************************************************************)
(* What one direction of a stream promises to the two applications: a      *)
(* bounded byte pipe.  The bytes read are a prefix of the bytes written,   *)
(* the writer is never more than the capacity ahead of the reader, and the *)
(* reader sees the end only after the writer closed and everything was     *)
(* read.  Bytes are numbered in the order they are written.                *)
(***************************************************************************)
EXTENDS Integers, Sequences

CONSTANT Capacity

VARIABLES
  written,   \* the bytes accepted from the writing application
  read,      \* the bytes handed to the reading application
  closed,    \* the writer closed
  ended      \* the reader saw the end

pipe == <<written, read, closed, ended>>

PipeInit == written = <<>> /\ read = <<>> /\ ~closed /\ ~ended

Write ==
  /\ ~closed
  /\ \E n \in 1 .. Capacity :
       /\ Len(written) + n <= Len(read) + Capacity
       /\ written' = written \o [i \in 1 .. n |-> Len(written) + i - 1]
  /\ UNCHANGED <<read, closed, ended>>

Read ==
  /\ \E n \in Len(read) + 1 .. Len(written) : read' = SubSeq(written, 1, n)
  /\ UNCHANGED <<written, closed, ended>>

Close == ~closed /\ closed' = TRUE /\ UNCHANGED <<written, read, ended>>

End ==
  /\ closed /\ ~ended /\ read = written
  /\ ended' = TRUE
  /\ UNCHANGED <<written, read, closed>>

PipeNext == Write \/ Read \/ Close \/ End

PipeSpec == PipeInit /\ [][PipeNext]_pipe
=============================================================================
