---------------------------- MODULE OffsetRanges ----------------------------
(***************************************************************************)
(* Half-open Data Sequence ranges and the range algebra of                 *)
(* protocol/frame.rs.  A range is [start, end); a list of ranges that the  *)
(* code keeps sorted is a set here, because every list the algebra returns *)
(* is ordered by its (distinct) starts.  The definitions say what the      *)
(* loops of the code compute, not how.                                     *)
(***************************************************************************)
EXTENDS Integers, FiniteSets

CONSTANTS
  U64Max,             \* the greatest offset
  max_payload_bytes   \* the greatest payload of a DATA frame

OffsetRange(s, e) == [start |-> s, end |-> e]

RangesBelow(n) == {r \in [start : 0 .. n, end : 0 .. n] : r.start < r.end}

Bytes(r) == r.start .. (r.end - 1)

Length(r) == r.end - r.start

Covered(R) == UNION {Bytes(r) : r \in R}

\* The maximal runs of consecutive offsets of a set of offsets.
Runs(S) ==
  {r \in {OffsetRange(a, b + 1) : a \in S, b \in S} :
     /\ r.start < r.end
     /\ Bytes(r) \subseteq S
     /\ r.start - 1 \notin S
     /\ r.end \notin S}

\* Sorting, dropping what is empty and merging what overlaps or touches
\* leaves the maximal runs of the bytes the list mentions.
normalize_offset_ranges(R) == Runs(Covered(R))

\* Every range of R, less what C covers.
offset_ranges_not_covered(R, C) == UNION {Runs(Bytes(r) \ Covered(C)) : r \in R}

Canonical(R) == \A r, q \in R : r # q => r.end < q.start \/ q.end < r.start

Disjoint(R) == \A r, q \in R : r # q => r.end <= q.start \/ q.end <= r.start

\* saturating_sub, for the byte counters of both halves of a stream.
Monus(a, b) == IF a > b THEN a - b ELSE 0

\* The scope_start of a STREAM_ACK without a scope.
NoScope == -1

=============================================================================
