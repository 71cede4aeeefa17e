--------------------------- MODULE Retransmission ---------------------------
(***************************************************************************)
(* What a recovery request returns: the frames of the bytes that           *)
(* ReliableSendStream retains within the requested ranges.                 *)
(***************************************************************************)
EXTENDS ReliableSend, SequencesExt

\* The retained slices that a request for some ranges meets, in order.
RequestedSlices(ranges) ==
  SetToSortSeq(UNION {Runs(Bytes(c) \cap Covered(ranges)) : c \in reinjection_cache},
               LAMBDA a, b : a.start < b.start)

\* Mutant of retransmission_frames_for_ranges: the limit holds for each slice.
FramesLimitedSingly(ranges, byte_limit) ==
  LET cut(slice) == OffsetRange(slice.start, slice.start + Min({Length(slice), byte_limit}))
      slices == RequestedSlices(ranges)
  IN IF byte_limit = 0 THEN <<>> ELSE [i \in DOMAIN slices |-> cut(slices[i])]

\* The slices up to the byte limit; the last one may be cut.
retransmission_frames_for_ranges(ranges, byte_limit) ==
  LET push(acc, slice) ==
        LET len == Min({Length(slice), byte_limit - acc.emitted})
        IN IF len = 0 THEN acc
           ELSE [emitted |-> acc.emitted + len,
                 frames |-> Append(acc.frames, OffsetRange(slice.start, slice.start + len))]
  IN FoldLeft(push, [emitted |-> 0, frames |-> <<>>], RequestedSlices(ranges)).frames

-----------------------------------------------------------------------------
(* Properties *)

\* A recovery request returns exactly the first byte_limit retained bytes of
\* the ranges it names, each once and in order; the single-frame form returns
\* the first frame of the same request.
RetransmissionExact ==
  \A R \in AckRangeLists, limit \in 0 .. U64Max :
    LET frames == retransmission_frames_for_ranges(R, limit)
        wanted == Retained \cap Covered(R)
    IN /\ Covered(ToSet(frames)) \subseteq wanted
       /\ \A i, j \in DOMAIN frames : i < j => frames[i].end <= frames[j].start
       /\ Cardinality(Covered(ToSet(frames))) = Min({limit, Cardinality(wanted)})
       /\ \A b \in Covered(ToSet(frames)), w \in wanted :
            w < b => w \in Covered(ToSet(frames))
       /\ \A r \in R :
            retransmission_frames_for_ranges({r}, limit) # <<>>
              => first_retransmission_frame_for_range(r, limit)
                   = <<retransmission_frames_for_ranges({r}, limit)[1]>>
=============================================================================
