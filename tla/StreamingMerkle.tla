--------------------------- MODULE StreamingMerkle ---------------------------
(***************************************************************************)
(* The walk over an activity trail that checks every streaming-egress root *)
(* whose leaves are fully disclosed (streaming_merkle.rs).                 *)
(*                                                                         *)
(* An event is a record with a field "event".  NoValue stands for a field  *)
(* that is absent, null, or not of the type the walk reads: a seq that is  *)
(* not an unsigned integer, a chunk_hash that is not 128 hex characters.   *)
(***************************************************************************)
EXTENDS Merkle, FiniteSets

Started == [event |-> "streaming_egress_started"]
Chunk(seq, hash) ==
  [event |-> "streaming_egress_chunk", seq |-> seq, chunk_hash |-> hash]
Completed(total, root) ==
  [event |-> "streaming_egress_completed",
   total_chunks |-> total, streaming_merkle_root |-> root]

-----------------------------------------------------------------------------
(* StreamAccumulator: the leaves of the open stream in document order, and *)
(* whether one of them was unusable.                                       *)

\* Mutant: document order is taken for the order of the stream.
InDocumentOrder(chunks) == [p \in DOMAIN chunks |-> chunks[p].chunk_hash]

\* The chunk hashes in the stable order of their seq.
InSeqOrder(chunks) ==
  LET Before(j, k) == \/ chunks[j].seq < chunks[k].seq
                      \/ chunks[j].seq = chunks[k].seq /\ j < k
      rank == [k \in DOMAIN chunks |->
                 1 + Cardinality({j \in DOMAIN chunks : Before(j, k)})]
  IN  [p \in DOMAIN chunks |->
         chunks[CHOOSE k \in DOMAIN chunks : rank[k] = p].chunk_hash]

TotalChunks(acc, completed) ==
  IF completed.total_chunks = NoValue THEN Len(acc.chunks) ELSE completed.total_chunks

\* StreamAccumulator::close: what a completed event says of the open stream.
CloseStream(acc, completed) ==
  CASE completed.streaming_merkle_root = NoValue -> "none"
    [] completed.streaming_merkle_root # NoValue /\ acc.malformed -> "RequiredFieldMissing"
    [] completed.streaming_merkle_root # NoValue /\ ~acc.malformed ->
         IF Len(acc.chunks) # TotalChunks(acc, completed) THEN "none"   \* truncated: carried past
         ELSE IF completed.streaming_merkle_root = StreamRoot(InSeqOrder(acc.chunks))
                THEN "none" ELSE "StreamingMerkleRootMismatch"

-----------------------------------------------------------------------------
(* The walk.  A started and a completed event both empty the accumulator,  *)
(* so what a completed event closes is the chunks since the last of them.  *)

IsUsable(e) == e.event = "streaming_egress_chunk" /\ e.seq # NoValue /\ e.chunk_hash # NoValue
IsMalformed(e) == e.event = "streaming_egress_chunk" /\ ~IsUsable(e)

OpenedBefore(activity, c) ==
  LET resets == {i \in 1 .. c - 1 :
                   activity[i].event \in {"streaming_egress_started", "streaming_egress_completed"}}
  IN  CHOOSE i \in resets \cup {0} : \A j \in resets : j <= i

\* The k-th of a set of positions.
Nth(positions, k) == CHOOSE i \in positions : Cardinality({j \in positions : j <= i}) = k

\* The StreamAccumulator when the walk reaches event c.
AccumulatorAt(activity, c) ==
  LET since == OpenedBefore(activity, c) + 1 .. c - 1
      used  == {i \in since : IsUsable(activity[i])}
  IN  [chunks    |-> [k \in 1 .. Cardinality(used) |->
                        LET e == activity[Nth(used, k)]
                        IN  [seq |-> e.seq, chunk_hash |-> e.chunk_hash]],
       malformed |-> \E i \in since : IsMalformed(activity[i])]

FailureAt(activity, c) == CloseStream(AccumulatorAt(activity, c), activity[c])

\* The first stream that fails names the failure.
VerifyStreamingMerkleRoots(activity) ==
  LET failed == {c \in DOMAIN activity :
                   /\ activity[c].event = "streaming_egress_completed"
                   /\ FailureAt(activity, c) # "none"}
  IN  IF failed = {} THEN "none"
      ELSE FailureAt(activity, CHOOSE c \in failed : \A other \in failed : c <= other)
=============================================================================
