---------------------------- MODULE EgressStreams ----------------------------
(***************************************************************************)
(* Streamed responses of one capsule, the one activity trail they write    *)
(* their events into, and the verifier's walk over that trail with its one *)
(* StreamAccumulator (streaming_merkle.rs, verify_streaming_merkle_roots). *)
(*                                                                         *)
(* The daemon that emits the events is not in this repository; it is       *)
(* modelled from what streaming_merkle.rs says of it: each stream's events *)
(* go out in order, and streams that are open together interleave.         *)
(***************************************************************************)
EXTENDS StreamingMerkle, Integers

CONSTANTS
  Streams,       \* the streamed responses
  ChunkHashes,   \* the hashes of the chunks that are sent
  Content,       \* per stream, the sequence of its chunk hashes
  OtherHash,     \* a well-formed chunk hash that is none of them
  MaxOpen,       \* how many streams the capsule has open at once
  MaxFaults,     \* bound: chunk events changed before the walk
  MaxOthers      \* bound: events of other kinds in the trail

ASSUME StreamsAssumption == NoValue \notin Streams
ASSUME ContentAssumption ==
  /\ Content \in [Streams -> Seq(ChunkHashes)]
  /\ NoValue \notin ChunkHashes /\ OtherHash \notin ChunkHashes /\ OtherHash # NoValue
\* A number and a root are never taken for a field that is absent.
ASSUME FieldsAssumption ==
  /\ NoValue \notin Nat
  /\ \A s \in Streams : \A n \in 0 .. Len(Content[s]) :
       StreamRoot(SubSeq(Content[s], 1, n)) # NoValue
ASSUME MaxOpenAssumption == MaxOpen \in Nat \ {0}
ASSUME BoundsAssumption == MaxFaults \in Nat /\ MaxOthers \in Nat

VARIABLES
  sent,       \* per stream: -1 before it starts, then the chunks sent; Closed at the end
  trail,      \* the activity trail, each event with the stream that wrote it
  faults,     \* chunk events changed since they were written
  stage,      \* "run", "sealed", "walk", "done"
  cursor,     \* the walk: events consumed so far
  acc,        \* the walk: the StreamAccumulator
  outcome     \* the walk: the first failure, or "none"

streamsVars == <<sent, trail, faults, stage, cursor, acc, outcome>>

NotStarted == -1
Closed == -2

EmptyAccumulator == [chunks |-> <<>>, malformed |-> FALSE]

StreamsInit ==
  /\ sent = [s \in Streams |-> NotStarted]
  /\ trail = <<>>
  /\ faults = 0
  /\ stage = "run"
  /\ cursor = 0
  /\ acc = EmptyAccumulator
  /\ outcome = "none"

-----------------------------------------------------------------------------
(* The capsule runs: streams start, send their chunks, complete.           *)

Other == [event |-> "network_allowed"]

Emit(s, event) == trail' = Append(trail, [by |-> s, event |-> event])

Open == {s \in Streams : sent[s] \notin {NotStarted, Closed}}

StartStream(s) ==
  /\ stage = "run"
  /\ sent[s] = NotStarted
  /\ Cardinality(Open) < MaxOpen
  /\ sent' = [sent EXCEPT ![s] = 0]
  /\ Emit(s, Started)
  /\ UNCHANGED <<faults, stage, cursor, acc, outcome>>

SendChunk(s) ==
  /\ stage = "run"
  /\ s \in Open
  /\ sent[s] < Len(Content[s])
  /\ sent' = [sent EXCEPT ![s] = @ + 1]
  /\ Emit(s, Chunk(sent[s], Content[s][sent[s] + 1]))
  /\ UNCHANGED <<faults, stage, cursor, acc, outcome>>

\* A stream may end early; the event commits to what was sent.
CompleteStream(s) ==
  /\ stage = "run"
  /\ s \in Open
  /\ sent' = [sent EXCEPT ![s] = Closed]
  /\ Emit(s, Completed(sent[s], StreamRoot(SubSeq(Content[s], 1, sent[s]))))
  /\ UNCHANGED <<faults, stage, cursor, acc, outcome>>

\* Something else happens in the capsule.
EmitOther ==
  /\ stage = "run"
  /\ Cardinality({i \in DOMAIN trail : trail[i].event = Other}) < MaxOthers
  /\ Emit(NoValue, Other)
  /\ UNCHANGED <<sent, faults, stage, cursor, acc, outcome>>

\* The capsule is destroyed, whatever is still open, and the proof issued.
Seal ==
  /\ stage = "run"
  /\ stage' = "sealed"
  /\ UNCHANGED <<sent, trail, faults, cursor, acc, outcome>>

-----------------------------------------------------------------------------
(* Between issue and walk.                                                 *)

ChunkEvents == {i \in DOMAIN trail : trail[i].event.event = "streaming_egress_chunk"}

Fault(t) ==
  /\ stage = "sealed"
  /\ faults < MaxFaults
  /\ faults' = faults + 1
  /\ trail' = t
  /\ UNCHANGED <<sent, stage, cursor, acc, outcome>>

\* A chunk hash reads differently, or is no hash at all.
AlterChunk == \E i \in ChunkEvents : Fault([trail EXCEPT ![i].event.chunk_hash = OtherHash])
SpoilChunk == \E i \in ChunkEvents : Fault([trail EXCEPT ![i].event.chunk_hash = NoValue])

\* A chunk event is not disclosed (truncation), or two of a stream are out of order.
DropChunk ==
  \E i \in ChunkEvents :
    Fault(SubSeq(trail, 1, i - 1) \o SubSeq(trail, i + 1, Len(trail)))
MoveChunk ==
  \E i, j \in ChunkEvents :
    i < j /\ trail[i].by = trail[j].by /\ Fault([trail EXCEPT ![i] = trail[j], ![j] = trail[i]])

Submit ==
  /\ stage = "sealed"
  /\ stage' = "walk"
  /\ UNCHANGED <<sent, trail, faults, cursor, acc, outcome>>

-----------------------------------------------------------------------------
(* The walk, one event a step.                                             *)

Current == trail[cursor + 1].event

Consume(kind) ==
  /\ stage = "walk"
  /\ cursor < Len(trail)
  /\ Current.event = kind
  /\ cursor' = cursor + 1
  /\ UNCHANGED <<sent, trail, faults>>

\* Mutant: a started event keeps the leaves.
WalkStartedKeeping ==
  /\ Consume("streaming_egress_started")
  /\ UNCHANGED <<acc, stage, outcome>>

WalkStarted ==
  /\ Consume("streaming_egress_started")
  /\ acc' = EmptyAccumulator
  /\ UNCHANGED <<stage, outcome>>

\* An unusable leaf is flagged, never dropped.
WalkChunk ==
  /\ Consume("streaming_egress_chunk")
  /\ \/ /\ IsUsable(Current)
        /\ acc' = [acc EXCEPT !.chunks =
                     Append(@, [seq |-> Current.seq, chunk_hash |-> Current.chunk_hash])]
     \/ /\ IsMalformed(Current)
        /\ acc' = [acc EXCEPT !.malformed = TRUE]
  /\ UNCHANGED <<stage, outcome>>

\* The accumulator is closed and checked; the first failure ends the walk.
WalkCompleted ==
  LET fault == CloseStream(acc, Current)
  IN  /\ Consume("streaming_egress_completed")
      /\ outcome' = fault
      /\ \/ fault # "none" /\ stage' = "done" /\ UNCHANGED acc
         \/ fault = "none" /\ acc' = EmptyAccumulator /\ UNCHANGED stage

\* Events of any other kind are ignored.
WalkOther == Consume(Other.event) /\ UNCHANGED <<acc, stage, outcome>>

WalkEnd ==
  /\ stage = "walk"
  /\ cursor = Len(trail)
  /\ stage' = "done"
  /\ UNCHANGED <<sent, trail, faults, cursor, acc, outcome>>

Done == stage = "done" /\ UNCHANGED streamsVars

StreamsNext ==
  \/ \E s \in Streams : StartStream(s) \/ SendChunk(s) \/ CompleteStream(s)
  \/ EmitOther \/ Seal \/ AlterChunk \/ SpoilChunk \/ DropChunk \/ MoveChunk \/ Submit
  \/ WalkStarted \/ WalkChunk \/ WalkCompleted \/ WalkOther \/ WalkEnd \/ Done

StreamsSpec == StreamsInit /\ [][StreamsNext]_streamsVars

-----------------------------------------------------------------------------
(* Properties.                                                             *)

Events == [i \in DOMAIN trail |-> trail[i].event]

ChunkEventsOf(s) == {i \in ChunkEvents : trail[i].by = s}

\* A disclosed leaf that is not the one its stream sent.
Altered(i) ==
  LET e == trail[i].event IN e.chunk_hash # Content[trail[i].by][e.seq + 1]

\* The stream committed to a root, and every leaf it committed to is shown.
FullyDisclosed(s) ==
  \E i \in DOMAIN trail :
    /\ trail[i].by = s
    /\ trail[i].event.event = "streaming_egress_completed"
    /\ trail[i].event.total_chunks = Cardinality(ChunkEventsOf(s))

\* No event of one stream stands between two of another.
OneAtATime ==
  \A i, k \in DOMAIN trail : i < k /\ trail[i].by = trail[k].by /\ trail[i].by # NoValue =>
    \A j \in i .. k : trail[j].by \in {trail[i].by, NoValue}

\* streaming_merkle.rs, 164-169: where streams do not overlap, the leaves decide.
\* A trail no leaf of which was altered passes, truncated or not, in whatever
\* order the chunk events of a stream stand; an altered leaf of a fully
\* disclosed stream, or an unusable one of a completed stream, is caught.
\* Of streams that overlap it says nothing: the code refuses some that nobody altered.
LeavesDecide ==
  stage = "done" /\ OneAtATime =>
    /\ (\A i \in ChunkEvents : ~Altered(i)) => outcome = "none"
    /\ \A s \in Streams : \A i \in ChunkEventsOf(s) :
         Altered(i) /\ (FullyDisclosed(s) \/ (sent[s] = Closed /\ IsMalformed(trail[i].event)))
           => outcome # "none"

\* The walk with its one mutable accumulator computes what the ladder of
\* AuditProof takes it to compute, on every trail, interleaved ones included.
WalkIsItsDefinition == stage = "done" => outcome = VerifyStreamingMerkleRoots(Events)
=============================================================================
