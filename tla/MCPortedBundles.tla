-------------------------- MODULE MCPortedBundles ---------------------------
(***************************************************************************)
(* Instances of PortedBundles for TLC: proofs of every version, with one,  *)
(* two and three receipts.                                                 *)
(***************************************************************************)
EXTENDS PortedBundles, TLC

CONSTANTS
  C1, C2,                   \* capsules
  T1,                       \* a timestamp
  I1, I2, I3, I4,           \* ids of records
  In, Out,                  \* hashes of inputs and outputs
  Tag,                      \* a declared pattern tag
  KNow, KOld, KForeign,     \* signing keys
  Plain                     \* OtherFields as issued

Body(id, out, tag) ==
  [record_id |-> id, record_input_hash |-> In, record_output_hash |-> out,
   record_activity_trail |-> NoValue, pattern_tag |-> tag]

B1 == Body(I1, Out, NoValue)
B2 == Body(I2, Out, Tag)
B3 == Body(I3, Out, NoValue)

\* Records no proof has, one of them without the hash of its output.
MCOtherBodies == {Body(I4, Out, NoValue), Body(I4, NoValue, NoValue)}

Capsule(version, capsule, bodies, key) ==
  [version |-> version, capsule |-> capsule, at |-> T1, activity |-> <<>>,
   receipts |-> bodies, parents |-> NoValue, record |-> NoValue, mode |-> NoValue,
   authority |-> "authority-a", key_version |-> "1", customer_authority |-> NoValue,
   key |-> key, legacy |-> FALSE]

Batch == Capsule("2.2", C1, <<B1, B2, B3>>, KNow)
Pair == [Capsule("2.1", C2, <<B1, B2>>, KNow) EXCEPT !.activity = <<[event |-> "network_allowed"]>>]
OldBatch == Capsule("1.0", C1, <<B1, B2, B3>>, KOld)
OldSingle == Capsule("1.0", C2, <<B3>>, KOld)
Untimed == [OldSingle EXCEPT !.legacy = TRUE]
Bare == Capsule("2.2", C1, NoValue, KNow)
SecondEra == Capsule("2.0", C1, <<B1, B2>>, KOld)

MCProfiles == {Batch, Pair, OldBatch, OldSingle, Untimed, Bare, SecondEra}
MCRecords == 0 .. 3
MCParseI64 == "1" :> 1
=============================================================================
