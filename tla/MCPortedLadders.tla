--------------------------- MODULE MCPortedLadders ---------------------------
(***************************************************************************)
(* Instances of PortedLadders for TLC, with every property of the ladder:  *)
(* the profiles and changes of MCAuditProof, under policies with and       *)
(* without a manifest.                                                     *)
(***************************************************************************)
EXTENDS MCAuditProof, PortedLadders

\* Both pins at once show which of them is looked at first; the last record
\* repeats the line an odd level of its tree would pair with itself.
MCLadderPolicies ==
  {Asks(NoValue, NoValue, NoValue, NoValue),
   Asks("customer-hsm", R2, NoValue, NoValue),
   Asks("customer-hsm", R1, <<L1, L2, L3>>, NoValue),
   Asks(NoValue, R1, <<L1, L2>>, NoValue),
   Asks(NoValue, NoValue, NoValue, Manifest),
   Asks(NoValue, R2, NoValue, Manifest),
   Asks("customer-hsm", R1, <<L1, L2, L3>>, Manifest),
   Asks(NoValue, NoValue, <<L1, L2, L3, L3>>, Manifest)}
=============================================================================
