------------------------ MODULE MCAuthorityRotation -------------------------
(***************************************************************************)
(* Instances of AuthorityRotation for TLC: two versions over two seconds.  *)
(***************************************************************************)
EXTENDS AuthorityRotation

\* Times that sort, as strings, the way the instants do, or sort a proof early.
MCComparable == {<<"second", "second">>, <<"milli", "milli">>, <<"milli", "second">>}

\* Proofs in whole seconds, a manifest with fractions.
MCMixed == {<<"second", "milli">>}
=============================================================================
