--------------------------- MODULE VerifierOutcome ---------------------------
(***************************************************************************)
(* What a verifier promises its reader, whatever it looks at on the way:   *)
(* one of four answers, final once given, which never says more than holds *)
(* of the document and never less of a document nobody changed.            *)
(*                                                                         *)
(* "integrity" (stage 7) and "authentic" (stage 8) are different claims,   *)
(* and "unsigned" (chain reproduced, no signature) is neither.             *)
(***************************************************************************)
EXTENDS Optional

VARIABLES
  received,  \* whether there is a document in front of the verifier
  facts,     \* what holds of it
  outcome    \* the answer, NoValue until it is given

vars == <<received, facts, outcome>>

Facts ==
  [genuine  : BOOLEAN,    \* as issued, and all the reader asks of it holds of it
   signed   : BOOLEAN,    \* it carries a signature and a key
   anchored : BOOLEAN,    \* the reader supplied a trust-chain manifest
   vouched  : BOOLEAN]    \* a standing authority of that manifest signed its message

Init ==
  /\ ~received
  /\ facts = NoValue
  /\ outcome = NoValue

Receive ==
  /\ ~received
  /\ received'
  /\ facts' \in Facts
  /\ UNCHANGED outcome

Answer(o) ==
  /\ received
  /\ outcome = NoValue
  /\ outcome' = o
  /\ UNCHANGED <<received, facts>>

Fail         == Answer("failed") /\ ~facts.genuine
Partial      == Answer("unsigned") /\ ~facts.signed
Integrity    == Answer("integrity") /\ facts.signed /\ ~facts.anchored
Authenticity == Answer("authentic") /\ facts.signed /\ facts.anchored /\ facts.vouched

Next == Receive \/ Fail \/ Partial \/ Integrity \/ Authenticity

\* A document that was handed in is answered; none need ever be handed in.
Answered == received ~> outcome # NoValue

Spec == Init /\ [][Next]_vars /\ Answered
=============================================================================
