------------------------------ MODULE MCCosign ------------------------------
(* A small instance of CosignVerify for TLC. *)
EXTENDS CosignVerify, TLC

CONSTANTS
  k1, k2, i1, stranger,    (* keys, an identity, and nobody anyone knows   *)
  p, q,                    (* payloads                                     *)
  m1, m2, m3, m4

(* A signature by the second key, one by the identity, one by the stranger *)
(* that hints at the first key, and an attestation by the identity.        *)
KeyOrderM  == <<k1, k2>>
KindOfM    == [m \in {m1, m2, m3, m4} |->
                IF m = m4 THEN "ATTESTATION" ELSE "SIGNATURE"]
PayloadOfM == [m \in {m1, m2, m3, m4} |-> IF m = m4 THEN q ELSE p]
SignerOfM  == (m1 :> k2) @@ (m2 :> i1) @@ (m3 :> stranger) @@ (m4 :> i1)
HintOfM    == [m \in {m1, m2, m3, m4} |-> IF m = m3 THEN k1 ELSE Nobody]
=============================================================================
