---------------------------- MODULE CosignVerify ----------------------------
(***************************************************************************)
(* One call of Verify of the Cosign adapter                                *)
(* (internal/platform/scanner/cosign/cosign.go): it downloads what is      *)
(* attached to an artifact, checks every attachment against the candidate  *)
(* keys itself, and runs Cosign once more for every candidate identity and *)
(* attachment still unverified.  Each of these runs reads the registry     *)
(* again and needs services that may be out of reach, and its output names *)
(* payloads, not signatures.                                               *)
(*                                                                         *)
(* Material stands for the signatures and attestations that may be         *)
(* attached.  Who signed one is a fact of the module; the adapter learns   *)
(* it only through a key that verifies it or through Cosign's output.      *)
(***************************************************************************)
EXTENDS Naturals, FiniteSets, Sequences

CONSTANTS
  Material,     (* signatures and attestations                             *)
  KindOf,       (* "SIGNATURE" or "ATTESTATION"                            *)
  PayloadOf,    (* what was signed; many signatures may sign the same      *)
  SignerOf,     (* the key or identity that signed it                      *)
  HintOf,       (* the key its hint names, or Nobody                       *)
  KeyOrder,     (* the known keys in the order of their fingerprints       *)
  Identities,   (* the known keyless identities                            *)
  Nobody

Keys    == {KeyOrder[i] : i \in DOMAIN KeyOrder}
Kinds   == {"SIGNATURE", "ATTESTATION"}
Signatories == {SignerOf[m] : m \in Material}

ASSUME CosignAssumption ==
  /\ KeyOrder \in Seq(Keys)
  /\ KindOf \in [Material -> Kinds]
  /\ DOMAIN PayloadOf = Material /\ DOMAIN SignerOf = Material
  /\ HintOf \in [Material -> Keys \cup {Nobody}]
  /\ Keys \cap Identities = {}
  /\ Nobody \notin Keys \cup Identities \cup Signatories

VARIABLES
  attached,    (* what the registry holds for the artifact                 *)
  reachable,   (* whether Rekor, Fulcio and the registry answer            *)
  call,        (* the call under way                                       *)
  changed,     (* something was attached since the call began              *)
  unanswered   (* attachments a check of which failed for want of answer   *)

cosignVars == <<attached, reachable, call, changed, unanswered>>

VerifyCall == [step       : {"idle", "signatures", "attestations", "keys",
                       "identities", "done", "failed"},
         keys       : SUBSET Keys,
         identities : SUBSET Identities,
         left       : SUBSET Identities,     (* not yet tried              *)
         found      : SUBSET Material,
         verifiedBy : [Material -> Keys \cup Identities \cup {Nobody}],
         invalidBy  : [Material -> Keys \cup {Nobody}],
         identity   : Identities \cup {Nobody},
         todo       : SUBSET Material]

ByNobody == [m \in Material |-> Nobody]

NoCall == [step |-> "idle", keys |-> {}, identities |-> {}, left |-> {},
           found |-> {}, verifiedBy |-> ByNobody, invalidBy |-> ByNobody,
           identity |-> Nobody, todo |-> {}]

CosignTypeOK ==
  /\ attached \subseteq Material
  /\ reachable \in BOOLEAN /\ changed \in BOOLEAN
  /\ call \in VerifyCall
  /\ unanswered \subseteq Material

CosignInit ==
  /\ attached \in SUBSET Material
  /\ reachable = TRUE
  /\ call = NoCall
  /\ changed = FALSE
  /\ unanswered = {}

-----------------------------------------------------------------------------
(* Outside the adapter.                                                    *)

Attach(m) ==
  /\ m \notin attached
  /\ attached' = attached \cup {m}
  /\ changed' = TRUE
  /\ UNCHANGED <<reachable, call, unanswered>>

Outage ==
  /\ reachable' = ~reachable
  /\ UNCHANGED <<attached, call, changed, unanswered>>

-----------------------------------------------------------------------------
(* The input is the candidates of ResolveVerificationJob.  The scratch     *)
(* directory, the token's configuration and the version come first.        *)
StartVerify(keys, identities) ==
  /\ call.step = "idle"
  /\ call' = [NoCall EXCEPT !.step = "signatures", !.keys = keys,
                            !.identities = identities,
                            !.left = identities]
  /\ changed' = FALSE
  /\ UNCHANGED <<attached, reachable, unanswered>>

(* Any other error than "none attached" ends the call; what is attached    *)
(* once by two records counts once.                                        *)
OfKind(set, kind) == {m \in set : KindOf[m] = kind}

DownloadSignatures ==
  /\ call.step = "signatures"
  /\ reachable
  /\ call' = [call EXCEPT !.step = "attestations",
                          !.found = OfKind(attached, "SIGNATURE")]
  /\ UNCHANGED <<attached, reachable, changed, unanswered>>

(* Variant: nothing attached of one kind ends the discovery. *)
DownloadUnlessNone ==
  /\ call.step = "attestations"
  /\ reachable
  /\ call' = [call EXCEPT !.step = "keys",
                !.found = IF @ = {} THEN @
                          ELSE @ \cup OfKind(attached, "ATTESTATION")]
  /\ UNCHANGED <<attached, reachable, changed, unanswered>>

DownloadAttestations ==
  /\ call.step = "attestations"
  /\ reachable
  /\ call' = [call EXCEPT !.step = "keys",
                          !.found = @ \cup OfKind(attached, "ATTESTATION")]
  /\ UNCHANGED <<attached, reachable, changed, unanswered>>

(* The tool or its output fails, for good or until the job is retried. *)
VerifyFails ==
  /\ call.step \in {"signatures", "attestations"}
  /\ call' = [NoCall EXCEPT !.step = "failed"]
  /\ UNCHANGED <<attached, reachable, changed, unanswered>>

-----------------------------------------------------------------------------
(* Candidate keys, in the order of their fingerprints: the first one that  *)
(* verifies the attachment, or that its hint names, decides.               *)

Deciding(m) ==
  {i \in DOMAIN KeyOrder :
     KeyOrder[i] \in call.keys /\ KeyOrder[i] \in {SignerOf[m], HintOf[m]}}

FirstDeciding(m) ==
  KeyOrder[CHOOSE i \in Deciding(m) : \A j \in Deciding(m) : i <= j]

(* Variant: the hint alone is believed. *)
KeyVerifiesHinted(m) == Deciding(m) # {}

KeyVerifies(m) == Deciding(m) # {} /\ FirstDeciding(m) = SignerOf[m]
KeyRefutes(m)  == Deciding(m) # {} /\ FirstDeciding(m) # SignerOf[m]

TryKeys ==
  /\ call.step = "keys"
  /\ call' = [call EXCEPT
       !.step = "identities",
       !.verifiedBy = [m \in Material |->
         IF m \in call.found /\ KeyVerifies(m)
         THEN FirstDeciding(m) ELSE Nobody],
       !.invalidBy = [m \in Material |->
         IF m \in call.found /\ KeyRefutes(m)
         THEN FirstDeciding(m) ELSE Nobody]]
  /\ UNCHANGED <<attached, reachable, changed, unanswered>>

-----------------------------------------------------------------------------
(* Candidate identities, one after the other: signatures first, then       *)
(* attestations, each attachment that nothing has verified.                *)

Unverified == {m \in call.found : call.verifiedBy[m] = Nobody}

NextIdentity(i) ==
  /\ call.step = "identities" /\ call.todo = {}
  /\ i \in call.left
  /\ call' = [call EXCEPT !.identity = i, !.left = @ \ {i},
                          !.todo = Unverified]
  /\ UNCHANGED <<attached, reachable, changed, unanswered>>

Due(m) ==
  /\ call.step = "identities"
  /\ m \in call.todo
  /\ KindOf[m] = "SIGNATURE" \/ OfKind(call.todo, "SIGNATURE") = {}

SamePayload(m, n) == KindOf[m] = KindOf[n] /\ PayloadOf[m] = PayloadOf[n]

(* What the command prints: the payloads of that kind the identity signed, *)
(* of all that is attached now.                                            *)
Printed(i, m) == \E n \in attached : SignerOf[n] = i /\ SamePayload(m, n)

(* Variant: a printed payload verifies the first attachment that has it. *)
MatchesAny(i, m) == Printed(i, m)

(* Only the one unverified attachment with the payload can be meant. *)
UniquelyMatches(i, m) ==
  /\ Printed(i, m)
  /\ \A n \in Unverified : SamePayload(m, n) => n = m

CheckIdentity(m) ==
  /\ Due(m)
  /\ reachable
  /\ call' = [call EXCEPT
       !.todo = @ \ {m},
       !.verifiedBy[m] = IF UniquelyMatches(call.identity, m)
                         THEN call.identity ELSE @]
  /\ UNCHANGED <<attached, reachable, changed, unanswered>>

(* An error of the run is passed over; there is no telling an outage from  *)
(* an identity that has signed nothing.                                    *)
CheckUnanswered(m) ==
  /\ Due(m)
  /\ ~reachable
  /\ call' = [call EXCEPT !.todo = @ \ {m}]
  /\ unanswered' = unanswered \cup {m}
  /\ UNCHANGED <<attached, reachable, changed>>

FinishVerify ==
  /\ call.step = "identities"
  /\ call.todo = {} /\ call.left = {}
  /\ call' = [call EXCEPT !.step = "done", !.identity = Nobody]
  /\ UNCHANGED <<attached, reachable, changed, unanswered>>

(* The state of the evidence returned for an attachment. *)
CryptoState(m) ==
  IF call.verifiedBy[m] # Nobody THEN "VALID"
  ELSE IF call.invalidBy[m] # Nobody THEN "INVALID"
  ELSE "UNVERIFIED"

CosignNext ==
  \/ \E m \in Material : Attach(m)
  \/ Outage
  \/ \E keys \in SUBSET Keys, identities \in SUBSET Identities :
       StartVerify(keys, identities)
  \/ DownloadSignatures \/ DownloadAttestations \/ VerifyFails \/ TryKeys
  \/ \E i \in Identities : NextIdentity(i)
  \/ \E m \in Material : CheckIdentity(m) \/ CheckUnanswered(m)
  \/ FinishVerify

CosignSpec == CosignInit /\ [][CosignNext]_cosignVars

-----------------------------------------------------------------------------
Returned(m) == call.step = "done" /\ m \in call.found

(* Whatever is pushed while the call runs, an artifact's evidence is VALID *)
(* under a signer only if that signer has signed that very payload for it  *)
(* (verifyCandidate matches payloads, not signatures).                     *)
CreditedSigned ==
  \A m \in Material : Returned(m) /\ CryptoState(m) = "VALID" =>
    \E n \in attached :
      SamePayload(m, n) /\ SignerOf[n] = call.verifiedBy[m]

(* If nothing was pushed meanwhile, VALID names the signer of this very    *)
(* signature and of no other one that has the same payload: the reason for *)
(* uniquelyMatchesJSON.                                                    *)
ValidSignerExact ==
  \A m \in Material :
    Returned(m) /\ ~changed /\ CryptoState(m) = "VALID" =>
      call.verifiedBy[m] = SignerOf[m]

(* VALID evidence is right, with or without a push during the call. *)
EvidenceExact == CreditedSigned /\ ValidSignerExact

(* A call that no push and no outage disturbed overlooks nothing: what a   *)
(* candidate key has signed is not left UNVERIFIED, and what a candidate   *)
(* identity has signed is VALID unless another attachment that nothing     *)
(* verifies has the same payload (Verify, verifyCandidate).                *)
NothingOverlooked ==
  call.step = "done" /\ ~changed /\ unanswered = {} =>
    \A m \in attached :
      /\ SignerOf[m] \in call.keys => CryptoState(m) # "UNVERIFIED"
      /\ SignerOf[m] \in call.identities =>
           \/ CryptoState(m) = "VALID"
           \/ \E n \in Unverified : n # m /\ SamePayload(m, n)

(* D-008: "Dependency or transparency-service unavailability is            *)
(* represented separately."  An attachment is not returned as UNVERIFIED   *)
(* if a check of it got no answer (the continue on err of verifyCandidate).*)
UnavailableShown ==
  \A m \in unanswered : Returned(m) => CryptoState(m) # "UNVERIFIED"
=============================================================================
