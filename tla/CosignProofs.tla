---------------------------- MODULE CosignProofs ----------------------------
(***************************************************************************)
(* Proofs about module CosignVerify, for any attachments, keys, identities *)
(* and signers.                                                            *)
(***************************************************************************)
EXTENDS CosignVerify, WellFoundedInduction, TLAPS

(* What was found is attached, and is all of it unless something was       *)
(* attached since.                                                         *)
FoundOK ==
  /\ call.found \subseteq attached
  /\ call.step = "attestations" /\ ~changed
       => call.found = OfKind(attached, "SIGNATURE")
  /\ call.step \in {"keys", "identities", "done"} /\ ~changed
       => call.found = attached

(* An attachment is credited to one who signed its payload; to its own     *)
(* signer if nothing came in between; and to an identity only when no      *)
(* other one with its payload was left to be verified.                     *)
VerifiedOK(m) ==
  call.verifiedBy[m] # Nobody =>
    /\ m \in call.found
    /\ \E n \in attached :
         SamePayload(m, n) /\ SignerOf[n] = call.verifiedBy[m]
    /\ ~changed => call.verifiedBy[m] = SignerOf[m]
    /\ call.verifiedBy[m] \in Identities =>
         \A n \in call.found : SamePayload(m, n) => call.verifiedBy[n] # Nobody

TodoOK ==
  /\ call.todo \subseteq Unverified
  /\ call.todo # {} => call.step = "identities" /\ call.identity \in Identities
  /\ call.step = "done" => call.left = {}
  /\ call.step \in {"idle", "signatures", "attestations", "keys"}
       => call.verifiedBy = ByNobody /\ call.left = call.identities

(* Two unverified attachments with one payload hide each other. *)
Hidden(m) == \E n \in Unverified : n # m /\ SamePayload(m, n)

(* The signer of an attachment is an identity that was tried on it, and    *)
(* every run so far got its answer.                                        *)
Answered(m) ==
  /\ SignerOf[m] \in call.identities \ call.left
  /\ m \notin call.todo \/ SignerOf[m] # call.identity
  /\ unanswered = {}

(* Keys decide about what they have signed; an identity that was tried has *)
(* verified what it signed, or could not tell it from another one.         *)
TriedOK(m) ==
  call.step \in {"identities", "done"} /\ m \in call.found =>
    /\ SignerOf[m] \in call.keys =>
         call.verifiedBy[m] # Nobody \/ call.invalidBy[m] # Nobody
    /\ Answered(m) => call.verifiedBy[m] # Nobody \/ Hidden(m)

CosignInv ==
  /\ CosignTypeOK
  /\ FoundOK /\ TodoOK
  /\ \A m \in Material : VerifiedOK(m) /\ TriedOK(m)

-----------------------------------------------------------------------------
LEMMA LeastIndex ==
  ASSUME NEW T \in SUBSET Nat, T # {}
  PROVE  \E x \in T : \A y \in T : x <= y
  <1> DEFINE R == OpToRel(<, Nat)
  <1>1. IsWellFoundedOn(R, Nat)
    BY NatLessThanWellFounded
  <1>2. \A x, y \in Nat : x < y => <<x, y>> \in R
    BY DEF OpToRel
  <1> HIDE DEF R
  <1>3. PICK x \in T : \A y \in T : ~ (<<y, x>> \in R)
    BY <1>1, WFMin
  <1>4. ASSUME NEW y \in T PROVE x <= y
    <2>1. ~(y < x)
      BY <1>2, <1>3
    <2>2. x \in Nat /\ y \in Nat
      OBVIOUS
    <2>3. QED
      BY <2>1, <2>2
  <1>5. QED
    BY <1>4

(* The key that decides about an attachment is one of the candidates.      *)
LEMMA DecidingKey ==
  ASSUME NEW m \in Material, Deciding(m) # {}
  PROVE  FirstDeciding(m) \in Keys /\ FirstDeciding(m) # Nobody
  <1> DEFINE least == CHOOSE i \in Deciding(m) : \A j \in Deciding(m) : i <= j
  <1>1. DOMAIN KeyOrder \subseteq Nat
    BY CosignAssumption
  <1>2. Deciding(m) \in SUBSET Nat
    BY <1>1 DEF Deciding
  <1>3. \E i \in Deciding(m) : \A j \in Deciding(m) : i <= j
    BY <1>2, LeastIndex
  <1>4. least \in Deciding(m)
    BY <1>3
  <1> HIDE DEF least
  <1>5. KeyOrder[least] \in Keys
    BY <1>4 DEF Deciding, Keys
  <1>6. FirstDeciding(m) = KeyOrder[least]
    BY DEF FirstDeciding, least
  <1>7. QED
    BY <1>5, <1>6, CosignAssumption

(* A candidate key always decides about what it has signed.                *)
LEMMA SignerDecides ==
  ASSUME NEW m \in Material, SignerOf[m] \in call.keys, call.keys \subseteq Keys
  PROVE  Deciding(m) # {}
BY DEF Deciding, Keys

(* A call that has found nothing yet satisfies the rest trivially.         *)
LEMMA NothingFound ==
  ASSUME CosignTypeOK, call.step \in {"idle", "signatures", "failed"},
         call.found = {}, call.todo = {}, call.verifiedBy = ByNobody,
         call.left = call.identities
  PROVE  CosignInv
BY DEF CosignInv, FoundOK, TodoOK, VerifiedOK, TriedOK, Unverified, ByNobody

LEMMA NoCallFields ==
  /\ NoCall \in VerifyCall /\ NoCall.step = "idle" /\ NoCall.found = {}
  /\ NoCall.todo = {} /\ NoCall.verifiedBy = ByNobody
  /\ NoCall.left = NoCall.identities
BY DEF NoCall, VerifyCall, ByNobody

LEMMA CosignStart == CosignInit => CosignInv
  <1> SUFFICES ASSUME CosignInit PROVE CosignInv
    OBVIOUS
  <1>1. CosignTypeOK
    BY NoCallFields DEF CosignInit, CosignTypeOK
  <1>2. QED
    BY <1>1, NoCallFields, NothingFound DEF CosignInit

-----------------------------------------------------------------------------
(* The registry and its services.                                          *)
LEMMA OutsideKeeps ==
  ASSUME CosignInv, Outage \/ \E m \in Material : Attach(m)
  PROVE  CosignInv'
  <1>1. /\ UNCHANGED <<call, unanswered>> /\ attached \subseteq attached'
        /\ CosignTypeOK'
        /\ ~changed' => ~changed /\ attached' = attached
    BY DEF Outage, Attach, CosignInv, CosignTypeOK
  <1>2. FoundOK'
    BY <1>1 DEF CosignInv, FoundOK, OfKind
  <1>3. TodoOK'
    BY <1>1 DEF CosignInv, TodoOK, Unverified
  <1>4. ASSUME NEW m \in Material PROVE VerifiedOK(m)' /\ TriedOK(m)'
    BY <1>1 DEF CosignInv, VerifiedOK, TriedOK, Answered, Hidden, Unverified, SamePayload
  <1>5. QED
    BY <1>1, <1>2, <1>3, <1>4 DEF CosignInv

(* The start, the downloads and an error.                                  *)
LEMMA DiscoveryKeeps ==
  ASSUME CosignInv,
         \/ \E keys \in SUBSET Keys, identities \in SUBSET Identities :
              StartVerify(keys, identities)
         \/ DownloadSignatures \/ DownloadAttestations \/ VerifyFails
  PROVE  CosignInv'
  <1>1. CosignTypeOK /\ FoundOK /\ TodoOK
    BY DEF CosignInv
  <1>2. CASE \E keys \in SUBSET Keys, identities \in SUBSET Identities :
               StartVerify(keys, identities)
    <2>1. PICK keys \in SUBSET Keys, identities \in SUBSET Identities :
            StartVerify(keys, identities)
      BY <1>2
    <2>2. /\ call' = [NoCall EXCEPT !.step = "signatures", !.keys = keys,
                         !.identities = identities, !.left = identities]
          /\ changed' = FALSE /\ UNCHANGED <<attached, reachable, unanswered>>
      BY <2>1 DEF StartVerify
    <2>3. /\ call' \in VerifyCall /\ call'.step = "signatures"
          /\ call'.found = {} /\ call'.todo = {}
          /\ call'.verifiedBy = ByNobody /\ call'.left = call'.identities
      BY <2>2, NoCallFields DEF VerifyCall
    <2>4. CosignTypeOK'
      BY <1>1, <2>2, <2>3 DEF CosignTypeOK
    <2>5. QED
      BY <2>3, <2>4
         DEF CosignInv, FoundOK, TodoOK, VerifiedOK, TriedOK, Answered, Unverified,
             ByNobody
  <1>3. CASE VerifyFails
    <2>1. /\ call' = [NoCall EXCEPT !.step = "failed"]
          /\ UNCHANGED <<attached, reachable, changed, unanswered>>
      BY <1>3 DEF VerifyFails
    <2>2. /\ call' \in VerifyCall /\ call'.step = "failed"
          /\ call'.found = {} /\ call'.todo = {}
          /\ call'.verifiedBy = ByNobody /\ call'.left = call'.identities
      BY <2>1, NoCallFields DEF VerifyCall
    <2>3. CosignTypeOK'
      BY <1>1, <2>1, <2>2 DEF CosignTypeOK
    <2>4. QED
      BY <2>2, <2>3
         DEF CosignInv, FoundOK, TodoOK, VerifiedOK, TriedOK, Answered, Unverified,
             ByNobody
  <1>4. ASSUME DownloadSignatures \/ DownloadAttestations
        PROVE  /\ call \in VerifyCall /\ call.todo = {}
               /\ call.left = call.identities
               /\ call.verifiedBy = ByNobody
               /\ ByNobody \in [Material -> Keys \cup Identities \cup {Nobody}]
    BY <1>1, <1>4
       DEF CosignTypeOK, TodoOK, DownloadSignatures, DownloadAttestations,
           ByNobody
  <1>5. CASE DownloadSignatures
    <2>1. /\ call' \in VerifyCall
          /\ call'.step = "attestations" /\ call'.verifiedBy = ByNobody
          /\ call'.found = OfKind(attached, "SIGNATURE")
          /\ call'.todo = {} /\ call'.left = call'.identities
          /\ UNCHANGED <<attached, reachable, changed, unanswered>>
      BY <1>1, <1>4, <1>5
         DEF DownloadSignatures, VerifyCall, OfKind, CosignTypeOK
    <2>2. QED
      BY <1>1, <2>1
         DEF CosignInv, CosignTypeOK, FoundOK, TodoOK, VerifiedOK, TriedOK,
             Unverified, ByNobody, OfKind
  <1>6. CASE DownloadAttestations
    <2>1. /\ call' \in VerifyCall
          /\ call'.step = "keys" /\ call'.verifiedBy = ByNobody
          /\ call'.found = call.found \cup OfKind(attached, "ATTESTATION")
          /\ call'.todo = {} /\ call'.left = call'.identities
          /\ call.step = "attestations"
          /\ UNCHANGED <<attached, reachable, changed, unanswered>>
      BY <1>1, <1>4, <1>6
         DEF DownloadAttestations, VerifyCall, OfKind, CosignTypeOK
    <2>2. OfKind(attached, "SIGNATURE") \cup OfKind(attached, "ATTESTATION")
            = attached
      BY <1>1, CosignAssumption DEF OfKind, Kinds, CosignTypeOK
    <2>3. FoundOK'
      BY <1>1, <2>1, <2>2 DEF FoundOK, OfKind
    <2>4. QED
      BY <1>1, <2>1, <2>3
         DEF CosignInv, CosignTypeOK, TodoOK, VerifiedOK, TriedOK,
             Unverified, ByNobody
  <1>7. QED
    BY <1>2, <1>3, <1>5, <1>6

(* The keys are tried on everything at once.                               *)
LEMMA KeysKeep == CosignInv /\ TryKeys => CosignInv'
  <1> SUFFICES ASSUME CosignInv, TryKeys PROVE CosignInv'
    OBVIOUS
  <1>1. CosignTypeOK /\ FoundOK /\ TodoOK
    BY DEF CosignInv
  <1>2. \A m \in Material : Deciding(m) # {} =>
          FirstDeciding(m) \in Keys /\ FirstDeciding(m) # Nobody
    BY DecidingKey
  <1>3. PICK by : by = [m \in Material |->
                          IF m \in call.found /\ KeyVerifies(m)
                          THEN FirstDeciding(m) ELSE Nobody]
    OBVIOUS
  <1>4. PICK refuted : refuted = [m \in Material |->
                          IF m \in call.found /\ KeyRefutes(m)
                          THEN FirstDeciding(m) ELSE Nobody]
    OBVIOUS
  <1>5. /\ by \in [Material -> Keys \cup Identities \cup {Nobody}]
        /\ refuted \in [Material -> Keys \cup {Nobody}]
    BY <1>2, <1>3, <1>4 DEF KeyVerifies, KeyRefutes
  <1>6. /\ call.step = "keys"
        /\ call' = [call EXCEPT !.step = "identities", !.verifiedBy = by,
                                !.invalidBy = refuted]
        /\ UNCHANGED <<attached, reachable, changed, unanswered>>
    BY <1>3, <1>4 DEF TryKeys
  <1>7. /\ call' \in VerifyCall
        /\ call'.step = "identities" /\ call'.found = call.found
        /\ call'.keys = call.keys /\ call'.identities = call.identities
        /\ call'.left = call.left /\ call'.todo = call.todo
        /\ call'.verifiedBy = by /\ call'.invalidBy = refuted
    BY <1>1, <1>5, <1>6 DEF VerifyCall, CosignTypeOK
  <1>8. /\ call.todo = {} /\ call.keys \subseteq Keys
        /\ call.left = call.identities
    BY <1>1, <1>6 DEF TodoOK, CosignTypeOK, VerifyCall
  <1>9. \A m \in Material : by[m] # Nobody =>
          m \in call.found /\ by[m] = SignerOf[m] /\ by[m] \in Keys
    BY <1>2, <1>3 DEF KeyVerifies
  <1>10. FoundOK'
    BY <1>1, <1>6, <1>7 DEF FoundOK, OfKind
  <1>11. TodoOK'
    BY <1>7, <1>8 DEF TodoOK
  <1>12. ASSUME NEW m \in Material PROVE VerifiedOK(m)'
    <2>1. SamePayload(m, m) /\ call.found \subseteq attached
      BY <1>1 DEF SamePayload, FoundOK
    <2>2. QED
      BY <1>6, <1>7, <1>9, <2>1, CosignAssumption DEF VerifiedOK
  <1>13. ASSUME NEW m \in Material PROVE TriedOK(m)'
    <2> SUFFICES ASSUME m \in call.found
                 PROVE  TriedOK(m)'
      BY <1>7 DEF TriedOK, Answered
    <2>1. ASSUME SignerOf[m] \in call.keys
          PROVE  by[m] # Nobody \/ refuted[m] # Nobody
      <3>1. Deciding(m) # {}
        BY <1>8, <2>1, SignerDecides
      <3>2. FirstDeciding(m) # Nobody /\ (KeyVerifies(m) \/ KeyRefutes(m))
        BY <1>2, <3>1 DEF KeyVerifies, KeyRefutes
      <3>3. QED
        BY <1>3, <1>4, <3>2
    <2>2. QED
      BY <1>6, <1>7, <1>8, <2>1 DEF TriedOK, Answered
  <1>14. QED
    BY <1>1, <1>6, <1>7, <1>10, <1>11, <1>12, <1>13 DEF CosignInv, CosignTypeOK

-----------------------------------------------------------------------------
(* The next identity has everything that is still unverified before it.    *)
LEMMA NextKeeps ==
  ASSUME CosignInv, NEW i \in Identities, NextIdentity(i)
  PROVE  CosignInv'
  <1>1. CosignTypeOK /\ FoundOK /\ TodoOK
    BY DEF CosignInv
  <1>2. /\ call.step = "identities" /\ call.todo = {}
        /\ call' = [call EXCEPT !.identity = i, !.left = @ \ {i},
                                !.todo = Unverified]
        /\ UNCHANGED <<attached, reachable, changed, unanswered>>
    BY DEF NextIdentity
  <1>3. Unverified \subseteq Material
    BY <1>1 DEF Unverified, CosignTypeOK, VerifyCall
  <1>4. /\ call' \in VerifyCall
        /\ call'.step = "identities" /\ call'.found = call.found
        /\ call'.keys = call.keys /\ call'.identities = call.identities
        /\ call'.left = call.left \ {i} /\ call'.todo = Unverified
        /\ call'.verifiedBy = call.verifiedBy
        /\ call'.invalidBy = call.invalidBy /\ call'.identity = i
    BY <1>1, <1>2, <1>3 DEF VerifyCall, CosignTypeOK
  <1>5. Unverified' = Unverified
    BY <1>4 DEF Unverified
  <1>6. FoundOK' /\ TodoOK' /\ CosignTypeOK'
    BY <1>1, <1>2, <1>4, <1>5 DEF FoundOK, TodoOK, CosignTypeOK, OfKind
  <1>7. ASSUME NEW m \in Material PROVE VerifiedOK(m)'
    BY <1>2, <1>4 DEF CosignInv, VerifiedOK
  <1>8. ASSUME NEW m \in Material PROVE TriedOK(m)'
    <2>1. TriedOK(m) /\ (Hidden(m)' <=> Hidden(m))
      BY <1>5 DEF CosignInv, Hidden, SamePayload
    <2>2. m \in call.found /\ m \notin Unverified => call.verifiedBy[m] # Nobody
      BY DEF Unverified
    <2>3. QED
      BY <1>2, <1>4, <2>1, <2>2 DEF TriedOK, Answered
  <1>9. QED
    BY <1>6, <1>7, <1>8 DEF CosignInv

LEMMA FinishKeeps == CosignInv /\ FinishVerify => CosignInv'
  <1> SUFFICES ASSUME CosignInv, FinishVerify PROVE CosignInv'
    OBVIOUS
  <1>1. CosignTypeOK /\ FoundOK /\ TodoOK
    BY DEF CosignInv
  <1>2. /\ call.step = "identities" /\ call.todo = {}
        /\ call' = [call EXCEPT !.step = "done", !.identity = Nobody]
        /\ UNCHANGED <<attached, reachable, changed, unanswered>>
    BY DEF FinishVerify
  <1>3. /\ call' \in VerifyCall
        /\ call'.step = "done" /\ call'.found = call.found
        /\ call'.keys = call.keys /\ call'.identities = call.identities
        /\ call'.left = call.left /\ call'.todo = {} /\ call.left = {}
        /\ call'.verifiedBy = call.verifiedBy
        /\ call'.invalidBy = call.invalidBy
    BY <1>1, <1>2 DEF VerifyCall, CosignTypeOK, FinishVerify
  <1>4. Unverified' = Unverified
    BY <1>3 DEF Unverified
  <1>5. FoundOK' /\ TodoOK' /\ CosignTypeOK'
    BY <1>1, <1>2, <1>3, <1>4 DEF FoundOK, TodoOK, CosignTypeOK, OfKind
  <1>6. ASSUME NEW m \in Material PROVE VerifiedOK(m)'
    BY <1>2, <1>3 DEF CosignInv, VerifiedOK
  <1>7. ASSUME NEW m \in Material PROVE TriedOK(m)'
    <2>1. TriedOK(m) /\ (Hidden(m)' <=> Hidden(m))
      BY <1>4 DEF CosignInv, Hidden, SamePayload
    <2>2. QED
      BY <1>2, <1>3, <2>1 DEF TriedOK, Answered
  <1>8. QED
    BY <1>5, <1>6, <1>7 DEF CosignInv

(* A run for an attachment: what it prints for it is believed only when no *)
(* other unverified attachment can be meant.                               *)
LEMMA CheckKeeps ==
  ASSUME CosignInv, NEW m \in Material, CheckIdentity(m)
  PROVE  CosignInv'
  <1> DEFINE i == call.identity
  <1>1. CosignTypeOK /\ FoundOK /\ TodoOK
    BY DEF CosignInv
  <1>2. /\ call.step = "identities" /\ m \in call.todo
        /\ UNCHANGED <<attached, reachable, changed, unanswered>>
    BY DEF CheckIdentity, Due
  <1>3. /\ i \in Identities /\ i # Nobody
        /\ m \in call.found /\ call.verifiedBy[m] = Nobody
    BY <1>1, <1>2, CosignAssumption DEF TodoOK, Unverified
  <1>4. PICK who : who = IF UniquelyMatches(i, m) THEN i ELSE call.verifiedBy[m]
    OBVIOUS
  <1>5. call' = [call EXCEPT !.todo = @ \ {m}, !.verifiedBy[m] = who]
    BY <1>4 DEF CheckIdentity
  <1>6. who \in Identities \cup {Nobody}
    BY <1>3, <1>4
  <1>7. /\ call'.step = "identities" /\ call'.found = call.found
        /\ call'.keys = call.keys /\ call'.identities = call.identities
        /\ call'.left = call.left /\ call'.todo = call.todo \ {m}
        /\ call'.verifiedBy = [call.verifiedBy EXCEPT ![m] = who]
        /\ call'.invalidBy = call.invalidBy /\ call'.identity = i
        /\ call' \in VerifyCall
    BY <1>1, <1>2, <1>5, <1>6 DEF VerifyCall, CosignTypeOK
  <1>8. call.verifiedBy \in [Material -> Keys \cup Identities \cup {Nobody}]
    BY <1>1 DEF CosignTypeOK, VerifyCall
  <1>9. /\ call'.verifiedBy[m] = who
        /\ \A n \in Material \ {m} : call'.verifiedBy[n] = call.verifiedBy[n]
    BY <1>7, <1>8
  <1>10. call.found \subseteq Material
    BY <1>1 DEF CosignTypeOK, VerifyCall
  <1> HIDE DEF i
  <1>11. CosignTypeOK' /\ FoundOK' /\ TodoOK'
    <2>1. \A n \in call.todo \ {m} : n \in Unverified'
      BY <1>1, <1>7, <1>9, <1>10 DEF TodoOK, Unverified
    <2>2. i \in Identities
      BY <1>3
    <2>3. QED
      BY <1>1, <1>2, <1>7, <2>1, <2>2 DEF CosignTypeOK, FoundOK, TodoOK, OfKind
  <1>12. CASE who = Nobody
    <2>1. call'.verifiedBy = call.verifiedBy
      BY <1>3, <1>7, <1>8, <1>12
    <2>2. Unverified' = Unverified
      BY <1>7, <2>1 DEF Unverified
    <2>3. ASSUME NEW n \in Material PROVE VerifiedOK(n)'
      BY <1>2, <1>7, <2>1 DEF CosignInv, VerifiedOK
    <2>4. ASSUME NEW n \in Material PROVE TriedOK(n)'
      <3>1. TriedOK(n) /\ (Hidden(n)' <=> Hidden(n))
        BY <2>2 DEF CosignInv, Hidden, SamePayload
      <3>2. CASE n = m /\ SignerOf[m] = i /\ m \in attached
        <4>1. Printed(i, m)
          BY <3>2 DEF Printed, SamePayload
        <4>2. ~UniquelyMatches(i, m)
          BY <1>3, <1>4, <1>12
        <4>3. Hidden(m)
          BY <4>1, <4>2 DEF UniquelyMatches, Hidden
        <4>4. QED
          BY <1>2, <1>7, <2>1, <3>1, <3>2, <4>3 DEF TriedOK, Answered
      <3>3. CASE n = m /\ SignerOf[m] # i
        BY <1>2, <1>7, <2>1, <3>1, <3>3 DEF TriedOK, Answered, i
      <3>4. CASE n # m
        BY <1>2, <1>7, <2>1, <3>1, <3>4 DEF TriedOK, Answered, i
      <3>5. QED
        BY <1>1, <1>3, <3>2, <3>3, <3>4 DEF FoundOK
    <2>5. QED
      BY <1>11, <2>3, <2>4 DEF CosignInv
  <1>13. CASE who # Nobody
    <2>1. UniquelyMatches(i, m) /\ who = i
      BY <1>3, <1>4, <1>13
    <2>2. \A n \in call.found \ {m} :
            SamePayload(m, n) => call.verifiedBy[n] # Nobody
      BY <2>1 DEF UniquelyMatches, Unverified
    <2>3. PICK n \in attached : SignerOf[n] = i /\ SamePayload(m, n)
      BY <2>1 DEF UniquelyMatches, Printed
    <2>4. ~changed => SignerOf[m] = i
      <3> SUFFICES ASSUME ~changed, n # m PROVE FALSE
        BY <2>3
      <3>1. n \in call.found /\ call.verifiedBy[n] # Nobody /\ VerifiedOK(n)
        BY <1>1, <1>2, <2>2, <2>3, <1>10 DEF FoundOK, CosignInv
      <3>2. call.verifiedBy[n] = i
        BY <2>3, <3>1 DEF VerifiedOK
      <3>3. SamePayload(n, m)
        BY <2>3 DEF SamePayload
      <3>4. QED
        BY <1>3, <3>1, <3>2, <3>3 DEF VerifiedOK
    <2>5. VerifiedOK(m)'
      <3>1. SamePayload(m, m)
        BY DEF SamePayload
      <3>2. \A k \in call.found :
              SamePayload(m, k) => call'.verifiedBy[k] # Nobody
        BY <1>9, <1>10, <1>13, <2>2
      <3>3. QED
        BY <1>2, <1>3, <1>7, <1>9, <2>1, <2>3, <2>4, <3>2
           DEF VerifiedOK, SamePayload
    <2>6. ASSUME NEW k \in Material \ {m} PROVE VerifiedOK(k)'
      <3>1. VerifiedOK(k)
        BY DEF CosignInv
      <3>2. \A l \in call.found :
              call.verifiedBy[l] # Nobody => call'.verifiedBy[l] # Nobody
        BY <1>9, <1>10, <1>13
      <3>3. QED
        BY <1>2, <1>7, <1>9, <3>1, <3>2 DEF VerifiedOK, SamePayload
    <2>7. ASSUME NEW k \in Material, call.verifiedBy[k] = Nobody, k # m,
                 k \in call.found, Hidden(k)
          PROVE  Hidden(k)'
      <3>1. PICK l \in Unverified : l # k /\ SamePayload(k, l)
        BY <2>7 DEF Hidden
      <3>2. l # m
        BY <2>2, <2>7, <3>1 DEF SamePayload
      <3>3. l \in Unverified'
        BY <1>7, <1>9, <1>10, <3>1, <3>2 DEF Unverified
      <3>4. QED
        BY <3>1, <3>3 DEF Hidden, SamePayload
    <2>8. ASSUME NEW k \in Material PROVE TriedOK(k)'
      <3>1. CASE k = m
        BY <1>7, <1>9, <1>13, <3>1 DEF TriedOK, Answered
      <3>2. CASE k # m
        <4>1. TriedOK(k)
          BY DEF CosignInv
        <4>2. call'.verifiedBy[k] = call.verifiedBy[k]
          BY <1>9, <3>2
        <4>3. k \in call'.todo <=> k \in call.todo
          BY <1>7, <3>2
        <4>4. QED
          BY <1>2, <1>7, <2>7, <3>2, <4>1, <4>2, <4>3 DEF TriedOK, Answered, i
      <3>3. QED
        BY <3>1, <3>2
    <2>9. QED
      BY <1>11, <2>5, <2>6, <2>8 DEF CosignInv
  <1>14. QED
    BY <1>12, <1>13

LEMMA UnansweredKeeps ==
  ASSUME CosignInv, NEW m \in Material, CheckUnanswered(m)
  PROVE  CosignInv'
  <1>1. CosignTypeOK /\ FoundOK /\ TodoOK
    BY DEF CosignInv
  <1>2. /\ call.step = "identities" /\ m \in call.todo
        /\ call' = [call EXCEPT !.todo = @ \ {m}]
        /\ unanswered' = unanswered \cup {m}
        /\ UNCHANGED <<attached, reachable, changed>>
    BY DEF CheckUnanswered, Due
  <1>3. /\ call' \in VerifyCall
        /\ call'.step = "identities" /\ call'.found = call.found
        /\ call'.keys = call.keys /\ call'.todo = call.todo \ {m}
        /\ call'.verifiedBy = call.verifiedBy
        /\ call'.invalidBy = call.invalidBy /\ call'.identity = call.identity
    BY <1>1, <1>2 DEF VerifyCall, CosignTypeOK
  <1>4. Unverified' = Unverified
    BY <1>3 DEF Unverified
  <1>5. FoundOK' /\ TodoOK' /\ CosignTypeOK'
    BY <1>1, <1>2, <1>3, <1>4 DEF FoundOK, TodoOK, CosignTypeOK, OfKind
  <1>6. ASSUME NEW n \in Material PROVE VerifiedOK(n)'
    BY <1>2, <1>3 DEF CosignInv, VerifiedOK
  <1>7. ASSUME NEW n \in Material PROVE TriedOK(n)'
    BY <1>2, <1>3 DEF CosignInv, TriedOK, Answered
  <1>8. QED
    BY <1>5, <1>6, <1>7 DEF CosignInv

LEMMA CosignStep == CosignInv /\ [CosignNext]_cosignVars => CosignInv'
  <1> SUFFICES ASSUME CosignInv, [CosignNext]_cosignVars PROVE CosignInv'
    OBVIOUS
  <1>1. CASE UNCHANGED cosignVars
    BY <1>1 DEF cosignVars, CosignInv, CosignTypeOK, FoundOK, TodoOK,
                VerifiedOK, TriedOK, Answered, Hidden, Unverified
  <1>2. QED
    BY <1>1, OutsideKeeps, DiscoveryKeeps, KeysKeep, NextKeeps, CheckKeeps,
       UnansweredKeeps, FinishKeeps DEF CosignNext

LEMMA CosignInvariance == CosignSpec => []CosignInv
BY CosignStart, CosignStep, PTL DEF CosignSpec

(***************************************************************************)
(* Verify never credits evidence to one who has not signed that payload,   *)
(* and, when nothing was pushed meanwhile, never to another signer than    *)
(* that of the very signature: for any number of identities and of         *)
(* signatures that share a payload, and any outages.                       *)
(***************************************************************************)
THEOREM EvidenceIsExact == CosignSpec => []EvidenceExact
  <1>1. CosignInv => EvidenceExact
    <2>1. \A m \in Material : CryptoState(m) = "VALID" => call.verifiedBy[m] # Nobody
      BY DEF CryptoState
    <2>2. QED
      BY <2>1 DEF CosignInv, VerifiedOK, EvidenceExact, CreditedSigned,
                  ValidSignerExact
  <1>2. QED
    BY <1>1, CosignInvariance, PTL

(* A call that nothing disturbed overlooks no candidate's signature. *)
THEOREM NoneOverlooked == CosignSpec => []NothingOverlooked
  <1>1. CosignInv => NothingOverlooked
    <2> SUFFICES ASSUME CosignInv, call.step = "done", ~changed,
                        unanswered = {}, NEW m \in attached
                 PROVE  /\ SignerOf[m] \in call.keys => CryptoState(m) # "UNVERIFIED"
                        /\ SignerOf[m] \in call.identities =>
                             CryptoState(m) = "VALID" \/ Hidden(m)
      BY DEF NothingOverlooked, Hidden
    <2>1. m \in Material /\ m \in call.found
      BY DEF CosignInv, CosignTypeOK, FoundOK
    <2>2. TriedOK(m) /\ call.todo = {}
      BY <2>1 DEF CosignInv, TodoOK
    <2>3. call.left = {}
      BY DEF CosignInv, TodoOK
    <2>4. QED
      BY <2>1, <2>2, <2>3 DEF TriedOK, Answered, CryptoState
  <1>2. QED
    BY <1>1, CosignInvariance, PTL
=============================================================================
