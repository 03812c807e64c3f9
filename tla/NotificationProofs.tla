------------------------- MODULE NotificationProofs -------------------------
(***************************************************************************)
(* Proofs about modules RegistryNotifications and ArtifactStore, for any   *)
(* uploads, deliveries, batches and numbers of requests.                   *)
(***************************************************************************)
EXTENDS RegistryNotifications, WellFoundedInduction, TLAPS

Event == [digest : Digests, kind : Kinds, facts : Facts \cup {None},
          descriptors : Seq(Descriptor) \cup {None},
          tag : Tags \cup {None}, at : Nat]

(* An event is an upload with its place in the order of the pushes.        *)
EventOK(o) ==
  /\ o \in Event
  /\ o.descriptors # None =>
       /\ o.kind = "INDEX"
       /\ \A i \in DOMAIN o.descriptors : o.descriptors[i].digest # o.digest

(* An event says of a digest that its facts are f.                         *)
Said(o, d, f) == \E m \in Mentions(o) : m.digest = d /\ m.facts = f

-----------------------------------------------------------------------------
LEMMA MentionsParent ==
  ASSUME NEW o
  PROVE  /\ [digest |-> o.digest, kind |-> o.kind, facts |-> o.facts] \in Mentions(o)
         /\ o.digest \in Mentioned(o)
  <1>1. PICK m : m = [digest |-> o.digest, kind |-> o.kind, facts |-> o.facts]
    OBVIOUS
  <1>2. m \in Mentions(o) /\ m.digest = o.digest
    BY <1>1 DEF Mentions
  <1>3. QED
    BY <1>1, <1>2 DEF Mentioned

LEMMA MentionsChild ==
  ASSUME NEW o, o.descriptors # None, NEW i \in DOMAIN o.descriptors
  PROVE  /\ [digest |-> o.descriptors[i].digest, kind |-> "MANIFEST",
             facts |-> o.descriptors[i].facts] \in Mentions(o)
         /\ o.descriptors[i].digest \in Mentioned(o)
  <1>1. [digest |-> o.descriptors[i].digest, kind |-> "MANIFEST",
         facts |-> o.descriptors[i].facts] \in Mentions(o)
    BY DEF Mentions
  <1>2. QED
    BY <1>1 DEF Mentioned

(* A mention is the pushed artifact, or a manifest that is a child of it.  *)
LEMMA MentionShape ==
  ASSUME NEW o, EventOK(o), NEW m \in Mentions(o)
  PROVE  /\ m.digest \in Digests /\ m.kind \in Kinds /\ m.facts \in Facts \cup {None}
         /\ m.kind = IF m.digest = o.digest THEN o.kind ELSE "MANIFEST"
         /\ \/ m.digest = o.digest /\ m.facts = o.facts
            \/ /\ o.descriptors # None
               /\ \E i \in DOMAIN o.descriptors :
                    m.digest = o.descriptors[i].digest
  <1>1. CASE m = [digest |-> o.digest, kind |-> o.kind, facts |-> o.facts]
    BY <1>1 DEF EventOK, Event
  <1>2. CASE m # [digest |-> o.digest, kind |-> o.kind, facts |-> o.facts]
    <2>1. o.descriptors # None
      BY <1>2 DEF Mentions
    <2>2. PICK i \in DOMAIN o.descriptors :
            m = [digest |-> o.descriptors[i].digest, kind |-> "MANIFEST",
                 facts |-> o.descriptors[i].facts]
      BY <1>2, <2>1 DEF Mentions
    <2>3. o.descriptors \in Seq(Descriptor)
      BY <2>1 DEF EventOK, Event
    <2>4. o.descriptors[i] \in Descriptor
      BY <2>2, <2>3
    <2>5. /\ o.descriptors[i].digest \in Digests
          /\ o.descriptors[i].facts \in Facts \cup {None}
      BY <2>4 DEF Descriptor
    <2>6. m.digest = o.descriptors[i].digest /\ m.kind = "MANIFEST"
          /\ m.facts = o.descriptors[i].facts
      BY <2>2
    <2>7. o.descriptors[i].digest # o.digest
      BY <2>1 DEF EventOK
    <2>8. QED
      BY <2>1, <2>5, <2>6, <2>7 DEF Kinds
  <1>3. QED
    BY <1>1, <1>2

LEMMA MentionedByMention ==
  ASSUME NEW o, NEW d
  PROVE  d \in Mentioned(o) <=> \E m \in Mentions(o) : m.digest = d
BY DEF Mentioned

LEMMA RecordedType ==
  ASSUME NEW o, EventOK(o), o.descriptors # None
  PROVE  /\ Recorded(o.descriptors) \in Seq(Child)
         /\ DOMAIN Recorded(o.descriptors) = DOMAIN o.descriptors
         /\ \A i \in DOMAIN o.descriptors :
              Recorded(o.descriptors)[i].digest = o.descriptors[i].digest
  <1>1. PICK s : s = o.descriptors
    OBVIOUS
  <1>2. s \in Seq(Descriptor)
    BY <1>1 DEF EventOK, Event
  <1>3. DOMAIN s = 1 .. Len(s) /\ Len(s) \in Nat
    BY <1>2
  <1>4. \A i \in 1 .. Len(s) : [digest |-> s[i].digest, platform |-> s[i].platform] \in Child
    <2>1. ASSUME NEW i \in 1 .. Len(s)
          PROVE  [digest |-> s[i].digest, platform |-> s[i].platform] \in Child
      <3>1. s[i] \in Descriptor
        BY <1>2
      <3>2. QED
        BY <3>1 DEF Descriptor, Child
    <2>2. QED
      BY <2>1
  <1>5. Recorded(s) = [i \in 1 .. Len(s) |->
                         [digest |-> s[i].digest, platform |-> s[i].platform]]
    BY <1>3 DEF Recorded
  <1>6. Recorded(s) \in [1 .. Len(s) -> Child]
    BY <1>4, <1>5
  <1>7. Recorded(s) \in Seq(Child)
    BY <1>3, <1>6
  <1>8. QED
    BY <1>1, <1>3, <1>5, <1>7

-----------------------------------------------------------------------------
(* What a committed Reconcile makes of the facts of a digest.              *)
LEMMA MergedFactsAre ==
  ASSUME NEW o, EventOK(o), NEW d \in Digests, Accepts(o),
         artifacts[d] # None => artifacts[d].facts \in Facts \cup {None}
  PROVE  /\ MergedFacts(o, d) \in Facts \cup {None}
         /\ \A f \in Facts :
              MergedFacts(o, d) = f <=>
                \/ artifacts[d] # None /\ artifacts[d].facts = f
                \/ Said(o, d, f)
  <1>1. PICK known : known = {m.facts : m \in {n \in Mentions(o) : n.digest = d}} \ {None}
    OBVIOUS
  <1>2. known \subseteq Facts
    BY <1>1, MentionShape
  <1>3. \A f \in Facts : f \in known <=> Said(o, d, f)
    BY <1>1, ArtifactStoreAssumption DEF Said
  <1>4. \A f, g \in known : f = g
    BY <1>1 DEF Accepts, Differ
  <1>5. artifacts[d] # None /\ artifacts[d].facts # None =>
          \A f \in known : f = artifacts[d].facts
    BY <1>1 DEF Accepts, Differ
  <1>6. CASE artifacts[d] # None /\ artifacts[d].facts # None
    <2>1. MergedFacts(o, d) = artifacts[d].facts
      BY <1>6 DEF MergedFacts
    <2>2. QED
      BY <1>3, <1>5, <1>6, <2>1
  <1>7. CASE ~(artifacts[d] # None /\ artifacts[d].facts # None)
    <2>1. MergedFacts(o, d) = IF known = {} THEN None ELSE CHOOSE f \in known : TRUE
      BY <1>1, <1>7 DEF MergedFacts
    <2>2. \A f \in Facts : ~(artifacts[d] # None /\ artifacts[d].facts = f)
      BY <1>7, ArtifactStoreAssumption
    <2>3. CASE known = {}
      BY <1>3, <2>1, <2>2, <2>3, ArtifactStoreAssumption
    <2>4. CASE known # {}
      <3>1. MergedFacts(o, d) \in known
        BY <2>1, <2>4
      <3>2. QED
        BY <1>2, <1>3, <1>4, <2>2, <3>1
    <2>5. QED
      BY <2>3, <2>4
  <1>8. QED
    BY <1>6, <1>7

(* The row of a digest the event names.                                    *)
RowAfter(o, d) ==
  IF d = o.digest /\ Completes(o)
  THEN [Merged(o, d) EXCEPT !.complete = TRUE, !.updatedAt = Later(@, o.at)]
  ELSE Merged(o, d)

LEMMA MergedRow ==
  ASSUME NEW o, EventOK(o), NEW d \in Digests, Accepts(o),
         artifacts[d] \in Artifact \cup {None}, NEW row, row = RowAfter(o, d)
  PROVE  /\ row \in Artifact /\ row # None
         /\ row.facts = MergedFacts(o, d)
         /\ row.complete <=> \/ d = o.digest /\ Completes(o)
                             \/ artifacts[d] # None /\ artifacts[d].complete
         /\ artifacts[d] = None =>
              /\ row.kind = IF d = o.digest THEN o.kind ELSE "MANIFEST"
              /\ row.discoveredAt = o.at
         /\ artifacts[d] # None =>
              /\ row.kind = artifacts[d].kind
              /\ row.discoveredAt = Earlier(artifacts[d].discoveredAt, o.at)
              /\ artifacts[d].updatedAt <= row.updatedAt
         /\ artifacts[d] = None => o.at <= row.updatedAt
  <1>1. PICK facts : facts = MergedFacts(o, d)
    OBVIOUS
  <1>2. facts \in Facts \cup {None}
    BY <1>1, MergedFactsAre DEF Artifact
  <1>3. o.at \in Nat /\ o.kind \in Kinds
    BY DEF EventOK, Event
  <1>4. PICK new : new = Merged(o, d)
    OBVIOUS
  <1>5. /\ new \in Artifact /\ new.facts = facts
        /\ new.complete <=> artifacts[d] # None /\ artifacts[d].complete
        /\ artifacts[d] = None =>
             /\ new.kind = IF d = o.digest THEN o.kind ELSE "MANIFEST"
             /\ new.discoveredAt = o.at /\ o.at <= new.updatedAt
        /\ artifacts[d] # None =>
             /\ new.kind = artifacts[d].kind
             /\ new.discoveredAt = Earlier(artifacts[d].discoveredAt, o.at)
             /\ artifacts[d].updatedAt <= new.updatedAt
    <2>1. CASE artifacts[d] = None
      <3>1. new = [kind |-> IF d = o.digest THEN o.kind ELSE "MANIFEST",
                   facts |-> facts, complete |-> FALSE,
                   discoveredAt |-> o.at, updatedAt |-> o.at]
        BY <1>1, <1>4, <2>1 DEF Merged
      <3>2. new \in Artifact
        BY <1>2, <1>3, <3>1 DEF Artifact, Kinds
      <3>3. QED
        BY <1>3, <2>1, <3>1, <3>2
    <2>2. CASE artifacts[d] # None
      <3>1. PICK old \in Artifact : old = artifacts[d]
        BY <2>2
      <3>2. PICK found : found = Earlier(old.discoveredAt, o.at)
        OBVIOUS
      <3>3. PICK updated : updated = IF facts # old.facts
                                     THEN Later(old.updatedAt, o.at) ELSE old.updatedAt
        OBVIOUS
      <3>4. new = [old EXCEPT !.facts = facts, !.discoveredAt = found,
                              !.updatedAt = updated]
        BY <1>1, <1>4, <2>2, <3>1, <3>2, <3>3 DEF Merged
      <3>5. old.discoveredAt \in Nat /\ old.updatedAt \in Nat
        BY <3>1 DEF Artifact
      <3>6. found \in Nat /\ updated \in Nat /\ old.updatedAt <= updated
        BY <1>3, <3>2, <3>3, <3>5 DEF Earlier, Later
      <3>7. new \in Artifact
        BY <1>2, <3>1, <3>4, <3>6 DEF Artifact
      <3>8. /\ new.facts = facts /\ new.kind = old.kind /\ new.discoveredAt = found
            /\ new.updatedAt = updated
        BY <3>1, <3>4 DEF Artifact
      <3>9. new.complete <=> old.complete
        BY <3>1, <3>4 DEF Artifact
      <3>10. QED
        BY <2>2, <3>1, <3>2, <3>6, <3>7, <3>8, <3>9
    <2>3. QED
      BY <2>1, <2>2
  <1>6. CASE d = o.digest /\ Completes(o)
    <2>1. PICK updated : updated = Later(new.updatedAt, o.at)
      OBVIOUS
    <2>2. row = [new EXCEPT !.complete = TRUE, !.updatedAt = updated]
      BY <1>4, <1>6, <2>1 DEF RowAfter
    <2>3. new.updatedAt \in Nat
      BY <1>5 DEF Artifact
    <2>4. updated \in Nat /\ new.updatedAt <= updated /\ o.at <= updated
      BY <1>3, <2>1, <2>3 DEF Later
    <2>5. row \in Artifact
      BY <1>5, <2>2, <2>4 DEF Artifact
    <2>6. /\ row.facts = facts /\ row.kind = new.kind
          /\ row.discoveredAt = new.discoveredAt /\ row.updatedAt = updated
      BY <1>5, <2>2 DEF Artifact
    <2>7. row.complete
      BY <1>5, <2>2 DEF Artifact
    <2>8. artifacts[d] # None => artifacts[d].updatedAt \in Nat
      BY DEF Artifact
    <2>9. artifacts[d] # None => artifacts[d].updatedAt <= row.updatedAt
      BY <1>5, <2>3, <2>4, <2>6, <2>8
    <2>10. QED
      BY <1>1, <1>5, <1>6, <2>4, <2>5, <2>6, <2>7, <2>9, RowAssumption
  <1>7. CASE ~(d = o.digest /\ Completes(o))
    <2>1. row = new
      BY <1>4, <1>7 DEF RowAfter
    <2>2. QED
      BY <1>1, <1>5, <1>7, <2>1, RowAssumption
  <1>8. QED
    BY <1>6, <1>7

-----------------------------------------------------------------------------
(* The store is what the applied events say together: digest by digest.    *)
RowOK(d) ==
  /\ \A e \in applied : d \in Mentioned(pushed[e]) =>
       artifacts[d].discoveredAt <= pushed[e].at
  /\ \E e \in applied :
       d \in Mentioned(pushed[e]) /\ artifacts[d].discoveredAt = pushed[e].at
  /\ \A f \in Facts :
       artifacts[d].facts = f <=> \E e \in applied : Said(pushed[e], d, f)
  /\ artifacts[d].complete <=> Describing(d) # {}
  /\ \A e \in applied : \A m \in Mentions(pushed[e]) :
       m.digest = d => artifacts[d].kind = m.kind
  /\ artifacts[d].discoveredAt <= artifacts[d].updatedAt

DigestOK(d) ==
  /\ d \in Known <=> \E e \in applied : d \in Mentioned(pushed[e])
  /\ d \in Known => RowOK(d)
  /\ \A e \in Describing(d) : descriptors[d] = Recorded(pushed[e].descriptors)
  /\ Describing(d) = {} => descriptors[d] = << >>

TagsKnown ==
  \A t \in Tags : tags[t] # None =>
    tags[t].digest \in Known /\ tags[t].createdAt <= tags[t].updatedAt

(* An event is one of the uploads, with its place in the order of pushes.  *)
PushedOK ==
  \A e \in Events :
    /\ EventOK(pushed[e]) /\ pushed[e].at = e
    /\ \E u \in Uploads :
         /\ u.digest = pushed[e].digest /\ u.kind = pushed[e].kind
         /\ u.descriptors = pushed[e].descriptors

JoinInv ==
  /\ TypeOK /\ PushedOK
  /\ \A d \in Digests : DigestOK(d)
  /\ TagsKnown

-----------------------------------------------------------------------------
(* Another transaction commits: the row of one digest.                     *)
LEMMA ReconciledDigest ==
  ASSUME JoinInv, NEW e \in Events, ReconcileTx(pushed[e]),
         applied' = applied \cup {e}, pushed' = pushed, NEW d \in Digests
  PROVE  DigestOK(d)' /\ artifacts'[d] \in Artifact \cup {None}
         /\ (d \in Known => d \in Known')
         /\ descriptors'[d] \in Seq(Child)
         /\ (d = pushed[e].digest => d \in Known')
  <1>1. PICK o : o = pushed[e]
    OBVIOUS
  <1>2. EventOK(o) /\ Accepts(o) /\ DigestOK(d)
    BY <1>1 DEF JoinInv, PushedOK, ReconcileTx
  <1>3. /\ artifacts \in [Digests -> Artifact \cup {None}]
        /\ descriptors \in [Digests -> Seq(Child)]
        /\ applied \subseteq Events
    BY DEF JoinInv, TypeOK, StoreTypeOK
  <1>4. o.digest \in Digests /\ o.at \in Nat
    BY <1>2 DEF EventOK, Event
  <1>5. \A g \in applied : EventOK(pushed[g]) /\ pushed[g].at \in Nat
    BY <1>3 DEF JoinInv, PushedOK, EventOK, Event
  <1>6. PICK row : row = RowAfter(o, d)
    OBVIOUS
  <1>7. artifacts'[d] = IF d \in Mentioned(o) THEN row ELSE artifacts[d]
    BY <1>1, <1>6 DEF ReconcileTx, RowAfter
  <1>8. descriptors'[d] = IF d = o.digest /\ Completes(o)
                          THEN Recorded(o.descriptors) ELSE descriptors[d]
    BY <1>1, <1>3, <1>4 DEF ReconcileTx
  <1>9. Completes(o) <=> /\ o.descriptors # None
                         /\ artifacts[o.digest] = None \/ ~artifacts[o.digest].complete
    BY DEF Completes
  <1>10. /\ row \in Artifact /\ row # None
         /\ row.facts = MergedFacts(o, d)
         /\ row.complete <=> \/ d = o.digest /\ Completes(o)
                             \/ artifacts[d] # None /\ artifacts[d].complete
         /\ artifacts[d] = None =>
              /\ row.kind = IF d = o.digest THEN o.kind ELSE "MANIFEST"
              /\ row.discoveredAt = o.at
         /\ artifacts[d] # None =>
              /\ row.kind = artifacts[d].kind
              /\ row.discoveredAt = Earlier(artifacts[d].discoveredAt, o.at)
              /\ artifacts[d].updatedAt <= row.updatedAt
         /\ artifacts[d] = None => o.at <= row.updatedAt
    <2>1. artifacts[d] \in Artifact \cup {None}
      BY <1>3
    <2>2. QED
      BY <1>2, <1>6, <2>1, MergedRow
  <1>11. o.digest \in Mentioned(o)
    BY MentionsParent
  <1>12. Describing(d)' = IF d = o.digest /\ o.descriptors # None
                          THEN Describing(d) \cup {e} ELSE Describing(d)
    BY <1>1 DEF Describing
  <1>13. d \in Known <=> artifacts[d] # None
    BY DEF Known
  <1>14. (d \in Known)' <=> artifacts'[d] # None
    BY DEF Known
  <1>15. (d \in Known)' <=> d \in Mentioned(o) \/ d \in Known
    BY <1>7, <1>10, <1>13, <1>14
  <1>16. (\E g \in applied : d \in Mentioned(pushed[g]))' <=>
           d \in Mentioned(o) \/ \E g \in applied : d \in Mentioned(pushed[g])
    BY <1>1
  <1>17. Describing(d) # {} => d \in Known /\ artifacts[d].complete
    <2>1. ASSUME NEW g \in Describing(d) PROVE d \in Known
      <3>1. d \in Mentioned(pushed[g]) /\ g \in applied
        BY MentionsParent DEF Describing
      <3>2. QED
        BY <1>2, <3>1 DEF DigestOK
    <2>2. QED
      BY <1>2, <2>1 DEF DigestOK, RowOK
  <1>18. (\A g \in Describing(d) : descriptors[d] = Recorded(pushed[g].descriptors))'
         /\ (Describing(d) = {} => descriptors[d] = << >>)'
    <2>1. CASE ~(d = o.digest /\ o.descriptors # None)
      BY <1>2, <1>8, <1>9, <1>12, <2>1 DEF DigestOK
    <2>2. CASE d = o.digest /\ o.descriptors # None /\ Completes(o)
      <3>1. Describing(d) = {}
        BY <1>2, <1>9, <1>13, <1>17, <2>2
      <3>2. Describing(d)' = {e} /\ descriptors'[d] = Recorded(o.descriptors)
        BY <1>8, <1>12, <2>2, <3>1
      <3>3. QED
        BY <1>1, <3>2
    <2>3. CASE d = o.digest /\ o.descriptors # None /\ ~Completes(o)
      <3>1. descriptors[d] = Recorded(o.descriptors)
        BY <1>2, <1>9, <2>3 DEF Accepts
      <3>2. descriptors'[d] = Recorded(o.descriptors)
        BY <1>8, <2>3, <3>1
      <3>3. Describing(d)' = Describing(d) \cup {e}
        BY <1>12, <2>3
      <3>4. \A g \in Describing(d) : descriptors[d] = Recorded(pushed[g].descriptors)
        BY <1>2 DEF DigestOK
      <3>5. QED
        BY <1>1, <3>1, <3>2, <3>3, <3>4
    <2>4. QED
      BY <2>1, <2>2, <2>3
  <1>19. ASSUME d \notin Mentioned(o) PROVE (d \in Known => RowOK(d))'
    <2>1. artifacts'[d] = artifacts[d] /\ d # o.digest
      BY <1>7, <1>11, <1>19
    <2>2. (d \in Known)' <=> d \in Known
      BY <1>13, <1>14, <2>1
    <2>3. \A f \in Facts : ~Said(o, d, f)
      BY <1>19, MentionedByMention DEF Said
    <2>4. \A m \in Mentions(o) : m.digest # d
      BY <1>19, MentionedByMention
    <2>5. Describing(d)' = Describing(d)
      BY <1>12, <2>1
    <2>6. ASSUME RowOK(d) PROVE RowOK(d)'
      <3>1. (\A g \in applied : d \in Mentioned(pushed[g]) =>
                artifacts[d].discoveredAt <= pushed[g].at)'
        BY <1>1, <1>19, <2>1, <2>6 DEF RowOK
      <3>2. (\E g \in applied :
               d \in Mentioned(pushed[g]) /\ artifacts[d].discoveredAt = pushed[g].at)'
        BY <2>1, <2>6 DEF RowOK
      <3>3. (\A f \in Facts :
               artifacts[d].facts = f <=> \E g \in applied : Said(pushed[g], d, f))'
        BY <1>1, <2>1, <2>3, <2>6 DEF RowOK, Said
      <3>4. (\A g \in applied : \A m \in Mentions(pushed[g]) :
               m.digest = d => artifacts[d].kind = m.kind)'
        BY <1>1, <2>1, <2>4, <2>6 DEF RowOK, Mentions
      <3>5. (artifacts[d].complete <=> Describing(d) # {})'
        BY <2>1, <2>5, <2>6 DEF RowOK
      <3>6. QED
        BY <2>1, <2>6, <3>1, <3>2, <3>3, <3>4, <3>5 DEF RowOK
    <2>7. QED
      BY <1>2, <2>2, <2>6 DEF DigestOK
  <1>20. ASSUME d \in Mentioned(o) PROVE RowOK(d)'
    <2>1. artifacts'[d] = row
      BY <1>7, <1>20
    <2>2. artifacts[d] = None => \A g \in applied : d \notin Mentioned(pushed[g])
      BY <1>2, <1>13 DEF DigestOK
    <2>3. artifacts[d] # None => RowOK(d) /\ artifacts[d] \in Artifact
      BY <1>2, <1>3, <1>13 DEF DigestOK
    <2>4. artifacts[d] # None =>
            artifacts[d].discoveredAt \in Nat /\ artifacts[d].updatedAt \in Nat
      BY <2>3 DEF Artifact
    <2>5. row.discoveredAt \in Nat /\ row.updatedAt \in Nat
      BY <1>10 DEF Artifact
    <2>6. row.discoveredAt <= o.at
      BY <1>4, <1>10, <2>4 DEF Earlier
    <2>7. artifacts[d] # None => row.discoveredAt <= artifacts[d].discoveredAt
      BY <1>4, <1>10, <2>4 DEF Earlier
    <2>8. (\A g \in applied : d \in Mentioned(pushed[g]) =>
              artifacts[d].discoveredAt <= pushed[g].at)'
      <3>1. ASSUME NEW g \in applied, d \in Mentioned(pushed[g])
            PROVE  row.discoveredAt <= pushed[g].at
        <4>1. artifacts[d] # None
          BY <2>2, <3>1
        <4>2. artifacts[d].discoveredAt <= pushed[g].at
          BY <2>3, <3>1, <4>1 DEF RowOK
        <4>3. QED
          BY <1>5, <2>4, <2>5, <2>7, <4>1, <4>2
      <3>2. QED
        BY <1>1, <2>1, <2>6, <3>1
    <2>9. (\E g \in applied :
             d \in Mentioned(pushed[g]) /\ artifacts[d].discoveredAt = pushed[g].at)'
      <3>1. CASE row.discoveredAt = o.at
        BY <1>1, <1>20, <2>1, <3>1
      <3>2. CASE row.discoveredAt # o.at
        <4>1. artifacts[d] # None /\ row.discoveredAt = artifacts[d].discoveredAt
          BY <1>10, <3>2 DEF Earlier
        <4>2. PICK g \in applied :
                d \in Mentioned(pushed[g]) /\ artifacts[d].discoveredAt = pushed[g].at
          BY <2>3, <4>1 DEF RowOK
        <4>3. QED
          BY <2>1, <4>1, <4>2
      <3>3. QED
        BY <3>1, <3>2
    <2>10. (\A f \in Facts :
              artifacts[d].facts = f <=> \E g \in applied : Said(pushed[g], d, f))'
      <3>1. ASSUME NEW f \in Facts
            PROVE  row.facts = f <=> \/ \E g \in applied : Said(pushed[g], d, f)
                                     \/ Said(o, d, f)
        <4>1. row.facts = f <=> \/ artifacts[d] # None /\ artifacts[d].facts = f
                                \/ Said(o, d, f)
          <5>1. artifacts[d] # None => artifacts[d].facts \in Facts \cup {None}
            BY <2>3 DEF Artifact
          <5>2. QED
            BY <1>2, <1>10, <5>1, MergedFactsAre
        <4>2. artifacts[d] = None => ~\E g \in applied : Said(pushed[g], d, f)
          BY <2>2, MentionedByMention DEF Said
        <4>3. artifacts[d] # None =>
                (artifacts[d].facts = f <=> \E g \in applied : Said(pushed[g], d, f))
          BY <2>3 DEF RowOK
        <4>4. QED
          BY <4>1, <4>2, <4>3
      <3>2. QED
        BY <1>1, <2>1, <3>1 DEF Said, Mentions
    <2>11. (\A g \in applied : \A m \in Mentions(pushed[g]) :
              m.digest = d => artifacts[d].kind = m.kind)'
      <3>1. ASSUME NEW m \in Mentions(o), m.digest = d PROVE row.kind = m.kind
        <4>1. m.kind = IF d = o.digest THEN o.kind ELSE "MANIFEST"
          BY <1>2, <3>1, MentionShape
        <4>2. artifacts[d] # None => artifacts[d].kind = m.kind
          BY <1>2, <3>1 DEF Accepts
        <4>3. QED
          BY <1>10, <4>1, <4>2
      <3>2. ASSUME NEW g \in applied, NEW m \in Mentions(pushed[g]), m.digest = d
            PROVE  row.kind = m.kind
        <4>1. d \in Mentioned(pushed[g])
          BY <3>2, MentionedByMention
        <4>2. artifacts[d] # None
          BY <2>2, <4>1
        <4>3. QED
          BY <1>10, <2>3, <3>2, <4>2 DEF RowOK
      <3>3. QED
        BY <1>1, <2>1, <3>1, <3>2 DEF Mentions
    <2>12. (artifacts[d].complete <=> Describing(d) # {})'
      <3>1. row.complete <=> \/ d = o.digest /\ Completes(o)
                             \/ artifacts[d] # None /\ artifacts[d].complete
        BY <1>10
      <3>2. artifacts[d] # None => (artifacts[d].complete <=> Describing(d) # {})
        BY <2>3 DEF RowOK
      <3>3. artifacts[d] = None => Describing(d) = {}
        BY <1>13, <1>17
      <3>4. QED
        BY <1>9, <1>12, <2>1, <3>1, <3>2, <3>3
    <2>13. row.discoveredAt <= row.updatedAt
      <3>1. CASE artifacts[d] = None
        BY <1>10, <3>1
      <3>2. CASE artifacts[d] # None
        <4>1. artifacts[d].discoveredAt <= artifacts[d].updatedAt
              /\ artifacts[d].updatedAt <= row.updatedAt
          BY <1>10, <2>3, <3>2 DEF RowOK
        <4>2. QED
          BY <2>4, <2>5, <2>7, <3>2, <4>1
      <3>3. QED
        BY <3>1, <3>2
    <2>14. QED
      BY <2>1, <2>8, <2>9, <2>10, <2>11, <2>12, <2>13 DEF RowOK
  <1>21. DigestOK(d)'
    <2>1. (d \in Known => RowOK(d))'
      BY <1>19, <1>20
    <2>2. (d \in Known <=> \E g \in applied : d \in Mentioned(pushed[g]))'
      BY <1>2, <1>15, <1>16 DEF DigestOK
    <2>3. QED
      BY <1>18, <2>1, <2>2 DEF DigestOK
  <1>22. artifacts'[d] \in Artifact \cup {None} /\ descriptors'[d] \in Seq(Child)
    BY <1>2, <1>3, <1>7, <1>8, <1>9, <1>10, RecordedType
  <1>23. QED
    BY <1>1, <1>11, <1>15, <1>21, <1>22

LEMMA MovedTag ==
  ASSUME NEW o, EventOK(o), NEW t \in Tags, o.tag = t,
         tags[t] \in Tag \cup {None},
         tags[t] # None => tags[t].createdAt <= tags[t].updatedAt
  PROVE  /\ Moved(o) \in Tag /\ Moved(o) # None
         /\ Moved(o).createdAt <= Moved(o).updatedAt
         /\ Moved(o).digest = o.digest \/ (tags[t] # None /\ Moved(o) = tags[t])
         /\ tags[t] = None => Moved(o).digest = o.digest /\ Moved(o).updatedAt = o.at
         /\ tags[t] # None /\ tags[t].digest # o.digest /\ o.at > tags[t].updatedAt =>
              Moved(o).digest = o.digest /\ Moved(o).updatedAt = o.at
         /\ tags[t] # None /\ ~(tags[t].digest # o.digest /\ o.at > tags[t].updatedAt) =>
              Moved(o) = tags[t]
  <1>1. o.digest \in Digests /\ o.at \in Nat
    BY DEF EventOK, Event
  <1>2. CASE tags[t] = None
    <2>1. PICK row : row = Moved(o)
      OBVIOUS
    <2>2. row = [digest |-> o.digest, createdAt |-> o.at, updatedAt |-> o.at]
      BY <1>2, <2>1 DEF Moved
    <2>3. row \in Tag /\ row.digest = o.digest /\ row.createdAt = o.at /\ row.updatedAt = o.at
      BY <1>1, <2>2 DEF Tag
    <2>4. QED
      BY <1>1, <1>2, <2>1, <2>3, RowAssumption
  <1>3. CASE tags[t] # None /\ tags[t].digest # o.digest /\ o.at > tags[t].updatedAt
    <2>1. PICK old \in Tag : old = tags[t]
      BY <1>3
    <2>2. PICK row : row = Moved(o)
      OBVIOUS
    <2>3. row = [old EXCEPT !.digest = o.digest, !.updatedAt = o.at]
      BY <1>3, <2>1, <2>2 DEF Moved
    <2>4. old.createdAt \in Nat /\ old.updatedAt \in Nat
      BY <2>1 DEF Tag
    <2>5. row \in Tag
      BY <1>1, <2>1, <2>3 DEF Tag
    <2>6. row.digest = o.digest /\ row.createdAt = old.createdAt /\ row.updatedAt = o.at
      BY <2>1, <2>3 DEF Tag
    <2>7. row.createdAt <= row.updatedAt
      BY <1>1, <1>3, <2>1, <2>4, <2>6
    <2>8. QED
      BY <1>3, <2>2, <2>5, <2>6, <2>7, RowAssumption
  <1>4. CASE tags[t] # None /\ ~(tags[t].digest # o.digest /\ o.at > tags[t].updatedAt)
    <2>1. Moved(o) = tags[t]
      BY <1>4 DEF Moved
    <2>2. QED
      BY <1>4, <2>1
  <1>5. QED
    BY <1>2, <1>3, <1>4

(* What the requests are.                                                  *)
RequestsOK ==
  /\ requests \subseteq Request
  /\ \A r \in requests :
       /\ \A i \in DOMAIN r.events : r.events[i] \in Events
       /\ \A i \in DOMAIN r.todo : r.todo[i] \in Events

LEMMA HeadEvent ==
  ASSUME RequestsOK, NEW r \in requests, r.todo # << >>
  PROVE  /\ r.todo \in Seq(Nat) /\ 1 \in DOMAIN r.todo
         /\ Head(r.todo) = r.todo[1] /\ Head(r.todo) \in Events
  <1>1. r.todo \in Seq(Nat)
    BY DEF RequestsOK, Request
  <1>2. 1 \in DOMAIN r.todo /\ Head(r.todo) = r.todo[1]
    BY <1>1
  <1>3. QED
    BY <1>1, <1>2 DEF RequestsOK

(* The request after one of its steps.                                     *)
LEMMA ReconciledRequest ==
  ASSUME RequestsOK, NEW r \in requests, pushed' = pushed,
         requests' = Replace(r, [r EXCEPT !.reconciled = TRUE])
  PROVE  RequestsOK'
  <1>1. PICK s : s = [r EXCEPT !.reconciled = TRUE]
    OBVIOUS
  <1>2. r \in Request
    BY DEF RequestsOK
  <1>3. s \in Request /\ s.events = r.events /\ s.todo = r.todo
    BY <1>1, <1>2 DEF Request
  <1>4. requests' = (requests \ {r}) \cup {s} /\ Events' = Events
    BY <1>1 DEF Replace, Events
  <1>5. QED
    BY <1>3, <1>4 DEF RequestsOK

LEMMA ScheduledRequest ==
  ASSUME RequestsOK, NEW r \in requests, r.todo # << >>, pushed' = pushed,
         requests' = Replace(r, [r EXCEPT !.todo = Tail(@), !.reconciled = FALSE])
  PROVE  RequestsOK'
  <1>1. PICK todo : todo = Tail(r.todo)
    OBVIOUS
  <1>2. PICK s : s = [r EXCEPT !.todo = todo, !.reconciled = FALSE]
    OBVIOUS
  <1>3. r \in Request /\ r.todo \in Seq(Nat)
    BY DEF RequestsOK, Request
  <1>4. /\ todo \in Seq(Nat)
        /\ \A i \in DOMAIN todo : i + 1 \in DOMAIN r.todo /\ todo[i] = r.todo[i + 1]
    BY <1>1, <1>3
  <1>5. s \in Request /\ s.events = r.events /\ s.todo = todo
    BY <1>2, <1>3, <1>4 DEF Request
  <1>6. requests' = (requests \ {r}) \cup {s} /\ Events' = Events
    BY <1>1, <1>2 DEF Replace, Events
  <1>7. QED
    BY <1>4, <1>5, <1>6 DEF RequestsOK

LEMMA FewerRequests ==
  ASSUME RequestsOK, requests' \subseteq requests, Events \subseteq Events'
  PROVE  RequestsOK'
BY DEF RequestsOK

LEMMA SentRequest ==
  ASSUME RequestsOK, pushed \in Seq(Event), NEW n \in 1 .. MaxBatch, NEW events \in [1 .. n -> Events],
         Send(events)
  PROVE  RequestsOK'
  <1>1. PICK s : s = [events |-> events, todo |-> events, reconciled |-> FALSE]
    OBVIOUS
  <1>2. n \in Nat /\ Events \subseteq Nat /\ DOMAIN events = 1 .. n
    BY NotificationAssumption DEF Events
  <1>3. events \in Seq(Nat)
    <2>1. events \in [1 .. n -> Nat]
      BY <1>2
    <2>2. QED
      BY <1>2, <2>1
  <1>4. s \in Request /\ s.events = events /\ s.todo = events
    BY <1>1, <1>3 DEF Request
  <1>5. requests' = requests \cup {s} /\ Events' = Events
    BY <1>1 DEF Send, Events
  <1>6. QED
    BY <1>4, <1>5 DEF RequestsOK

-----------------------------------------------------------------------------
LEMMA JoinStart == Init => JoinInv
  <1> SUFFICES ASSUME Init PROVE JoinInv
    OBVIOUS
  <1>1. Events = {} /\ applied = {} /\ pushed = << >>
    BY DEF Init, Events
  <1>2. TypeOK
    BY <1>1 DEF Init, StoreInit, TypeOK, StoreTypeOK
  <1>3. PushedOK
    BY <1>1 DEF PushedOK
  <1>4. \A d \in Digests : DigestOK(d)
    BY <1>1 DEF Init, StoreInit, DigestOK, Known, Describing
  <1>5. TagsKnown
    BY DEF Init, StoreInit, TagsKnown
  <1>6. QED
    BY <1>2, <1>3, <1>4, <1>5 DEF JoinInv

(* A step that applies no event. *)
LEMMA SameStore ==
  ASSUME JoinInv, artifacts' = artifacts, descriptors' = descriptors,
         applied' = applied, \A e \in applied : pushed'[e] = pushed[e]
  PROVE  \A d \in Digests : DigestOK(d)'
  <1> SUFFICES ASSUME NEW d \in Digests PROVE DigestOK(d)'
    OBVIOUS
  <1>1. DigestOK(d) /\ (Known' = Known)
    BY DEF JoinInv, Known
  <1>2. Describing(d)' = Describing(d)
    BY DEF Describing
  <1>3. RowOK(d) => RowOK(d)'
    BY <1>2 DEF RowOK, Said
  <1>4. (d \in Known <=> \E e \in applied : d \in Mentioned(pushed[e]))'
    BY <1>1 DEF DigestOK
  <1>5. (\A e \in Describing(d) : descriptors[d] = Recorded(pushed[e].descriptors))'
    BY <1>1, <1>2 DEF DigestOK, Describing
  <1>6. QED
    BY <1>1, <1>2, <1>3, <1>4, <1>5 DEF DigestOK

LEMMA SameEvents ==
  ASSUME JoinInv, pushed' = pushed
  PROVE  PushedOK' /\ Events' = Events
BY DEF JoinInv, PushedOK, Events

LEMMA PushKeeps ==
  ASSUME JoinInv, NEW u \in Uploads, Push(u)
  PROVE  JoinInv'
  <1>1. PICK o : o = [digest |-> u.digest, kind |-> u.kind, facts |-> u.facts,
                      descriptors |-> u.descriptors, tag |-> u.tag,
                      at |-> Len(pushed) + 1]
    OBVIOUS
  <1>2. /\ pushed \in Seq(Event) /\ pushed' = Append(pushed, o)
        /\ UNCHANGED <<artifacts, descriptors, tags, acked, requests, workflows,
                       repair, applied, rejected>>
    BY <1>1 DEF Push, JoinInv, TypeOK, Event, storeVars
  <1>3. PICK n : n = Len(pushed)
    OBVIOUS
  <1>4. n \in Nat /\ Events = 1 .. n
    BY <1>2, <1>3 DEF Events
  <1>5. u \in Upload
    BY NotificationAssumption
  <1>6. /\ o \in Event /\ o.descriptors = u.descriptors /\ o.kind = u.kind
        /\ o.digest = u.digest /\ o.at = n + 1
    BY <1>1, <1>3, <1>4, <1>5 DEF Upload, Event
  <1>7. EventOK(o)
    BY <1>5, <1>6 DEF EventOK, Upload
  <1>8. /\ pushed' \in Seq(Event) /\ Events' = 1 .. (n + 1)
        /\ pushed'[n + 1] = o
        /\ \A e \in Events : pushed'[e] = pushed[e]
    BY <1>2, <1>3, <1>4, <1>6 DEF Events
  <1>9. Events \subseteq Events' /\ \A e \in Events' : e \in Events \/ e = n + 1
    BY <1>4, <1>8
  <1>10. PushedOK'
    <2>1. ASSUME NEW e \in Events'
          PROVE  /\ EventOK(pushed'[e]) /\ pushed'[e].at = e
                 /\ \E w \in Uploads :
                      /\ w.digest = pushed'[e].digest /\ w.kind = pushed'[e].kind
                      /\ w.descriptors = pushed'[e].descriptors
      <3>1. CASE e \in Events
        BY <1>8, <3>1 DEF JoinInv, PushedOK
      <3>2. CASE e = n + 1
        BY <1>6, <1>7, <1>8, <3>2
      <3>3. QED
        BY <1>9, <3>1, <3>2
    <2>2. QED
      BY <2>1 DEF PushedOK
  <1>11. RequestsOK'
    <2>1. RequestsOK /\ requests' \subseteq requests
      BY <1>2 DEF JoinInv, TypeOK, RequestsOK
    <2>2. QED
      BY <1>9, <2>1, FewerRequests
  <1>12. TypeOK'
    <2>1. orderly' \in BOOLEAN
      BY DEF JoinInv, TypeOK, Push
    <2>2. QED
      BY <1>2, <1>8, <1>9, <1>11, <2>1
         DEF JoinInv, TypeOK, StoreTypeOK, RequestsOK, Event
  <1>13. applied \subseteq Events
    BY DEF JoinInv, TypeOK
  <1>14. \A d \in Digests : DigestOK(d)'
    BY <1>2, <1>8, <1>13, SameStore
  <1>15. TagsKnown'
    BY <1>2 DEF JoinInv, TagsKnown, Known
  <1>16. QED
    BY <1>10, <1>12, <1>14, <1>15 DEF JoinInv

LEMMA ReconcileKeeps ==
  ASSUME JoinInv, NEW r \in requests, Reconcile(r)
  PROVE  JoinInv'
  <1>1. PICK e : e = Head(r.todo)
    OBVIOUS
  <1>2. RequestsOK
    BY DEF JoinInv, TypeOK, RequestsOK
  <1>3. /\ e \in Events /\ ReconcileTx(pushed[e]) /\ applied' = applied \cup {e}
        /\ pushed' = pushed
        /\ UNCHANGED <<acked, workflows, repair, rejected>>
        /\ requests' = Replace(r, [r EXCEPT !.reconciled = TRUE])
    BY <1>1, <1>2, HeadEvent DEF Reconcile
  <1>4. PushedOK' /\ Events' = Events
    BY <1>3, SameEvents
  <1>5. RequestsOK'
    BY <1>2, <1>3, ReconciledRequest
  <1>6. ASSUME NEW d \in Digests
        PROVE  /\ DigestOK(d)' /\ artifacts'[d] \in Artifact \cup {None}
               /\ d \in Known => d \in Known'
               /\ descriptors'[d] \in Seq(Child)
               /\ d = pushed[e].digest => d \in Known'
    BY <1>3, ReconciledDigest
  <1>7. PICK o : o = pushed[e]
    OBVIOUS
  <1>8. EventOK(o) /\ o.digest \in Digests /\ o.tag \in Tags \cup {None}
    BY <1>3, <1>7 DEF JoinInv, PushedOK, EventOK, Event
  <1>9. artifacts' \in [Digests -> Artifact \cup {None}]
    <2>1. \E g : artifacts' = [d \in Digests |-> g[d]]
      <3>1. artifacts' = [d \in Digests |-> artifacts'[d]]
        BY <1>3 DEF ReconcileTx
      <3>2. QED
        BY <3>1
    <2>2. QED
      BY <1>6, <2>1
  <1>10. descriptors' \in [Digests -> Seq(Child)]
    <2>1. descriptors \in [Digests -> Seq(Child)]
      BY DEF JoinInv, TypeOK, StoreTypeOK
    <2>2. descriptors' = [d \in Digests |-> descriptors'[d]]
      BY <1>3, <2>1 DEF ReconcileTx
    <2>3. QED
      BY <1>6, <2>2
  <1>11. tags \in [Tags -> Tag \cup {None}] /\ TagsKnown
    BY DEF JoinInv, TypeOK, StoreTypeOK
  <1>12. tags' = IF o.tag = None THEN tags ELSE [tags EXCEPT ![o.tag] = Moved(o)]
    BY <1>3, <1>7 DEF ReconcileTx
  <1>13. ASSUME NEW t \in Tags
         PROVE  /\ tags'[t] \in Tag \cup {None}
                /\ tags'[t] # None => /\ tags'[t].digest \in Known'
                                      /\ tags'[t].createdAt <= tags'[t].updatedAt
    <2>1. tags[t] # None =>
            /\ tags[t].createdAt <= tags[t].updatedAt
            /\ tags[t].digest \in Known'
      <3>1. tags[t] # None => tags[t].digest \in Known
        BY <1>11 DEF TagsKnown
      <3>2. Known \subseteq Digests
        BY DEF Known
      <3>3. QED
        BY <1>6, <1>11, <3>1, <3>2 DEF TagsKnown
    <2>2. CASE o.tag = t
      <3>1. tags'[t] = Moved(o)
        BY <1>11, <1>12, <2>2, ArtifactStoreAssumption
      <3>2. tags[t] \in Tag \cup {None}
        BY <1>11
      <3>3. /\ Moved(o) \in Tag
            /\ Moved(o).createdAt <= Moved(o).updatedAt
            /\ Moved(o).digest = o.digest \/ (tags[t] # None /\ Moved(o) = tags[t])
        BY <1>8, <2>1, <2>2, <3>2, MovedTag
      <3>4. QED
        BY <1>6, <1>7, <1>8, <2>1, <3>1, <3>3
    <2>3. CASE o.tag # t
      <3>1. tags'[t] = tags[t]
        BY <1>11, <1>12, <2>3
      <3>2. QED
        BY <1>11, <2>1, <3>1
    <2>4. QED
      BY <2>2, <2>3
  <1>14. tags' \in [Tags -> Tag \cup {None}]
    <2>1. tags' = [t \in Tags |-> tags'[t]]
      BY <1>11, <1>12
    <2>2. QED
      BY <1>13, <2>1
  <1>15. TagsKnown'
    BY <1>13 DEF TagsKnown
  <1>16. TypeOK'
    <2>1. orderly' \in BOOLEAN
      BY DEF JoinInv, TypeOK, Reconcile
    <2>2. QED
      BY <1>3, <1>4, <1>5, <1>9, <1>10, <1>14, <2>1
         DEF JoinInv, TypeOK, StoreTypeOK, RequestsOK
  <1>17. QED
    BY <1>4, <1>6, <1>15, <1>16 DEF JoinInv

(* The steps that apply no event and push none.                            *)
LEMMA QuietKeeps ==
  ASSUME JoinInv, pushed' = pushed, artifacts' = artifacts,
         descriptors' = descriptors, applied' = applied,
         \A t \in Tags : tags'[t] = tags[t] \/ tags'[t] = None,
         tags' \in [Tags -> Tag \cup {None}],
         RequestsOK', acked' \subseteq Events, workflows' \subseteq Digests,
         repair' \subseteq Digests, rejected' \subseteq Events, orderly' \in BOOLEAN
  PROVE  JoinInv'
  <1>1. PushedOK' /\ Events' = Events
    BY SameEvents
  <1>2. \A d \in Digests : DigestOK(d)'
    BY SameStore
  <1>3. TagsKnown'
    BY DEF JoinInv, TagsKnown, Known
  <1>4. TypeOK'
    BY <1>1 DEF JoinInv, TypeOK, StoreTypeOK, RequestsOK
  <1>5. QED
    BY <1>1, <1>2, <1>3, <1>4 DEF JoinInv

LEMMA HandlerKeeps ==
  ASSUME JoinInv, NEW r \in requests,
         Reject(r) \/ Schedule(r) \/ Acknowledge(r) \/ Drop(r)
  PROVE  JoinInv'
  <1>1. /\ RequestsOK /\ tags \in [Tags -> Tag \cup {None}]
        /\ acked \subseteq Events /\ workflows \subseteq Digests
        /\ repair \subseteq Digests /\ rejected \subseteq Events
    BY DEF JoinInv, TypeOK, StoreTypeOK, RequestsOK
  <1>2. /\ pushed' = pushed /\ applied' = applied /\ repair' = repair
        /\ UNCHANGED storeVars
    BY DEF Reject, ConflictTx, Schedule, Acknowledge, Drop
  <1>3. Events' = Events
    BY <1>2 DEF Events
  <1>4. RequestsOK'
    <2>1. CASE Schedule(r)
      BY <1>1, <1>2, <2>1, ScheduledRequest DEF Schedule
    <2>2. CASE Reject(r) \/ Acknowledge(r) \/ Drop(r)
      <3>1. requests' \subseteq requests
        BY <2>2 DEF Reject, Acknowledge, Drop
      <3>2. QED
        BY <1>1, <1>3, <3>1, FewerRequests
    <2>3. QED
      BY <2>1, <2>2
  <1>5. acked' \subseteq Events
    <2>1. CASE Acknowledge(r)
      BY <1>1, <2>1 DEF Acknowledge, RequestsOK
    <2>2. CASE Reject(r) \/ Schedule(r) \/ Drop(r)
      BY <1>1, <2>2 DEF Reject, Schedule, Drop
    <2>3. QED
      BY <2>1, <2>2
  <1>6. rejected' \subseteq Events
    <2>1. CASE Reject(r)
      <3>1. Head(r.todo) \in Events
        BY <1>1, <2>1, HeadEvent DEF Reject
      <3>2. QED
        BY <1>1, <2>1, <3>1 DEF Reject
    <2>2. CASE Schedule(r) \/ Acknowledge(r) \/ Drop(r)
      BY <1>1, <2>2 DEF Schedule, Acknowledge, Drop
    <2>3. QED
      BY <2>1, <2>2
  <1>7. workflows' \subseteq Digests
    <2>1. Known \subseteq Digests
      BY DEF Known
    <2>2. QED
      BY <1>1, <2>1 DEF Reject, ConflictTx, Schedule, EnsureWorkflow, Acknowledge, Drop
  <1>8. orderly' \in BOOLEAN
    BY DEF JoinInv, TypeOK, Reject, Schedule, Acknowledge, Drop
  <1>9. QED
    BY <1>1, <1>2, <1>4, <1>5, <1>6, <1>7, <1>8, QuietKeeps DEF storeVars

LEMMA OtherKeeps ==
  ASSUME JoinInv,
         \/ \E n \in 1 .. MaxBatch : \E events \in [1 .. n -> Events] : Send(events)
         \/ \E t \in Tags : RemoveTag(t)
         \/ BeginRepair
         \/ \E d \in repair : RepairOne(d)
         \/ AbortRepair
         \/ UNCHANGED vars
  PROVE  JoinInv'
  <1>1. /\ RequestsOK /\ tags \in [Tags -> Tag \cup {None}] /\ pushed \in Seq(Event)
        /\ acked \subseteq Events /\ workflows \subseteq Digests
        /\ repair \subseteq Digests /\ rejected \subseteq Events
    BY DEF JoinInv, TypeOK, StoreTypeOK, RequestsOK, Event
  <1>2. /\ pushed' = pushed /\ applied' = applied /\ artifacts' = artifacts
        /\ descriptors' = descriptors /\ acked' = acked /\ rejected' = rejected
    BY DEF Send, RemoveTag, RemoveTagTx, BeginRepair, RepairOne, AbortRepair, vars, storeVars
  <1>3. RequestsOK'
    <2>1. CASE \E n \in 1 .. MaxBatch : \E events \in [1 .. n -> Events] : Send(events)
      BY <1>1, <2>1, SentRequest
    <2>2. CASE requests' = requests
      BY <1>1, <1>2, <2>2 DEF RequestsOK, Events
    <2>3. QED
      BY <2>1, <2>2 DEF RemoveTag, BeginRepair, RepairOne, AbortRepair, vars
  <1>4. /\ \A t \in Tags : tags'[t] = tags[t] \/ tags'[t] = None
        /\ tags' \in [Tags -> Tag \cup {None}]
    <2>1. CASE \E t \in Tags : RemoveTag(t)
      BY <1>1, <2>1 DEF RemoveTag, RemoveTagTx
    <2>2. CASE tags' = tags
      BY <1>1, <2>2
    <2>3. QED
      BY <2>1, <2>2 DEF Send, BeginRepair, RepairOne, AbortRepair, vars, storeVars
  <1>5. workflows' \subseteq Digests
    BY <1>1 DEF Send, RemoveTag, BeginRepair, RepairOne, EnsureWorkflow, AbortRepair, vars
  <1>6. repair' \subseteq Digests
    <2>1. FirstMissing \subseteq Digests
      BY DEF FirstMissing, Known
    <2>2. QED
      BY <1>1, <2>1 DEF Send, RemoveTag, BeginRepair, RepairOne, AbortRepair, vars
  <1>7. orderly' \in BOOLEAN
    BY DEF JoinInv, TypeOK, Send, RemoveTag, BeginRepair, RepairOne, AbortRepair, vars
  <1>8. QED
    BY <1>1, <1>2, <1>3, <1>4, <1>5, <1>6, <1>7, QuietKeeps

LEMMA JoinStep == JoinInv /\ [Next]_vars => JoinInv'
  <1> SUFFICES ASSUME JoinInv, [Next]_vars PROVE JoinInv'
    OBVIOUS
  <1>1. CASE \E u \in Uploads : Push(u)
    BY <1>1, PushKeeps
  <1>2. CASE \E r \in requests : Reconcile(r)
    BY <1>2, ReconcileKeeps
  <1>3. CASE \E r \in requests : Reject(r) \/ Schedule(r) \/ Acknowledge(r) \/ Drop(r)
    BY <1>3, HandlerKeeps
  <1>4. CASE \/ \E n \in 1 .. MaxBatch : \E events \in [1 .. n -> Events] : Send(events)
             \/ \E t \in Tags : RemoveTag(t)
             \/ BeginRepair
             \/ \E d \in repair : RepairOne(d)
             \/ AbortRepair
             \/ UNCHANGED vars
    BY <1>4, OtherKeeps
  <1>5. QED
    BY <1>1, <1>2, <1>3, <1>4 DEF Next

LEMMA JoinInvariance == Spec => []JoinInv
BY JoinStart, JoinStep, PTL DEF Spec

(* Rows, events and requests keep their types, whatever is pushed.         *)
THEOREM TypeCorrect == Spec => []TypeOK
BY JoinInvariance, PTL DEF JoinInv

-----------------------------------------------------------------------------
LEMMA JoinInvJoin == JoinInv => StoreIsJoin
  <1> SUFFICES ASSUME JoinInv, NEW d \in Digests
               PROVE  /\ d \in Known <=> Naming(d) # {}
                      /\ d \in Known =>
                           /\ \A e \in Naming(d) : artifacts[d].discoveredAt <= pushed[e].at
                           /\ \E e \in Naming(d) : artifacts[d].discoveredAt = pushed[e].at
                           /\ {artifacts[d].facts} \ {None} =
                                {m.facts : m \in {n \in UNION {Mentions(pushed[e]) :
                                                               e \in Naming(d)} :
                                                  n.digest = d}} \ {None}
                           /\ artifacts[d].complete <=> Describing(d) # {}
                      /\ \A e \in Describing(d) :
                           descriptors[d] = Recorded(pushed[e].descriptors)
    BY DEF StoreIsJoin
  <1>1. DigestOK(d) /\ artifacts \in [Digests -> Artifact \cup {None}]
        /\ applied \subseteq Events
    BY DEF JoinInv, TypeOK, StoreTypeOK
  <1>2. \A e : e \in Naming(d) <=> e \in applied /\ d \in Mentioned(pushed[e])
    BY DEF Naming
  <1>3. ASSUME d \in Known
        PROVE  {artifacts[d].facts} \ {None} =
                 {m.facts : m \in {n \in UNION {Mentions(pushed[e]) : e \in Naming(d)} :
                                   n.digest = d}} \ {None}
    <2>1. PICK named : named = {n \in UNION {Mentions(pushed[e]) : e \in Naming(d)} :
                                 n.digest = d}
      OBVIOUS
    <2>2. \A m : m \in named <=>
                   m.digest = d /\ \E e \in applied : m \in Mentions(pushed[e])
      BY <1>2, <2>1, MentionedByMention
    <2>3. \A m \in named : m.facts \in Facts \cup {None}
      <3>1. \A e \in applied : EventOK(pushed[e])
        BY <1>1 DEF JoinInv, PushedOK
      <3>2. QED
        BY <2>2, <3>1, MentionShape
    <2>4. \A f \in Facts : (\E m \in named : m.facts = f) <=>
                             \E e \in applied : Said(pushed[e], d, f)
      BY <2>2 DEF Said
    <2>5. \A f \in Facts : artifacts[d].facts = f <=> \E m \in named : m.facts = f
      BY <1>1, <1>3, <2>4 DEF DigestOK, RowOK
    <2>6. artifacts[d].facts \in Facts \cup {None}
      BY <1>1, <1>3 DEF Known, Artifact
    <2>7. {artifacts[d].facts} \ {None} = {m.facts : m \in named} \ {None}
      BY <2>3, <2>5, <2>6, ArtifactStoreAssumption
    <2>8. QED
      BY <2>1, <2>7
  <1>4. QED
    BY <1>1, <1>2, <1>3 DEF DigestOK, RowOK

(* Whatever the order of delivery and however often an event comes, the    *)
(* tables hold what the applied events say together (Reconcile of the      *)
(* artifact store, FR-ART-001, FR-ART-004).                                *)
THEOREM StoreAlwaysJoin == Spec => []StoreIsJoin
BY JoinInvariance, JoinInvJoin, PTL

LEMMA JoinInvReferences == JoinInv => ReferencesHold
  <1> SUFFICES ASSUME JoinInv PROVE ReferencesHold
    OBVIOUS
  <1>1. \A d \in Digests : DigestOK(d)
    BY DEF JoinInv
  <1>2. \A e \in applied : e \in Events /\ EventOK(pushed[e])
    BY DEF JoinInv, TypeOK, PushedOK
  <1>3. Known \subseteq Digests
    BY DEF Known
  <1>4. ASSUME NEW d \in Known
        PROVE  /\ artifacts[d].complete => artifacts[d].kind = "INDEX"
               /\ artifacts[d].discoveredAt <= artifacts[d].updatedAt
    <2>1. RowOK(d)
      BY <1>1, <1>3 DEF DigestOK
    <2>2. ASSUME artifacts[d].complete PROVE artifacts[d].kind = "INDEX"
      <3>1. PICK e \in applied : pushed[e].digest = d /\ pushed[e].descriptors # None
        BY <2>1, <2>2 DEF RowOK, Describing
      <3>2. pushed[e].kind = "INDEX"
        BY <1>2, <3>1 DEF EventOK
      <3>3. PICK m \in Mentions(pushed[e]) : m.digest = pushed[e].digest
        BY MentionsParent, MentionedByMention
      <3>4. m.kind = pushed[e].kind
        BY <1>2, <3>3, MentionShape
      <3>5. QED
        BY <2>1, <3>1, <3>2, <3>3, <3>4 DEF RowOK
    <2>3. QED
      BY <2>1, <2>2 DEF RowOK
  <1>5. ASSUME NEW d \in Digests, NEW i \in DOMAIN descriptors[d]
        PROVE  /\ d \in Known /\ artifacts[d].complete
               /\ descriptors[d][i].digest # d
               /\ descriptors[d][i].digest \in Known
               /\ artifacts[descriptors[d][i].digest].kind = "MANIFEST"
    <2>1. Describing(d) # {}
      BY <1>1, <1>5 DEF DigestOK
    <2>2. PICK e \in applied : pushed[e].digest = d /\ pushed[e].descriptors # None
      BY <2>1 DEF Describing
    <2>3. descriptors[d] = Recorded(pushed[e].descriptors)
      BY <1>1, <2>2 DEF DigestOK, Describing
    <2>4. PICK o : o = pushed[e]
      OBVIOUS
    <2>5. EventOK(o) /\ o.digest = d /\ o.descriptors # None
      BY <1>2, <2>2, <2>4
    <2>6. PICK child : child = o.descriptors[i].digest
      OBVIOUS
    <2>7. i \in DOMAIN o.descriptors /\ descriptors[d][i].digest = child
      BY <1>5, <2>3, <2>4, <2>5, <2>6, RecordedType
    <2>8. child # d /\ child \in Digests
      <3>1. o.descriptors \in Seq(Descriptor)
        BY <2>5 DEF EventOK, Event
      <3>2. o.descriptors[i] \in Descriptor
        BY <2>7, <3>1
      <3>3. QED
        BY <2>5, <2>6, <2>7, <3>2 DEF EventOK, Descriptor
    <2>9. child \in Mentioned(o) /\ d \in Mentioned(o)
      BY <2>5, <2>6, <2>7, MentionsChild, MentionsParent
    <2>10. child \in Known /\ d \in Known
      BY <1>1, <2>4, <2>5, <2>8, <2>9 DEF DigestOK
    <2>11. artifacts[d].complete
      BY <1>1, <2>1, <2>10 DEF DigestOK, RowOK
    <2>12. PICK m \in Mentions(o) : m.digest = child
      BY <2>9, MentionedByMention
    <2>13. m.kind = "MANIFEST"
      BY <2>5, <2>8, <2>12, MentionShape
    <2>14. artifacts[child].kind = "MANIFEST"
      BY <1>1, <2>4, <2>8, <2>10, <2>12, <2>13 DEF DigestOK, RowOK
    <2>15. QED
      BY <2>7, <2>8, <2>10, <2>11, <2>14
  <1>6. QED
    BY <1>4, <1>5 DEF ReferencesHold, JoinInv, TagsKnown

(* The constraints of the tables that no statement checks hold of every    *)
(* state, so the database never refuses a write of Reconcile (migration    *)
(* 000006).                                                                *)
THEOREM ReferencesAlwaysHold == Spec => []ReferencesHold
BY JoinInvariance, JoinInvReferences, PTL

-----------------------------------------------------------------------------
(* No index that is pushed is a child of another.                          *)
NoNestedIndexes ==
  \A u, v \in Uploads : u.descriptors # None =>
    \A i \in DOMAIN u.descriptors :
      u.descriptors[i].digest = v.digest => v.kind = "MANIFEST"

LEMMA RefusedContradicts ==
  ASSUME NoNestedIndexes, JoinInv, NEW e \in Events, ~Accepts(pushed[e])
  PROVE  \E f \in applied \cup {e} : Contradict(pushed[e], pushed[f])
  <1>1. PICK o : o = pushed[e]
    OBVIOUS
  <1>2. EventOK(o) /\ ~Accepts(o)
    BY <1>1 DEF JoinInv, PushedOK
  <1>3. \A d \in Digests : DigestOK(d)
    BY DEF JoinInv
  <1>4. \A f \in applied : f \in Events /\ EventOK(pushed[f])
    BY DEF JoinInv, TypeOK, PushedOK
  <1>5. ASSUME NEW m \in Mentions(o), artifacts[m.digest] # None,
               artifacts[m.digest].kind # m.kind
        PROVE  \E f \in applied : Contradict(o, pushed[f])
    <2>1. m.digest \in Known
      BY <1>2, <1>5, MentionShape DEF Known
    <2>2. DigestOK(m.digest) /\ RowOK(m.digest)
      BY <1>3, <2>1 DEF Known, DigestOK
    <2>3. PICK f \in applied : m.digest \in Mentioned(pushed[f])
      BY <2>1, <2>2 DEF DigestOK
    <2>4. PICK n \in Mentions(pushed[f]) : n.digest = m.digest
      BY <2>3, MentionedByMention
    <2>5. n.kind # m.kind
      BY <1>5, <2>2, <2>4 DEF RowOK
    <2>6. PICK p : p = pushed[f]
      OBVIOUS
    <2>7. EventOK(p) /\ n \in Mentions(p)
      BY <1>4, <2>4, <2>6
    <2>8. /\ m.kind = IF m.digest = o.digest THEN o.kind ELSE "MANIFEST"
          /\ n.kind = IF m.digest = p.digest THEN p.kind ELSE "MANIFEST"
      BY <1>2, <2>4, <2>7, MentionShape
    <2>9. \E u, v \in Uploads :
            /\ u.digest = o.digest /\ u.kind = o.kind /\ u.descriptors = o.descriptors
            /\ v.digest = p.digest /\ v.kind = p.kind /\ v.descriptors = p.descriptors
      BY <1>1, <1>4, <2>6 DEF JoinInv, PushedOK
    <2>10. m.digest = o.digest /\ m.digest # p.digest => o.kind = "MANIFEST"
      <3>1. ASSUME m.digest = o.digest, m.digest # p.digest PROVE o.kind = "MANIFEST"
        <4>1. p.descriptors # None /\ \E i \in DOMAIN p.descriptors :
                                          n.digest = p.descriptors[i].digest
          BY <2>4, <2>7, <3>1, MentionShape
        <4>2. QED
          BY <2>4, <2>9, <3>1, <4>1 DEF NoNestedIndexes
      <3>2. QED
        BY <3>1
    <2>11. m.digest # o.digest /\ m.digest = p.digest => p.kind = "MANIFEST"
      <3>1. ASSUME m.digest # o.digest, m.digest = p.digest PROVE p.kind = "MANIFEST"
        <4>1. o.descriptors # None /\ \E i \in DOMAIN o.descriptors :
                                          m.digest = o.descriptors[i].digest
          BY <1>2, <3>1, MentionShape
        <4>2. QED
          BY <2>9, <3>1, <4>1 DEF NoNestedIndexes
      <3>2. QED
        BY <3>1
    <2>12. o.digest = p.digest /\ o.kind # p.kind
      BY <2>5, <2>8, <2>10, <2>11
    <2>13. QED
      BY <2>6, <2>12 DEF Contradict
  <1>6. ASSUME NEW m \in Mentions(o), artifacts[m.digest] # None,
               Differ(artifacts[m.digest].facts, m.facts)
        PROVE  \E f \in applied : Contradict(o, pushed[f])
    <2>1. m.digest \in Known
      BY <1>2, <1>6, MentionShape DEF Known
    <2>2. DigestOK(m.digest) /\ RowOK(m.digest)
      BY <1>3, <2>1 DEF Known, DigestOK
    <2>3. PICK g : g = artifacts[m.digest].facts
      OBVIOUS
    <2>4. g # None /\ m.facts # None /\ g # m.facts
      BY <1>6, <2>3 DEF Differ
    <2>5. g \in Facts
      BY <2>1, <2>3, <2>4 DEF JoinInv, TypeOK, StoreTypeOK, Known, Artifact
    <2>6. PICK f \in applied : Said(pushed[f], m.digest, g)
      BY <2>2, <2>3, <2>5 DEF RowOK
    <2>7. PICK n \in Mentions(pushed[f]) : n.digest = m.digest /\ n.facts = g
      BY <2>6 DEF Said
    <2>8. Differ(m.facts, n.facts)
      BY <2>4, <2>7 DEF Differ
    <2>9. QED
      BY <2>7, <2>8 DEF Contradict
  <1>7. ASSUME NEW m \in Mentions(o), NEW n \in Mentions(o), m.digest = n.digest,
               m.kind # n.kind \/ Differ(m.facts, n.facts)
        PROVE  Contradict(o, o)
    <2>1. m.kind = n.kind
      BY <1>2, <1>7, MentionShape
    <2>2. QED
      BY <1>7, <2>1 DEF Contradict
  <1>8. ASSUME o.descriptors # None, artifacts[o.digest] # None,
               artifacts[o.digest].complete,
               descriptors[o.digest] # Recorded(o.descriptors)
        PROVE  \E f \in applied : Contradict(o, pushed[f])
    <2>1. o.digest \in Known
      BY <1>2, <1>8 DEF EventOK, Event, Known
    <2>2. DigestOK(o.digest) /\ RowOK(o.digest)
      BY <1>3, <2>1 DEF Known, DigestOK
    <2>3. PICK f \in Describing(o.digest) : TRUE
      BY <1>8, <2>2 DEF RowOK
    <2>4. /\ f \in applied /\ pushed[f].digest = o.digest
          /\ pushed[f].descriptors # None
          /\ descriptors[o.digest] = Recorded(pushed[f].descriptors)
      BY <2>2, <2>3 DEF Describing, DigestOK
    <2>5. QED
      BY <1>8, <2>4 DEF Contradict
  <1>9. QED
    BY <1>1, <1>2, <1>5, <1>6, <1>7, <1>8 DEF Accepts

LEMMA ConflictStep ==
  ASSUME NoNestedIndexes
  PROVE  JoinInv /\ ConflictIsContradiction /\ [Next]_vars => ConflictIsContradiction'
  <1> SUFFICES ASSUME JoinInv, ConflictIsContradiction, [Next]_vars
               PROVE  ConflictIsContradiction'
    OBVIOUS
  <1>1. /\ applied \subseteq applied'
        /\ \A e \in Events : pushed'[e] = pushed[e]
    <2>1. CASE \E u \in Uploads : Push(u)
      <3>1. PICK o : pushed' = Append(pushed, o) /\ o \in Event
        <4>1. PICK u \in Uploads : Push(u)
          BY <2>1
        <4>2. PICK o : o = [digest |-> u.digest, kind |-> u.kind, facts |-> u.facts,
                            descriptors |-> u.descriptors, tag |-> u.tag,
                            at |-> Len(pushed) + 1]
          OBVIOUS
        <4>3. u \in Upload /\ pushed \in Seq(Event)
          BY NotificationAssumption DEF JoinInv, TypeOK, Event
        <4>4. o \in Event
          BY <4>2, <4>3 DEF Upload, Event
        <4>5. QED
          BY <4>1, <4>2, <4>4 DEF Push
      <3>2. pushed \in Seq(Event) /\ applied' = applied
        BY <2>1 DEF JoinInv, TypeOK, Event, Push
      <3>3. QED
        BY <3>1, <3>2 DEF Events
    <2>2. CASE pushed' = pushed /\ applied \subseteq applied'
      BY <2>2
    <2>3. QED
      BY <2>1, <2>2
         DEF Next, Send, Reconcile, Reject, Schedule, Acknowledge, Drop, RemoveTag,
             BeginRepair, RepairOne, AbortRepair, vars
  <1>2. rejected \subseteq Events /\ applied \subseteq Events
    BY DEF JoinInv, TypeOK
  <1>3. ASSUME NEW e \in rejected
        PROVE  \E f \in applied' \cup {e} : Contradict(pushed'[e], pushed'[f])
    BY <1>1, <1>2 DEF ConflictIsContradiction
  <1>4. CASE rejected' = rejected
    BY <1>3, <1>4 DEF ConflictIsContradiction
  <1>5. ASSUME NEW r \in requests, Reject(r) PROVE ConflictIsContradiction'
    <2>1. PICK e : e = Head(r.todo)
      OBVIOUS
    <2>2. RequestsOK
      BY DEF JoinInv, TypeOK, RequestsOK
    <2>3. e \in Events /\ rejected' = rejected \cup {e} /\ ~Accepts(pushed[e])
          /\ pushed' = pushed /\ applied' = applied
      BY <1>5, <2>1, <2>2, HeadEvent DEF Reject, ConflictTx
    <2>4. \E f \in applied \cup {e} : Contradict(pushed[e], pushed[f])
      BY <2>3, RefusedContradicts
    <2>5. QED
      BY <1>3, <2>3, <2>4 DEF ConflictIsContradiction
  <1>6. QED
    BY <1>4, <1>5
       DEF Next, Push, Send, Reconcile, Schedule, Acknowledge, Drop, RemoveTag,
           BeginRepair, RepairOne, AbortRepair, vars

(* Unless an index is a child of another index, an event is answered with  *)
(* 409 only if it contradicts itself or an applied event (Reconcile's      *)
(* ErrConflict).                                                           *)
THEOREM ConflictsAreContradictions ==
  ASSUME NoNestedIndexes
  PROVE  Spec => []ConflictIsContradiction
  <1>1. Init => ConflictIsContradiction
    BY DEF Init, ConflictIsContradiction
  <1>2. QED
    BY <1>1, ConflictStep, JoinInvariance, PTL DEF Spec

-----------------------------------------------------------------------------
(* While orderly holds: no event was sent before an older one that had no  *)
(* answer 202, and no tag was removed.                                     *)

(* What a request has not applied yet is still to do, and what comes       *)
(* before it is applied or to do before it.                                *)
OrderOK(r) ==
  /\ \A i \in DOMAIN r.events :
       r.events[i] \in applied \/ \E j \in DOMAIN r.todo : r.todo[j] = r.events[i]
  /\ \A i \in DOMAIN r.todo, f \in Events : f < r.todo[i] =>
       f \in applied \/ \E j \in DOMAIN r.todo : j < i /\ r.todo[j] = f
  /\ r.reconciled => r.todo # << >> /\ Head(r.todo) \in applied

(* A tag names the artifact of the event it was moved by, and of every     *)
(* later one.                                                              *)
TagNewest(t) ==
  /\ tags[t] # None =>
       \E u \in applied :
         /\ pushed[u].tag = t /\ tags[t].updatedAt = u
         /\ \A f \in applied : pushed[f].tag = t /\ f >= u =>
              tags[t].digest = pushed[f].digest
  /\ (\E f \in applied : pushed[f].tag = t) => tags[t] # None

OrderInv ==
  /\ \A e \in applied, f \in Events : f < e => f \in applied
  /\ acked \subseteq applied
  /\ \A r \in requests : OrderOK(r)
  /\ \A t \in Tags : TagNewest(t)

LEMMA OrderStart == Init => OrderInv
BY DEF Init, StoreInit, OrderInv, TagNewest

LEMMA EventsNat ==
  ASSUME JoinInv
  PROVE  /\ Events = 1 .. Len(pushed) /\ Len(pushed) \in Nat /\ Events \subseteq Nat
         /\ pushed \in Seq(Event) /\ RequestsOK
         /\ applied \subseteq Events /\ acked \subseteq Events
BY DEF JoinInv, TypeOK, RequestsOK, Event, Events

LEMMA PushOrder ==
  ASSUME JoinInv, OrderInv, NEW up \in Uploads, Push(up)
  PROVE  OrderInv'
  <1>1. PICK n : n = Len(pushed)
    OBVIOUS
  <1>2. n \in Nat /\ Events = 1 .. n /\ pushed \in Seq(Event) /\ applied \subseteq Events
    BY <1>1, EventsNat
  <1>3. PICK o : pushed' = Append(pushed, o)
    BY DEF Push
  <1>4. /\ Events' = 1 .. (n + 1)
        /\ \A e \in Events : pushed'[e] = pushed[e]
    BY <1>1, <1>2, <1>3 DEF Events
  <1>5. /\ UNCHANGED <<artifacts, descriptors, tags, acked, requests, applied>>
    BY DEF Push, storeVars
  <1>6. \A f \in Events' : f \in Events \/ f = n + 1
    BY <1>2, <1>4
  <1>7. \A e \in applied, f \in Events' : f < e => f \in applied
    <2>1. ASSUME NEW e \in applied, NEW f \in Events', f < e PROVE f \in applied
      <3>1. e <= n /\ e \in Nat
        BY <1>2
      <3>2. f \in Events
        BY <1>2, <1>6, <2>1, <3>1
      <3>3. QED
        BY <2>1, <3>2 DEF OrderInv
    <2>2. QED
      BY <2>1
  <1>8. ASSUME NEW r \in requests PROVE OrderOK(r)'
    <2>1. \A e \in Events : e < n + 1
      BY <1>2
    <2>2. ASSUME NEW i \in DOMAIN r.todo, NEW f \in Events', f < r.todo[i]
          PROVE  f \in Events
      <3>1. r.todo[i] \in Events
        BY EventsNat DEF RequestsOK
      <3>2. r.todo[i] <= n /\ r.todo[i] \in Nat
        BY <1>2, <3>1
      <3>3. QED
        BY <1>2, <1>6, <2>2, <3>2
    <2>3. QED
      BY <1>5, <2>2 DEF OrderInv, OrderOK
  <1>9. ASSUME NEW t \in Tags PROVE TagNewest(t)'
    <2>1. \A f \in applied : pushed'[f] = pushed[f]
      BY <1>2, <1>4
    <2>2. applied' = applied /\ tags' = tags
      BY <1>5
    <2>3. TagNewest(t)
      BY DEF OrderInv
    <2>4. ASSUME tags[t] # None
          PROVE  \E u \in applied :
                   /\ pushed'[u].tag = t /\ tags[t].updatedAt = u
                   /\ \A f \in applied : pushed'[f].tag = t /\ f >= u =>
                        tags[t].digest = pushed'[f].digest
      BY <2>1, <2>3, <2>4 DEF TagNewest
    <2>5. (\E f \in applied : pushed'[f].tag = t) => tags[t] # None
      BY <2>1, <2>3 DEF TagNewest
    <2>6. QED
      BY <2>2, <2>4, <2>5 DEF TagNewest
  <1>10. QED
    BY <1>5, <1>7, <1>8, <1>9 DEF OrderInv

LEMMA SendOrder ==
  ASSUME JoinInv, OrderInv, NEW n \in 1 .. MaxBatch, NEW events \in [1 .. n -> Events],
         Send(events), FirstFirst(events)
  PROVE  OrderInv'
  <1>1. PICK s : s = [events |-> events, todo |-> events, reconciled |-> FALSE]
    OBVIOUS
  <1>2. s.events = events /\ s.todo = events /\ s.reconciled = FALSE
    BY <1>1
  <1>3. /\ requests' = requests \cup {s}
        /\ UNCHANGED <<artifacts, descriptors, tags, pushed, acked, applied>>
    BY <1>1 DEF Send, storeVars
  <1>4. Events' = Events /\ Events \subseteq Nat /\ DOMAIN events = 1 .. n /\ n \in Nat
    BY <1>3, EventsNat, NotificationAssumption DEF Events
  <1>5. ASSUME NEW i \in DOMAIN events, NEW f \in Events, f < events[i]
        PROVE  f \in applied \/ \E j \in DOMAIN events : j < i /\ events[j] = f
    <2>1. CASE f \in acked
      BY <2>1 DEF OrderInv
    <2>2. CASE f \notin acked
      <3>1. PICK j \in DOMAIN events : events[j] = f
        BY <1>5, <2>2 DEF FirstFirst
      <3>2. i < j => events[i] < events[j]
        BY DEF Send
      <3>3. events[i] \in Nat /\ f \in Nat /\ i \in Nat /\ j \in Nat
        <4>1. i \in 1 .. n /\ j \in 1 .. n
          BY <1>4, <1>5, <3>1
        <4>2. events[i] \in Events /\ f \in Events
          BY <1>5, <4>1
        <4>3. i \in Nat /\ j \in Nat
          BY <1>4, <4>1
        <4>4. QED
          BY <1>4, <4>2, <4>3
      <3>4. j < i
        BY <1>5, <3>1, <3>2, <3>3
      <3>5. QED
        BY <3>1, <3>4
    <2>3. QED
      BY <2>1, <2>2
  <1>6. OrderOK(s)'
    <2>1. \A i \in DOMAIN s.events : \E j \in DOMAIN s.todo : s.todo[j] = s.events[i]
      BY <1>2
    <2>2. \A i \in DOMAIN s.todo, f \in Events : f < s.todo[i] =>
            f \in applied \/ \E j \in DOMAIN s.todo : j < i /\ s.todo[j] = f
      BY <1>2, <1>5
    <2>3. s.reconciled => s.todo # << >> /\ Head(s.todo) \in applied
      BY <1>2
    <2>4. applied' = applied /\ Events' = Events
      BY <1>3, <1>4
    <2>5. QED
      BY <2>1, <2>2, <2>3, <2>4 DEF OrderOK
  <1>7. ASSUME NEW r \in requests PROVE OrderOK(r)'
    <2>1. OrderOK(r) /\ applied' = applied /\ Events' = Events
      BY <1>3, <1>4 DEF OrderInv
    <2>2. QED
      BY <2>1 DEF OrderOK
  <1>8. \A t \in Tags : TagNewest(t)'
    BY <1>3 DEF OrderInv, TagNewest
  <1>9. QED
    BY <1>3, <1>4, <1>6, <1>7, <1>8 DEF OrderInv

LEMMA ReconcileOrder ==
  ASSUME JoinInv, OrderInv, NEW r \in requests, Reconcile(r)
  PROVE  OrderInv'
  <1>1. PICK e : e = Head(r.todo)
    OBVIOUS
  <1>2. /\ r.todo # << >> /\ ReconcileTx(pushed[e]) /\ applied' = applied \cup {e}
        /\ pushed' = pushed /\ acked' = acked
    BY <1>1 DEF Reconcile
  <1>3. PICK s : s = [r EXCEPT !.reconciled = TRUE]
    OBVIOUS
  <1>4. requests' = (requests \ {r}) \cup {s} /\ Events' = Events
    BY <1>2, <1>3 DEF Reconcile, Replace, Events
  <1>5. RequestsOK /\ Events \subseteq Nat /\ applied \subseteq Events
    BY EventsNat
  <1>6. r.todo \in Seq(Nat) /\ 1 \in DOMAIN r.todo /\ e = r.todo[1] /\ e \in Events
    BY <1>1, <1>2, <1>5, HeadEvent
  <1>7. r \in Request /\ OrderOK(r)
    BY <1>5 DEF RequestsOK, OrderInv
  <1>8. s.events = r.events /\ s.todo = r.todo
    BY <1>3, <1>7 DEF Request
  <1>9. \A f \in Events : f < e => f \in applied
    <2>1. \A j \in DOMAIN r.todo : ~(j < 1)
      BY <1>6
    <2>2. QED
      BY <1>6, <1>7, <2>1 DEF OrderOK
  <1>10. OrderOK(s)'
    BY <1>2, <1>4, <1>6, <1>7, <1>8, <1>1 DEF OrderOK
  <1>11. ASSUME NEW q \in requests PROVE OrderOK(q)'
    BY <1>2, <1>4 DEF OrderInv, OrderOK
  <1>12. \A g \in applied', f \in Events' : f < g => f \in applied'
    BY <1>2, <1>4, <1>9 DEF OrderInv
  <1>13. ASSUME NEW t \in Tags PROVE TagNewest(t)'
    <2>1. PICK o : o = pushed[e]
      OBVIOUS
    <2>2. EventOK(o) /\ o.at = e
      BY <1>6, <2>1 DEF JoinInv, PushedOK
    <2>3. tags \in [Tags -> Tag \cup {None}] /\ TagsKnown
      BY DEF JoinInv, TypeOK, StoreTypeOK
    <2>4. tags' = IF o.tag = None THEN tags ELSE [tags EXCEPT ![o.tag] = Moved(o)]
      BY <1>2, <2>1 DEF ReconcileTx
    <2>5. CASE o.tag # t
      <3>1. tags'[t] = tags[t]
        BY <2>3, <2>4, <2>5
      <3>2. QED
        BY <1>2, <2>1, <2>5, <3>1 DEF OrderInv, TagNewest
    <2>6. CASE o.tag = t
      <3>1. tags'[t] = Moved(o)
        BY <2>3, <2>4, <2>6, ArtifactStoreAssumption
      <3>2. tags[t] \in Tag \cup {None}
            /\ (tags[t] # None => tags[t].createdAt <= tags[t].updatedAt)
        BY <2>3 DEF TagsKnown
      <3>3. /\ Moved(o) # None
            /\ tags[t] = None => Moved(o).digest = o.digest /\ Moved(o).updatedAt = o.at
            /\ tags[t] # None /\ tags[t].digest # o.digest /\ o.at > tags[t].updatedAt =>
                 Moved(o).digest = o.digest /\ Moved(o).updatedAt = o.at
            /\ tags[t] # None
                 /\ ~(tags[t].digest # o.digest /\ o.at > tags[t].updatedAt) =>
                 Moved(o) = tags[t]
        BY <2>2, <2>6, <3>2, MovedTag
      <3>4. CASE e \in applied
        <4>1. tags[t] # None
          BY <2>1, <2>6, <3>4 DEF OrderInv, TagNewest
        <4>2. PICK u \in applied :
                /\ pushed[u].tag = t /\ tags[t].updatedAt = u
                /\ \A f \in applied : pushed[f].tag = t /\ f >= u =>
                     tags[t].digest = pushed[f].digest
          BY <4>1 DEF OrderInv, TagNewest
        <4>3. e > u => tags[t].digest = o.digest
          <5>1. e \in Nat /\ u \in Nat
            BY <1>5, <1>6
          <5>2. e > u => e >= u
            BY <5>1
          <5>3. QED
            BY <2>1, <2>6, <3>4, <4>2, <5>2
        <4>4. Moved(o) = tags[t]
          BY <2>2, <3>3, <4>1, <4>2, <4>3
        <4>5. applied' = applied /\ tags'[t] = tags[t]
          BY <1>2, <3>1, <3>4, <4>4
        <4>6. QED
          BY <1>2, <4>5 DEF OrderInv, TagNewest
      <3>5. CASE e \notin applied
        <4>1. \A f \in applied : f < e
          <5>1. ASSUME NEW f \in applied, ~(f < e) PROVE FALSE
            <6>1. e \in Nat /\ f \in Nat /\ e # f
              BY <1>5, <1>6, <3>5
            <6>2. e < f
              BY <5>1, <6>1
            <6>3. e \in applied
              BY <1>6, <6>2 DEF OrderInv
            <6>4. QED
              BY <3>5, <6>3
          <5>2. QED
            BY <5>1
        <4>2. e \in Nat /\ \A f \in applied : f \in Nat
          BY <1>5, <1>6
        <4>3. \A f \in applied' : f >= e => f = e
          BY <1>2, <4>1, <4>2
        <4>4. CASE Moved(o).digest = o.digest /\ Moved(o).updatedAt = o.at
          BY <1>2, <2>1, <2>2, <2>6, <3>1, <3>3, <4>3, <4>4 DEF TagNewest
        <4>5. CASE tags[t] # None /\ Moved(o) = tags[t] /\ tags[t].digest = o.digest
          <5>1. PICK u \in applied :
                  /\ pushed[u].tag = t /\ tags[t].updatedAt = u
                  /\ \A f \in applied : pushed[f].tag = t /\ f >= u =>
                       tags[t].digest = pushed[f].digest
            BY <4>5 DEF OrderInv, TagNewest
          <5>2. \A f \in applied' : pushed[f].tag = t /\ f >= u =>
                  tags[t].digest = pushed[f].digest
            BY <1>2, <2>1, <4>5, <5>1
          <5>3. QED
            BY <1>2, <3>1, <4>5, <5>1, <5>2 DEF TagNewest
        <4>6. CASE tags[t] # None /\ tags[t].digest # o.digest
                     /\ ~(o.at > tags[t].updatedAt)
          <5>1. PICK u \in applied : tags[t].updatedAt = u
            BY <4>6 DEF OrderInv, TagNewest
          <5>2. u < e
            BY <4>1, <5>1
          <5>3. QED
            BY <2>2, <4>2, <4>6, <5>1, <5>2
        <4>7. QED
          BY <3>3, <4>4, <4>5, <4>6
      <3>6. QED
        BY <3>4, <3>5
    <2>7. QED
      BY <2>5, <2>6
  <1>14. QED
    BY <1>2, <1>4, <1>10, <1>11, <1>12, <1>13 DEF OrderInv

LEMMA ScheduleOrder ==
  ASSUME JoinInv, OrderInv, NEW r \in requests, Schedule(r)
  PROVE  OrderInv'
  <1>1. PICK todo : todo = Tail(r.todo)
    OBVIOUS
  <1>2. PICK s : s = [r EXCEPT !.todo = todo, !.reconciled = FALSE]
    OBVIOUS
  <1>3. /\ r.todo # << >> /\ r.reconciled
        /\ requests' = (requests \ {r}) \cup {s}
        /\ UNCHANGED <<artifacts, descriptors, tags, pushed, acked, applied>>
    BY <1>1, <1>2 DEF Schedule, Replace, storeVars
  <1>4. RequestsOK /\ Events \subseteq Nat
    BY EventsNat
  <1>5. r \in Request /\ OrderOK(r) /\ r.todo \in Seq(Nat)
    BY <1>4 DEF RequestsOK, OrderInv, Request
  <1>6. s.events = r.events /\ s.todo = todo /\ s.reconciled = FALSE
    BY <1>1, <1>2, <1>3, <1>5 DEF Request
  <1>7. r.todo[1] \in applied /\ Events' = Events
    BY <1>3, <1>4, <1>5, HeadEvent DEF OrderOK, Events
  <1>8. /\ DOMAIN r.todo \subseteq Nat /\ DOMAIN todo \subseteq Nat
        /\ \A j \in DOMAIN r.todo : j = 1 \/ (j - 1 \in DOMAIN todo /\ todo[j - 1] = r.todo[j])
        /\ \A i \in DOMAIN todo : i + 1 \in DOMAIN r.todo /\ todo[i] = r.todo[i + 1]
    BY <1>1, <1>3, <1>5
  <1>9. ASSUME NEW i \in DOMAIN r.events
        PROVE  r.events[i] \in applied \/ \E j \in DOMAIN todo : todo[j] = r.events[i]
    <2>1. CASE r.events[i] \in applied
      BY <2>1
    <2>2. CASE r.events[i] \notin applied
      <3>1. PICK j \in DOMAIN r.todo : r.todo[j] = r.events[i]
        BY <1>5, <1>9, <2>2 DEF OrderOK
      <3>2. j # 1
        BY <1>7, <2>2, <3>1
      <3>3. j - 1 \in DOMAIN todo /\ todo[j - 1] = r.events[i]
        BY <1>8, <3>1, <3>2
      <3>4. QED
        BY <3>3
    <2>3. QED
      BY <2>1, <2>2
  <1>10. ASSUME NEW i \in DOMAIN todo, NEW f \in Events, f < todo[i]
         PROVE  f \in applied \/ \E j \in DOMAIN todo : j < i /\ todo[j] = f
    <2>1. i + 1 \in DOMAIN r.todo /\ f < r.todo[i + 1]
      BY <1>8, <1>10
    <2>2. CASE f \in applied
      BY <2>2
    <2>3. CASE f \notin applied
      <3>1. PICK j \in DOMAIN r.todo : j < i + 1 /\ r.todo[j] = f
        BY <1>5, <2>1, <2>3 DEF OrderOK
      <3>2. j # 1
        BY <1>7, <2>3, <3>1
      <3>3. j - 1 \in DOMAIN todo /\ todo[j - 1] = f
        BY <1>8, <3>1, <3>2
      <3>4. j - 1 < i
        BY <1>8, <3>1
      <3>5. QED
        BY <3>3, <3>4
    <2>4. QED
      BY <2>2, <2>3
  <1>11. OrderOK(s)'
    BY <1>3, <1>6, <1>7, <1>9, <1>10 DEF OrderOK
  <1>12. \A q \in requests : OrderOK(q)'
    BY <1>3, <1>7 DEF OrderInv, OrderOK
  <1>13. \A t \in Tags : TagNewest(t)'
    BY <1>3 DEF OrderInv, TagNewest
  <1>14. QED
    BY <1>3, <1>7, <1>11, <1>12, <1>13 DEF OrderInv

LEMMA AcknowledgeOrder ==
  ASSUME JoinInv, OrderInv, NEW r \in requests, Acknowledge(r)
  PROVE  OrderInv'
  <1>1. /\ acked' = acked \cup {r.events[i] : i \in DOMAIN r.events}
        /\ requests' = requests \ {r} /\ r.todo = << >>
        /\ UNCHANGED <<artifacts, descriptors, tags, pushed, applied>>
    BY DEF Acknowledge, storeVars
  <1>2. \A i \in DOMAIN r.events : r.events[i] \in applied
    BY <1>1 DEF OrderInv, OrderOK
  <1>3. acked' \subseteq applied'
    BY <1>1, <1>2 DEF OrderInv
  <1>4. \A q \in requests' : OrderOK(q)'
    BY <1>1 DEF OrderInv, OrderOK, Events
  <1>5. \A t \in Tags : TagNewest(t)'
    BY <1>1 DEF OrderInv, TagNewest
  <1>6. QED
    BY <1>1, <1>3, <1>4, <1>5 DEF OrderInv, Events

LEMMA QuietOrder ==
  ASSUME OrderInv, requests' \subseteq requests,
         UNCHANGED <<tags, pushed, acked, applied>>
  PROVE  OrderInv'
  <1>1. \A q \in requests' : OrderOK(q)'
    BY DEF OrderInv, OrderOK, Events
  <1>2. \A t \in Tags : TagNewest(t)'
    BY DEF OrderInv, TagNewest
  <1>3. QED
    BY <1>1, <1>2 DEF OrderInv, Events

OrderlyInv == orderly => OrderInv

LEMMA OrderStep == JoinInv /\ OrderlyInv /\ [Next]_vars => OrderlyInv'
  <1> SUFFICES ASSUME JoinInv, OrderlyInv, [Next]_vars, orderly' PROVE OrderInv'
    BY DEF OrderlyInv
  <1>1. orderly /\ ~(\E t \in Tags : RemoveTag(t))
        /\ \A n \in 1 .. MaxBatch : \A events \in [1 .. n -> Events] :
             Send(events) => FirstFirst(events)
    BY DEF Next, Push, Send, Reconcile, Reject, Schedule, Acknowledge, Drop,
           RemoveTag, BeginRepair, RepairOne, AbortRepair, vars
  <1>2. OrderInv
    BY <1>1 DEF OrderlyInv
  <1>3. CASE \E u \in Uploads : Push(u)
    BY <1>2, <1>3, PushOrder
  <1>4. CASE \E n \in 1 .. MaxBatch : \E events \in [1 .. n -> Events] : Send(events)
    BY <1>1, <1>2, <1>4, SendOrder
  <1>5. CASE \E r \in requests : Reconcile(r)
    BY <1>2, <1>5, ReconcileOrder
  <1>6. CASE \E r \in requests : Schedule(r)
    BY <1>2, <1>6, ScheduleOrder
  <1>7. CASE \E r \in requests : Acknowledge(r)
    BY <1>2, <1>7, AcknowledgeOrder
  <1>8. CASE \E r \in requests : Reject(r) \/ Drop(r)
    <2>1. requests' \subseteq requests /\ UNCHANGED <<tags, pushed, acked, applied>>
      BY <1>8 DEF Reject, ConflictTx, Drop, storeVars
    <2>2. QED
      BY <1>2, <2>1, QuietOrder
  <1>9. CASE BeginRepair \/ (\E d \in repair : RepairOne(d)) \/ AbortRepair \/ UNCHANGED vars
    <2>1. requests' = requests /\ UNCHANGED <<tags, pushed, acked, applied>>
      BY <1>9 DEF BeginRepair, RepairOne, AbortRepair, vars, storeVars
    <2>2. QED
      BY <1>2, <2>1, QuietOrder
  <1>10. QED
    BY <1>1, <1>3, <1>4, <1>5, <1>6, <1>7, <1>8, <1>9 DEF Next

LEMMA OrderInvariance == Spec => [](JoinInv /\ OrderlyInv)
  <1>1. Init => OrderlyInv
    BY OrderStart DEF OrderlyInv
  <1>2. QED
    BY <1>1, OrderStep, JoinInvariance, PTL DEF Spec

LEMMA NewestNotBehind == JoinInv /\ OrderInv => TagNotBehind
  <1> SUFFICES ASSUME JoinInv, OrderInv, NEW e \in applied,
                      pushed[e].tag # None, tags[pushed[e].tag] # None,
                      pushed[e].at > tags[pushed[e].tag].updatedAt
               PROVE  tags[pushed[e].tag].digest = pushed[e].digest
    BY DEF TagNotBehind
  <1>1. PICK t : t = pushed[e].tag
    OBVIOUS
  <1>2. e \in Events /\ applied \subseteq Nat /\ pushed[e].at = e /\ t \in Tags
    BY <1>1, EventsNat DEF JoinInv, PushedOK, EventOK, Event
  <1>3. PICK u \in applied :
          /\ tags[t].updatedAt = u
          /\ \A f \in applied : pushed[f].tag = t /\ f >= u =>
               tags[t].digest = pushed[f].digest
    BY <1>1, <1>2 DEF OrderInv, TagNewest
  <1>4. e \in Nat /\ u \in Nat /\ e >= u
    BY <1>1, <1>2, <1>3
  <1>5. QED
    BY <1>1, <1>3, <1>4

(* As long as events are first sent in order and no tag is removed, a tag  *)
(* names the artifact of every applied event newer than the one it was     *)
(* moved by, whatever is sent again (reconcileTag's comparison of times).  *)
THEOREM TagsNeverBehind == Spec => []OrderedTagNotBehind
  <1>1. JoinInv /\ OrderlyInv => OrderedTagNotBehind
    BY NewestNotBehind DEF OrderlyInv, OrderedTagNotBehind
  <1>2. QED
    BY <1>1, OrderInvariance, PTL

LEMMA LastPushIsLast ==
  ASSUME JoinInv, NEW t \in Tags, NEW e \in Events, pushed[e].tag = t
  PROVE  /\ LastPush(t) \in Events /\ pushed[LastPush(t)].tag = t
         /\ \A f \in Events : pushed[f].tag = t => f <= LastPush(t)
  <1>1. PICK n : n = Len(pushed)
    OBVIOUS
  <1>2. n \in Nat /\ Events = 1 .. n
    BY <1>1, EventsNat
  <1>3. PICK D : D = {n - f : f \in {g \in Events : pushed[g].tag = t}}
    OBVIOUS
  <1>4. D \in SUBSET Nat /\ D # {}
    <2>1. n - e \in D
      BY <1>3
    <2>2. \A f \in Events : n - f \in Nat
      BY <1>2
    <2>3. QED
      BY <1>3, <2>1, <2>2
  <1>5. PICK x \in D : \A y \in D : x <= y
    <2> DEFINE R == OpToRel(<, Nat)
    <2>1. IsWellFoundedOn(R, Nat)
      BY NatLessThanWellFounded
    <2>2. \A x, y \in Nat : x < y => <<x, y>> \in R
      BY DEF OpToRel
    <2> HIDE DEF R
    <2>3. PICK x \in D : \A y \in D : ~ (<<y, x>> \in R)
      BY <1>4, <2>1, WFMin
    <2>4. ASSUME NEW y \in D PROVE x <= y
      <3>1. ~(y < x)
        BY <1>4, <2>2, <2>3
      <3>2. x \in Nat /\ y \in Nat
        BY <1>4
      <3>3. QED
        BY <3>1, <3>2
    <2>5. QED
      BY <2>4
  <1>6. PICK l \in Events : pushed[l].tag = t /\ x = n - l
    BY <1>3, <1>5
  <1>7. ASSUME NEW f \in Events, pushed[f].tag = t PROVE f <= l
    <2>1. n - f \in D
      BY <1>3, <1>7
    <2>2. n - l <= n - f
      BY <1>5, <1>6, <2>1
    <2>3. QED
      BY <1>2, <2>2
  <1>8. QED
    BY <1>6, <1>7 DEF LastPush

LEMMA NewestAgree == JoinInv /\ OrderInv => TagsAgree
  <1> SUFFICES ASSUME JoinInv, OrderInv, acked = Events, NEW t \in Tags,
                      NEW e \in Events, pushed[e].tag = t
               PROVE  /\ tags[t] # None
                      /\ tags[t].digest = pushed[LastPush(t)].digest
    BY DEF TagsAgree
  <1>1. applied = Events /\ Events \subseteq Nat
    BY EventsNat DEF OrderInv
  <1>2. PICK l : l = LastPush(t)
    OBVIOUS
  <1>3. l \in Events /\ pushed[l].tag = t /\ \A f \in Events : pushed[f].tag = t => f <= l
    BY <1>2, LastPushIsLast
  <1>4. tags[t] # None
    BY <1>1 DEF OrderInv, TagNewest
  <1>5. PICK u \in applied :
          /\ pushed[u].tag = t /\ tags[t].updatedAt = u
          /\ \A f \in applied : pushed[f].tag = t /\ f >= u =>
               tags[t].digest = pushed[f].digest
    BY <1>4 DEF OrderInv, TagNewest
  <1>6. l \in Nat /\ u \in Nat /\ l >= u
    BY <1>1, <1>3, <1>5
  <1>7. QED
    BY <1>1, <1>2, <1>3, <1>4, <1>5, <1>6

(* And HubCR's tags are then the registry's as soon as every push is       *)
(* acknowledged, whatever requests are still on their way.                 *)
THEOREM TagsAlwaysAgree == Spec => []OrderedTagsAgree
  <1>1. JoinInv /\ OrderlyInv => OrderedTagsAgree
    BY NewestAgree DEF OrderlyInv, OrderedTagsAgree
  <1>2. QED
    BY <1>1, OrderInvariance, PTL

-----------------------------------------------------------------------------
(* An event of a request is still to do, or has its artifact and its       *)
(* workflow.                                                               *)
Done(e) == e \in applied /\ pushed[e].digest \in workflows

HandledOK(r) ==
  /\ \A i \in DOMAIN r.events :
       Done(r.events[i]) \/ \E j \in DOMAIN r.todo : r.todo[j] = r.events[i]
  /\ r.reconciled => r.todo # << >> /\ Head(r.todo) \in applied

DoneInv ==
  /\ \A e \in acked : Done(e)
  /\ \A r \in requests : HandledOK(r)

LEMMA DoneStaysDone ==
  ASSUME JoinInv, [Next]_vars, NEW e \in Events, Done(e)
  PROVE  Done(e)'
  <1>1. pushed \in Seq(Event) /\ e \in DOMAIN pushed
    BY EventsNat DEF Events
  <1>2. CASE \E u \in Uploads : Push(u)
    <2>1. PICK o : pushed' = Append(pushed, o)
      BY <1>2 DEF Push
    <2>2. applied' = applied /\ workflows' = workflows
      BY <1>2 DEF Push
    <2>3. pushed'[e] = pushed[e]
      BY <1>1, <2>1
    <2>4. QED
      BY <2>2, <2>3 DEF Done
  <1>3. CASE /\ pushed' = pushed /\ applied \subseteq applied'
             /\ workflows \subseteq workflows'
    BY <1>3 DEF Done
  <1>4. QED
    BY <1>2, <1>3 DEF Next, Send, Reconcile, Reject, Schedule, EnsureWorkflow,
       Acknowledge, Drop, RemoveTag, BeginRepair, RepairOne, AbortRepair, vars

(* A request that the step leaves alone. *)
LEMMA HandledStays ==
  ASSUME JoinInv, [Next]_vars, NEW r \in requests, HandledOK(r)
  PROVE  HandledOK(r)'
  <1>1. \A i \in DOMAIN r.events : r.events[i] \in Events
    BY EventsNat DEF RequestsOK
  <1>2. applied \subseteq applied'
    BY DEF Next, Push, Send, Reconcile, Reject, Schedule, Acknowledge, Drop,
       RemoveTag, BeginRepair, RepairOne, AbortRepair, vars
  <1>3. QED
    BY <1>1, <1>2, DoneStaysDone DEF HandledOK

LEMMA DoneStep == JoinInv /\ DoneInv /\ [Next]_vars => DoneInv'
  <1> SUFFICES ASSUME JoinInv, DoneInv, [Next]_vars PROVE DoneInv'
    OBVIOUS
  <1>1. RequestsOK /\ acked \subseteq Events
    BY EventsNat
  <1>2. \A e \in acked : Done(e)'
    BY <1>1, DoneStaysDone DEF DoneInv
  <1>3. \A r \in requests : HandledOK(r)'
    BY HandledStays DEF DoneInv
  <1>4. CASE \E n \in 1 .. MaxBatch : \E events \in [1 .. n -> Events] : Send(events)
    <2>1. PICK events : Send(events)
      BY <1>4
    <2>2. PICK s : s = [events |-> events, todo |-> events, reconciled |-> FALSE]
      OBVIOUS
    <2>3. s.events = events /\ s.todo = events /\ s.reconciled = FALSE
      BY <2>2
    <2>4. HandledOK(s)'
      BY <2>3 DEF HandledOK
    <2>5. requests' = requests \cup {s} /\ acked' = acked
      BY <2>1, <2>2 DEF Send
    <2>6. QED
      BY <1>2, <1>3, <2>4, <2>5 DEF DoneInv
  <1>5. ASSUME NEW r \in requests, Reconcile(r) PROVE DoneInv'
    <2>1. PICK s : s = [r EXCEPT !.reconciled = TRUE]
      OBVIOUS
    <2>2. r \in Request /\ HandledOK(r)'
      BY <1>1, <1>3 DEF RequestsOK
    <2>3. s.events = r.events /\ s.todo = r.todo
      BY <2>1, <2>2 DEF Request
    <2>4. r.todo # << >> /\ Head(r.todo) \in applied'
      BY <1>5 DEF Reconcile
    <2>5. HandledOK(s)'
      BY <2>2, <2>3, <2>4 DEF HandledOK
    <2>6. requests' = (requests \ {r}) \cup {s} /\ acked' = acked
      BY <1>5, <2>1 DEF Reconcile, Replace
    <2>7. QED
      BY <1>2, <1>3, <2>5, <2>6 DEF DoneInv
  <1>6. ASSUME NEW r \in requests, Schedule(r) PROVE DoneInv'
    <2>1. PICK todo : todo = Tail(r.todo)
      OBVIOUS
    <2>2. PICK s : s = [r EXCEPT !.todo = todo, !.reconciled = FALSE]
      OBVIOUS
    <2>3. /\ r.todo # << >> /\ r.reconciled /\ r \in Request /\ r.todo \in Seq(Nat)
          /\ HandledOK(r) /\ HandledOK(r)'
      BY <1>1, <1>3, <1>6 DEF Schedule, RequestsOK, DoneInv, Request
    <2>4. s.events = r.events /\ s.todo = todo /\ s.reconciled = FALSE
      BY <2>2, <2>3 DEF Request
    <2>5. Done(r.todo[1])'
      <3>1. Head(r.todo) = r.todo[1] /\ r.todo[1] \in applied
        BY <2>3 DEF HandledOK
      <3>2. /\ pushed' = pushed /\ applied' = applied
            /\ workflows' = workflows \cup {pushed[r.todo[1]].digest}
        BY <1>6, <3>1 DEF Schedule, EnsureWorkflow
      <3>3. QED
        BY <3>1, <3>2 DEF Done
    <2>6. \A j \in DOMAIN r.todo : j = 1 \/ (j - 1 \in DOMAIN todo /\ todo[j - 1] = r.todo[j])
      BY <2>1, <2>3
    <2>7. ASSUME NEW i \in DOMAIN r.events
          PROVE  Done(r.events[i])' \/ \E j \in DOMAIN todo : todo[j] = r.events[i]
      <3>1. CASE Done(r.events[i])'
        BY <3>1
      <3>2. CASE ~Done(r.events[i])'
        <4>1. PICK j \in DOMAIN r.todo : r.todo[j] = r.events[i]
          BY <2>3, <3>2 DEF HandledOK
        <4>2. j # 1
          BY <2>5, <3>2, <4>1
        <4>3. QED
          BY <2>6, <4>1, <4>2
      <3>3. QED
        BY <3>1, <3>2
    <2>8. HandledOK(s)'
      BY <2>4, <2>7 DEF HandledOK
    <2>9. requests' = (requests \ {r}) \cup {s} /\ acked' = acked
      BY <1>6, <2>1, <2>2 DEF Schedule, Replace
    <2>10. QED
      BY <1>2, <1>3, <2>8, <2>9 DEF DoneInv
  <1>7. ASSUME NEW r \in requests, Acknowledge(r) PROVE DoneInv'
    <2>1. /\ acked' = acked \cup {r.events[i] : i \in DOMAIN r.events}
          /\ requests' \subseteq requests /\ r.todo = << >>
      BY <1>7 DEF Acknowledge
    <2>2. \A i \in DOMAIN r.events : Done(r.events[i])'
      BY <1>3, <2>1 DEF HandledOK
    <2>3. QED
      BY <1>2, <1>3, <2>1, <2>2 DEF DoneInv
  <1>8. CASE requests' \subseteq requests /\ acked' = acked
    BY <1>2, <1>3, <1>8 DEF DoneInv
  <1>9. QED
    BY <1>4, <1>5, <1>6, <1>7, <1>8
       DEF Next, Push, Reject, Drop, RemoveTag, BeginRepair, RepairOne, AbortRepair, vars

(* However requests overlap, end or are sent again: once an event is       *)
(* answered with 202 its artifact is known and has its security workflow   *)
(* (ServeHTTP answers 202 after Process).           *)
THEOREM AcknowledgedAlwaysDone == Spec => []AcknowledgedIsDone
  <1>1. Init => DoneInv
    BY DEF Init, DoneInv
  <1>2. DoneInv => AcknowledgedIsDone
    BY DEF DoneInv, Done, AcknowledgedIsDone
  <1>3. QED
    BY <1>1, <1>2, DoneStep, JoinInvariance, PTL DEF Spec
=============================================================================
