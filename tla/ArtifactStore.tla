---------------------------- MODULE ArtifactStore ----------------------------
(***************************************************************************)
(* The artifact, tag and descriptor tables of one repository and the       *)
(* transaction that reconciles an observed push into them                  *)
(* (internal/platform/postgres/artifactstore/store.go).                    *)
(*                                                                         *)
(* The transaction locks every row it reads before it decides (INSERT ON   *)
(* CONFLICT DO NOTHING, then SELECT FOR UPDATE), so it is one step here.   *)
(* The three nullable immutable columns (media_type, size_bytes,           *)
(* source_created_at) are merged the same way and stand as one: facts.     *)
(***************************************************************************)
EXTENDS Integers, Sequences

CONSTANTS
  Digests,     (* content digests                                          *)
  Tags,        (* tag names                                                *)
  Facts,       (* values of the immutable metadata of a digest             *)
  Platforms,   (* platforms an index may give a child                      *)
  None         (* NULL, and a row that does not exist                      *)

ASSUME ArtifactStoreAssumption ==
  None \notin Digests \cup Tags \cup Facts

VARIABLES
  artifacts,    (* the artifact row of every digest                        *)
  descriptors,  (* the ordered children recorded for an index              *)
  tags          (* the tag row of every name                               *)

storeVars == <<artifacts, descriptors, tags>>

Kinds == {"MANIFEST", "INDEX"}

Artifact == [kind : Kinds, facts : Facts \cup {None}, complete : BOOLEAN,
             discoveredAt : Nat, updatedAt : Nat]

Child == [digest : Digests, platform : Platforms \cup {None}]

Tag == [digest : Digests, createdAt : Nat, updatedAt : Nat]

ASSUME RowAssumption == None \notin Artifact \cup Tag

(* A child descriptor as an event reports it. *)
Descriptor == [digest   : Digests,
               facts    : Facts \cup {None},
               platform : Platforms \cup {None}]

(* What NormalizeObservation lets through: only an index reports           *)
(* descriptors, and never itself.  descriptors is None when the event      *)
(* leaves the set unknown.                                                 *)
Upload ==
  {u \in [digest      : Digests,
          kind        : Kinds,
          facts       : Facts \cup {None},
          descriptors : Seq(Descriptor) \cup {None},
          tag         : Tags \cup {None}] :
     u.descriptors # None =>
       /\ u.kind = "INDEX"
       /\ \A i \in DOMAIN u.descriptors : u.descriptors[i].digest # u.digest}

StoreTypeOK ==
  /\ artifacts \in [Digests -> Artifact \cup {None}]
  /\ descriptors \in [Digests -> Seq(Child)]
  /\ tags \in [Tags -> Tag \cup {None}]

StoreInit ==
  /\ artifacts = [d \in Digests |-> None]
  /\ descriptors = [d \in Digests |-> << >>]
  /\ tags = [t \in Tags |-> None]

Known == {d \in Digests : artifacts[d] # None}

-----------------------------------------------------------------------------
(* The artifacts an observation names: reconcileArtifact is called for the *)
(* parent, and for each child as a MANIFEST.                               *)
Mentions(o) ==
  {[digest |-> o.digest, kind |-> o.kind, facts |-> o.facts]} \cup
  IF o.descriptors = None THEN {}
  ELSE {[digest |-> o.descriptors[i].digest, kind |-> "MANIFEST",
         facts |-> o.descriptors[i].facts] : i \in DOMAIN o.descriptors}

(* Variant for the mutation runs: the children get no rows. *)
MentionedParent(o) == {o.digest}

Mentioned(o) == {m.digest : m \in Mentions(o)}

(* The rows kept for a descriptor set: position, child and platform. *)
Recorded(descs) ==
  [i \in DOMAIN descs |-> [digest   |-> descs[i].digest,
                           platform |-> descs[i].platform]]

(* mergeString, mergeInt64 and mergeTime refuse to replace a known value. *)
Differ(f, g) == f # None /\ g # None /\ f # g

(* Variant: a completed descriptor set may not even be repeated. *)
AcceptsOnce(o) ==
  /\ \A m \in Mentions(o) :
       artifacts[m.digest] # None =>
         /\ artifacts[m.digest].kind = m.kind
         /\ ~Differ(artifacts[m.digest].facts, m.facts)
  /\ \A m, n \in Mentions(o) :
       m.digest = n.digest => m.kind = n.kind /\ ~Differ(m.facts, n.facts)
  /\ o.descriptors # None /\ artifacts[o.digest] # None
       => ~artifacts[o.digest].complete

(* Neither an existing row nor another mention contradicts a mention, and  *)
(* a completed descriptor set is repeated exactly.                         *)
Accepts(o) ==
  /\ \A m \in Mentions(o) :
       artifacts[m.digest] # None =>
         /\ artifacts[m.digest].kind = m.kind
         /\ ~Differ(artifacts[m.digest].facts, m.facts)
  /\ \A m, n \in Mentions(o) :
       m.digest = n.digest => m.kind = n.kind /\ ~Differ(m.facts, n.facts)
  /\ /\ o.descriptors # None
     /\ artifacts[o.digest] # None
     /\ artifacts[o.digest].complete
     => descriptors[o.digest] = Recorded(o.descriptors)

(* The facts of d after the merge. *)
MergedFacts(o, d) ==
  LET known == {m.facts : m \in {n \in Mentions(o) : n.digest = d}} \ {None}
  IN  IF artifacts[d] # None /\ artifacts[d].facts # None
      THEN artifacts[d].facts
      ELSE IF known = {} THEN None ELSE CHOOSE f \in known : TRUE

Earlier(s, t) == IF s < t THEN s ELSE t
Later(s, t) == IF s < t THEN t ELSE s

(* Variant: discovered_at stays at the first event   *)
(* delivered.                                                              *)
MergedFirstDelivered(o, d) ==
  IF artifacts[d] = None
  THEN [kind |-> IF d = o.digest THEN o.kind ELSE "MANIFEST",
        facts |-> MergedFacts(o, d), complete |-> FALSE,
        discoveredAt |-> o.at, updatedAt |-> o.at]
  ELSE [artifacts[d] EXCEPT
          !.facts = MergedFacts(o, d),
          !.updatedAt = IF MergedFacts(o, d) # artifacts[d].facts
                        THEN Later(@, o.at) ELSE @]

(* reconcileArtifact: the row of a mentioned digest. *)
Merged(o, d) ==
  IF artifacts[d] = None
  THEN [kind |-> IF d = o.digest THEN o.kind ELSE "MANIFEST",
        facts |-> MergedFacts(o, d), complete |-> FALSE,
        discoveredAt |-> o.at, updatedAt |-> o.at]
  ELSE [artifacts[d] EXCEPT
          !.facts = MergedFacts(o, d),
          !.discoveredAt = Earlier(@, o.at),
          !.updatedAt = IF MergedFacts(o, d) # artifacts[d].facts
                        THEN Later(@, o.at) ELSE @]

(* reconcileDescriptors completes an index once. *)
Completes(o) ==
  /\ o.descriptors # None
  /\ artifacts[o.digest] = None \/ ~artifacts[o.digest].complete

(* Variant: the times are not compared. *)
MovedAlways(o) ==
  IF tags[o.tag] = None
  THEN [digest |-> o.digest, createdAt |-> o.at, updatedAt |-> o.at]
  ELSE IF tags[o.tag].digest # o.digest
  THEN [tags[o.tag] EXCEPT !.digest = o.digest, !.updatedAt = o.at]
  ELSE tags[o.tag]

(* reconcileTag: a tag moves to another artifact only for an observation   *)
(* later than updated_at; an observation of the artifact it already names  *)
(* changes nothing, updated_at included.                                   *)
Moved(o) ==
  IF tags[o.tag] = None
  THEN [digest |-> o.digest, createdAt |-> o.at, updatedAt |-> o.at]
  ELSE IF tags[o.tag].digest # o.digest /\ o.at > tags[o.tag].updatedAt
  THEN [tags[o.tag] EXCEPT !.digest = o.digest, !.updatedAt = o.at]
  ELSE tags[o.tag]

(* Reconcile commits: o is an upload with the time at it was observed. *)
ReconcileTx(o) ==
  /\ Accepts(o)
  /\ artifacts' = [d \in Digests |->
       IF d \notin Mentioned(o) THEN artifacts[d]
       ELSE IF d = o.digest /\ Completes(o)
       THEN [Merged(o, d) EXCEPT !.complete = TRUE,
                                 !.updatedAt = Later(@, o.at)]
       ELSE Merged(o, d)]
  /\ descriptors' = IF Completes(o)
                    THEN [descriptors EXCEPT
                            ![o.digest] = Recorded(o.descriptors)]
                    ELSE descriptors
  /\ tags' = IF o.tag = None THEN tags
             ELSE [tags EXCEPT ![o.tag] = Moved(o)]

(* ErrConflict rolls every change back. *)
ConflictTx(o) ==
  /\ ~Accepts(o)
  /\ UNCHANGED storeVars

(* RemoveTag leaves no tombstone. *)
RemoveTagTx(t) ==
  /\ tags' = [tags EXCEPT ![t] = None]
  /\ UNCHANGED <<artifacts, descriptors>>

-----------------------------------------------------------------------------
(* The constraints of migration 000006 that no statement checks before it  *)
(* writes hold of every state, so the database never has to refuse one:    *)
(* a tag and a descriptor refer to artifacts that exist, the children of   *)
(* an index are manifests, only an index is complete, and no row was       *)
(* updated before it was created.                                          *)
ReferencesHold ==
  /\ \A d \in Known :
       /\ artifacts[d].complete => artifacts[d].kind = "INDEX"
       /\ artifacts[d].discoveredAt <= artifacts[d].updatedAt
  /\ \A d \in Digests : \A i \in DOMAIN descriptors[d] :
       LET child == descriptors[d][i].digest
       IN  /\ d \in Known
           /\ artifacts[d].complete
           /\ child # d
           /\ child \in Known
           /\ artifacts[child].kind = "MANIFEST"
  /\ \A t \in Tags : tags[t] # None =>
       /\ tags[t].digest \in Known
       /\ tags[t].createdAt <= tags[t].updatedAt
=============================================================================
