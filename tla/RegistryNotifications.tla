------------------------ MODULE RegistryNotifications ------------------------
(***************************************************************************)
(* How pushes to the registry reach the artifact tables of module          *)
(* ArtifactStore and get their security workflow                           *)
(* (internal/modules/registry/notification.go,                             *)
(* internal/platform/postgres/securitystore/store.go).                     *)
(*                                                                         *)
(* The registry itself is external (docs/distribution-event-               *)
(* reconciliation.md): it sends the events of pushes at least once, again  *)
(* until they are acknowledged, in any order.  An event is handled by two  *)
(* transactions, Reconcile and EnsureWorkflow, and a request may end after *)
(* any of them.  Events of blobs and of other media types change nothing   *)
(* and are left out.                                                       *)
(***************************************************************************)
EXTENDS ArtifactStore, FiniteSets

CONSTANTS
  Uploads,      (* what clients may push                                   *)
  MaxPushes,    (* bound on the number of pushes, for TLC                  *)
  MaxRequests,  (* bound on the requests under way, for TLC                *)
  MaxBatch,     (* events in one envelope; 100 in the code                 *)
  RepairBatch   (* HUBCR_SCANNER_REPAIR_BATCH                              *)

ASSUME NotificationAssumption ==
  /\ Uploads \subseteq Upload
  /\ MaxPushes \in Nat
  /\ MaxRequests \in Nat
  /\ MaxBatch \in Nat \ {0}
  /\ RepairBatch \in Nat \ {0}

VARIABLES
  pushed,     (* the events of the registry, in the order of the pushes    *)
  acked,      (* the events the registry has an answer 202 for             *)
  requests,   (* the requests under way                                    *)
  workflows,  (* the digests with a row in security_workflows              *)
  repair,     (* targets listed by the worker and not yet handled          *)
  applied,    (* history: the events whose Reconcile committed             *)
  rejected,   (* history: the events answered with 409                     *)
  orderly     (* history: no event was sent before an older one that has   *)
              (* no answer 202, and no tag was removed                     *)

vars == <<storeVars, pushed, acked, requests, workflows, repair, applied,
          rejected, orderly>>

Events == DOMAIN pushed

(* The handler is at the first event of todo; reconciled tells whether     *)
(* that event's first transaction has committed.                           *)
Request == [events : Seq(Nat), todo : Seq(Nat), reconciled : BOOLEAN]

TypeOK ==
  /\ StoreTypeOK
  /\ pushed \in Seq([digest : Digests, kind : Kinds, facts : Facts \cup {None},
                     descriptors : Seq(Descriptor) \cup {None},
                     tag : Tags \cup {None}, at : Nat])
  /\ acked \subseteq Events
  /\ requests \subseteq Request
  /\ \A r \in requests :
       /\ \A i \in DOMAIN r.events : r.events[i] \in Events
       /\ \A i \in DOMAIN r.todo : r.todo[i] \in Events
  /\ workflows \subseteq Digests
  /\ repair \subseteq Digests
  /\ applied \subseteq Events
  /\ rejected \subseteq Events
  /\ orderly \in BOOLEAN

Init ==
  /\ StoreInit
  /\ pushed = << >>
  /\ acked = {}
  /\ requests = {}
  /\ workflows = {}
  /\ repair = {}
  /\ applied = {}
  /\ rejected = {}
  /\ orderly = TRUE

-----------------------------------------------------------------------------
(* The registry.                                                           *)

(* A push commits in the registry; an index is refused there until its     *)
(* children are stored.  The times of pushes are distinct and increase.    *)
Push(u) ==
  /\ Len(pushed) < MaxPushes
  /\ u.descriptors # None =>
       \A i \in DOMAIN u.descriptors :
         \E e \in Events : pushed[e].digest = u.descriptors[i].digest
  /\ pushed' = Append(pushed,
       [digest |-> u.digest, kind |-> u.kind, facts |-> u.facts,
        descriptors |-> u.descriptors, tag |-> u.tag,
        at |-> Len(pushed) + 1])
  /\ UNCHANGED <<storeVars, acked, requests, workflows, repair, applied,
                 rejected, orderly>>

(* An envelope that leaves out no unacknowledged event older than one that *)
(* it has.                                                                 *)
FirstFirst(events) ==
  \A i \in DOMAIN events : \A e \in Events \ acked :
    e < events[i] => \E j \in DOMAIN events : events[j] = e

(* An envelope with unacknowledged events, in their order.  It may be sent *)
(* while an earlier request for the same events is still under way: the    *)
(* registry stops waiting for an answer after its timeout.                 *)
Send(events) ==
  /\ Cardinality(requests) < MaxRequests
  /\ Len(events) \in 1..MaxBatch
  /\ \A i \in DOMAIN events : events[i] \in Events \ acked
  /\ \A i, j \in DOMAIN events : i < j => events[i] < events[j]
  /\ requests' = requests \cup
       {[events |-> events, todo |-> events, reconciled |-> FALSE]}
  /\ orderly' = (orderly /\ FirstFirst(events))
  /\ UNCHANGED <<storeVars, pushed, acked, workflows, repair, applied,
                 rejected>>

-----------------------------------------------------------------------------
(* The handler: Process.                                                   *)

Replace(r, s) == (requests \ {r}) \cup {s}

(* The artifact service's transaction for the first event of todo. *)
Reconcile(r) ==
  /\ r.todo # << >>
  /\ ~r.reconciled
  /\ ReconcileTx(pushed[Head(r.todo)])
  /\ requests' = Replace(r, [r EXCEPT !.reconciled = TRUE])
  /\ applied' = applied \cup {Head(r.todo)}
  /\ UNCHANGED <<pushed, acked, workflows, repair, rejected, orderly>>

(* The same transaction fails with ErrConflict: 409 for the envelope.  The *)
(* events before it stay applied.                                          *)
Reject(r) ==
  /\ r.todo # << >>
  /\ ~r.reconciled
  /\ ConflictTx(pushed[Head(r.todo)])
  /\ requests' = requests \ {r}
  /\ rejected' = rejected \cup {Head(r.todo)}
  /\ UNCHANGED <<pushed, acked, workflows, repair, applied, orderly>>

(* Variant for the mutation runs: an insert that fails is not reported.    *)
EnsureWorkflowOrNot(d) ==
  /\ d \in Known
  /\ workflows' \in {workflows, workflows \cup {d}}

(* EnsureWorkflow inserts the workflow and its two jobs, or finds them.    *)
EnsureWorkflow(d) ==
  /\ d \in Known
  /\ workflows' = workflows \cup {d}

(* EnsureWorkflow for that event: for the digest it pushed, and not for    *)
(* the children of an index.                                               *)
Schedule(r) ==
  /\ r.todo # << >>
  /\ r.reconciled
  /\ EnsureWorkflow(pushed[Head(r.todo)].digest)
  /\ requests' = Replace(r, [r EXCEPT !.todo = Tail(@), !.reconciled = FALSE])
  /\ UNCHANGED <<storeVars, pushed, acked, repair, applied, rejected, orderly>>

(* 202 reaches the registry. *)
Acknowledge(r) ==
  /\ r.todo = << >>
  /\ acked' = acked \cup {r.events[i] : i \in DOMAIN r.events}
  /\ requests' = requests \ {r}
  /\ UNCHANGED <<storeVars, pushed, workflows, repair, applied, rejected, orderly>>

(* The request ends without an answer 202: the database is unavailable or  *)
(* broke a deadlock of row locks (503), the process died, or the answer    *)
(* was lost or came after the registry's timeout.                          *)
Drop(r) ==
  /\ requests' = requests \ {r}
  /\ UNCHANGED <<storeVars, pushed, acked, workflows, repair, applied,
                 rejected, orderly>>

RemoveTag(t) ==
  /\ tags[t] # None
  /\ RemoveTagTx(t)
  /\ orderly' = FALSE
  /\ UNCHANGED <<pushed, acked, requests, workflows, repair, applied,
                 rejected>>

-----------------------------------------------------------------------------
(* The worker's repair loop: RepairMissingWorkflows.                       *)

(* Variant for the mutation runs: the artifacts that have a workflow are   *)
(* not left out, so they use up the batch.                                 *)
FirstArtifacts ==
  {d \in Known :
     Cardinality({c \in Known :
       artifacts[c].discoveredAt < artifacts[d].discoveredAt}) < RepairBatch}

(* The artifacts its query may return: those without a workflow, the ones  *)
(* discovered first first.  Ties, which the code breaks by digest, stay    *)
(* open.                                                                   *)
FirstMissing ==
  {d \in Known \ workflows :
     Cardinality({c \in Known \ workflows :
       artifacts[c].discoveredAt < artifacts[d].discoveredAt}) < RepairBatch}

(* The query: LIMIT RepairBatch rows. *)
BeginRepair ==
  /\ repair = {}
  /\ \E batch \in SUBSET FirstMissing :
       /\ batch # {}
       /\ \/ batch = FirstMissing
          \/ Cardinality(batch) = RepairBatch
       /\ Cardinality(batch) <= RepairBatch
       /\ \A d \in batch : \A c \in FirstMissing \ batch :
            artifacts[d].discoveredAt <= artifacts[c].discoveredAt
       /\ repair' = batch
  /\ UNCHANGED <<storeVars, pushed, acked, requests, workflows, applied,
                 rejected, orderly>>

(* One turn of the loop over the rows, in a transaction of its own. *)
RepairOne(d) ==
  /\ d \in repair
  /\ \A c \in repair : artifacts[d].discoveredAt <= artifacts[c].discoveredAt
  /\ EnsureWorkflow(d)
  /\ repair' = repair \ {d}
  /\ UNCHANGED <<storeVars, pushed, acked, requests, applied, rejected, orderly>>

(* An error of one row ends the loop. *)
AbortRepair ==
  /\ repair # {}
  /\ repair' = {}
  /\ UNCHANGED <<storeVars, pushed, acked, requests, workflows, applied,
                 rejected, orderly>>

-----------------------------------------------------------------------------
Next ==
  \/ \E u \in Uploads : Push(u)
  \/ \E n \in 1..MaxBatch : \E events \in [1..n -> Events] : Send(events)
  \/ \E r \in requests :
       Reconcile(r) \/ Reject(r) \/ Schedule(r) \/ Acknowledge(r) \/ Drop(r)
  \/ \E t \in Tags : RemoveTag(t)
  \/ BeginRepair
  \/ \E d \in repair : RepairOne(d)
  \/ AbortRepair

Spec == Init /\ [][Next]_vars

-----------------------------------------------------------------------------
(* Whatever the order of delivery and however often an event is delivered, *)
(* the tables hold exactly what the applied events say together: replaying *)
(* one changes nothing, and a late one counts as if it had come in time    *)
(* (FR-ART-001, FR-ART-004).                                               *)
Naming(d) == {e \in applied : d \in Mentioned(pushed[e])}

Describing(d) ==
  {e \in applied : pushed[e].digest = d /\ pushed[e].descriptors # None}

StoreIsJoin ==
  \A d \in Digests :
    /\ d \in Known <=> Naming(d) # {}
    /\ d \in Known =>
         /\ \A e \in Naming(d) : artifacts[d].discoveredAt <= pushed[e].at
         /\ \E e \in Naming(d) : artifacts[d].discoveredAt = pushed[e].at
         /\ {artifacts[d].facts} \ {None} =
              {m.facts : m \in {n \in UNION {Mentions(pushed[e]) :
                                             e \in Naming(d)} :
                                n.digest = d}} \ {None}
         /\ artifacts[d].complete <=> Describing(d) # {}
    /\ \A e \in Describing(d) :
         descriptors[d] = Recorded(pushed[e].descriptors)

(* docs/distribution-event-reconciliation.md: 409 means contradictory      *)
(* immutable metadata.  An event is rejected only if it and an applied     *)
(* event say different things of one digest.                               *)
Contradict(o, p) ==
  \/ o.digest = p.digest /\
       \/ o.kind # p.kind
       \/ /\ o.descriptors # None
          /\ p.descriptors # None
          /\ Recorded(o.descriptors) # Recorded(p.descriptors)
  \/ \E m \in Mentions(o), n \in Mentions(p) :
       m.digest = n.digest /\ Differ(m.facts, n.facts)

ConflictIsContradiction ==
  \A e \in rejected :
    \E f \in applied \cup {e} : Contradict(pushed[e], pushed[f])

(* docs/distribution-event-reconciliation.md: an older event cannot move a *)
(* tag away from a newer mapping.  A tag names the artifact of every       *)
(* applied observation of it that is newer than the one it was moved by.   *)
TagNotBehind ==
  \A e \in applied :
    LET t == pushed[e].tag
    IN  t # None /\ tags[t] # None /\ pushed[e].at > tags[t].updatedAt
          => tags[t].digest = pushed[e].digest

(* When every push is acknowledged, HubCR's tags are the registry's: each  *)
(* names what was pushed to it last, whatever requests are still on their  *)
(* way.                                                                    *)
LastPush(t) ==
  CHOOSE e \in Events :
    /\ pushed[e].tag = t
    /\ \A f \in Events : pushed[f].tag = t => f <= e

TagsAgree ==
  acked = Events =>
    \A t \in Tags :
      (\E e \in Events : pushed[e].tag = t) =>
        /\ tags[t] # None
        /\ tags[t].digest = pushed[LastPush(t)].digest

(* Neither can go wrong while the registry first sends its events in the   *)
(* order of their pushes and nobody removes a tag, whatever is sent again, *)
(* and however requests overlap or end.                                    *)
OrderedTagNotBehind == orderly => TagNotBehind

OrderedTagsAgree == orderly => TagsAgree

(* An event that the registry will not send again has had its effect: its  *)
(* artifact is known and has its security workflow.                        *)
AcknowledgedIsDone ==
  \A e \in acked : e \in applied /\ pushed[e].digest \in workflows

-----------------------------------------------------------------------------
(* Fairness: the worker's loop lists targets again and again, and a target *)
(* it keeps listing is not failed every time.                              *)
FairSpec ==
  /\ Spec
  /\ WF_vars(BeginRepair)
  /\ \A d \in Digests : SF_vars(RepairOne(d))

(* M4-02: the gap between a notification and its jobs is repaired.  Every  *)
(* known artifact gets its workflow, even one whose request died between   *)
(* its two transactions and one known only as the child of an index.       *)
EventuallyScheduled ==
  \A d \in Digests : d \in Known ~> d \in workflows
=============================================================================
