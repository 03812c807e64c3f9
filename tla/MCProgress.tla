----------------------------- MODULE MCProgress -----------------------------
(***************************************************************************)
(* Small instances, for TLC, of the security workflows that must come to   *)
(* an end: those that notifications leave to the repair, the repair of     *)
(* signature verification, and the scans.  They are three parts here that  *)
(* share no state; each behaviour runs the one that focus names.           *)
(***************************************************************************)
EXTENDS TrustVerification, ScanResults, TLC

CONSTANTS
  alice, bob,            (* signers                                        *)
  a1, a2, w1,            (* scanned artifacts; a worker                    *)
  m1, m2, x1, t1, f1, p1 (* pushed manifests, an index, tag, facts, ...    *)

OneOffer   == {{alice}}
OneScanner == w1 :> 1

(* Two manifests that take turns under one tag, and an index whose         *)
(* children may have no push of their own.                                 *)
ManifestPush(d) ==
  [digest |-> d, kind |-> "MANIFEST", facts |-> f1, descriptors |-> None,
   tag |-> t1]

ChildOf(d) == [digest |-> d, facts |-> f1, platform |-> p1]

IndexedUploads ==
  {ManifestPush(m1), ManifestPush(m2),
   [digest |-> x1, kind |-> "INDEX", facts |-> f1,
    descriptors |-> <<ChildOf(m1), ChildOf(m2)>>, tag |-> None]}

VARIABLES
  focus,
  artifacts, descriptors, tags, pushed, acked, requests, workflows, repair,
  applied, rejected, orderly   (* of module RegistryNotifications          *)

Notified == INSTANCE RegistryNotifications WITH
  Digests <- {m1, m2, x1}, Tags <- {t1}, Facts <- {f1}, Platforms <- {p1},
  Uploads <- IndexedUploads,
  MaxPushes <- 3, MaxRequests <- 2, MaxBatch <- 1

notifiedVars == <<artifacts, descriptors, tags, pushed, acked, requests,
                  workflows, repair, applied, rejected, orderly>>

progressVars == <<focus, notifiedVars, vars, scanVars>>

ProgressInit ==
  /\ focus \in {"notifications", "trust", "scans"}
  /\ Notified!Init /\ Init /\ ScanInit

ProgressNext ==
  \/ focus = "notifications" /\ Notified!Next /\ orderly'
       /\ UNCHANGED <<focus, vars, scanVars>>
  \/ focus = "trust" /\ Next /\ UNCHANGED <<focus, notifiedVars, scanVars>>
  \/ focus = "scans" /\ ScanNext /\ UNCHANGED <<focus, notifiedVars, vars>>

(* The fairness of each of the three, for the behaviours that run it. *)
ProgressSpec ==
  /\ ProgressInit /\ [][ProgressNext]_progressVars
  /\ WF_notifiedVars(focus = "notifications" /\ Notified!BeginRepair)
  /\ \A d \in {m1, m2, x1} :
       SF_notifiedVars(focus = "notifications" /\ Notified!RepairOne(d))
  /\ WF_vars(focus = "trust" /\ PeriodicRepair)
  /\ SF_vars(focus = "trust" /\ EnsureRead(Periodic))
  /\ SF_vars(focus = "trust" /\ EnsureWrite(Periodic))
  /\ \A w \in ScanWorkers : WF_scanVars(focus = "scans" /\ ToolEnds(w))

(* Every known artifact, also a child of an index and one whose request    *)
(* died half way, gets its security workflow.                              *)
EventuallyScheduled == Notified!EventuallyScheduled
=============================================================================
