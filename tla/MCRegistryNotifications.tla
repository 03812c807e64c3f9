---------------------- MODULE MCRegistryNotifications -----------------------
(* Small instances of RegistryNotifications for TLC. *)
EXTENDS RegistryNotifications

CONSTANTS m1, m2, x1, t1, f1, f2, p1

ManifestPush(d, facts, tag) ==
  [digest |-> d, kind |-> "MANIFEST", facts |-> facts, descriptors |-> None,
   tag |-> tag]

IndexPush(d, descs, tag) ==
  [digest |-> d, kind |-> "INDEX", facts |-> f1, descriptors |-> descs,
   tag |-> tag]

ChildOf(d, facts) == [digest |-> d, facts |-> facts, platform |-> p1]

(* Two manifests that take turns under one tag. *)
TagUploads == {ManifestPush(m1, f1, t1), ManifestPush(m2, f1, t1)}

(* The same, with an index whose children may have no push of their own.   *)
IndexedUploads ==
  TagUploads \cup
  {IndexPush(x1, <<ChildOf(m1, f1), ChildOf(m2, f1)>>, None)}

(* Manifests, an index of them, its descriptors known or not, and an index *)
(* that gives a child other facts than the child's own push.               *)
IndexUploads ==
  {ManifestPush(m1, f1, None), ManifestPush(m2, None, t1),
   IndexPush(x1, <<ChildOf(m1, f1), ChildOf(m2, f1)>>, t1),
   IndexPush(x1, None, None),
   IndexPush(x1, <<ChildOf(m1, f2)>>, None)}

(* An index of an index. *)
NestedUploads ==
  {ManifestPush(m1, f1, None), IndexPush(x1, <<ChildOf(m1, f1)>>, None),
   IndexPush(m2, <<ChildOf(x1, f1)>>, t1)}

(* Behaviours in which nobody removes a tag. *)
KeepingSpec ==
  Init /\ [][Next /\ \A t \in Tags : tags'[t] = None => tags[t] = None]_vars
=============================================================================
