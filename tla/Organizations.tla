---------------------------- MODULE Organizations ----------------------------
(***************************************************************************)
(* The memberships of one organization under concurrent requests           *)
(* (internal/modules/organizations/service.go,                             *)
(* internal/platform/postgres/organizationstore/store.go,                  *)
(* internal/modules/authorization/policy.go).                              *)
(*                                                                         *)
(* A request reads the roles of its actor and of its target, asks the      *)
(* policy, and only then opens the transaction that locks the organization *)
(* row, looks at the target again and writes.  Names, descriptions and     *)
(* times are left out; organizations do not share rows.                    *)
(***************************************************************************)
EXTENDS FiniteSets, Naturals

CONSTANTS
  Users,       (* the users                                                *)
  Creator,     (* the one who creates the organization                     *)
  Requests,    (* requests under way at a time, each in one goroutine      *)
  Offered,     (* the roles requests ask for; WRITER and READER are alike  *)
               (* to every check here                                      *)
  None         (* no row, no role, no request                              *)

Roles == {"OWNER", "ADMIN", "WRITER", "READER"}
Elevated == {"OWNER", "ADMIN"}
Ops == {"add", "change", "remove"}

ASSUME OrganizationAssumption ==
  /\ IsFiniteSet(Users)
  /\ Creator \in Users
  /\ Offered \subseteq Roles
  /\ None \notin Requests \cup Users \cup Roles

VARIABLES
  members,     (* the role of each user, None without a row                *)
  lock,        (* the request whose transaction holds the organization row *)
  requests,    (* the requests under way                                   *)
  everOwner    (* history: the users who have been OWNER                   *)

vars == <<members, lock, requests, everOwner>>

(* step is where the request is; desired is None for a removal; actorRole  *)
(* is the role the service read for the actor.                             *)
Call == [step : {"target", "lock", "check", "write"},
         op : Ops, actor : Users, target : Users,
         desired : Roles \cup {None}, actorRole : Roles]

TypeOK ==
  /\ members \in [Users -> Roles \cup {None}]
  /\ lock \in Requests \cup {None}
  /\ requests \in [Requests -> Call \cup {None}]
  /\ everOwner \subseteq Users

(* CreateWithOwner commits the organization with its first OWNER. *)
Init ==
  /\ members = [u \in Users |-> IF u = Creator THEN "OWNER" ELSE None]
  /\ lock = None
  /\ requests = [r \in Requests |-> None]
  /\ everOwner = {Creator}

-----------------------------------------------------------------------------
(* The policy (internal/modules/authorization).                            *)

ManageElevatedMembers == {"OWNER"}
ManageBasicMembers == {"OWNER", "ADMIN"}

CanAssignMember(actor, desired) ==
  actor \in IF desired \in Elevated THEN ManageElevatedMembers
            ELSE ManageBasicMembers

(* Variant for the mutation runs: the role the member gets is not looked   *)
(* at.                                                                     *)
CanChangeCurrentOnly(actor, current, desired) ==
  actor \in IF current \in Elevated THEN ManageElevatedMembers
            ELSE ManageBasicMembers

CanChangeMember(actor, current, desired) ==
  actor \in IF current \in Elevated \/ desired \in Elevated
            THEN ManageElevatedMembers ELSE ManageBasicMembers

CanRemoveMember(actor, target) ==
  actor \in IF target \in Elevated THEN ManageElevatedMembers
            ELSE ManageBasicMembers

Permitted(op, actor, current, desired) ==
  \/ op = "add" /\ CanAssignMember(actor, desired)
  \/ op = "change" /\ CanChangeMember(actor, current, desired)
  \/ op = "remove" /\ CanRemoveMember(actor, current)

-----------------------------------------------------------------------------
(* The service: the roles are read outside any transaction.                *)

(* Variant: the actor need not be a member. *)
BeginAnyone(r, op, actor, target, desired) ==
  /\ requests[r] = None
  /\ op = "remove" <=> desired = None
  /\ op = "add" => CanAssignMember(members[actor], desired)
  /\ requests' = [requests EXCEPT ![r] =
       [step |-> IF op = "add" THEN "lock" ELSE "target",
        op |-> op, actor |-> actor, target |-> target, desired |-> desired,
        actorRole |-> members[actor]]]
  /\ UNCHANGED <<members, lock, everOwner>>

(* A request arrives and the actor's membership is read.  The requests     *)
(* that end here, with ErrForbidden, change nothing and are left out: the  *)
(* actor is no member, or AddMember's check refuses.                       *)
Begin(r, op, actor, target, desired) ==
  /\ requests[r] = None
  /\ op = "remove" <=> desired = None
  /\ members[actor] # None
  /\ op = "add" => CanAssignMember(members[actor], desired)
  /\ requests' = [requests EXCEPT ![r] =
       [step |-> IF op = "add" THEN "lock" ELSE "target",
        op |-> op, actor |-> actor, target |-> target, desired |-> desired,
        actorRole |-> members[actor]]]
  /\ UNCHANGED <<members, lock, everOwner>>

(* The target's membership: without one the request ends with ErrNotFound, *)
(* when the policy refuses with ErrForbidden.                              *)
ReadTarget(r) ==
  /\ requests[r] # None
  /\ requests[r].step = "target"
  /\ LET role == members[requests[r].target]
     IN  requests' = [requests EXCEPT ![r] =
           IF role # None /\ Permitted(@.op, @.actorRole, role, @.desired)
           THEN [@ EXCEPT !.step = "lock"]
           ELSE None]
  /\ UNCHANGED <<members, lock, everOwner>>

-----------------------------------------------------------------------------
(* The store's transaction.                                                *)

Owners == {u \in Users : members[u] = "OWNER"}

(* Variant: the organization row is read without FOR UPDATE. *)
LockNothing(r) ==
  /\ requests[r] # None
  /\ requests[r].step = "lock"
  /\ lock' = r
  /\ requests' = [requests EXCEPT ![r].step = "check"]
  /\ UNCHANGED <<members, everOwner>>

(* lockOrganization: SELECT ... FOR UPDATE of the organization row. *)
Lock(r) ==
  /\ requests[r] # None
  /\ requests[r].step = "lock"
  /\ lock = None
  /\ lock' = r
  /\ requests' = [requests EXCEPT ![r].step = "check"]
  /\ UNCHANGED <<members, everOwner>>

(* requireAnotherOwner, when an OWNER loses the role. *)
LosesOwner(c) ==
  /\ c.op # "add"
  /\ members[c.target] = "OWNER"
  /\ c.desired # "OWNER"

(* The row the transaction is about: AddMember needs it absent (primary    *)
(* key), the others present; an OWNER may only go if another one stays.    *)
Allowed(c) ==
  /\ c.op = "add" <=> members[c.target] = None
  /\ LosesOwner(c) => Cardinality(Owners) > 1

(* The reads of the transaction; when they refuse it rolls back. *)
Check(r) ==
  /\ requests[r] # None
  /\ requests[r].step = "check"
  /\ IF Allowed(requests[r])
     THEN /\ requests' = [requests EXCEPT ![r].step = "write"]
          /\ UNCHANGED lock
     ELSE /\ requests' = [requests EXCEPT ![r] = None]
          /\ lock' = None
  /\ UNCHANGED <<members, everOwner>>

(* The INSERT, UPDATE or DELETE, and the commit. *)
Commit(r) ==
  /\ requests[r] # None
  /\ requests[r].step = "write"
  /\ LET c == requests[r]
     IN  /\ members' = [members EXCEPT ![c.target] = c.desired]
         /\ everOwner' = everOwner \cup
              (IF c.desired = "OWNER" THEN {c.target} ELSE {})
  /\ requests' = [requests EXCEPT ![r] = None]
  /\ lock' = None

(* The request is cancelled, or the database fails: a rollback. *)
Fail(r) ==
  /\ requests[r] # None
  /\ requests' = [requests EXCEPT ![r] = None]
  /\ lock' = IF lock = r THEN None ELSE lock
  /\ UNCHANGED <<members, everOwner>>

-----------------------------------------------------------------------------
Next ==
  \E r \in Requests :
    \/ \E op \in Ops, actor, target \in Users, desired \in Offered \cup {None} :
         Begin(r, op, actor, target, desired)
    \/ ReadTarget(r)
    \/ Lock(r)
    \/ Check(r)
    \/ Commit(r)
    \/ Fail(r)

Spec == Init /\ [][Next]_vars

(* Fairness: a request under way goes on, and waits for the lock only      *)
(* while others hold it.                                                   *)
FairSpec ==
  /\ Spec
  /\ \A r \in Requests :
       /\ WF_vars(ReadTarget(r) \/ Check(r) \/ Commit(r) \/ Fail(r))
       /\ SF_vars(Lock(r))

-----------------------------------------------------------------------------
(* docs/api.md: "the last OWNER cannot be demoted or removed".  However    *)
(* requests interleave, the organization always has an OWNER.              *)
AlwaysOwned == Owners # {}

(* A step that changes the membership of u by the request r.               *)
Changes(r, u) ==
  /\ requests[r] # None
  /\ requests[r].step = "write"
  /\ requests[r].target = u
  /\ requests'[r] = None

(* Nobody rises without an OWNER: whoever becomes OWNER or ADMIN is made   *)
(* so by a user who has been OWNER, even when the roles a request was      *)
(* judged by are out of date when it commits.                              *)
ElevatedByOwner ==
  [][\A u \in Users :
       members'[u] # members[u] /\ members'[u] \in Elevated =>
         \E r \in Requests :
           Changes(r, u) /\ requests[r].actor \in everOwner]_vars

(* docs/api.md: "ADMIN may manage only WRITER and READER".  The role a     *)
(* change meets when it commits is one its actor, judged by the role the   *)
(* service read, may manage.                                               *)
ChangePermitted ==
  [][\A u \in Users :
       members'[u] # members[u] =>
         \E r \in Requests :
           /\ Changes(r, u)
           /\ Permitted(requests[r].op, requests[r].actorRole, members[u],
                        requests[r].desired)]_vars
=============================================================================
