------------------------- MODULE OrganizationProofs -------------------------
(***************************************************************************)
(* Proofs about module Organizations, for any users and any number of      *)
(* concurrent requests.                                                    *)
(***************************************************************************)
EXTENDS Organizations, FiniteSetTheorems, TLAPS

(* A request that has passed the service's checks. *)
Judged(c) == c.step \in {"lock", "check", "write"}

(* The state invariants are proved together. *)
LockHeld ==
  \A r \in Requests :
    requests[r] # None /\ requests[r].step \in {"check", "write"} => lock = r

StillAllowed ==
  \A r \in Requests :
    requests[r] # None /\ requests[r].step = "write" => Allowed(requests[r])

OwnedInv == TypeOK /\ LockHeld /\ StillAllowed /\ AlwaysOwned

(* What a request was judged by: only an OWNER's request may raise anyone, *)
(* and who is or was read as OWNER has been one.                           *)
RequestJudged(r) ==
  requests[r] # None =>
    /\ requests[r].op = "remove" <=> requests[r].desired = None
    /\ requests[r].actorRole = "OWNER" => requests[r].actor \in everOwner
    /\ Judged(requests[r]) /\ requests[r].desired \in Elevated
         => requests[r].actorRole = "OWNER"

JudgedInv ==
  /\ TypeOK
  /\ \A u \in Users : members[u] = "OWNER" => u \in everOwner
  /\ \A r \in Requests : RequestJudged(r)

-----------------------------------------------------------------------------
(* Every step of a request keeps the types. *)
LEMMA TypeStep ==
  ASSUME TypeOK, [Next]_vars
  PROVE  TypeOK'
<1> USE OrganizationAssumption
<1> USE DEF TypeOK, Call, Roles, Ops
<1>1. ASSUME NEW r \in Requests, NEW op \in Ops, NEW actor \in Users,
             NEW target \in Users, NEW desired \in Offered \cup {None},
             Begin(r, op, actor, target, desired)
      PROVE  TypeOK'
  <2> DEFINE c == [step |-> IF op = "add" THEN "lock" ELSE "target",
                   op |-> op, actor |-> actor, target |-> target,
                   desired |-> desired, actorRole |-> members[actor]]
  <2>1. c \in Call
    BY <1>1 DEF Begin
  <2>2. requests' = [requests EXCEPT ![r] = c]
    BY <1>1 DEF Begin
  <2> HIDE DEF c
  <2>3. requests' \in [Requests -> Call \cup {None}]
    BY <2>1, <2>2
  <2> QED
    BY <1>1, <2>3 DEF Begin
<1>2. ASSUME NEW r \in Requests, ReadTarget(r)
      PROVE  TypeOK'
  BY <1>2 DEF ReadTarget
<1>3. ASSUME NEW r \in Requests, Lock(r)
      PROVE  TypeOK'
  BY <1>3 DEF Lock
<1>4. ASSUME NEW r \in Requests, Check(r)
      PROVE  TypeOK'
  BY <1>4 DEF Check
<1>5. ASSUME NEW r \in Requests, Commit(r)
      PROVE  TypeOK'
  BY <1>5 DEF Commit
<1>6. ASSUME NEW r \in Requests, Fail(r)
      PROVE  TypeOK'
  BY <1>6 DEF Fail
<1>7. CASE UNCHANGED vars
  BY <1>7 DEF vars
<1> QED
  BY <1>1, <1>2, <1>3, <1>4, <1>5, <1>6, <1>7 DEF Next

(* Every value of a variable stays in its type, for any users, roles on    *)
(* offer and number of requests.                                           *)
THEOREM TypeCorrect == Spec => []TypeOK
<1>1. Init => TypeOK
  BY OrganizationAssumption DEF Init, TypeOK, Roles
<1>2. TypeOK /\ [Next]_vars => TypeOK'
  BY TypeStep
<1> QED
  BY <1>1, <1>2, PTL DEF Spec

-----------------------------------------------------------------------------
(* With more than one OWNER there is one besides any given user. *)
LEMMA AnotherOwner ==
  ASSUME NEW u, Cardinality(Owners) > 1
  PROVE  \E o \in Owners : o # u
<1> SUFFICES ASSUME Owners \subseteq {u}
             PROVE  FALSE
  OBVIOUS
<1>1. IsFiniteSet({u}) /\ Cardinality({u}) = 1
  BY FS_Singleton
<1>2. Cardinality(Owners) <= 1
  BY <1>1, FS_Subset
<1>3. Cardinality(Owners) \in Nat
  BY <1>1, FS_Subset, FS_CardinalityType
<1> QED
  BY <1>2, <1>3

(* The UPDATE or DELETE of a transaction whose reads still hold leaves an  *)
(* OWNER behind.                                                           *)
LEMMA CommitLeavesOwner ==
  ASSUME OwnedInv, NEW r \in Requests, Commit(r)
  PROVE  AlwaysOwned'
<1> DEFINE c == requests[r]
<1>1. /\ c.target \in Users
      /\ members' = [members EXCEPT ![c.target] = c.desired]
      /\ members \in [Users -> Roles \cup {None}]
  BY DEF OwnedInv, TypeOK, Commit, Call
<1>2. Allowed(c)
  BY DEF OwnedInv, StillAllowed, Commit
<1>3. PICK o \in Users : members[o] = "OWNER"
  BY DEF OwnedInv, AlwaysOwned, Owners
<1> SUFFICES \E v \in Users : members'[v] = "OWNER"
  BY DEF AlwaysOwned, Owners
<1>4. CASE LosesOwner(c)
  <2>1. PICK v \in Owners : v # c.target
    BY <1>2, <1>4, AnotherOwner DEF Allowed
  <2> QED
    BY <2>1, <1>1 DEF Owners
<1>5. CASE ~LosesOwner(c)
  <2>1. CASE c.op = "add"
    <3>1. members[c.target] = None
      BY <2>1, <1>2 DEF Allowed
    <3>2. o # c.target
      BY <3>1, <1>3, OrganizationAssumption DEF Roles
    <3> QED
      BY <3>2, <1>1, <1>3
  <2>2. CASE c.op # "add" /\ members[c.target] # "OWNER"
    BY <2>2, <1>1, <1>3
  <2>3. CASE c.op # "add" /\ c.desired = "OWNER"
    BY <2>3, <1>1
  <2> QED
    BY <2>1, <2>2, <2>3, <1>5 DEF LosesOwner
<1> QED
  BY <1>4, <1>5

(* Nobody else writes while a request holds the organization's row. *)
LEMMA OwnedStep ==
  ASSUME OwnedInv, [Next]_vars
  PROVE  OwnedInv'
<1>0. TypeOK'
  BY TypeStep DEF OwnedInv
<1> USE OrganizationAssumption
<1>1. ASSUME NEW r \in Requests, NEW op \in Ops, NEW actor \in Users,
             NEW target \in Users, NEW desired \in Offered \cup {None},
             Begin(r, op, actor, target, desired)
      PROVE  OwnedInv'
  BY <1>0, <1>1
  DEF OwnedInv, TypeOK, LockHeld, StillAllowed, AlwaysOwned, Begin, Allowed,
      LosesOwner, Owners
<1>2. ASSUME NEW r \in Requests, ReadTarget(r)
      PROVE  OwnedInv'
  BY <1>0, <1>2
  DEF OwnedInv, TypeOK, LockHeld, StillAllowed, AlwaysOwned, ReadTarget,
      Allowed, LosesOwner, Owners, Call
<1>3. ASSUME NEW r \in Requests, Lock(r)
      PROVE  OwnedInv'
  BY <1>0, <1>3
  DEF OwnedInv, TypeOK, LockHeld, StillAllowed, AlwaysOwned, Lock, Allowed,
      LosesOwner, Owners, Call
<1>4. ASSUME NEW r \in Requests, Check(r)
      PROVE  OwnedInv'
  <2>1. AlwaysOwned'
    BY <1>4 DEF OwnedInv, AlwaysOwned, Owners, Check
  <2>2. LockHeld'
    BY <1>4 DEF OwnedInv, TypeOK, LockHeld, Check, Call
  <2>3. StillAllowed'
    BY <1>4
    DEF OwnedInv, TypeOK, StillAllowed, Check, Call, Allowed, LosesOwner,
        Owners
  <2> QED
    BY <1>0, <2>1, <2>2, <2>3 DEF OwnedInv
<1>5. ASSUME NEW r \in Requests, Commit(r)
      PROVE  OwnedInv'
  <2>1. AlwaysOwned'
    BY <1>5, CommitLeavesOwner
  <2>2. lock = r
    BY <1>5 DEF OwnedInv, LockHeld, Commit
  <2>3. ASSUME NEW s \in Requests, requests'[s] # None
        PROVE  requests'[s].step \notin {"check", "write"}
    <3>1. s # r /\ requests'[s] = requests[s]
      BY <1>5, <2>3 DEF Commit, OwnedInv, TypeOK
    <3> QED
      BY <3>1, <2>2, <2>3 DEF OwnedInv, LockHeld
  <2> QED
    BY <1>0, <2>1, <2>3 DEF OwnedInv, LockHeld, StillAllowed
<1>6. ASSUME NEW r \in Requests, Fail(r)
      PROVE  OwnedInv'
  BY <1>0, <1>6
  DEF OwnedInv, TypeOK, LockHeld, StillAllowed, AlwaysOwned, Fail, Allowed,
      LosesOwner, Owners
<1>7. CASE UNCHANGED vars
  BY <1>0, <1>7
  DEF OwnedInv, LockHeld, StillAllowed, AlwaysOwned, vars, Allowed,
      LosesOwner, Owners
<1> QED
  BY <1>1, <1>2, <1>3, <1>4, <1>5, <1>6, <1>7 DEF Next

(* An organization has an OWNER at all times, however many requests add,   *)
(* demote and remove members at once: requireAnotherOwner counts under the *)
(* lock of the organization row, so no two transactions count the same     *)
(* owner.                                                                  *)
THEOREM NeverOwnerless == Spec => []AlwaysOwned
<1>1. Init => OwnedInv
  BY OrganizationAssumption
  DEF Init, OwnedInv, TypeOK, LockHeld, StillAllowed, AlwaysOwned, Owners,
      Roles
<1>2. OwnedInv /\ [Next]_vars => OwnedInv'
  BY OwnedStep
<1>3. OwnedInv => AlwaysOwned
  BY DEF OwnedInv
<1> QED
  BY <1>1, <1>2, <1>3, PTL DEF Spec

-----------------------------------------------------------------------------
(* What a request was judged by does not change while it is under way. *)
LEMMA JudgedStep ==
  ASSUME JudgedInv, [Next]_vars
  PROVE  JudgedInv'
<1>0. TypeOK'
  BY TypeStep DEF JudgedInv
<1> USE OrganizationAssumption
<1>1. ASSUME NEW r \in Requests, NEW op \in Ops, NEW actor \in Users,
             NEW target \in Users, NEW desired \in Offered \cup {None},
             Begin(r, op, actor, target, desired)
      PROVE  JudgedInv'
  <2>1. RequestJudged(r)'
    BY <1>1
    DEF JudgedInv, TypeOK, RequestJudged, Judged, Begin, CanAssignMember,
        ManageElevatedMembers, ManageBasicMembers, Elevated, Ops
  <2>2. \A s \in Requests \ {r} : RequestJudged(s)'
    BY <1>1 DEF JudgedInv, TypeOK, RequestJudged, Judged, Begin
  <2> QED
    BY <1>0, <1>1, <2>1, <2>2 DEF JudgedInv, Begin
<1>2. ASSUME NEW r \in Requests, ReadTarget(r)
      PROVE  JudgedInv'
  <2>1. RequestJudged(r)'
    <3> DEFINE c == requests[r]
    <3>1. /\ c # None /\ c \in Call /\ c.op \in Ops
          /\ members[c.target] \in Roles \cup {None}
          /\ RequestJudged(r)
      BY <1>2 DEF ReadTarget, JudgedInv, TypeOK, Call
    <3>2. SUFFICES ASSUME requests'[r] # None
                   PROVE  RequestJudged(r)'
      BY DEF RequestJudged
    <3>3. /\ requests'[r] = [c EXCEPT !.step = "lock"]
          /\ Permitted(c.op, c.actorRole, members[c.target], c.desired)
      BY <1>2, <3>2 DEF ReadTarget, JudgedInv, TypeOK
    <3>4. c.desired \in Elevated => c.op \in {"add", "change"}
      BY <3>1, OrganizationAssumption
      DEF RequestJudged, Elevated, Ops, Roles
    <3>5. c.desired \in Elevated => c.actorRole = "OWNER"
      BY <3>3, <3>4
      DEF Permitted, CanAssignMember, CanChangeMember,
          ManageElevatedMembers
    <3>6. /\ requests'[r].op = c.op /\ requests'[r].desired = c.desired
          /\ requests'[r].actorRole = c.actorRole
          /\ requests'[r].actor = c.actor
      BY <3>1, <3>3 DEF Call
    <3>7. everOwner' = everOwner
      BY <1>2 DEF ReadTarget
    <3> HIDE DEF c
    <3>8. /\ c.op = "remove" <=> c.desired = None
          /\ c.actorRole = "OWNER" => c.actor \in everOwner
      BY <3>1 DEF c, RequestJudged
    <3> QED
      BY <3>5, <3>6, <3>7, <3>8 DEF RequestJudged
  <2>2. \A s \in Requests \ {r} : RequestJudged(s)'
    BY <1>2 DEF JudgedInv, TypeOK, RequestJudged, Judged, ReadTarget
  <2> QED
    BY <1>0, <1>2, <2>1, <2>2 DEF JudgedInv, ReadTarget
<1>3. ASSUME NEW r \in Requests, Lock(r)
      PROVE  JudgedInv'
  BY <1>0, <1>3 DEF JudgedInv, TypeOK, Call, RequestJudged, Judged, Lock
<1>4. ASSUME NEW r \in Requests, Check(r)
      PROVE  JudgedInv'
  BY <1>0, <1>4 DEF JudgedInv, TypeOK, Call, RequestJudged, Judged, Check
<1>5. ASSUME NEW r \in Requests, Commit(r)
      PROVE  JudgedInv'
  <2>1. \A u \in Users : members'[u] = "OWNER" => u \in everOwner'
    BY <1>5 DEF JudgedInv, TypeOK, Call, Commit
  <2>2. \A s \in Requests : RequestJudged(s)'
    BY <1>5 DEF JudgedInv, TypeOK, RequestJudged, Judged, Commit
  <2> QED
    BY <1>0, <2>1, <2>2 DEF JudgedInv
<1>6. ASSUME NEW r \in Requests, Fail(r)
      PROVE  JudgedInv'
  BY <1>0, <1>6 DEF JudgedInv, TypeOK, RequestJudged, Judged, Fail
<1>7. CASE UNCHANGED vars
  BY <1>0, <1>7 DEF JudgedInv, RequestJudged, Judged, vars
<1> QED
  BY <1>1, <1>2, <1>3, <1>4, <1>5, <1>6, <1>7 DEF Next

(* Nobody becomes OWNER or ADMIN by a request of a user who has never been *)
(* OWNER, although the roles a request is judged by may be out of date     *)
(* when it commits.                                                        *)
THEOREM ElevationNeedsOwner == Spec => ElevatedByOwner
<1>1. Init => JudgedInv
  BY OrganizationAssumption
  DEF Init, JudgedInv, TypeOK, RequestJudged, Roles
<1>2. JudgedInv /\ [Next]_vars => JudgedInv'
  BY JudgedStep
<1>3. ASSUME JudgedInv, [Next]_vars, NEW u \in Users,
             members'[u] # members[u], members'[u] \in Elevated
      PROVE  \E r \in Requests :
               Changes(r, u) /\ requests[r].actor \in everOwner
  <2>1. PICK r \in Requests : Commit(r)
    BY <1>3
    DEF Next, vars, Begin, ReadTarget, Lock, Check, Fail
  <2>2. /\ requests[r] \in Call
        /\ members' = [members EXCEPT ![requests[r].target] =
                                        requests[r].desired]
        /\ requests' = [requests EXCEPT ![r] = None]
    BY <1>3, <2>1 DEF Commit, JudgedInv, TypeOK
  <2>3. requests[r].target = u /\ requests[r].desired \in Elevated
    BY <1>3, <2>2 DEF JudgedInv, TypeOK
  <2>4. requests[r].actorRole = "OWNER"
    BY <1>3, <2>1, <2>3 DEF JudgedInv, RequestJudged, Judged, Commit
  <2>5. Changes(r, u)
    BY <1>3, <2>1, <2>2, <2>3 DEF Changes, Commit, JudgedInv, TypeOK
  <2> QED
    BY <1>3, <2>1, <2>4, <2>5 DEF JudgedInv, RequestJudged, Commit
<1>4. JudgedInv /\ [Next]_vars =>
        [\A u \in Users :
           members'[u] # members[u] /\ members'[u] \in Elevated =>
             \E r \in Requests :
               Changes(r, u) /\ requests[r].actor \in everOwner]_vars
  BY <1>3
<1> QED
  BY <1>1, <1>2, <1>4, PTL DEF Spec, ElevatedByOwner
=============================================================================
