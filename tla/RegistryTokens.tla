--------------------------- MODULE RegistryTokens ---------------------------
(***************************************************************************)
(* One request for a Registry token (Issue of                              *)
(* internal/modules/registry/service.go): the credentials are checked, the *)
(* scopes are authorized one after the other, in the order of their names, *)
(* each with a read of the membership and a read of the repository, and    *)
(* what was allowed is signed.  Memberships and visibilities change at any *)
(* time.                                                                   *)
(***************************************************************************)
EXTENDS AccessPolicy, Naturals, FiniteSets

CONSTANTS
  Bearers,      (* the users                                               *)
  BearerRoles,  (* the roles the organization may give them, or NoRole     *)
  Images,       (* repositories, numbered in the order of their names      *)
  ImageHome,    (* whose namespace each is in: a user's, or Organization   *)
  Organization,
  Anonymous,    (* the subject of a request without credentials            *)
  RawScopes     (* the scope values a client may send                      *)

Actions == {"pull", "push", "delete"}

ASSUME TokenAssumption ==
  /\ BearerRoles \subseteq OrganizationRoles \cup {NoRole}
  /\ Images \subseteq Nat \ {0}
  /\ ImageHome \in [Images -> Bearers \cup {Organization}]
  /\ Anonymous \notin Bearers /\ Organization \notin Bearers \cup {Anonymous}
  /\ RawScopes \subseteq Images \X ((SUBSET Actions) \ {{}})

VARIABLES
  standing,    (* the organization memberships                             *)
  images,      (* the repositories' visibilities, or "ABSENT"              *)
  issue        (* the request under way                                    *)

tokenVars == <<standing, images, issue>>

Grants == SUBSET (Images \X Actions)

(* asked, could and calm are history: what the client asked for, what the  *)
(* subject might do at any moment while its scopes were authorized, and    *)
(* whether nothing has changed since.                                      *)
Issue == [step    : {"idle", "member", "repository", "sign", "issued"},
          subject : Bearers \cup {Anonymous},
          wanted  : [Images -> SUBSET Actions],
          left    : SUBSET Images,
          access  : NamespaceAccess,
          granted : Grants,
          asked   : Grants,
          could   : Grants,
          calm    : BOOLEAN]

NoAccess == [kind |-> "PERSONAL", isPersonalOwner |-> FALSE, role |-> NoRole]

TokenTypeOK ==
  /\ standing \in [Bearers -> BearerRoles]
  /\ images \in [Images -> {"ABSENT", "PUBLIC", "PRIVATE"}]
  /\ issue \in Issue

NoIssue == [step |-> "idle", subject |-> Anonymous,
            wanted |-> [i \in Images |-> {}], left |-> {},
            access |-> NoAccess, granted |-> {}, asked |-> {},
            could |-> {}, calm |-> TRUE]

TokenInit ==
  /\ standing \in [Bearers -> BearerRoles]
  /\ images \in [Images -> {"ABSENT", "PUBLIC", "PRIVATE"}]
  /\ issue = NoIssue

-----------------------------------------------------------------------------
RelationTo(subject, home, standings) ==
  IF home = Organization
  THEN [kind |-> "ORGANIZATION", isPersonalOwner |-> FALSE,
        role |-> IF subject = Anonymous THEN NoRole ELSE standings[subject]]
  ELSE [kind |-> "PERSONAL", isPersonalOwner |-> home = subject,
        role |-> NoRole]

(* Variant: the role alone decides, whoever owns the namespace. *)
AllowedOnMembership(access, visibility) ==
  IF visibility = "ABSENT" THEN {}
  ELSE {"pull"} \cup (IF Allows(access, "PUSH_REPOSITORIES")
                      THEN {"push"} ELSE {})

(* authorize: a repository that is not there grants nothing, and there is  *)
(* no capability behind "delete".                                          *)
AllowedOn(access, visibility) ==
  IF visibility = "ABSENT" THEN {}
  ELSE (IF visibility = "PUBLIC"
             \/ Allows(access, "PULL_PRIVATE_REPOSITORIES")
        THEN {"pull"} ELSE {})
         \cup (IF Allows(access, "PUSH_REPOSITORIES") THEN {"push"} ELSE {})

(* What the policy lets a subject do, in a repository to come too. *)
Might(subject, standings, visibilities) ==
  {g \in Images \X {"pull", "push"} :
     LET access == RelationTo(subject, ImageHome[g[1]], standings)
     IN  IF g[2] = "pull"
         THEN \/ visibilities[g[1]] = "PUBLIC"
              \/ Allows(access, "PULL_PRIVATE_REPOSITORIES")
         ELSE Allows(access, "PUSH_REPOSITORIES")}

Witnessed(standings, visibilities) ==
  issue' = [issue EXCEPT
    !.could = IF issue.step \in {"member", "repository"}
              THEN @ \cup Might(issue.subject, standings, visibilities)
              ELSE @,
    !.calm  = FALSE]

(* Outside: modules Organizations and RepositoryAccess. *)
ChangeStanding(u, role) ==
  /\ role # standing[u]
  /\ standing' = [standing EXCEPT ![u] = role]
  /\ Witnessed(standing', images)
  /\ UNCHANGED images

ChangeImage(i, visibility) ==
  /\ visibility # images[i]
  /\ images' = [images EXCEPT ![i] = visibility]
  /\ Witnessed(standing, images')
  /\ UNCHANGED standing

-----------------------------------------------------------------------------
(* Variant: of two values for one repository the last one counts. *)
ParseLast(raw) ==
  [i \in Images |-> IF \E s \in raw : s[1] = i
                    THEN (CHOOSE s \in raw : s[1] = i)[2] ELSE {}]

(* ParseScopes merges the values that name the same repository. *)
ParseScopes(raw) ==
  [i \in Images |-> UNION {s[2] : s \in {r \in raw : r[1] = i}}]

(* The request is parsed and its credentials, if it has any, are checked.  *)
(* One that fails here ends with an error and without a token.             *)
BeginIssue(subject, raw) ==
  /\ issue.step \in {"idle", "issued"}
  /\ issue' = [NoIssue EXCEPT
       !.step    = IF raw = {} THEN "sign" ELSE "member",
       !.subject = subject,
       !.wanted  = ParseScopes(raw),
       !.left    = {s[1] : s \in raw},
       !.asked   = UNION {{s[1]} \X s[2] : s \in raw},
       !.could   = Might(subject, standing, images)]
  /\ UNCHANGED <<standing, images>>

NextScope == CHOOSE i \in issue.left : \A j \in issue.left : i <= j

(* Variant: the membership is read for the first scope only. *)
ReadMembershipOnce ==
  /\ issue.step = "member"
  /\ issue' = [issue EXCEPT !.step = "repository",
       !.access = IF issue.granted # {} THEN @
                  ELSE RelationTo(issue.subject, ImageHome[NextScope],
                                  standing)]
  /\ UNCHANGED <<standing, images>>

(* AuthorizationContext: the namespace and the membership, ... *)
ReadMembership ==
  /\ issue.step = "member"
  /\ issue' = [issue EXCEPT !.step = "repository",
       !.access = RelationTo(issue.subject, ImageHome[NextScope], standing)]
  /\ UNCHANGED <<standing, images>>

(* ... then the repository; what is wanted and allowed is granted. *)
ReadRepository ==
  LET i    == NextScope
      left == issue.left \ {i}
  IN  /\ issue.step = "repository"
      /\ issue' = [issue EXCEPT
           !.step    = IF left = {} THEN "sign" ELSE "member",
           !.left    = left,
           !.access  = NoAccess,
           !.granted = @ \cup
              ({i} \X (issue.wanted[i]
                         \cap AllowedOn(issue.access, images[i])))]
      /\ UNCHANGED <<standing, images>>

SignToken ==
  /\ issue.step = "sign"
  /\ issue' = [issue EXCEPT !.step = "issued"]
  /\ UNCHANGED <<standing, images>>

(* A database error, or a signature that fails. *)
IssueFails ==
  /\ issue.step \in {"member", "repository", "sign"}
  /\ issue' = NoIssue
  /\ UNCHANGED <<standing, images>>

TokenNext ==
  \/ \E u \in Bearers, role \in BearerRoles : ChangeStanding(u, role)
  \/ \E i \in Images, visibility \in {"PUBLIC", "PRIVATE"} :
       ChangeImage(i, visibility)
  \/ \E subject \in Bearers \cup {Anonymous}, raw \in SUBSET RawScopes :
       BeginIssue(subject, raw)
  \/ ReadMembership \/ ReadRepository \/ SignToken \/ IssueFails

TokenSpec == TokenInit /\ [][TokenNext]_tokenVars

-----------------------------------------------------------------------------
(* A token carries only actions its subject might take at some moment of   *)
(* the request, each for itself, though membership and visibility are read *)
(* one after the other (authorize).  The right to a repository created     *)
(* between the two reads may be one that was lost before it was created.   *)
GrantsJustified ==
  issue.step = "issued" => issue.granted \subseteq issue.could

(* If nothing has changed since, a token carries all that was asked for    *)
(* and allowed, however the scope values were split (ParseScopes,          *)
(* authorize).                                                             *)
GrantsComplete ==
  issue.step = "issued" /\ issue.calm =>
    issue.granted = {g \in issue.could \cap issue.asked :
                       images[g[1]] # "ABSENT"}

(* A token is worth exactly what its subject may do. *)
GrantsExact == GrantsJustified /\ GrantsComplete
=============================================================================
