---------------------------- MODULE AccessPolicy ----------------------------
(***************************************************************************)
(* What the policy allows whom in a namespace                              *)
(* (internal/modules/authorization/policy.go), and the access to a         *)
(* namespace that it is asked about (NamespaceAccess of                    *)
(* internal/modules/repositories).                                         *)
(***************************************************************************)

OrganizationRoles == {"OWNER", "ADMIN", "WRITER", "READER"}

NoRole == "NONE"

(* The actor's relation to a namespace: the owner of a personal one or     *)
(* not, or a role in the organization that owns it.                        *)
NamespaceAccess ==
  [kind : {"PERSONAL", "ORGANIZATION"}, isPersonalOwner : BOOLEAN,
   role : OrganizationRoles \cup {NoRole}]

(* The capabilities that concern repositories; an owner of a personal      *)
(* namespace has them all.                                                 *)
Writers == {"OWNER", "ADMIN", "WRITER"}

OrganizationCapabilities ==
  [CREATE_REPOSITORIES          |-> Writers,
   CHANGE_REPOSITORY_VISIBILITY |-> {"OWNER", "ADMIN"},
   EDIT_REPOSITORY_DESCRIPTION  |-> Writers,
   PUSH_REPOSITORIES            |-> Writers,
   PULL_PRIVATE_REPOSITORIES    |-> OrganizationRoles]

Capabilities == DOMAIN OrganizationCapabilities

Allows(access, capability) ==
  \/ access.kind = "PERSONAL" /\ access.isPersonalOwner
  \/ access.kind = "ORGANIZATION"
       /\ access.role \in OrganizationCapabilities[capability]

AllowsRepositoryDiscovery(visibility, canPullPrivate) ==
  visibility = "PUBLIC" \/ canPullPrivate
=============================================================================
