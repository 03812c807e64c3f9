-------------------------- MODULE RepositoryAccess --------------------------
(***************************************************************************)
(* Repositories under concurrent requests                                  *)
(* (internal/modules/repositories/service.go,                              *)
(* internal/platform/postgres/repositorystore/store.go): every request     *)
(* reads its actor's access to the namespace, asks the policy, reads the   *)
(* repository, and may write, each in a query of its own, while roles and  *)
(* repositories change.  Repositories are never deleted.  Module            *)
(* RepositoryPages is about the listing of a namespace.                    *)
(***************************************************************************)
EXTENDS AccessPolicy

CONSTANTS
  Accounts,        (* the users                                            *)
  GivenRoles,      (* the roles the organization may give each, or NoRole  *)
  Repos,           (* namespace and name of the repositories               *)
  HomeOf,          (* whose namespace each is in: a user's, or TheOrg      *)
  TheOrg,          (* the organization                                     *)
  Descriptions,
  Clients,         (* API requests under way at a time                     *)
  Nil              (* no row, no value asked for                           *)

Visibilities == {"PUBLIC", "PRIVATE"}

Row == [visibility : Visibilities, description : Descriptions,
        creator : Accounts, updatedBy : Accounts]

ASSUME RepositoryAssumption ==
  /\ GivenRoles \in [Accounts -> SUBSET (OrganizationRoles \cup {NoRole})]
  /\ HomeOf \in [Repos -> Accounts \cup {TheOrg}]
  /\ TheOrg \notin Accounts
  /\ Nil \notin Descriptions \cup Visibilities /\ Nil \notin Row

VARIABLES
  roleOf,      (* the organization memberships                             *)
  rows,        (* the repository rows                                      *)
  api          (* the requests under way                                   *)

repositoryVars == <<roleOf, rows, api>>

RequestKinds == {"create", "update", "detail"}

(* held and had are history: the accesses the actor had, and those values  *)
(* of the repository's row that matter to the request, at any moment since *)
(* it began.                                                               *)
ApiRequest ==
  [step : {"idle", "insert", "row", "write", "done"},
   op : RequestKinds \cup {Nil}, actor : Accounts \cup {Nil}, repo : Repos \cup {Nil},
   visibility : Visibilities \cup {Nil},
   description : Descriptions \cup {Nil},
   changes : SUBSET {"visibility", "description"},
   access : NamespaceAccess \cup {Nil},
   held : SUBSET NamespaceAccess,
   had : SUBSET (Visibilities \cup Descriptions)]

NoRequest == [step |-> "idle", op |-> Nil, actor |-> Nil, repo |-> Nil,
              visibility |-> Nil, description |-> Nil, changes |-> {},
              access |-> Nil, held |-> {}, had |-> {}]

RepositoryTypeOK ==
  /\ roleOf \in [Accounts -> OrganizationRoles \cup {NoRole}]
  /\ rows \in [Repos -> Row \cup {Nil}]
  /\ api \in [Clients -> ApiRequest]

RepositoryInit ==
  /\ roleOf \in [Accounts -> OrganizationRoles \cup {NoRole}]
  /\ \A u \in Accounts : roleOf[u] \in GivenRoles[u]
  /\ rows = [p \in Repos |-> Nil]
  /\ api = [c \in Clients |-> NoRequest]

-----------------------------------------------------------------------------
(* NamespaceAccessByName.  Only the membership can change between two of   *)
(* its queries.                                                            *)
AccessTo(actor, home, role) ==
  IF home = TheOrg
  THEN [kind |-> "ORGANIZATION", isPersonalOwner |-> FALSE, role |-> role]
  ELSE [kind |-> "PERSONAL", isPersonalOwner |-> home = actor,
        role |-> NoRole]

Access(actor, repo) == AccessTo(actor, HomeOf[repo], roleOf[actor])

CanPull(access) == Allows(access, "PULL_PRIVATE_REPOSITORIES")

(* The organization changes a membership (module Organizations). *)
ChangeRole(u, role) ==
  /\ role # roleOf[u]
  /\ roleOf' = [roleOf EXCEPT ![u] = role]
  /\ api' = [c \in Clients |->
       IF api[c].actor = u /\ api[c].step \in {"row", "write"}
       THEN [api[c] EXCEPT !.held = @ \cup
              {AccessTo(u, HomeOf[api[c].repo], role)}]
       ELSE api[c]]
  /\ UNCHANGED rows

(* The values of a row that a request has asked for, and whether it is     *)
(* public.                                                                 *)
Relevant(visibility, description, row) ==
  IF row = Nil THEN {}
  ELSE {row.visibility, row.description}
         \cap {"PUBLIC", visibility, description}

(* What the other requests under way could see of a row that is written.   *)
Watching(c, p, row) ==
  IF api[c].repo = p /\ api[c].step \in {"row", "write"}
  THEN [api[c] EXCEPT !.had = @ \cup Relevant(api[c].visibility,
                                              api[c].description, row)]
  ELSE api[c]

-----------------------------------------------------------------------------
(* Requests.  Of one that ends with an error nothing is remembered; what   *)
(* it has committed stays.                                                 *)

Idle(c) == api[c].step \in {"idle", "done"}

(* An answered request; what nobody asks of it any more is forgotten. *)
Finished(r) ==
  [r EXCEPT !.step = "done", !.access = Nil, !.changes = {},
            !.held = IF r.op = "detail" THEN @ ELSE {},
            !.had = IF r.op = "create" THEN {} ELSE @]

(* Variant: an update that may edit the description may do the rest too.   *)
NeededOfFirst(op, visibility, description) ==
  CASE op = "create" -> {"CREATE_REPOSITORIES"}
    [] op = "detail" -> {}
    [] op = "update" -> IF description # Nil
                        THEN {"EDIT_REPOSITORY_DESCRIPTION"}
                        ELSE {"CHANGE_REPOSITORY_VISIBILITY"}

Needed(op, visibility, description) ==
  CASE op = "create" -> {"CREATE_REPOSITORIES"}
    [] op = "detail" -> {}
    [] op = "update" ->
         (IF visibility # Nil THEN {"CHANGE_REPOSITORY_VISIBILITY"} ELSE {})
           \cup
         (IF description # Nil THEN {"EDIT_REPOSITORY_DESCRIPTION"} ELSE {})

(* A request arrives, and its actor's access is read and judged. *)
BeginRequest(c, op, u, p, visibility, description) ==
  LET access == Access(u, p)
  IN  /\ Idle(c)
      /\ op = "create" => Nil \notin {visibility, description}
      /\ op = "update" => {visibility, description} # {Nil}
      /\ op = "detail" => {visibility, description} = {Nil}
      /\ \A needed \in Needed(op, visibility, description) :
           Allows(access, needed)
      /\ api' = [api EXCEPT ![c] =
           [op |-> op, actor |-> u, repo |-> p,
            step |-> IF op = "create" THEN "insert" ELSE "row",
            visibility |-> visibility, description |-> description,
            changes |-> {}, access |-> access, held |-> {access},
            had |-> Relevant(visibility, description, rows[p])]]
      /\ UNCHANGED <<roleOf, rows>>

(* Variant: a table without the unique index. *)
InsertAgain(c) ==
  LET r == api[c]
  IN  /\ r.step = "insert"
      /\ rows' = [rows EXCEPT ![r.repo] =
           [visibility |-> r.visibility, description |-> r.description,
            creator |-> r.actor, updatedBy |-> r.actor]]
      /\ api' = [api EXCEPT ![c] = Finished(r)]
      /\ UNCHANGED roleOf

(* Create ends with the insert; the unique index refuses a second row of   *)
(* the same name.                                                          *)
InsertRepository(c) ==
  LET r   == api[c]
      row == [visibility |-> r.visibility, description |-> r.description,
              creator |-> r.actor, updatedBy |-> r.actor]
  IN  /\ r.step = "insert"
      /\ rows[r.repo] = Nil
      /\ rows' = [rows EXCEPT ![r.repo] = row]
      /\ api' = [d \in Clients |->
           IF d = c THEN Finished(r)
           ELSE Watching(d, r.repo, row)]
      /\ UNCHANGED roleOf

RefuseInsert(c) ==
  /\ api[c].step = "insert"
  /\ rows[api[c].repo] # Nil
  /\ api' = [api EXCEPT ![c] = NoRequest]
  /\ UNCHANGED <<roleOf, rows>>

(* Variant: a new description ends the comparison. *)
RowChangesFirst(r) ==
  IF r.description \notin {Nil, rows[r.repo].description}
  THEN {"description"}
  ELSE {f \in {"visibility"} : r[f] \notin {Nil, rows[r.repo][f]}}

(* Only what differs from the row that was read goes into the update.      *)
RowChanges(r) ==
  {f \in {"visibility", "description"} : r[f] \notin {Nil, rows[r.repo][f]}}

(* Update reads the row; without a difference it has its answer. *)
ReadForUpdate(c) ==
  LET r == api[c]
  IN  /\ r.op = "update" /\ r.step = "row"
      /\ api' = [api EXCEPT ![c] =
           IF rows[r.repo] = Nil THEN NoRequest
           ELSE IF RowChanges(r) = {} THEN Finished(r)
           ELSE [r EXCEPT !.step = "write", !.changes = RowChanges(r)]]
      /\ UNCHANGED <<roleOf, rows>>

(* The store's Update: one transaction under FOR UPDATE of the row. *)
WriteUpdate(c) ==
  LET r   == api[c]
      row == [rows[r.repo] EXCEPT
                !.visibility  = IF "visibility" \in r.changes
                                THEN r.visibility ELSE @,
                !.updatedBy   = IF "visibility" \in r.changes
                                THEN r.actor ELSE @,
                !.description = IF "description" \in r.changes
                                THEN r.description ELSE @]
  IN  /\ r.op = "update" /\ r.step = "write"
      /\ rows' = [rows EXCEPT ![r.repo] = row]
      /\ api' = [d \in Clients |->
           IF d = c THEN Finished(Watching(c, r.repo, row))
           ELSE Watching(d, r.repo, row)]
      /\ UNCHANGED roleOf

(* Variant: whoever knows the name sees the repository. *)
DiscoveryOfAny(r) == TRUE

Discovered(r) ==
  AllowsRepositoryDiscovery(rows[r.repo].visibility, CanPull(r.access))

(* Detail: ErrNotFound if there is no row or if it is not to be known.     *)
AnswerDetail(c) ==
  LET r == api[c]
  IN  /\ r.op = "detail" /\ r.step = "row"
      /\ api' = [api EXCEPT ![c] =
           IF rows[r.repo] # Nil /\ Discovered(r)
           THEN Finished(r) ELSE NoRequest]
      /\ UNCHANGED <<roleOf, rows>>

(* A query fails, and the request with it; or the answer gets lost, be it  *)
(* the database's to a commit or the server's to the client.               *)
RequestFails(c) ==
  /\ api[c].step # "idle"
  /\ api' = [api EXCEPT ![c] = NoRequest]
  /\ UNCHANGED <<roleOf, rows>>

-----------------------------------------------------------------------------
RepositoryNext ==
  \/ \E u \in Accounts : \E role \in GivenRoles[u] : ChangeRole(u, role)
  \/ \E c \in Clients :
       \/ \E op \in RequestKinds, u \in Accounts,
             p \in Repos, visibility \in Visibilities \cup {Nil},
             description \in Descriptions \cup {Nil} :
            BeginRequest(c, op, u, p, visibility, description)
       \/ InsertRepository(c) \/ RefuseInsert(c)
       \/ ReadForUpdate(c) \/ WriteUpdate(c) \/ AnswerDetail(c)
       \/ RequestFails(c)

RepositorySpec == RepositoryInit /\ [][RepositoryNext]_repositoryVars

-----------------------------------------------------------------------------
Answered(c, op) == api[c].op = op /\ api[c].step = "done"

Could(r, capability) == \E access \in r.held : Allows(access, capability)

(* A repository's visibility is changed only by a request that asked for   *)
(* this visibility, whose actor might change it at some moment of the      *)
(* request, and who is recorded; nobody's description edit carries an old  *)
(* visibility back (Update, and the columns the store's Update writes).    *)
VisibilityAccountable ==
  [][\A p \in Repos :
       rows[p] # Nil /\ rows'[p].visibility # rows[p].visibility =>
         \E c \in Clients :
           /\ api[c].repo = p
           /\ api[c].visibility = rows'[p].visibility
           /\ Could(api[c], "CHANGE_REPOSITORY_VISIBILITY")
           /\ rows'[p].updatedBy = api[c].actor]_rows

(* Every value an update asked for, the repository has had at some moment  *)
(* of the request when the update is answered; a field that seemed to need *)
(* no writing is not one that was never right.                             *)
UpdateHonoured ==
  \A c \in Clients : Answered(c, "update") =>
    {api[c].visibility, api[c].description} \subseteq api[c].had \cup {Nil}

(* Two requests create the same repository: only the one whose row it is   *)
(* is told so (the unique index behind Create).                            *)
CreatedByAnswered ==
  \A c \in Clients : Answered(c, "create") =>
    rows[api[c].repo].creator = api[c].actor

(* Detail shows a repository only if it was public, or its actor might     *)
(* pull it, at some moment of the request.                                 *)
ShownPermitted ==
  \A c \in Clients : Answered(c, "detail") =>
    "PUBLIC" \in api[c].had \/ Could(api[c], "PULL_PRIVATE_REPOSITORIES")

(* What a client is told of a repository is so, or was during its request. *)
AnswersTruthful == UpdateHonoured /\ CreatedByAnswered /\ ShownPermitted
=============================================================================
