-------------------------- MODULE RepositoryPages ---------------------------
(***************************************************************************)
(* The listing of an organization's namespace, page by page                *)
(* (List of internal/modules/repositories/service.go, ListByNamespace of   *)
(* the repository store): each page reads the caller's access again and    *)
(* fetches the rows after a cursor, one more than it shows, while          *)
(* repositories are created and change, and the caller's role does.        *)
(*                                                                         *)
(* A repository is its place in the order of the identifiers, which are    *)
(* random, so that a new one may come anywhere.                            *)
(***************************************************************************)
EXTENDS AccessPolicy, Naturals, FiniteSets

CONSTANTS
  Listed,       (* repository identifiers, in their order                  *)
  WalkerRoles,  (* the roles the caller may have, or NoRole                *)
  PageLimit     (* repositories in a page                                  *)

ASSUME PagesAssumption ==
  /\ Listed \subseteq Nat \ {0} /\ IsFiniteSet(Listed)
  /\ WalkerRoles \subseteq OrganizationRoles \cup {NoRole}
  /\ PageLimit \in Nat \ {0}

VARIABLES
  walkerRole,  (* the caller's role in the organization                    *)
  shelf,       (* the repositories' visibilities, or "ABSENT"              *)
  walk         (* the listing under way                                    *)

pagesVars == <<walkerRole, shelf, walk>>

(* steady is history: the repositories that were there and open to the     *)
(* caller all the time.                                                    *)
Walk == [step : {"idle", "access", "page", "done"},
         includePrivate : BOOLEAN, after : Listed \cup {0},
         listed : SUBSET Listed, twice : BOOLEAN, steady : SUBSET Listed]

PagesTypeOK ==
  /\ walkerRole \in WalkerRoles
  /\ shelf \in [Listed -> {"ABSENT", "PUBLIC", "PRIVATE"}]
  /\ walk \in Walk

NewWalk(step, steady) ==
  [step |-> step, includePrivate |-> FALSE, after |-> 0, listed |-> {},
   twice |-> FALSE, steady |-> steady]

PagesInit ==
  /\ walkerRole \in WalkerRoles
  /\ shelf \in [Listed -> {"ABSENT", "PUBLIC", "PRIVATE"}]
  /\ walk = NewWalk("idle", {})

CanPullPrivate ==
  Allows([kind |-> "ORGANIZATION", isPersonalOwner |-> FALSE,
          role |-> walkerRole], "PULL_PRIVATE_REPOSITORIES")

Showing(includePrivate) ==
  {p \in Listed : \/ shelf[p] = "PUBLIC"
                  \/ shelf[p] = "PRIVATE" /\ includePrivate}

-----------------------------------------------------------------------------
(* Create and Update of other requests (module RepositoryAccess). *)
ChangeShelf(p, visibility) ==
  /\ visibility # shelf[p]
  /\ shelf' = [shelf EXCEPT ![p] = visibility]
  /\ walk' = [walk EXCEPT !.steady = @ \ {p}]
  /\ UNCHANGED walkerRole

(* The organization changes the caller's membership. *)
ChangeWalkerRole(role) ==
  /\ role # walkerRole
  /\ walkerRole' = role
  /\ walk' = [walk EXCEPT !.steady = @ \cap Showing(FALSE)]
  /\ UNCHANGED shelf

BeginWalk ==
  /\ walk.step \in {"idle", "done"}
  /\ walk' = NewWalk("access", Showing(CanPullPrivate))
  /\ UNCHANGED <<walkerRole, shelf>>

ReadListAccess ==
  /\ walk.step = "access"
  /\ walk' = [walk EXCEPT !.step = "page", !.includePrivate = CanPullPrivate]
  /\ UNCHANGED <<walkerRole, shelf>>

First(n, set) == {p \in set : Cardinality({q \in set : q < p}) < n}

LastOf(set) == CHOOSE p \in set : \A q \in set : q <= p

(* Variant: the cursor names the row that was fetched only to see whether  *)
(* there is more.                                                          *)
NextAfterFetched(fetched, shown) == LastOf(fetched)

NextAfter(fetched, shown) == LastOf(shown)

(* Variant: a cursor is where the next page begins. *)
FollowingFrom(after) == {p \in Showing(walk.includePrivate) : p >= after}

Following(after) == {p \in Showing(walk.includePrivate) : p > after}

ReadPage ==
  LET fetched == First(PageLimit + 1, Following(walk.after))
      shown   == First(PageLimit, fetched)
  IN  /\ walk.step = "page"
      /\ walk' = [walk EXCEPT
           !.step   = IF fetched = shown THEN "done" ELSE "access",
           !.after  = IF fetched = shown THEN 0
                      ELSE NextAfter(fetched, shown),
           !.listed = @ \cup shown,
           !.twice  = @ \/ shown \cap walk.listed # {}]
      /\ UNCHANGED <<walkerRole, shelf>>

PagesNext ==
  \/ \E p \in Listed, visibility \in {"PUBLIC", "PRIVATE"} :
       ChangeShelf(p, visibility)
  \/ \E role \in WalkerRoles : ChangeWalkerRole(role)
  \/ BeginWalk \/ ReadListAccess \/ ReadPage

PagesSpec == PagesInit /\ [][PagesNext]_pagesVars

-----------------------------------------------------------------------------
(* A walk over the pages lists no repository twice, and every one that was *)
(* there and open to the caller all the time, whatever is created or       *)
(* changed meanwhile (List and ListByNamespace).                           *)
WalkComplete ==
  /\ ~walk.twice
  /\ walk.step = "done" => walk.steady \subseteq walk.listed
=============================================================================
