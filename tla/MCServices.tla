----------------------------- MODULE MCServices -----------------------------
(***************************************************************************)
(* Small instances, for TLC, of the services that share no state: each     *)
(* behaviour runs one of them, the one that focus names, while the others  *)
(* rest in one initial state.  What holds here holds of each of them alone *)
(* and, as no two have a variable in common, of any interleaving.          *)
(***************************************************************************)
EXTENDS RepositoryAccess, RepositoryPages, MCCosign, RegistryTokens,
        SigningKeys, KeyFiles, Sessions, Invitations, LoginLimit, TLC

CONSTANTS ann, ben     (* users *)

HomeOfM     == 1 :> TheOrg
GivenRolesM == (ann :> {"ADMIN", "NONE"}) @@ (ben :> {"WRITER"})

(* Image 1 is the organization's, image 2 a user's own. *)
ImageHomeM == (1 :> Organization) @@ (2 :> ann)
RawScopesM == {<<1, {"pull"}>>, <<1, {"push", "delete"}>>,
               <<2, {"pull", "push"}>>}

VARIABLE focus

Machines == {"repositories", "pages", "cosign", "tokens", "keys", "keygen",
             "sessions", "invitations", "logins"}

allVars == <<focus, repositoryVars, pagesVars, cosignVars, tokenVars, keyVars,
             keygenVars, sessionVars, invitationVars, limitVars>>

ServicesInit ==
  /\ focus \in Machines
  /\ RepositoryInit
  /\ focus = "repositories" \/
       roleOf = [u \in Accounts |-> CHOOSE r \in GivenRoles[u] : TRUE]
  /\ PagesInit
  /\ focus = "pages" \/ /\ walkerRole = NoRole
                        /\ shelf = [r \in Listed |-> "ABSENT"]
  /\ CosignInit
  /\ focus = "cosign" \/ attached = {}
  /\ TokenInit
  /\ focus = "tokens" \/ /\ standing = [b \in Bearers |-> NoRole]
                         /\ images = [i \in Images |-> "ABSENT"]
  /\ SigningInit
  /\ focus = "keys" <=> drift # 0
  /\ KeygenInit
  /\ SessionInit
  /\ InvitationInit
  /\ LimitInit

ClientSymmetry == Permutations(Clients)

ServicesNext ==
  \/ /\ focus = "repositories" /\ RepositoryNext
     /\ UNCHANGED <<focus, pagesVars, cosignVars, tokenVars, keyVars,
                    keygenVars, sessionVars, invitationVars, limitVars>>
  \/ /\ focus = "pages" /\ PagesNext
     /\ UNCHANGED <<focus, repositoryVars, cosignVars, tokenVars, keyVars,
                    keygenVars, sessionVars, invitationVars, limitVars>>
  \/ /\ focus = "cosign" /\ CosignNext
     /\ UNCHANGED <<focus, repositoryVars, pagesVars, tokenVars, keyVars,
                    keygenVars, sessionVars, invitationVars, limitVars>>
  \/ /\ focus = "tokens" /\ TokenNext
     /\ UNCHANGED <<focus, repositoryVars, pagesVars, cosignVars, keyVars,
                    keygenVars, sessionVars, invitationVars, limitVars>>
  \/ /\ focus = "keys" /\ SigningNext
     /\ UNCHANGED <<focus, repositoryVars, pagesVars, cosignVars, tokenVars,
                    keygenVars, sessionVars, invitationVars, limitVars>>
  \/ /\ focus = "keygen" /\ KeygenNext
     /\ UNCHANGED <<focus, repositoryVars, pagesVars, cosignVars, tokenVars,
                    keyVars, sessionVars, invitationVars, limitVars>>
  \/ /\ focus = "sessions" /\ SessionNext
     /\ UNCHANGED <<focus, repositoryVars, pagesVars, cosignVars, tokenVars,
                    keyVars, keygenVars, invitationVars, limitVars>>
  \/ /\ focus = "invitations" /\ InvitationNext
     /\ UNCHANGED <<focus, repositoryVars, pagesVars, cosignVars, tokenVars,
                    keyVars, keygenVars, sessionVars, limitVars>>
  \/ /\ focus = "logins" /\ LimitNext
     /\ UNCHANGED <<focus, repositoryVars, pagesVars, cosignVars, tokenVars,
                    keyVars, keygenVars, sessionVars, invitationVars>>

ServicesSpec == ServicesInit /\ [][ServicesNext]_allVars
=============================================================================
