---------------------------- MODULE AccessProofs ----------------------------
(***************************************************************************)
(* What requests may and get to see, proved for any users, roles,          *)
(* repositories, scopes and page sizes: modules RegistryTokens,            *)
(* RepositoryAccess and RepositoryPages.                                   *)
(***************************************************************************)
EXTENDS RegistryTokens, RepositoryAccess, RepositoryPages,
        FiniteSetTheorems, WellFoundedInduction, TLAPS

LEMMA LeastNumber ==
  ASSUME NEW T \in SUBSET Nat, T # {}
  PROVE  \E x \in T : \A y \in T : x <= y
  <1> DEFINE R == OpToRel(<, Nat)
  <1>1. IsWellFoundedOn(R, Nat)
    BY NatLessThanWellFounded
  <1>2. \A x, y \in Nat : x < y => <<x, y>> \in R
    BY DEF OpToRel
  <1> HIDE DEF R
  <1>3. PICK x \in T : \A y \in T : ~ (<<y, x>> \in R)
    BY <1>1, WFMin
  <1>4. ASSUME NEW y \in T PROVE x <= y
    <2>1. ~(y < x)
      BY <1>2, <1>3
    <2>2. x \in Nat /\ y \in Nat
      OBVIOUS
    <2>3. QED
      BY <2>1, <2>2
  <1>5. QED
    BY <1>4

-----------------------------------------------------------------------------
(* Registry tokens. *)

Authorizing == issue.step \in {"member", "repository"}
MightNow == Might(issue.subject, standing, images)
RelationNow(i) == RelationTo(issue.subject, ImageHome[i], standing)

(* What has been wanted is what was asked, image by image.                 *)
AskedOK ==
  /\ \A i \in Images, a \in Actions : a \in issue.wanted[i] <=> <<i, a>> \in issue.asked
  /\ Authorizing => issue.left # {}
  /\ issue.step \in {"sign", "issued"} => issue.left = {}

(* could has all that the policy lets the subject do now, and all that the *)
(* access allowed that was read for the next scope.                        *)
CouldOK ==
  /\ issue.could \subseteq Images \X {"pull", "push"}
  /\ Authorizing => MightNow \subseteq issue.could
  /\ issue.step = "repository" =>
       /\ Allows(issue.access, "PULL_PRIVATE_REPOSITORIES") =>
            <<NextScope, "pull">> \in issue.could
       /\ Allows(issue.access, "PUSH_REPOSITORIES") =>
            <<NextScope, "push">> \in issue.could

(* As long as nothing changes, the scopes that were looked at have been    *)
(* granted all that was asked for and allowed.                             *)
CalmOK ==
  issue.calm /\ issue.step # "idle" =>
    /\ issue.could = MightNow
    /\ issue.step = "repository" => issue.access = RelationNow(NextScope)
    /\ \A g \in Images \X Actions :
         g \in issue.granted <=>
           /\ g \in issue.could \cap issue.asked
           /\ g[1] \notin issue.left /\ images[g[1]] # "ABSENT"

TokenInv ==
  /\ TokenTypeOK
  /\ AskedOK /\ CouldOK /\ CalmOK
  /\ issue.granted \subseteq issue.could

-----------------------------------------------------------------------------
LEMMA NextScopeLeft ==
  ASSUME issue.left \in SUBSET Images, issue.left # {}
  PROVE  NextScope \in issue.left
  <1>1. issue.left \in SUBSET Nat
    BY TokenAssumption
  <1>2. \E i \in issue.left : \A j \in issue.left : i <= j
    BY <1>1, LeastNumber
  <1>3. QED
    BY <1>2 DEF NextScope

LEMMA MightType ==
  ASSUME NEW s, NEW standings, NEW visibilities
  PROVE  Might(s, standings, visibilities) \subseteq Images \X {"pull", "push"}
BY DEF Might

LEMMA RelationType ==
  ASSUME NEW s \in Bearers \cup {Anonymous}, NEW i \in Images,
         standing \in [Bearers -> BearerRoles]
  PROVE  RelationTo(s, ImageHome[i], standing) \in NamespaceAccess
BY TokenAssumption DEF RelationTo, NamespaceAccess, NoRole

LEMMA NoIssueFields ==
  /\ NoIssue \in Issue /\ NoIssue.step = "idle" /\ NoIssue.granted = {}
  /\ NoIssue.could = {} /\ NoIssue.asked = {} /\ NoIssue.calm
  /\ \A i \in Images : NoIssue.wanted[i] = {}
  <1>1. NoAccess \in NamespaceAccess
    BY DEF NoAccess, NamespaceAccess, NoRole
  <1>2. NoIssue \in Issue
    BY <1>1 DEF NoIssue, Issue, Grants
  <1>3. QED
    BY <1>2 DEF NoIssue

LEMMA IdleOK ==
  ASSUME TokenTypeOK, issue = NoIssue
  PROVE  TokenInv
BY NoIssueFields
   DEF TokenInv, AskedOK, CouldOK, CalmOK, Authorizing

LEMMA TokenStart == TokenInit => TokenInv
  <1> SUFFICES ASSUME TokenInit PROVE TokenInv
    OBVIOUS
  <1>1. TokenTypeOK /\ issue = NoIssue
    BY NoIssueFields DEF TokenInit, TokenTypeOK
  <1>2. QED
    BY <1>1, IdleOK

-----------------------------------------------------------------------------
(* A membership or a visibility changes under the request.                 *)
LEMMA ChangeKeeps ==
  ASSUME TokenInv,
         \/ \E u \in Bearers, role \in BearerRoles : ChangeStanding(u, role)
         \/ \E i \in Images, v \in {"PUBLIC", "PRIVATE"} : ChangeImage(i, v)
  PROVE  TokenInv'
  <1>1. /\ standing' \in [Bearers -> BearerRoles]
        /\ images' \in [Images -> {"ABSENT", "PUBLIC", "PRIVATE"}]
        /\ Witnessed(standing', images')
    BY DEF ChangeStanding, ChangeImage, TokenInv, TokenTypeOK
  <1>2. PICK could : could = IF Authorizing
                       THEN issue.could \cup Might(issue.subject, standing', images')
                       ELSE issue.could
    OBVIOUS
  <1>3. issue' = [issue EXCEPT !.could = could, !.calm = FALSE]
    BY <1>1, <1>2 DEF Witnessed, Authorizing
  <1>4. issue \in Issue /\ issue.could \subseteq Images \X {"pull", "push"}
    BY DEF TokenInv, TokenTypeOK, CouldOK
  <1>5. could \subseteq Images \X {"pull", "push"} /\ issue.could \subseteq could
    BY <1>2, <1>4, MightType
  <1>6. could \in Grants
    BY <1>5 DEF Grants, Actions
  <1>7. issue' \in Issue
    BY <1>3, <1>4, <1>6 DEF Issue
  <1>8. /\ issue'.step = issue.step /\ issue'.subject = issue.subject
        /\ issue'.wanted = issue.wanted /\ issue'.left = issue.left
        /\ issue'.access = issue.access /\ issue'.granted = issue.granted
        /\ issue'.asked = issue.asked /\ issue'.could = could
    BY <1>3, <1>4 DEF Issue
  <1>9. ~issue'.calm
    BY <1>3, <1>4 DEF Issue
  <1>10. TokenTypeOK'
    BY <1>1, <1>7 DEF TokenTypeOK
  <1>11. AskedOK'
    BY <1>8 DEF TokenInv, AskedOK, Authorizing
  <1>12. CouldOK'
    <2>1. NextScope' = NextScope
      BY <1>8 DEF NextScope
    <2>2. Authorizing => MightNow' \subseteq could
      BY <1>2, <1>8 DEF MightNow
    <2>3. QED
      BY <1>5, <1>8, <2>1, <2>2 DEF TokenInv, CouldOK, Authorizing
  <1>13. QED
    BY <1>5, <1>8, <1>9, <1>10, <1>11, <1>12 DEF TokenInv, CalmOK

LEMMA BeginKeeps ==
  ASSUME TokenInv, NEW s \in Bearers \cup {Anonymous}, NEW raw \in SUBSET RawScopes,
         BeginIssue(s, raw)
  PROVE  TokenInv'
  <1>1. PICK could : could = Might(s, standing, images)
    OBVIOUS
  <1>2. PICK asked : asked = UNION {{r[1]} \X r[2] : r \in raw}
    OBVIOUS
  <1>3. PICK left : left = {r[1] : r \in raw}
    OBVIOUS
  <1>4. PICK step : step = IF raw = {} THEN "sign" ELSE "member"
    OBVIOUS
  <1>5. PICK wanted : wanted = ParseScopes(raw)
    OBVIOUS
  <1>6. /\ issue' = [NoIssue EXCEPT !.step = step, !.subject = s, !.wanted = wanted,
                                   !.left = left, !.asked = asked, !.could = could]
        /\ UNCHANGED <<standing, images>>
    BY <1>1, <1>2, <1>3, <1>4, <1>5 DEF BeginIssue
  <1>7. \A r \in raw : /\ r = <<r[1], r[2]>> /\ r[1] \in Images
                       /\ r[2] \subseteq Actions
    BY TokenAssumption
  <1>8. could \subseteq Images \X {"pull", "push"} /\ could \in Grants
    BY <1>1, MightType DEF Grants, Actions
  <1>9. asked \in Grants /\ left \subseteq Images
    BY <1>2, <1>3, <1>7 DEF Grants
  <1>10. wanted \in [Images -> SUBSET Actions]
    BY <1>5, <1>7 DEF ParseScopes
  <1>11. \A i \in Images, a \in Actions : a \in wanted[i] <=> <<i, a>> \in asked
    BY <1>2, <1>5, <1>7 DEF ParseScopes
  <1>12. \A g \in asked : g[1] \in left
    BY <1>2, <1>3, <1>7
  <1>13. issue' \in Issue
    BY <1>4, <1>6, <1>8, <1>9, <1>10, NoIssueFields DEF Issue
  <1>14. /\ issue'.step = step /\ issue'.subject = s /\ issue'.wanted = wanted
         /\ issue'.left = left /\ issue'.asked = asked /\ issue'.could = could
         /\ issue'.granted = {}
    BY <1>6, NoIssueFields DEF Issue
  <1>15. MightNow' = could
    BY <1>1, <1>6, <1>14 DEF MightNow
  <1>16. TokenTypeOK'
    BY <1>6, <1>13 DEF TokenInv, TokenTypeOK
  <1>17. AskedOK'
    BY <1>3, <1>4, <1>11, <1>14 DEF AskedOK, Authorizing
  <1>18. CouldOK'
    BY <1>4, <1>8, <1>14, <1>15 DEF CouldOK, Authorizing
  <1>19. CalmOK'
    BY <1>4, <1>12, <1>14, <1>15 DEF CalmOK
  <1>20. QED
    BY <1>14, <1>16, <1>17, <1>18, <1>19 DEF TokenInv

LEMMA MembershipKeeps == TokenInv /\ ReadMembership => TokenInv'
  <1> SUFFICES ASSUME TokenInv, ReadMembership PROVE TokenInv'
    OBVIOUS
  <1>1. PICK access : access = RelationNow(NextScope)
    OBVIOUS
  <1>2. /\ issue' = [issue EXCEPT !.step = "repository", !.access = access]
        /\ issue.step = "member" /\ UNCHANGED <<standing, images>>
    BY <1>1 DEF ReadMembership, RelationNow
  <1>3. issue \in Issue /\ AskedOK /\ CouldOK /\ CalmOK /\ TokenTypeOK
    BY DEF TokenInv, TokenTypeOK
  <1>4. NextScope \in issue.left /\ NextScope \in Images
    BY <1>2, <1>3, NextScopeLeft DEF AskedOK, Authorizing, Issue
  <1>5. access \in NamespaceAccess
    BY <1>1, <1>3, <1>4, RelationType DEF RelationNow, TokenTypeOK, Issue
  <1>6. issue' \in Issue
    BY <1>2, <1>3, <1>5 DEF Issue
  <1>7. /\ issue'.step = "repository" /\ issue'.subject = issue.subject
        /\ issue'.wanted = issue.wanted /\ issue'.left = issue.left
        /\ issue'.access = access /\ issue'.granted = issue.granted
        /\ issue'.asked = issue.asked /\ issue'.could = issue.could
        /\ issue'.calm <=> issue.calm
    BY <1>2, <1>3 DEF Issue
  <1>8. NextScope' = NextScope /\ MightNow' = MightNow
        /\ RelationNow(NextScope)' = RelationNow(NextScope)
    BY <1>2, <1>7 DEF NextScope, MightNow, RelationNow
  <1>9. MightNow \subseteq issue.could
    BY <1>2, <1>3 DEF CouldOK, Authorizing
  <1>10. /\ Allows(access, "PULL_PRIVATE_REPOSITORIES") =>
              <<NextScope, "pull">> \in issue.could
         /\ Allows(access, "PUSH_REPOSITORIES") =>
              <<NextScope, "push">> \in issue.could
    BY <1>1, <1>4, <1>9 DEF MightNow, RelationNow, Might
  <1>11. CouldOK'
    BY <1>2, <1>3, <1>7, <1>8, <1>9, <1>10 DEF CouldOK
  <1>12. CalmOK'
    BY <1>1, <1>2, <1>3, <1>7, <1>8 DEF CalmOK
  <1>13. AskedOK' /\ TokenTypeOK'
    BY <1>2, <1>3, <1>6, <1>7 DEF AskedOK, Authorizing, TokenTypeOK
  <1>14. QED
    BY <1>7, <1>11, <1>12, <1>13 DEF TokenInv

(* What AllowedOn lets through is what the policy says of a repository     *)
(* that is there.                                                          *)
LEMMA AllowedMeansMight ==
  ASSUME NEW i \in Images, NEW a \in Actions
  PROVE  a \in AllowedOn(RelationNow(i), images[i]) <=>
           <<i, a>> \in MightNow /\ images[i] # "ABSENT"
  <1>1. <<i, a>> \in MightNow <=>
          \/ a = "pull" /\ (\/ images[i] = "PUBLIC"
                            \/ Allows(RelationNow(i), "PULL_PRIVATE_REPOSITORIES"))
          \/ a = "push" /\ Allows(RelationNow(i), "PUSH_REPOSITORIES")
    BY DEF MightNow, Might, RelationNow
  <1> HIDE DEF MightNow
  <1>2. a \in AllowedOn(RelationNow(i), images[i]) <=>
          /\ images[i] # "ABSENT"
          /\ \/ a = "pull" /\ (\/ images[i] = "PUBLIC"
                               \/ Allows(RelationNow(i), "PULL_PRIVATE_REPOSITORIES"))
             \/ a = "push" /\ Allows(RelationNow(i), "PUSH_REPOSITORIES")
    BY DEF AllowedOn
  <1>3. QED
    BY <1>1, <1>2

LEMMA RepositoryKeeps == TokenInv /\ ReadRepository => TokenInv'
  <1> SUFFICES ASSUME TokenInv, ReadRepository PROVE TokenInv'
    OBVIOUS
  <1>1. PICK i : i = NextScope
    OBVIOUS
  <1>2. PICK allowed : allowed = issue.wanted[i] \cap AllowedOn(issue.access, images[i])
    OBVIOUS
  <1>3. PICK left : left = issue.left \ {i}
    OBVIOUS
  <1>4. PICK step : step = IF left = {} THEN "sign" ELSE "member"
    OBVIOUS
  <1>5. PICK granted : granted = issue.granted \cup ({i} \X allowed)
    OBVIOUS
  <1>6. /\ issue' = [issue EXCEPT !.step = step, !.left = left,
                                  !.access = NoAccess, !.granted = granted]
        /\ issue.step = "repository" /\ UNCHANGED <<standing, images>>
    BY <1>1, <1>2, <1>3, <1>4, <1>5 DEF ReadRepository
  <1>7. issue \in Issue /\ AskedOK /\ CouldOK /\ CalmOK /\ TokenTypeOK
        /\ issue.granted \subseteq issue.could
    BY DEF TokenInv, TokenTypeOK
  <1>8. i \in issue.left /\ i \in Images
    BY <1>1, <1>6, <1>7, NextScopeLeft DEF AskedOK, Authorizing, Issue
  <1>9. allowed \subseteq {"pull", "push"} /\ allowed \subseteq issue.wanted[i]
    BY <1>2 DEF AllowedOn
  <1>10. \A a \in allowed : <<i, a>> \in issue.could
    <2>1. images[i] = "PUBLIC" => <<i, "pull">> \in issue.could
      BY <1>6, <1>7, <1>8 DEF CouldOK, Authorizing, MightNow, Might
    <2>2. /\ Allows(issue.access, "PULL_PRIVATE_REPOSITORIES") =>
               <<i, "pull">> \in issue.could
          /\ Allows(issue.access, "PUSH_REPOSITORIES") =>
               <<i, "push">> \in issue.could
      BY <1>1, <1>6, <1>7 DEF CouldOK
    <2>3. QED
      BY <1>2, <2>1, <2>2 DEF AllowedOn
  <1>11. granted \subseteq issue.could
    BY <1>5, <1>7, <1>10
  <1>12. granted \in Grants
    BY <1>7, <1>11 DEF Issue, Grants
  <1>13. left \in SUBSET Images /\ step \in {"sign", "member"}
    BY <1>3, <1>4, <1>7 DEF Issue
  <1>14. NoAccess \in NamespaceAccess
    BY DEF NoAccess, NamespaceAccess, NoRole
  <1>15. issue' \in Issue
    BY <1>6, <1>7, <1>12, <1>13, <1>14 DEF Issue
  <1>16. /\ issue'.step = step /\ issue'.subject = issue.subject
         /\ issue'.wanted = issue.wanted /\ issue'.left = left
         /\ issue'.granted = granted
         /\ issue'.asked = issue.asked /\ issue'.could = issue.could
         /\ issue'.calm <=> issue.calm
    BY <1>6, <1>7 DEF Issue
  <1>17. MightNow' = MightNow
    BY <1>6, <1>16 DEF MightNow
  <1>18. AskedOK'
    BY <1>4, <1>7, <1>13, <1>16 DEF AskedOK, Authorizing
  <1>19. CouldOK'
    BY <1>6, <1>7, <1>13, <1>16, <1>17 DEF CouldOK, Authorizing
  <1>20. CalmOK'
    <2> SUFFICES ASSUME issue.calm
                 PROVE  /\ issue.could = MightNow
                        /\ \A g \in Images \X Actions :
                             g \in granted <=>
                               /\ g \in issue.could \cap issue.asked
                               /\ g[1] \notin left /\ images[g[1]] # "ABSENT"
      BY <1>6, <1>13, <1>16, <1>17 DEF CalmOK
    <2>1. /\ issue.could = MightNow /\ issue.access = RelationNow(i)
          /\ \A g \in Images \X Actions :
               g \in issue.granted <=>
                 /\ g \in issue.could \cap issue.asked
                 /\ g[1] \notin issue.left /\ images[g[1]] # "ABSENT"
      BY <1>1, <1>6, <1>7 DEF CalmOK
    <2>2. ASSUME NEW j \in Images, NEW a \in Actions
          PROVE  <<j, a>> \in granted <=>
                   /\ <<j, a>> \in issue.could \cap issue.asked
                   /\ j \notin left /\ images[j] # "ABSENT"
      <3>1. <<j, a>> \in issue.granted <=>
              /\ <<j, a>> \in issue.could \cap issue.asked
              /\ j \notin issue.left /\ images[j] # "ABSENT"
        BY <2>1
      <3>2. <<j, a>> \in granted <=>
              <<j, a>> \in issue.granted \/ (j = i /\ a \in allowed)
        BY <1>5
      <3>3. a \in allowed /\ j = i <=>
              /\ j = i /\ <<j, a>> \in issue.could \cap issue.asked
              /\ images[j] # "ABSENT"
        <4>1. a \in AllowedOn(RelationNow(i), images[i]) <=>
                <<i, a>> \in MightNow /\ images[i] # "ABSENT"
          BY <1>8, AllowedMeansMight
        <4>2. a \in issue.wanted[i] <=> <<i, a>> \in issue.asked
          BY <1>7, <1>8 DEF AskedOK
        <4>3. QED
          BY <1>2, <2>1, <4>1, <4>2
      <3>4. CASE j = i
        BY <1>3, <1>8, <3>1, <3>2, <3>3, <3>4
      <3>5. CASE j # i
        BY <1>3, <3>1, <3>2, <3>5
      <3>6. QED
        BY <3>4, <3>5
    <2>3. QED
      BY <2>1, <2>2
  <1>21. TokenTypeOK'
    BY <1>6, <1>7, <1>15 DEF TokenTypeOK
  <1>22. QED
    BY <1>11, <1>16, <1>18, <1>19, <1>20, <1>21 DEF TokenInv

LEMMA SignKeeps == TokenInv /\ SignToken => TokenInv'
  <1> SUFFICES ASSUME TokenInv, SignToken PROVE TokenInv'
    OBVIOUS
  <1>1. /\ issue' = [issue EXCEPT !.step = "issued"]
        /\ issue.step = "sign" /\ UNCHANGED <<standing, images>>
    BY DEF SignToken
  <1>2. issue \in Issue /\ AskedOK /\ CouldOK /\ CalmOK /\ TokenTypeOK
        /\ issue.granted \subseteq issue.could
    BY DEF TokenInv, TokenTypeOK
  <1>3. issue' \in Issue
    BY <1>1, <1>2 DEF Issue
  <1>4. /\ issue'.step = "issued" /\ issue'.subject = issue.subject
        /\ issue'.wanted = issue.wanted /\ issue'.left = issue.left
        /\ issue'.granted = issue.granted
        /\ issue'.asked = issue.asked /\ issue'.could = issue.could
        /\ issue'.calm <=> issue.calm
    BY <1>1, <1>2 DEF Issue
  <1>5. MightNow' = MightNow
    BY <1>1, <1>4 DEF MightNow
  <1>6. AskedOK' /\ TokenTypeOK'
    BY <1>1, <1>2, <1>3, <1>4 DEF AskedOK, Authorizing, TokenTypeOK
  <1>7. CouldOK'
    BY <1>2, <1>4 DEF CouldOK, Authorizing
  <1>8. CalmOK'
    BY <1>1, <1>2, <1>4, <1>5 DEF CalmOK
  <1>9. QED
    BY <1>2, <1>4, <1>6, <1>7, <1>8 DEF TokenInv

LEMMA TokenStep == TokenInv /\ [TokenNext]_tokenVars => TokenInv'
  <1> SUFFICES ASSUME TokenInv, [TokenNext]_tokenVars PROVE TokenInv'
    OBVIOUS
  <1>1. CASE \/ \E u \in Bearers, role \in BearerRoles : ChangeStanding(u, role)
             \/ \E i \in Images, v \in {"PUBLIC", "PRIVATE"} : ChangeImage(i, v)
    BY <1>1, ChangeKeeps
  <1>2. CASE \E subject \in Bearers \cup {Anonymous}, raw \in SUBSET RawScopes :
               BeginIssue(subject, raw)
    BY <1>2, BeginKeeps
  <1>3. CASE ReadMembership
    BY <1>3, MembershipKeeps
  <1>4. CASE ReadRepository
    BY <1>4, RepositoryKeeps
  <1>5. CASE SignToken
    BY <1>5, SignKeeps
  <1>6. CASE IssueFails
    <2>1. TokenTypeOK' /\ issue' = NoIssue
      BY <1>6, NoIssueFields DEF IssueFails, TokenInv, TokenTypeOK
    <2>2. /\ issue'.step = "idle" /\ issue'.granted = {}
          /\ issue'.could = {} /\ issue'.asked = {}
          /\ \A i \in Images : issue'.wanted[i] = {}
      BY <2>1, NoIssueFields
    <2>3. AskedOK' /\ CouldOK' /\ CalmOK'
      BY <2>2 DEF AskedOK, CouldOK, CalmOK, Authorizing
    <2>4. QED
      BY <2>1, <2>2, <2>3 DEF TokenInv
  <1>7. CASE UNCHANGED tokenVars
    BY <1>7
       DEF tokenVars, TokenInv, TokenTypeOK, AskedOK, CouldOK, CalmOK,
           Authorizing, MightNow, RelationNow, NextScope
  <1>8. QED
    BY <1>1, <1>2, <1>3, <1>4, <1>5, <1>6, <1>7 DEF TokenNext

LEMMA TokenInvariance == TokenSpec => []TokenInv
BY TokenStart, TokenStep, PTL DEF TokenSpec

-----------------------------------------------------------------------------
LEMMA TokenInvExact == TokenInv => GrantsExact
  <1> SUFFICES ASSUME TokenInv, issue.step = "issued"
               PROVE  GrantsExact
    BY DEF GrantsExact, GrantsJustified, GrantsComplete
  <1>1. GrantsJustified
    BY DEF GrantsJustified, TokenInv
  <1>2. issue.left = {} /\ issue.granted \subseteq issue.could
        /\ issue.could \subseteq Images \X {"pull", "push"}
    BY DEF TokenInv, AskedOK, CouldOK
  <1>3. issue.calm =>
          \A g \in Images \X Actions :
            g \in issue.granted <=>
              g \in issue.could \cap issue.asked /\ images[g[1]] # "ABSENT"
    BY <1>2 DEF TokenInv, CalmOK
  <1>4. \A g \in Images \X {"pull", "push"} : g \in Images \X Actions
    BY DEF Actions
  <1>5. GrantsComplete
    BY <1>2, <1>3, <1>4 DEF GrantsComplete
  <1>6. QED
    BY <1>1, <1>5 DEF GrantsExact

(* A Registry token carries only what its subject might do at some moment  *)
(* of the request, and all of what was asked for and allowed if nothing    *)
(* changed meanwhile (Issue and authorize of registry/service.go).         *)
THEOREM GrantsAreExact == TokenSpec => []GrantsExact
BY TokenInvariance, TokenInvExact, PTL

-----------------------------------------------------------------------------
(* Repositories under concurrent requests. *)

Reading(r) == r.step \in {"row", "write"}

(* What an update that is about to write has found out: what it will not   *)
(* write the repository has had.                                           *)
WriteOK(r, table) ==
  /\ r.op = "update" /\ table[r.repo] # Nil
  /\ "visibility" \in r.changes => r.visibility # Nil
  /\ "visibility" \notin r.changes => r.visibility \in r.had \cup {Nil}
  /\ "description" \in r.changes => r.description # Nil
  /\ "description" \notin r.changes => r.description \in r.had \cup {Nil}

DoneOK(r, table) ==
  /\ r.op = "create" => table[r.repo] # Nil /\ table[r.repo].creator = r.actor
  /\ r.op = "update" => {r.visibility, r.description} \subseteq r.had \cup {Nil}
  /\ r.op = "detail" =>
       "PUBLIC" \in r.had \/ Could(r, "PULL_PRIVATE_REPOSITORIES")

ReadingOK(r, table) ==
  /\ r.op # "create" /\ r.access \in r.held
  /\ \A needed \in Needed(r.op, r.visibility, r.description) :
       Allows(r.access, needed)
  /\ Relevant(r.visibility, r.description, table[r.repo]) \subseteq r.had

(* A request is always judged by an access its actor had, and knows of     *)
(* every value that matters to it.                                         *)
RequestOK(r, table) ==
  /\ r.step # "idle" => r.op \in RequestKinds /\ r.repo \in Repos /\ r.actor \in Accounts
  /\ r.step = "insert" =>
       r.op = "create" /\ r.visibility \in Visibilities /\ r.description \in Descriptions
  /\ Reading(r) => ReadingOK(r, table)
  /\ r.step = "write" => WriteOK(r, table)
  /\ r.step = "done" => DoneOK(r, table)

RepositoryInv ==
  /\ RepositoryTypeOK
  /\ \A c \in Clients : RequestOK(api[c], rows)

-----------------------------------------------------------------------------
LEMMA RepositoryStart == RepositoryInit => RepositoryInv
  <1> SUFFICES ASSUME RepositoryInit PROVE RepositoryInv
    OBVIOUS
  <1>1. NoRequest \in ApiRequest /\ NoRequest.step = "idle"
    BY DEF NoRequest, ApiRequest
  <1>2. RepositoryTypeOK
    BY <1>1 DEF RepositoryInit, RepositoryTypeOK
  <1>3. ASSUME NEW c \in Clients PROVE RequestOK(api[c], rows)
    BY <1>1 DEF RepositoryInit, RequestOK, Reading
  <1>4. QED
    BY <1>2, <1>3 DEF RepositoryInv

LEMMA NoRequestOK ==
  ASSUME NEW table PROVE RequestOK(NoRequest, table) /\ NoRequest \in ApiRequest
  <1>1. NoRequest \in ApiRequest /\ NoRequest.step = "idle"
    BY DEF NoRequest, ApiRequest
  <1>2. QED
    BY <1>1 DEF RequestOK, Reading

(* One request changes, the table does not. *)
LEMMA OneRequest ==
  ASSUME RepositoryInv, NEW c \in Clients, NEW r \in ApiRequest, RequestOK(r, rows),
         api' = [api EXCEPT ![c] = r], UNCHANGED <<roleOf, rows>>
  PROVE  RepositoryInv'
  <1>1. api' \in [Clients -> ApiRequest] /\ rows' = rows /\ roleOf' = roleOf
    BY DEF RepositoryInv, RepositoryTypeOK
  <1>2. RepositoryTypeOK'
    BY <1>1 DEF RepositoryInv, RepositoryTypeOK
  <1>3. \A d \in Clients : api'[d] = IF d = c THEN r ELSE api[d]
    BY DEF RepositoryInv, RepositoryTypeOK
  <1>4. \A d \in Clients : RequestOK(api'[d], rows)
    BY <1>3 DEF RepositoryInv
  <1>5. QED
    BY <1>1, <1>2, <1>4 DEF RepositoryInv

(* A finished request keeps what its answer rests on. *)
LEMMA FinishedFields ==
  ASSUME NEW r \in ApiRequest
  PROVE  /\ Finished(r) \in ApiRequest /\ Finished(r).step = "done"
         /\ Finished(r).op = r.op /\ Finished(r).repo = r.repo
         /\ Finished(r).actor = r.actor /\ Finished(r).visibility = r.visibility
         /\ Finished(r).description = r.description
         /\ r.op = "detail" => Finished(r).held = r.held
         /\ r.op # "create" => Finished(r).had = r.had
  <1>1. PICK held : held = IF r.op = "detail" THEN r.held ELSE {}
    OBVIOUS
  <1>2. PICK had : had = IF r.op = "create" THEN {} ELSE r.had
    OBVIOUS
  <1>3. Finished(r) = [r EXCEPT !.step = "done", !.access = Nil, !.changes = {},
                                !.held = held, !.had = had]
    BY <1>1, <1>2 DEF Finished
  <1>4. held \in SUBSET NamespaceAccess /\ had \in SUBSET (Visibilities \cup Descriptions)
    BY <1>1, <1>2 DEF ApiRequest
  <1>5. Finished(r) \in ApiRequest
    BY <1>3, <1>4 DEF ApiRequest
  <1>6. QED
    BY <1>1, <1>2, <1>3, <1>5 DEF ApiRequest

LEMMA FinishedOK ==
  ASSUME NEW r \in ApiRequest, NEW table,
         r.op \in RequestKinds, r.repo \in Repos, r.actor \in Accounts, DoneOK(r, table)
  PROVE  RequestOK(Finished(r), table)
BY FinishedFields DEF RequestOK, Reading, DoneOK, Could

LEMMA RelevantType ==
  ASSUME NEW v \in Visibilities \cup {Nil}, NEW d \in Descriptions \cup {Nil},
         NEW row \in Row \cup {Nil}
  PROVE  Relevant(v, d, row) \subseteq Visibilities \cup Descriptions
BY DEF Relevant, Row

LEMMA AccessType ==
  ASSUME NEW u \in Accounts, NEW p \in Repos, NEW role \in OrganizationRoles \cup {NoRole}
  PROVE  AccessTo(u, HomeOf[p], role) \in NamespaceAccess
BY DEF AccessTo, NamespaceAccess

LEMMA BeginRequestKeeps ==
  ASSUME RepositoryInv, NEW c \in Clients, NEW op \in RequestKinds, NEW u \in Accounts,
         NEW p \in Repos, NEW v \in Visibilities \cup {Nil},
         NEW d \in Descriptions \cup {Nil}, BeginRequest(c, op, u, p, v, d)
  PROVE  RepositoryInv'
  <1>1. PICK access : access = Access(u, p)
    OBVIOUS
  <1>2. PICK had : had = Relevant(v, d, rows[p])
    OBVIOUS
  <1>3. PICK r : r = [op |-> op, actor |-> u, repo |-> p,
            step |-> IF op = "create" THEN "insert" ELSE "row",
            visibility |-> v, description |-> d,
            changes |-> {}, access |-> access, held |-> {access}, had |-> had]
    OBVIOUS
  <1>4. /\ api' = [api EXCEPT ![c] = r] /\ UNCHANGED <<roleOf, rows>>
        /\ op = "create" => Nil \notin {v, d}
        /\ \A needed \in Needed(op, v, d) : Allows(access, needed)
    BY <1>1, <1>2, <1>3 DEF BeginRequest
  <1>5. access \in NamespaceAccess
    BY <1>1, AccessType DEF Access, RepositoryInv, RepositoryTypeOK
  <1>6. had \subseteq Visibilities \cup Descriptions
    <2>1. rows[p] \in Row \cup {Nil}
      BY DEF RepositoryInv, RepositoryTypeOK
    <2>2. QED
      BY <1>2, <2>1, RelevantType
  <1>7. /\ r.op = op /\ r.actor = u /\ r.repo = p /\ r.visibility = v
        /\ r.step = IF op = "create" THEN "insert" ELSE "row"
        /\ r.description = d /\ r.access = access /\ r.held = {access} /\ r.had = had
    BY <1>3
  <1>8. r \in ApiRequest
    BY <1>3, <1>5, <1>6 DEF ApiRequest
  <1>9. RequestOK(r, rows)
    BY <1>2, <1>4, <1>7 DEF RequestOK, Reading, ReadingOK
  <1>10. QED
    BY <1>4, <1>8, <1>9, OneRequest

LEMMA ChangeRoleKeeps ==
  ASSUME RepositoryInv, NEW u \in Accounts, NEW role \in GivenRoles[u], ChangeRole(u, role)
  PROVE  RepositoryInv'
  <1>1. role \in OrganizationRoles \cup {NoRole}
    BY RepositoryAssumption
  <1>2. roleOf' \in [Accounts -> OrganizationRoles \cup {NoRole}] /\ rows' = rows
    BY <1>1 DEF ChangeRole, RepositoryInv, RepositoryTypeOK
  <1>3. ASSUME NEW c \in Clients
        PROVE  api'[c] \in ApiRequest /\ RequestOK(api'[c], rows)
    <2>1. api[c] \in ApiRequest /\ RequestOK(api[c], rows)
      BY DEF RepositoryInv, RepositoryTypeOK
    <2>2. CASE api[c].actor = u /\ Reading(api[c])
      <3>1. PICK held : held = api[c].held \cup {AccessTo(u, HomeOf[api[c].repo], role)}
        OBVIOUS
      <3>2. api'[c] = [api[c] EXCEPT !.held = held]
        BY <2>2, <3>1 DEF ChangeRole, Reading
      <3>3. api[c].repo \in Repos
        BY <2>1, <2>2 DEF RequestOK, Reading
      <3>4. held \in SUBSET NamespaceAccess
        BY <1>1, <2>1, <3>1, <3>3, AccessType DEF ApiRequest
      <3>5. api'[c] \in ApiRequest
        BY <2>1, <3>2, <3>4 DEF ApiRequest
      <3>6. /\ api'[c].step = api[c].step /\ api'[c].op = api[c].op
            /\ api'[c].actor = api[c].actor /\ api'[c].repo = api[c].repo
            /\ api'[c].visibility = api[c].visibility
            /\ api'[c].description = api[c].description
            /\ api'[c].changes = api[c].changes /\ api'[c].access = api[c].access
            /\ api'[c].had = api[c].had /\ api'[c].held = held
        BY <2>1, <3>2 DEF ApiRequest
      <3>7. api[c].step # "done" /\ api[c].held \subseteq held
        BY <2>2, <3>1 DEF Reading
      <3>8. QED
        BY <2>1, <3>5, <3>6, <3>7 DEF RequestOK, Reading, ReadingOK, WriteOK
    <2>3. CASE ~(api[c].actor = u /\ Reading(api[c]))
      <3>1. api'[c] = api[c]
        BY <2>3 DEF ChangeRole, Reading
      <3>2. QED
        BY <2>1, <3>1
    <2>4. QED
      BY <2>2, <2>3
  <1>4. api' = [c \in Clients |-> api'[c]]
    BY DEF ChangeRole
  <1>5. RepositoryTypeOK'
    BY <1>2, <1>3, <1>4 DEF RepositoryInv, RepositoryTypeOK
  <1>6. QED
    BY <1>2, <1>3, <1>5 DEF RepositoryInv

-----------------------------------------------------------------------------
(* A row is written: the requests that read it learn of its values.        *)
LEMMA WatchingOK ==
  ASSUME RepositoryInv, NEW c \in Clients, NEW p \in Repos, NEW row \in Row,
         rows[p] = Nil \/ rows[p].creator = row.creator,
         NEW table, table = [rows EXCEPT ![p] = row]
  PROVE  /\ Watching(c, p, row) \in ApiRequest
         /\ RequestOK(Watching(c, p, row), table)
         /\ Watching(c, p, row).step = api[c].step
         /\ Watching(c, p, row).op = api[c].op
         /\ Watching(c, p, row).repo = api[c].repo
         /\ Watching(c, p, row).actor = api[c].actor
         /\ Watching(c, p, row).visibility = api[c].visibility
         /\ Watching(c, p, row).description = api[c].description
         /\ Watching(c, p, row).changes = api[c].changes
         /\ api[c].had \subseteq Watching(c, p, row).had
         /\ api[c].step = "write" /\ api[c].repo = p =>
              Relevant(api[c].visibility, api[c].description, row)
                \subseteq Watching(c, p, row).had
  <1>1. api[c] \in ApiRequest /\ RequestOK(api[c], rows)
    BY DEF RepositoryInv, RepositoryTypeOK
  <1>2. rows \in [Repos -> Row \cup {Nil}] /\ row # Nil
    BY RepositoryAssumption DEF RepositoryInv, RepositoryTypeOK
  <1>3. table[p] = row /\ \A q \in Repos : q # p => table[q] = rows[q]
    BY <1>2
  <1>4. CASE api[c].repo = p /\ Reading(api[c])
    <2>1. PICK had : had = api[c].had \cup Relevant(api[c].visibility, api[c].description, row)
      OBVIOUS
    <2>2. PICK w : w = Watching(c, p, row)
      OBVIOUS
    <2>3. w = [api[c] EXCEPT !.had = had]
      BY <1>4, <2>1, <2>2 DEF Watching, Reading
    <2>4. had \subseteq Visibilities \cup Descriptions
      BY <1>1, <2>1, RelevantType DEF ApiRequest
    <2>5. w \in ApiRequest
      BY <1>1, <2>3, <2>4 DEF ApiRequest
    <2>6. /\ w.step = api[c].step /\ w.op = api[c].op /\ w.actor = api[c].actor
          /\ w.repo = api[c].repo /\ w.visibility = api[c].visibility
          /\ w.description = api[c].description /\ w.changes = api[c].changes
          /\ w.access = api[c].access /\ w.held = api[c].held /\ w.had = had
      BY <1>1, <2>3 DEF ApiRequest
    <2>7. RequestOK(w, table)
      BY <1>1, <1>2, <1>3, <1>4, <2>1, <2>6 DEF RequestOK, Reading, ReadingOK, WriteOK
    <2>8. QED
      BY <2>1, <2>2, <2>5, <2>6, <2>7
  <1>5. CASE ~(api[c].repo = p /\ Reading(api[c]))
    <2>1. Watching(c, p, row) = api[c]
      BY <1>5 DEF Watching, Reading
    <2>2. api[c].step # "idle" => api[c].repo \in Repos
      BY <1>1 DEF RequestOK
    <2>3. Reading(api[c]) => ReadingOK(api[c], table)
      BY <1>1, <1>3, <1>5, <2>2 DEF RequestOK, Reading, ReadingOK
    <2>4. api[c].step = "write" => WriteOK(api[c], table)
      BY <1>1, <1>3, <1>5, <2>2 DEF RequestOK, Reading, WriteOK
    <2>5. api[c].step = "done" => DoneOK(api[c], table)
      BY <1>1, <1>2, <1>3, <2>2 DEF RequestOK, DoneOK, Could
    <2>6. RequestOK(api[c], table)
      BY <1>1, <2>3, <2>4, <2>5 DEF RequestOK
    <2>7. QED
      BY <1>1, <1>5, <2>1, <2>6 DEF Reading
  <1>6. QED
    BY <1>4, <1>5

LEMMA InsertKeeps ==
  ASSUME RepositoryInv, NEW c \in Clients, InsertRepository(c)
  PROVE  RepositoryInv'
  <1>1. PICK r : r = api[c]
    OBVIOUS
  <1>2. PICK row : row = [visibility |-> r.visibility, description |-> r.description,
                          creator |-> r.actor, updatedBy |-> r.actor]
    OBVIOUS
  <1>3. /\ r.step = "insert" /\ rows[r.repo] = Nil
        /\ rows' = [rows EXCEPT ![r.repo] = row]
        /\ api' = [d \in Clients |-> IF d = c THEN Finished(r)
                                     ELSE Watching(d, r.repo, row)]
        /\ roleOf' = roleOf
    BY <1>1, <1>2 DEF InsertRepository
  <1>4. r \in ApiRequest /\ r.op = "create" /\ r.repo \in Repos /\ r.actor \in Accounts
        /\ r.visibility \in Visibilities /\ r.description \in Descriptions
    BY <1>1, <1>3 DEF RepositoryInv, RepositoryTypeOK, RequestOK
  <1>5. row \in Row /\ row # Nil
    BY <1>2, <1>4, RepositoryAssumption DEF Row
  <1>6. rows \in [Repos -> Row \cup {Nil}]
        /\ roleOf \in [Accounts -> OrganizationRoles \cup {NoRole}]
    BY DEF RepositoryInv, RepositoryTypeOK
  <1>7. rows' \in [Repos -> Row \cup {Nil}] /\ rows'[r.repo] = row
    BY <1>3, <1>4, <1>5, <1>6
  <1>8. DoneOK(r, rows')
    BY <1>2, <1>4, <1>5, <1>7 DEF DoneOK
  <1>9. RequestOK(Finished(r), rows') /\ Finished(r) \in ApiRequest
    BY <1>4, <1>8, FinishedOK, FinishedFields DEF RequestKinds
  <1>10. ASSUME NEW d \in Clients
         PROVE  api'[d] \in ApiRequest /\ RequestOK(api'[d], rows')
    <2>1. CASE d = c
      BY <1>3, <1>9, <2>1
    <2>2. CASE d # c
      <3>1. api'[d] = Watching(d, r.repo, row)
        BY <1>3, <2>2
      <3>2. /\ Watching(d, r.repo, row) \in ApiRequest
            /\ RequestOK(Watching(d, r.repo, row), rows')
        BY <1>3, <1>4, <1>5, WatchingOK
      <3>3. QED
        BY <3>1, <3>2
    <2>3. QED
      BY <2>1, <2>2
  <1>11. RepositoryTypeOK'
    BY <1>3, <1>6, <1>7, <1>10 DEF RepositoryTypeOK
  <1>12. QED
    BY <1>10, <1>11 DEF RepositoryInv

-----------------------------------------------------------------------------
(* What differs, field by field. *)
LEMMA RowChangesFields ==
  ASSUME NEW r
  PROVE  /\ RowChanges(r) \subseteq {"visibility", "description"}
         /\ "visibility" \in RowChanges(r) <=>
              r.visibility \notin {Nil, rows[r.repo].visibility}
         /\ "description" \in RowChanges(r) <=>
              r.description \notin {Nil, rows[r.repo].description}
BY DEF RowChanges

LEMMA RelevantValues ==
  ASSUME NEW v, NEW d, NEW row, row # Nil
  PROVE  /\ row.visibility = v => v \in Relevant(v, d, row)
         /\ row.description = d => d \in Relevant(v, d, row)
         /\ row.visibility = "PUBLIC" => "PUBLIC" \in Relevant(v, d, row)
BY DEF Relevant

LEMMA ReadForUpdateKeeps ==
  ASSUME RepositoryInv, NEW c \in Clients, ReadForUpdate(c)
  PROVE  RepositoryInv'
  <1>1. PICK r : r = api[c]
    OBVIOUS
  <1>2. /\ r \in ApiRequest /\ RequestOK(r, rows) /\ r.op = "update" /\ r.step = "row"
        /\ UNCHANGED <<roleOf, rows>>
    BY <1>1 DEF ReadForUpdate, RepositoryInv, RepositoryTypeOK
  <1>3. ReadingOK(r, rows) /\ r.repo \in Repos /\ r.actor \in Accounts
    BY <1>2 DEF RequestOK, Reading
  <1>4. CASE rows[r.repo] = Nil
    <2>1. api' = [api EXCEPT ![c] = NoRequest]
      BY <1>1, <1>4 DEF ReadForUpdate
    <2>2. QED
      BY <1>2, <2>1, NoRequestOK, OneRequest
  <1>5. ASSUME rows[r.repo] # Nil
        PROVE  /\ "visibility" \notin RowChanges(r) => r.visibility \in r.had \cup {Nil}
               /\ "description" \notin RowChanges(r) => r.description \in r.had \cup {Nil}
    BY <1>3, <1>5, RowChangesFields, RelevantValues DEF ReadingOK
  <1>6. CASE rows[r.repo] # Nil /\ RowChanges(r) = {}
    <2>1. api' = [api EXCEPT ![c] = Finished(r)]
      BY <1>1, <1>6 DEF ReadForUpdate
    <2>2. DoneOK(r, rows)
      BY <1>2, <1>5, <1>6 DEF DoneOK
    <2>3. RequestOK(Finished(r), rows) /\ Finished(r) \in ApiRequest
      BY <1>2, <1>3, <2>2, FinishedOK, FinishedFields DEF RequestKinds
    <2>4. QED
      BY <1>2, <2>1, <2>3, OneRequest
  <1>7. CASE rows[r.repo] # Nil /\ RowChanges(r) # {}
    <2>1. PICK changes : changes = RowChanges(r)
      OBVIOUS
    <2>2. PICK w : w = [r EXCEPT !.step = "write", !.changes = changes]
      OBVIOUS
    <2>3. api' = [api EXCEPT ![c] = w]
      BY <1>1, <1>7, <2>1, <2>2 DEF ReadForUpdate
    <2>4. changes \in SUBSET {"visibility", "description"}
      BY <2>1, RowChangesFields
    <2>5. w \in ApiRequest
      BY <1>2, <2>2, <2>4 DEF ApiRequest
    <2>6. /\ w.step = "write" /\ w.op = r.op /\ w.actor = r.actor
          /\ w.repo = r.repo /\ w.visibility = r.visibility
          /\ w.description = r.description /\ w.changes = changes
          /\ w.access = r.access /\ w.held = r.held /\ w.had = r.had
      BY <1>2, <2>2 DEF ApiRequest
    <2>7. WriteOK(w, rows)
      BY <1>2, <1>5, <1>7, <2>1, <2>6, RowChangesFields DEF WriteOK
    <2>8. ReadingOK(w, rows)
      BY <1>3, <2>6 DEF ReadingOK
    <2>9. RequestOK(w, rows)
      BY <1>2, <1>3, <2>6, <2>7, <2>8 DEF RequestOK, RequestKinds
    <2>10. QED
      BY <1>2, <2>3, <2>5, <2>9, OneRequest
  <1>8. QED
    BY <1>4, <1>6, <1>7

(* The row an update writes, and what it says of the request.              *)
LEMMA WriteUpdateFacts ==
  ASSUME RepositoryInv, NEW c \in Clients, WriteUpdate(c)
  PROVE  /\ api[c].repo \in Repos /\ rows[api[c].repo] \in Row
         /\ rows' = [rows EXCEPT ![api[c].repo] = rows'[api[c].repo]]
         /\ rows'[api[c].repo] \in Row
         /\ rows'[api[c].repo].creator = rows[api[c].repo].creator
         /\ "visibility" \in api[c].changes =>
              /\ rows'[api[c].repo].visibility = api[c].visibility
              /\ rows'[api[c].repo].updatedBy = api[c].actor
         /\ "visibility" \notin api[c].changes =>
              rows'[api[c].repo].visibility = rows[api[c].repo].visibility
         /\ "description" \in api[c].changes =>
              rows'[api[c].repo].description = api[c].description
         /\ api' = [d \in Clients |->
              IF d = c
              THEN Finished(Watching(c, api[c].repo, rows'[api[c].repo]))
              ELSE Watching(d, api[c].repo, rows'[api[c].repo])]
         /\ roleOf' = roleOf
  <1>1. PICK r : r = api[c]
    OBVIOUS
  <1>2. PICK old : old = rows[r.repo]
    OBVIOUS
  <1>3. /\ r \in ApiRequest /\ RequestOK(r, rows) /\ r.op = "update" /\ r.step = "write"
        /\ rows \in [Repos -> Row \cup {Nil}]
    BY <1>1 DEF WriteUpdate, RepositoryInv, RepositoryTypeOK
  <1>4. r.repo \in Repos /\ r.actor \in Accounts /\ WriteOK(r, rows)
    BY <1>3 DEF RequestOK
  <1>5. old \in Row
    BY <1>2, <1>3, <1>4 DEF WriteOK
  <1>6. PICK visibility : visibility = IF "visibility" \in r.changes
                                       THEN r.visibility ELSE old.visibility
    OBVIOUS
  <1>7. PICK updatedBy : updatedBy = IF "visibility" \in r.changes
                                     THEN r.actor ELSE old.updatedBy
    OBVIOUS
  <1>8. PICK description : description = IF "description" \in r.changes
                                         THEN r.description ELSE old.description
    OBVIOUS
  <1>9. PICK row : row = [old EXCEPT !.visibility = visibility, !.updatedBy = updatedBy,
                                     !.description = description]
    OBVIOUS
  <1>10. /\ rows' = [rows EXCEPT ![r.repo] = row] /\ roleOf' = roleOf
         /\ api' = [d \in Clients |-> IF d = c THEN Finished(Watching(c, r.repo, row))
                                      ELSE Watching(d, r.repo, row)]
    BY <1>1, <1>2, <1>6, <1>7, <1>8, <1>9 DEF WriteUpdate
  <1>11. /\ visibility \in Visibilities /\ updatedBy \in Accounts
         /\ description \in Descriptions
    BY <1>3, <1>4, <1>5, <1>6, <1>7, <1>8 DEF WriteOK, ApiRequest, Row
  <1>12. row \in Row
    BY <1>5, <1>9, <1>11 DEF Row
  <1>13. /\ row.visibility = visibility /\ row.updatedBy = updatedBy
         /\ row.description = description /\ row.creator = old.creator
    BY <1>5, <1>9 DEF Row
  <1>14. rows'[r.repo] = row
    BY <1>3, <1>4, <1>10
  <1>15. QED
    BY <1>1, <1>2, <1>4, <1>5, <1>6, <1>7, <1>8, <1>10, <1>12, <1>13, <1>14

LEMMA WriteUpdateKeeps ==
  ASSUME RepositoryInv, NEW c \in Clients, WriteUpdate(c)
  PROVE  RepositoryInv'
  <1>1. PICK r : r = api[c]
    OBVIOUS
  <1>2. PICK row : row = rows'[r.repo]
    OBVIOUS
  <1>3. /\ r.repo \in Repos /\ rows[r.repo] \in Row /\ row \in Row
        /\ rows' = [rows EXCEPT ![r.repo] = row]
        /\ row.creator = rows[r.repo].creator
        /\ "visibility" \in r.changes => row.visibility = r.visibility
        /\ "description" \in r.changes => row.description = r.description
        /\ api' = [d \in Clients |-> IF d = c THEN Finished(Watching(c, r.repo, row))
                                     ELSE Watching(d, r.repo, row)]
        /\ roleOf' = roleOf
    BY <1>1, <1>2, WriteUpdateFacts
  <1>4. r.step = "write" /\ r.op = "update" /\ RequestOK(r, rows)
    BY <1>1 DEF WriteUpdate, RepositoryInv
  <1>5. WriteOK(r, rows) /\ r.actor \in Accounts
    BY <1>4 DEF RequestOK
  <1>6. rows \in [Repos -> Row \cup {Nil}] /\ row # Nil
        /\ roleOf \in [Accounts -> OrganizationRoles \cup {NoRole}]
    BY <1>3, RepositoryAssumption DEF RepositoryInv, RepositoryTypeOK
  <1>7. rows' \in [Repos -> Row \cup {Nil}]
    BY <1>3, <1>6
  <1>8. ASSUME NEW d \in Clients
        PROVE  /\ Watching(d, r.repo, row) \in ApiRequest
               /\ RequestOK(Watching(d, r.repo, row), rows')
    BY <1>3, WatchingOK
  <1>9. PICK w : w = Watching(c, r.repo, row)
    OBVIOUS
  <1>10. /\ w \in ApiRequest /\ w.op = "update" /\ w.repo = r.repo /\ w.actor = r.actor
         /\ w.visibility = r.visibility /\ w.description = r.description
         /\ r.had \subseteq w.had
         /\ Relevant(r.visibility, r.description, row) \subseteq w.had
    BY <1>1, <1>3, <1>4, <1>9, WatchingOK
  <1>11. {w.visibility, w.description} \subseteq w.had \cup {Nil}
    <2>1. r.visibility \in w.had \cup {Nil}
      BY <1>3, <1>5, <1>6, <1>10, RelevantValues DEF WriteOK
    <2>2. r.description \in w.had \cup {Nil}
      BY <1>3, <1>5, <1>6, <1>10, RelevantValues DEF WriteOK
    <2>3. QED
      BY <1>10, <2>1, <2>2
  <1>12. DoneOK(w, rows')
    BY <1>10, <1>11 DEF DoneOK
  <1>13. Finished(w) \in ApiRequest /\ RequestOK(Finished(w), rows')
    BY <1>3, <1>5, <1>10, <1>12, FinishedOK, FinishedFields DEF RequestKinds
  <1>14. ASSUME NEW d \in Clients
         PROVE  api'[d] \in ApiRequest /\ RequestOK(api'[d], rows')
    <2>1. CASE d = c
      BY <1>3, <1>9, <1>13, <2>1
    <2>2. CASE d # c
      BY <1>3, <1>8, <2>2
    <2>3. QED
      BY <2>1, <2>2
  <1>15. RepositoryTypeOK'
    BY <1>3, <1>6, <1>7, <1>14 DEF RepositoryTypeOK
  <1>16. QED
    BY <1>14, <1>15 DEF RepositoryInv

LEMMA AnswerDetailKeeps ==
  ASSUME RepositoryInv, NEW c \in Clients, AnswerDetail(c)
  PROVE  RepositoryInv'
  <1>1. PICK r : r = api[c]
    OBVIOUS
  <1>2. /\ r \in ApiRequest /\ RequestOK(r, rows) /\ r.op = "detail" /\ r.step = "row"
        /\ UNCHANGED <<roleOf, rows>>
    BY <1>1 DEF AnswerDetail, RepositoryInv, RepositoryTypeOK
  <1>3. ReadingOK(r, rows) /\ r.repo \in Repos /\ r.actor \in Accounts
    BY <1>2 DEF RequestOK, Reading
  <1>4. CASE rows[r.repo] # Nil /\ Discovered(r)
    <2>1. api' = [api EXCEPT ![c] = Finished(r)]
      BY <1>1, <1>4 DEF AnswerDetail
    <2>2. \/ rows[r.repo].visibility = "PUBLIC"
          \/ Allows(r.access, "PULL_PRIVATE_REPOSITORIES")
      BY <1>4 DEF Discovered, AllowsRepositoryDiscovery, CanPull
    <2>3. "PUBLIC" \in r.had \/ Could(r, "PULL_PRIVATE_REPOSITORIES")
      BY <1>3, <1>4, <2>2, RelevantValues DEF ReadingOK, Could
    <2>4. DoneOK(r, rows)
      BY <1>2, <2>3 DEF DoneOK
    <2>5. RequestOK(Finished(r), rows) /\ Finished(r) \in ApiRequest
      BY <1>2, <1>3, <2>4, FinishedOK, FinishedFields DEF RequestKinds
    <2>6. QED
      BY <1>2, <2>1, <2>5, OneRequest
  <1>5. CASE ~(rows[r.repo] # Nil /\ Discovered(r))
    <2>1. api' = [api EXCEPT ![c] = NoRequest]
      BY <1>1, <1>5 DEF AnswerDetail
    <2>2. QED
      BY <1>2, <2>1, NoRequestOK, OneRequest
  <1>6. QED
    BY <1>4, <1>5

LEMMA RepositoryStep == RepositoryInv /\ [RepositoryNext]_repositoryVars => RepositoryInv'
  <1> SUFFICES ASSUME RepositoryInv, [RepositoryNext]_repositoryVars
               PROVE  RepositoryInv'
    OBVIOUS
  <1>1. CASE \E u \in Accounts : \E role \in GivenRoles[u] : ChangeRole(u, role)
    BY <1>1, ChangeRoleKeeps
  <1>2. ASSUME NEW c \in Clients, NEW op \in RequestKinds, NEW u \in Accounts,
               NEW p \in Repos, NEW v \in Visibilities \cup {Nil},
               NEW d \in Descriptions \cup {Nil}, BeginRequest(c, op, u, p, v, d)
        PROVE  RepositoryInv'
    BY <1>2, BeginRequestKeeps
  <1>3. ASSUME NEW c \in Clients, InsertRepository(c) PROVE RepositoryInv'
    BY <1>3, InsertKeeps
  <1>4. ASSUME NEW c \in Clients, RefuseInsert(c) \/ RequestFails(c)
        PROVE  RepositoryInv'
    BY <1>4, NoRequestOK, OneRequest DEF RefuseInsert, RequestFails
  <1>5. ASSUME NEW c \in Clients, ReadForUpdate(c) PROVE RepositoryInv'
    BY <1>5, ReadForUpdateKeeps
  <1>6. ASSUME NEW c \in Clients, WriteUpdate(c) PROVE RepositoryInv'
    BY <1>6, WriteUpdateKeeps
  <1>7. ASSUME NEW c \in Clients, AnswerDetail(c) PROVE RepositoryInv'
    BY <1>7, AnswerDetailKeeps
  <1>8. CASE UNCHANGED repositoryVars
    BY <1>8 DEF repositoryVars, RepositoryInv, RepositoryTypeOK
  <1>9. QED
    BY <1>1, <1>2, <1>3, <1>4, <1>5, <1>6, <1>7, <1>8 DEF RepositoryNext

LEMMA RepositoryInvariance == RepositorySpec => []RepositoryInv
BY RepositoryStart, RepositoryStep, PTL DEF RepositorySpec

-----------------------------------------------------------------------------
LEMMA RepositoryInvTruthful == RepositoryInv => AnswersTruthful
  <1> SUFFICES ASSUME RepositoryInv, NEW c \in Clients, api[c].step = "done"
               PROVE  /\ api[c].op = "update" =>
                           {api[c].visibility, api[c].description}
                             \subseteq api[c].had \cup {Nil}
                      /\ api[c].op = "create" =>
                           rows[api[c].repo].creator = api[c].actor
                      /\ api[c].op = "detail" =>
                           \/ "PUBLIC" \in api[c].had
                           \/ Could(api[c], "PULL_PRIVATE_REPOSITORIES")
    BY DEF AnswersTruthful, UpdateHonoured, CreatedByAnswered, ShownPermitted, Answered
  <1>1. DoneOK(api[c], rows)
    BY DEF RepositoryInv, RequestOK
  <1>2. QED
    BY <1>1 DEF DoneOK

(* What a client is told of a repository is so, or was during its request, *)
(* however requests and memberships interleave (Create, Update and Detail  *)
(* of repositories/service.go).                                            *)
THEOREM RepositoryAnswersTruthful == RepositorySpec => []AnswersTruthful
BY RepositoryInvariance, RepositoryInvTruthful, PTL

LEMMA OnlyUpdatesShow ==
  ASSUME RepositoryInv, [RepositoryNext]_repositoryVars, rows' # rows,
         NEW p \in Repos, rows[p] # Nil, rows'[p].visibility # rows[p].visibility
  PROVE  \E c \in Clients :
           /\ api[c].repo = p
           /\ api[c].visibility = rows'[p].visibility
           /\ Could(api[c], "CHANGE_REPOSITORY_VISIBILITY")
           /\ rows'[p].updatedBy = api[c].actor
  <1>1. rows \in [Repos -> Row \cup {Nil}]
    BY DEF RepositoryInv, RepositoryTypeOK
  <1>2. PICK c \in Clients : InsertRepository(c) \/ WriteUpdate(c)
    <2>1. RepositoryNext
      BY DEF repositoryVars
    <2>2. ASSUME NEW u \in Accounts, NEW role \in GivenRoles[u] PROVE ~ChangeRole(u, role)
      BY DEF ChangeRole
    <2>3. ASSUME NEW d \in Clients, NEW op, NEW u, NEW q, NEW v, NEW text
          PROVE  ~BeginRequest(d, op, u, q, v, text)
      BY DEF BeginRequest
    <2>4. ASSUME NEW d \in Clients
          PROVE  /\ ~RefuseInsert(d) /\ ~ReadForUpdate(d)
                 /\ ~AnswerDetail(d) /\ ~RequestFails(d)
      BY DEF RefuseInsert, ReadForUpdate, AnswerDetail, RequestFails
    <2>5. QED
      BY <2>1, <2>2, <2>3, <2>4 DEF RepositoryNext
  <1>3. ~InsertRepository(c)
    <2> SUFFICES ASSUME InsertRepository(c) PROVE FALSE
      OBVIOUS
    <2>1. PICK row : rows' = [rows EXCEPT ![api[c].repo] = row]
      BY DEF InsertRepository
    <2>2. rows[api[c].repo] = Nil
      BY DEF InsertRepository
    <2>3. rows'[p] = rows[p]
      BY <1>1, <2>1, <2>2
    <2>4. QED
      BY <2>3
  <1>4. WriteUpdate(c)
    BY <1>2, <1>3
  <1>5. api[c].repo = p
    BY <1>1, <1>4, WriteUpdateFacts
  <1>6. /\ "visibility" \in api[c].changes
        /\ rows'[p].visibility = api[c].visibility
        /\ rows'[p].updatedBy = api[c].actor
    BY <1>4, <1>5, WriteUpdateFacts
  <1>7. api[c].step = "write" /\ RequestOK(api[c], rows)
    BY <1>4 DEF WriteUpdate, RepositoryInv
  <1>8. WriteOK(api[c], rows) /\ ReadingOK(api[c], rows)
    BY <1>7 DEF RequestOK, Reading
  <1>9. "CHANGE_REPOSITORY_VISIBILITY"
          \in Needed(api[c].op, api[c].visibility, api[c].description)
    BY <1>6, <1>8 DEF WriteOK, Needed
  <1>10. Could(api[c], "CHANGE_REPOSITORY_VISIBILITY")
    BY <1>8, <1>9 DEF ReadingOK, Could
  <1>11. QED
    BY <1>5, <1>6, <1>10

(* A repository's visibility changes only to what a request asked for,     *)
(* whose actor might change it at some moment of the request and who is    *)
(* recorded (the columns that the store's Update writes).                  *)
THEOREM VisibilityAlwaysAccountable == RepositorySpec => VisibilityAccountable
  <1>1. RepositoryInv /\ [RepositoryNext]_repositoryVars =>
          [\A p \in Repos :
             rows[p] # Nil /\ rows'[p].visibility # rows[p].visibility =>
               \E c \in Clients :
                 /\ api[c].repo = p
                 /\ api[c].visibility = rows'[p].visibility
                 /\ Could(api[c], "CHANGE_REPOSITORY_VISIBILITY")
                 /\ rows'[p].updatedBy = api[c].actor]_rows
    BY OnlyUpdatesShow
  <1>2. QED
    BY <1>1, RepositoryInvariance, PTL DEF RepositorySpec, VisibilityAccountable

-----------------------------------------------------------------------------
(* The listing of a namespace, page by page. *)

(* How many repositories of a set come before one.                         *)
Before(p, set) == {q \in set : q < p}
Rank(p, set) == Cardinality(Before(p, set))

LEMMA Ranks ==
  ASSUME NEW S \in SUBSET Listed, NEW p
  PROVE  Rank(p, S) \in Nat /\ IsFiniteSet(S) /\ IsFiniteSet(Before(p, S))
  <1>1. IsFiniteSet(S)
    BY PagesAssumption, FS_Subset
  <1>2. IsFiniteSet(Before(p, S))
    BY <1>1, FS_Subset DEF Before
  <1>3. QED
    BY <1>1, <1>2, FS_CardinalityType DEF Rank

LEMMA RanksGrow ==
  ASSUME NEW S \in SUBSET Listed, NEW p \in S, NEW q \in S, p < q
  PROVE  Rank(p, S) < Rank(q, S)
  <1>1. p \in Nat /\ q \in Nat /\ \A x \in S : x \in Nat
    BY PagesAssumption
  <1>2. Before(p, S) \in SUBSET Before(q, S)
    <2>1. ASSUME NEW x \in S, x < p PROVE x < q
      <3>1. x \in Nat
        BY <1>1
      <3>2. QED
        BY <1>1, <2>1, <3>1
    <2>2. QED
      BY <2>1 DEF Before
  <1>3. p \in Before(q, S) /\ p \notin Before(p, S)
    BY <1>1 DEF Before
  <1>4. /\ Cardinality(Before(p, S)) <= Cardinality(Before(q, S))
        /\ Cardinality(Before(p, S)) # Cardinality(Before(q, S))
    BY <1>2, <1>3, Ranks, FS_Subset
  <1>5. QED
    BY <1>4, Ranks DEF Rank

LEMMA LastExists ==
  ASSUME NEW T \in SUBSET Listed, T # {}
  PROVE  \E p \in T : \A q \in T : q <= p
  <1>1. \A p \in T : Rank(p, T) \in Nat /\ Rank(p, T) <= Cardinality(T)
    <2>1. ASSUME NEW p \in T
          PROVE  Cardinality(Before(p, T)) <= Cardinality(T)
      <3>1. Before(p, T) \in SUBSET T
        BY DEF Before
      <3>2. QED
        BY <3>1, Ranks, FS_Subset
    <2>2. QED
      BY <2>1, Ranks DEF Rank
  <1>2. PICK n : n = Cardinality(T)
    OBVIOUS
  <1>3. n \in Nat
    BY <1>2, Ranks, FS_CardinalityType
  <1>4. PICK D : D = {n - Rank(p, T) : p \in T}
    OBVIOUS
  <1>5. D \in SUBSET Nat /\ D # {}
    BY <1>1, <1>2, <1>3, <1>4
  <1>6. PICK d \in D : \A e \in D : d <= e
    BY <1>5, LeastNumber
  <1>7. PICK p \in T : d = n - Rank(p, T)
    BY <1>4, <1>6
  <1>8. ASSUME NEW q \in T PROVE q <= p
    <2>1. p \in Nat /\ q \in Nat
      BY PagesAssumption
    <2>2. n - Rank(p, T) <= n - Rank(q, T)
      BY <1>4, <1>6, <1>7
    <2>3. Rank(q, T) <= Rank(p, T)
      BY <1>1, <1>3, <2>2
    <2>4. ~(p < q)
      BY <1>1, <2>3, RanksGrow
    <2>5. QED
      BY <2>1, <2>4
  <1>9. QED
    BY <1>8

LEMMA LastOfIsLast ==
  ASSUME NEW T \in SUBSET Listed, T # {}
  PROVE  LastOf(T) \in T /\ \A q \in T : q <= LastOf(T)
BY LastExists DEF LastOf

-----------------------------------------------------------------------------
LEMMA FirstByRank ==
  ASSUME NEW n, NEW set
  PROVE  First(n, set) = {p \in set : Rank(p, set) < n}
BY DEF First, Rank, Before

(* The first n of a set come before all the others of it.                  *)
LEMMA FirstIsPrefix ==
  ASSUME NEW n \in Nat, NEW S \in SUBSET Listed,
         NEW p \in First(n, S), NEW q \in S, q <= p
  PROVE  q \in First(n, S)
  <1>1. p \in S /\ p \in Nat /\ q \in Nat
    BY PagesAssumption DEF First
  <1>2. CASE q = p
    BY <1>2
  <1>3. CASE q < p
    BY <1>1, <1>3, RanksGrow, Ranks, FirstByRank
  <1>4. QED
    BY <1>1, <1>2, <1>3

(* What is shown of what was fetched are the first of them all.            *)
LEMMA ShownIsFirst ==
  ASSUME NEW n \in Nat, NEW S \in SUBSET Listed
  PROVE  First(n, First(n + 1, S)) = First(n, S)
  <1>1. PICK T : T = First(n + 1, S)
    OBVIOUS
  <1>2. T \in SUBSET S /\ n + 1 \in Nat
    BY <1>1 DEF First
  <1>3. ASSUME NEW p \in T PROVE Rank(p, T) = Rank(p, S)
    <2>1. \A q \in Before(p, S) : q \in T
      <3>1. ASSUME NEW q \in S, q < p PROVE q \in T
        <4>1. q <= p
          BY <1>2, <3>1, PagesAssumption
        <4>2. QED
          BY <1>1, <1>2, <4>1, FirstIsPrefix
      <3>2. QED
        BY <3>1 DEF Before
    <2>2. Before(p, T) = Before(p, S)
      BY <1>2, <2>1 DEF Before
    <2>3. QED
      BY <2>2 DEF Rank
  <1>4. ASSUME NEW p \in S, Rank(p, S) < n PROVE p \in T
    BY <1>1, <1>4, Ranks, FirstByRank
  <1>5. First(n, T) = {p \in T : Rank(p, T) < n}
        /\ First(n, S) = {p \in S : Rank(p, S) < n}
    BY FirstByRank
  <1>6. QED
    BY <1>1, <1>2, <1>3, <1>4, <1>5

(* A page that shows all that was fetched is the last one.                 *)
LEMMA FullPage ==
  ASSUME NEW n \in Nat \ {0}, NEW S \in SUBSET Listed,
         First(n + 1, S) = First(n, S)
  PROVE  S = First(n, S)
  <1> SUFFICES ASSUME S # First(n, S) PROVE FALSE
    OBVIOUS
  <1>1. PICK T : T = {p \in S : Rank(p, S) >= n}
    OBVIOUS
  <1>2. T \in SUBSET Nat /\ T # {}
    <2>1. \A p \in S : Rank(p, S) \in Nat
      BY Ranks
    <2>2. First(n, S) = {p \in S : Rank(p, S) < n}
      BY FirstByRank
    <2>3. PICK p \in S : p \notin First(n, S)
      BY <2>2
    <2>4. ~(Rank(p, S) < n) /\ Rank(p, S) \in Nat
      BY <2>1, <2>2, <2>3
    <2>5. p \in T
      BY <1>1, <2>3, <2>4
    <2>6. T \in SUBSET Nat
      BY <1>1, PagesAssumption
    <2>7. QED
      BY <2>5, <2>6
  <1>3. PICK p \in T : \A q \in T : p <= q
    BY <1>2, LeastNumber
  <1>4. p \in S /\ Rank(p, S) >= n /\ Rank(p, S) \in Nat
    BY <1>1, <1>3, Ranks
  <1>5. Rank(p, S) >= n + 1
    <2>1. p \notin First(n + 1, S)
      BY <1>4, FirstByRank
    <2>2. QED
      BY <1>4, <2>1, FirstByRank
  <1>6. Before(p, S) \in SUBSET Listed /\ Before(p, S) # {}
        /\ IsFiniteSet(Before(p, S))
    <2>1. Cardinality(Before(p, S)) # 0
      BY <1>4, <1>5 DEF Rank
    <2>2. Before(p, S) # {}
      BY <2>1, FS_EmptySet
    <2>3. QED
      BY <2>2, Ranks DEF Before
  <1>7. PICK m \in Before(p, S) : \A q \in Before(p, S) : q <= m
    BY <1>6, LastExists
  <1>8. m \in S /\ m < p /\ m \in Nat /\ p \in Nat
    BY <1>4, <1>6, <1>7, PagesAssumption DEF Before
  <1>9. Before(m, S) = Before(p, S) \ {m}
    <2>1. ASSUME NEW q \in S PROVE q < m <=> (q < p /\ q # m)
      <3>1. q \in Nat
        BY PagesAssumption
      <3>2. q < p => q <= m
        BY <1>7 DEF Before
      <3>3. QED
        BY <1>8, <3>1, <3>2
    <2>2. QED
      BY <2>1 DEF Before
  <1>10. Rank(m, S) = Rank(p, S) - 1
    <2>1. PICK B : B = Before(p, S)
      OBVIOUS
    <2>2. Cardinality(B \ {m}) = Cardinality(B) - 1
      BY <1>6, <1>7, <2>1, FS_RemoveElement
    <2>3. QED
      BY <1>9, <2>1, <2>2 DEF Rank
  <1>11. m \in T
    BY <1>1, <1>4, <1>5, <1>8, <1>10
  <1>12. p <= m
    BY <1>3, <1>11
  <1>13. QED
    BY <1>8, <1>12

-----------------------------------------------------------------------------
(* What has been listed lies before the cursor, and what was there all the *)
(* time and lies before the cursor has been listed.                        *)
PagesInv ==
  /\ PagesTypeOK
  /\ ~walk.twice
  /\ walk.steady \subseteq Showing(CanPullPrivate)
  /\ walk.step = "page" => walk.steady \subseteq Showing(walk.includePrivate)
  /\ walk.step \in {"access", "page"} =>
       /\ \A p \in walk.listed : p <= walk.after
       /\ \A p \in walk.steady : p <= walk.after => p \in walk.listed
  /\ walk.step = "done" => walk.steady \subseteq walk.listed

LEMMA ShowingMore ==
  /\ Showing(FALSE) \subseteq Showing(TRUE)
  /\ \A b \in BOOLEAN : Showing(FALSE) \subseteq Showing(b) /\ Showing(b) \subseteq Listed
BY DEF Showing

LEMMA PagesStart == PagesInit => PagesInv
  <1> SUFFICES ASSUME PagesInit PROVE PagesInv
    OBVIOUS
  <1>1. /\ walk \in Walk /\ walk.step = "idle" /\ walk.steady = {} /\ walk.twice = FALSE
    BY DEF PagesInit, NewWalk, Walk
  <1>2. QED
    BY <1>1 DEF PagesInit, PagesInv, PagesTypeOK

LEMMA ShelfKeeps ==
  ASSUME PagesInv, NEW p \in Listed, NEW v \in {"PUBLIC", "PRIVATE"}, ChangeShelf(p, v)
  PROVE  PagesInv'
  <1>1. PICK steady : steady = walk.steady \ {p}
    OBVIOUS
  <1>2. /\ walk' = [walk EXCEPT !.steady = steady]
        /\ shelf' = [shelf EXCEPT ![p] = v] /\ walkerRole' = walkerRole
    BY <1>1 DEF ChangeShelf
  <1>3. walk \in Walk /\ PagesTypeOK
    BY DEF PagesInv, PagesTypeOK
  <1>4. walk' \in Walk
    BY <1>1, <1>2, <1>3 DEF Walk
  <1>5. /\ walk'.step = walk.step /\ walk'.includePrivate = walk.includePrivate
        /\ walk'.after = walk.after /\ walk'.listed = walk.listed
        /\ walk'.twice = walk.twice /\ walk'.steady = steady
    BY <1>2, <1>3 DEF Walk
  <1>6. PagesTypeOK'
    BY <1>2, <1>3, <1>4 DEF PagesTypeOK
  <1>7. CanPullPrivate' = CanPullPrivate
    BY <1>2 DEF CanPullPrivate
  <1>8. \A b : \A q \in Showing(b) : q # p =>
          q \in Listed /\ (shelf'[q] = "PUBLIC" \/ (shelf'[q] = "PRIVATE" /\ b))
    BY <1>2, <1>3 DEF Showing, PagesTypeOK
  <1>9. steady \subseteq Showing(CanPullPrivate)'
    BY <1>1, <1>7, <1>8 DEF PagesInv, Showing
  <1>10. walk.step = "page" => steady \subseteq Showing(walk.includePrivate)'
    BY <1>1, <1>5, <1>8 DEF PagesInv, Showing
  <1>11. steady \subseteq walk.steady
    BY <1>1
  <1>12. QED
    BY <1>5, <1>6, <1>9, <1>10, <1>11 DEF PagesInv

LEMMA WalkerRoleKeeps ==
  ASSUME PagesInv, NEW role \in WalkerRoles, ChangeWalkerRole(role)
  PROVE  PagesInv'
  <1>1. PICK steady : steady = walk.steady \cap Showing(FALSE)
    OBVIOUS
  <1>2. /\ walk' = [walk EXCEPT !.steady = steady]
        /\ shelf' = shelf /\ walkerRole' = role
    BY <1>1 DEF ChangeWalkerRole
  <1>3. walk \in Walk /\ PagesTypeOK
    BY DEF PagesInv, PagesTypeOK
  <1>4. walk' \in Walk
    BY <1>1, <1>2, <1>3 DEF Walk
  <1>5. /\ walk'.step = walk.step /\ walk'.includePrivate = walk.includePrivate
        /\ walk'.after = walk.after /\ walk'.listed = walk.listed
        /\ walk'.twice = walk.twice /\ walk'.steady = steady
    BY <1>2, <1>3 DEF Walk
  <1>6. PagesTypeOK'
    BY <1>2, <1>3, <1>4 DEF PagesTypeOK
  <1>7. \A p \in steady : p \in Listed /\ shelf'[p] = "PUBLIC"
    BY <1>1, <1>2 DEF Showing
  <1>8. steady \subseteq Showing(CanPullPrivate)'
        /\ steady \subseteq Showing(walk.includePrivate)'
    BY <1>7 DEF Showing
  <1>9. steady \subseteq walk.steady
    BY <1>1
  <1>10. QED
    BY <1>5, <1>6, <1>8, <1>9 DEF PagesInv

LEMMA BeginWalkKeeps == PagesInv /\ BeginWalk => PagesInv'
  <1> SUFFICES ASSUME PagesInv, BeginWalk PROVE PagesInv'
    OBVIOUS
  <1>1. PICK steady : steady = Showing(CanPullPrivate)
    OBVIOUS
  <1>2. walk' = NewWalk("access", steady) /\ UNCHANGED <<walkerRole, shelf>>
    BY <1>1 DEF BeginWalk
  <1>3. steady \subseteq Listed
    BY <1>1 DEF Showing
  <1>4. /\ walk'.step = "access" /\ walk'.after = 0 /\ walk'.listed = {}
        /\ walk'.twice = FALSE /\ walk'.steady = steady
    BY <1>2 DEF NewWalk
  <1>5. walk' \in Walk
    BY <1>2, <1>3 DEF NewWalk, Walk
  <1>6. PagesTypeOK'
    BY <1>2, <1>5 DEF PagesInv, PagesTypeOK
  <1>7. Showing(CanPullPrivate)' = steady
    BY <1>1, <1>2 DEF Showing, CanPullPrivate
  <1>8. \A p \in steady : ~(p <= 0)
    BY <1>3, PagesAssumption
  <1>9. QED
    BY <1>4, <1>6, <1>7, <1>8 DEF PagesInv

LEMMA ListAccessKeeps == PagesInv /\ ReadListAccess => PagesInv'
  <1> SUFFICES ASSUME PagesInv, ReadListAccess PROVE PagesInv'
    OBVIOUS
  <1>1. CanPullPrivate \in BOOLEAN
    BY DEF CanPullPrivate, Allows
  <1>2. PICK private \in BOOLEAN : private <=> CanPullPrivate
    BY <1>1
  <1>3. /\ walk' = [walk EXCEPT !.step = "page", !.includePrivate = private]
        /\ walk.step = "access" /\ UNCHANGED <<walkerRole, shelf>>
    BY <1>1, <1>2 DEF ReadListAccess
  <1>4. walk \in Walk /\ PagesTypeOK
    BY DEF PagesInv, PagesTypeOK
  <1>5. walk' \in Walk
    BY <1>3, <1>4 DEF Walk
  <1>6. /\ walk'.step = "page" /\ walk'.includePrivate = private
        /\ walk'.after = walk.after /\ walk'.listed = walk.listed
        /\ walk'.twice = walk.twice /\ walk'.steady = walk.steady
    BY <1>3, <1>4 DEF Walk
  <1>7. PagesTypeOK'
    BY <1>3, <1>4, <1>5 DEF PagesTypeOK
  <1>8. Showing(CanPullPrivate)' = Showing(CanPullPrivate)
        /\ Showing(walk.includePrivate)' = Showing(CanPullPrivate)
    BY <1>2, <1>3, <1>6 DEF Showing, CanPullPrivate
  <1>9. QED
    BY <1>3, <1>6, <1>7, <1>8 DEF PagesInv

LEMMA PageKeeps == PagesInv /\ ReadPage => PagesInv'
  <1> SUFFICES ASSUME PagesInv, ReadPage PROVE PagesInv'
    OBVIOUS
  <1>1. PICK S : S = Following(walk.after)
    OBVIOUS
  <1>2. PICK fetched : fetched = First(PageLimit + 1, S)
    OBVIOUS
  <1>3. PICK shown : shown = First(PageLimit, fetched)
    OBVIOUS
  <1>4. walk \in Walk /\ PagesTypeOK /\ PageLimit \in Nat \ {0} /\ walk.step = "page"
    BY PagesAssumption DEF PagesInv, PagesTypeOK, ReadPage
  <1>5. S \in SUBSET Listed /\ \A p \in S : p > walk.after
    BY <1>1 DEF Following, Showing
  <1>6. shown = First(PageLimit, S)
    BY <1>2, <1>3, <1>4, <1>5, ShownIsFirst
  <1>7. shown \in SUBSET S
    BY <1>6 DEF First
  <1>8. \A p \in Listed : p \in Nat
    BY PagesAssumption
  <1>9. walk.after \in Nat
    BY <1>4, <1>8 DEF Walk
  <1>10. shown \cap walk.listed = {}
    BY <1>4, <1>5, <1>7, <1>8, <1>9 DEF PagesInv, Walk
  <1>11. \A p \in walk.steady : p > walk.after => p \in S
    BY <1>1, <1>4 DEF PagesInv, Following
  <1>12. \A p \in walk.steady : p \in Nat
    BY <1>4, <1>8 DEF Walk
  <1>13. UNCHANGED <<walkerRole, shelf>>
    BY DEF ReadPage
  <1>14. CASE fetched = shown
    <2>1. walk' = [walk EXCEPT !.step = "done", !.after = 0,
                     !.listed = @ \cup shown,
                     !.twice = @ \/ shown \cap walk.listed # {}]
      BY <1>1, <1>2, <1>3, <1>14 DEF ReadPage
    <2>2. walk'.twice <=> walk.twice
      BY <1>4, <1>10, <2>1 DEF Walk
    <2>3. /\ walk'.step = "done" /\ walk'.listed = walk.listed \cup shown
          /\ walk'.steady = walk.steady
      BY <1>4, <2>1 DEF Walk
    <2>4. walk' \in Walk
      <3>1. walk.listed \cup shown \in SUBSET Listed
        BY <1>4, <1>5, <1>7 DEF Walk
      <3>2. (walk.twice \/ shown \cap walk.listed # {}) \in BOOLEAN
        OBVIOUS
      <3>3. PICK listed : listed = walk.listed \cup shown
        OBVIOUS
      <3>4. PICK twice : twice = (walk.twice \/ shown \cap walk.listed # {})
        OBVIOUS
      <3>5. walk' = [walk EXCEPT !.step = "done", !.after = 0,
                       !.listed = listed, !.twice = twice]
        BY <2>1, <3>3, <3>4
      <3>6. QED
        BY <1>4, <3>1, <3>2, <3>3, <3>4, <3>5 DEF Walk
    <2>5. PagesTypeOK'
      BY <1>4, <1>13, <2>4 DEF PagesTypeOK
    <2>6. Showing(CanPullPrivate)' = Showing(CanPullPrivate)
      BY <1>13 DEF Showing, CanPullPrivate
    <2>7. S = shown
      BY <1>2, <1>4, <1>5, <1>6, <1>14, FullPage
    <2>8. ASSUME NEW p \in walk.steady PROVE p \in walk.listed \cup shown
      <3>1. CASE p <= walk.after
        BY <1>4, <3>1 DEF PagesInv
      <3>2. CASE ~(p <= walk.after)
        BY <1>9, <1>11, <1>12, <2>7, <3>2
      <3>3. QED
        BY <3>1, <3>2
    <2>9. QED
      BY <2>2, <2>3, <2>5, <2>6, <2>8 DEF PagesInv
  <1>15. CASE fetched # shown
    <2>1. PICK after : after = LastOf(shown)
      OBVIOUS
    <2>2. walk' = [walk EXCEPT !.step = "access", !.after = after,
                     !.listed = @ \cup shown,
                     !.twice = @ \/ shown \cap walk.listed # {}]
      BY <1>1, <1>2, <1>3, <1>15, <2>1 DEF ReadPage, NextAfter
    <2>3. shown # {}
      <3> SUFFICES ASSUME shown = {}, fetched # {} PROVE FALSE
        BY <1>15
      <3>1. fetched \in SUBSET Nat /\ fetched \in SUBSET Listed
        BY <1>2, <1>5, <1>8 DEF First
      <3>2. PICK p \in fetched : \A q \in fetched : p <= q
        BY <3>1, LeastNumber
      <3>3. Before(p, fetched) = {}
        <4>1. ASSUME NEW q \in fetched PROVE ~(q < p)
          <5>1. p \in Nat /\ q \in Nat /\ p <= q
            BY <3>1, <3>2
          <5>2. QED
            BY <5>1
        <4>2. QED
          BY <4>1 DEF Before
      <3>4. Rank(p, fetched) = 0
        BY <3>3, FS_EmptySet DEF Rank
      <3>5. p \in shown
        BY <1>3, <1>4, <3>4, FirstByRank
      <3>6. QED
        BY <3>5
    <2>4. after \in shown /\ \A q \in shown : q <= after
      BY <1>5, <1>7, <2>1, <2>3, LastOfIsLast
    <2>5. after \in Listed /\ after \in Nat /\ after > walk.after
      BY <1>5, <1>7, <1>8, <2>4
    <2>6. walk'.twice <=> walk.twice
      BY <1>4, <1>10, <2>2 DEF Walk
    <2>7. /\ walk'.step = "access" /\ walk'.listed = walk.listed \cup shown
          /\ walk'.steady = walk.steady /\ walk'.after = after
      BY <1>4, <2>2 DEF Walk
    <2>8. walk' \in Walk
      <3>1. walk.listed \cup shown \in SUBSET Listed
        BY <1>4, <1>5, <1>7 DEF Walk
      <3>2. (walk.twice \/ shown \cap walk.listed # {}) \in BOOLEAN
        OBVIOUS
      <3>3. PICK listed : listed = walk.listed \cup shown
        OBVIOUS
      <3>4. PICK twice : twice = (walk.twice \/ shown \cap walk.listed # {})
        OBVIOUS
      <3>5. walk' = [walk EXCEPT !.step = "access", !.after = after,
                       !.listed = listed, !.twice = twice]
        BY <2>2, <3>3, <3>4
      <3>6. QED
        BY <1>4, <2>5, <3>1, <3>2, <3>3, <3>4, <3>5 DEF Walk
    <2>9. PagesTypeOK'
      BY <1>4, <1>13, <2>8 DEF PagesTypeOK
    <2>10. Showing(CanPullPrivate)' = Showing(CanPullPrivate)
      BY <1>13 DEF Showing, CanPullPrivate
    <2>11. ASSUME NEW p \in walk.steady, p <= after PROVE p \in walk.listed \cup shown
      <3>1. CASE p <= walk.after
        BY <1>4, <3>1 DEF PagesInv
      <3>2. CASE ~(p <= walk.after)
        <4>1. p \in S
          BY <1>9, <1>11, <1>12, <3>2
        <4>2. p \in First(PageLimit, S)
          BY <1>4, <1>5, <1>6, <2>4, <2>11, <4>1, FirstIsPrefix
        <4>3. QED
          BY <1>6, <4>2
      <3>3. QED
        BY <3>1, <3>2
    <2>12. ASSUME NEW p \in walk.listed \cup shown PROVE p <= after
      <3>1. CASE p \in shown
        BY <2>4, <3>1
      <3>2. CASE p \in walk.listed
        <4>1. p <= walk.after /\ p \in Nat
          BY <1>4, <1>8, <3>2 DEF PagesInv, Walk
        <4>2. QED
          BY <1>9, <2>5, <4>1
      <3>3. QED
        BY <3>1, <3>2
    <2>13. QED
      BY <2>6, <2>7, <2>9, <2>10, <2>11, <2>12 DEF PagesInv
  <1>16. QED
    BY <1>14, <1>15

LEMMA PagesStep == PagesInv /\ [PagesNext]_pagesVars => PagesInv'
  <1> SUFFICES ASSUME PagesInv, [PagesNext]_pagesVars PROVE PagesInv'
    OBVIOUS
  <1>1. ASSUME NEW p \in Listed, NEW v \in {"PUBLIC", "PRIVATE"}, ChangeShelf(p, v)
        PROVE  PagesInv'
    BY <1>1, ShelfKeeps
  <1>2. ASSUME NEW role \in WalkerRoles, ChangeWalkerRole(role) PROVE PagesInv'
    BY <1>2, WalkerRoleKeeps
  <1>3. CASE BeginWalk
    BY <1>3, BeginWalkKeeps
  <1>4. CASE ReadListAccess
    BY <1>4, ListAccessKeeps
  <1>5. CASE ReadPage
    BY <1>5, PageKeeps
  <1>6. CASE UNCHANGED pagesVars
    BY <1>6 DEF pagesVars, PagesInv, PagesTypeOK, Showing, CanPullPrivate
  <1>7. QED
    BY <1>1, <1>2, <1>3, <1>4, <1>5, <1>6 DEF PagesNext

(* Whatever is created or changed during a walk over the pages, nothing is *)
(* listed twice, and all that was there and open to the caller is listed   *)
(* (List of repositories/service.go, ListByNamespace of the store).        *)
THEOREM WalksAreComplete == PagesSpec => []WalkComplete
  <1>1. PagesInv => WalkComplete
    BY DEF PagesInv, WalkComplete
  <1>2. QED
    BY <1>1, PagesStart, PagesStep, PTL DEF PagesSpec
=============================================================================
