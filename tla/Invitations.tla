---------------------------- MODULE Invitations ----------------------------
(***************************************************************************)
(* Redeeming and revoking an invitation                                    *)
(* (RedeemInvitationWithIdentity and RevokeInvitation of                   *)
(* internal/platform/postgres/authstore/store.go).  Redeeming is one       *)
(* transaction: it inserts the user, the credential and the personal       *)
(* namespace, and then marks the invitation.  An insert waits for an       *)
(* uncommitted row of the same name, and an update for the row's lock.     *)
(* A commit and its acknowledgement are two steps: a caller whose          *)
(* connection breaks in between gets an error, whichever way the           *)
(* transaction ends.                                                       *)
(***************************************************************************)
EXTENDS FiniteSets

CONSTANTS
  Callers,       (* those who redeem or revoke                             *)
  Names,         (* user names                                             *)
  TakenNames,    (* names of which an organization has the namespace       *)
  InvitationIds

NoCaller == "nobody"    (* no caller                                        *)

ASSUME InvitationAssumption ==
  /\ TakenNames \subseteq Names /\ Names # {} /\ InvitationIds # {}
  /\ NoCaller \notin Callers

VARIABLES
  invitation,  (* user_invitations                                         *)
  identity,    (* by name: the caller who inserted its user, if any, and   *)
               (* whether that is committed                                *)
  rowLock,     (* by invitation: the transaction that holds the row        *)
  caller       (* what each caller does                                    *)

invitationVars == <<invitation, identity, rowLock, caller>>

Fresh == [redeemedBy |-> NoCaller, revoked |-> FALSE, expired |-> FALSE]
NoIdentity == [by |-> NoCaller, committed |-> FALSE]
Resting == [step |-> "idle", name |-> CHOOSE n \in Names : TRUE,
            id |-> CHOOSE i \in InvitationIds : TRUE]

Answers == {"redeemed", "revoked", "conflict", "invalid", "error"}

InvitationTypeOK ==
  /\ invitation \in [InvitationIds ->
                       [redeemedBy : Callers \cup {NoCaller}, revoked : BOOLEAN,
                        expired : BOOLEAN]]
  /\ identity \in [Names -> [by : Callers \cup {NoCaller}, committed : BOOLEAN]]
  /\ rowLock \in [InvitationIds -> Callers \cup {NoCaller}]
  /\ caller \in [Callers ->
                   [step : {"idle", "user", "namespace", "mark", "commit",
                            "unanswered", "committed", "revoke", "look"} \cup Answers,
                    name : Names, id : InvitationIds]]

InvitationInit ==
  /\ invitation = [i \in InvitationIds |-> Fresh]
  /\ identity = [n \in Names |-> NoIdentity]
  /\ rowLock = [i \in InvitationIds |-> NoCaller]
  /\ caller = [c \in Callers |-> Resting]

At(c, step) == caller[c].step = step
Go(c, step) == caller' = [caller EXCEPT ![c].step = step]

(* A transaction that ends without committing takes back its rows.         *)
RolledBack(c, answer) ==
  /\ identity' = [n \in Names |-> IF identity[n].by = c /\ ~identity[n].committed
                                  THEN NoIdentity ELSE identity[n]]
  /\ rowLock' = [i \in InvitationIds |-> IF rowLock[i] = c THEN NoCaller ELSE rowLock[i]]
  /\ Go(c, answer)
  /\ UNCHANGED invitation

StartRedeem(c, n, i) ==
  /\ At(c, "idle")
  /\ caller' = [caller EXCEPT ![c] = [step |-> "user", name |-> n, id |-> i]]
  /\ UNCHANGED <<invitation, identity, rowLock>>

InsertUser(c) ==
  LET n == caller[c].name IN
  /\ At(c, "user")
  /\ \/ /\ identity[n] = NoIdentity
        /\ identity' = [identity EXCEPT ![n] = [by |-> c, committed |-> FALSE]]
        /\ Go(c, "namespace")
        /\ UNCHANGED <<invitation, rowLock>>
     \/ identity[n].committed /\ RolledBack(c, "conflict")

InsertNamespace(c) ==
  /\ At(c, "namespace")
  /\ IF caller[c].name \in TakenNames
     THEN RolledBack(c, "conflict")
     ELSE Go(c, "mark") /\ UNCHANGED <<invitation, identity, rowLock>>

(* Variant: the WHERE clause lacks redeemed_at IS NULL.                    *)
RedeemableOnceFound(i) == ~invitation[i].revoked /\ ~invitation[i].expired

(* The WHERE clause, evaluated on the row as it is once the lock is had.   *)
Redeemable(i) ==
  /\ invitation[i].redeemedBy = NoCaller
  /\ ~invitation[i].revoked
  /\ ~invitation[i].expired

MarkRedeemed(c) ==
  LET i == caller[c].id IN
  /\ At(c, "mark") /\ rowLock[i] = NoCaller
  /\ IF Redeemable(i)
     THEN /\ rowLock' = [rowLock EXCEPT ![i] = c]
          /\ Go(c, "commit")
          /\ UNCHANGED <<invitation, identity>>
     ELSE RolledBack(c, "invalid")

(* The COMMIT of a transaction that holds the row takes effect.            *)
CommitRedeem(c) ==
  LET i == caller[c].id IN
  /\ At(c, "commit") \/ At(c, "unanswered")
  /\ invitation' = [invitation EXCEPT ![i].redeemedBy = c]
  /\ identity' = [identity EXCEPT ![caller[c].name] = [by |-> c, committed |-> TRUE]]
  /\ rowLock' = [rowLock EXCEPT ![i] = NoCaller]
  /\ Go(c, IF At(c, "commit") THEN "committed" ELSE "error")

RedeemAnswered(c) ==
  /\ At(c, "committed") /\ Go(c, "redeemed")
  /\ UNCHANGED <<invitation, identity, rowLock>>

(* The connection breaks while the COMMIT is on its way, and the           *)
(* transaction is still open, or while its acknowledgement is.             *)
LoseReply(c) ==
  /\ \/ At(c, "commit") /\ Go(c, "unanswered")
     \/ At(c, "committed") /\ Go(c, "error")
  /\ UNCHANGED <<invitation, identity, rowLock>>

(* A statement fails, or the COMMIT does, or never reaches the server.     *)
RedeemFails(c) ==
  /\ caller[c].step \in {"user", "namespace", "mark", "commit", "unanswered"}
  /\ RolledBack(c, "error")

(* RevokeInvitation: one conditional update, and a look at the row when    *)
(* nothing was updated.                                                    *)
StartRevoke(c, i) ==
  /\ At(c, "idle")
  /\ caller' = [caller EXCEPT ![c] = [@ EXCEPT !.step = "revoke", !.id = i]]
  /\ UNCHANGED <<invitation, identity, rowLock>>

Revocable(i) == invitation[i].redeemedBy = NoCaller /\ ~invitation[i].revoked

RevokeRow(c) ==
  LET i == caller[c].id IN
  /\ At(c, "revoke") /\ rowLock[i] = NoCaller
  /\ IF Revocable(i)
     THEN /\ invitation' = [invitation EXCEPT ![i].revoked = TRUE]
          /\ Go(c, "revoked") \/ Go(c, "error")    (* the reply is lost     *)
     ELSE Go(c, "look") /\ UNCHANGED invitation
  /\ UNCHANGED <<identity, rowLock>>

LookAtRevoked(c) ==
  /\ At(c, "look")
  /\ Go(c, IF invitation[caller[c].id].revoked THEN "revoked" ELSE "invalid")
  /\ UNCHANGED <<invitation, identity, rowLock>>

RevokeFails(c) ==
  /\ At(c, "revoke") \/ At(c, "look")
  /\ Go(c, "error")
  /\ UNCHANGED <<invitation, identity, rowLock>>

Expire(i) ==
  /\ ~invitation[i].expired
  /\ invitation' = [invitation EXCEPT ![i].expired = TRUE]
  /\ UNCHANGED <<identity, rowLock, caller>>

InvitationNext ==
  \/ \E c \in Callers :
       \/ \E n \in Names, i \in InvitationIds : StartRedeem(c, n, i)
       \/ \E i \in InvitationIds : StartRevoke(c, i)
       \/ InsertUser(c) \/ InsertNamespace(c) \/ MarkRedeemed(c)
       \/ CommitRedeem(c) \/ RedeemAnswered(c) \/ LoseReply(c) \/ RedeemFails(c)
       \/ RevokeRow(c) \/ LookAtRevoked(c) \/ RevokeFails(c)
  \/ \E i \in InvitationIds : Expire(i)

InvitationSpec == InvitationInit /\ [][InvitationNext]_invitationVars

(* Whose row the statement of a transaction waits for, if anyone's.        *)
WaitsFor(c) ==
  LET n == caller[c].name IN
  IF At(c, "user") /\ ~identity[n].committed THEN {identity[n].by}
  ELSE IF At(c, "mark") \/ At(c, "revoke") THEN {rowLock[caller[c].id]}
  ELSE {}

(* An invitation makes at most one user, and no user is made without one:  *)
(* the committed users are those of the callers the invitations name.      *)
(* Whoever was told to have redeemed is among them, and whoever was told   *)
(* of a conflict, of an invalid invitation or of a revocation is not; of   *)
(* whoever got an error either may be true, but nothing is half done.      *)
(* A caller told that an invitation is revoked can rely on it.  And there  *)
(* is no deadlock: in any group of callers there is one that waits for     *)
(* none of the group.                                                      *)
InvitationsExact ==
  LET users == {identity[n].by : n \in {m \in Names : identity[m].committed}} IN
  /\ users = {invitation[i].redeemedBy : i \in InvitationIds} \ {NoCaller}
  /\ {c \in Callers : At(c, "redeemed")} \subseteq users
  /\ users \subseteq {c \in Callers : caller[c].step \in {"committed", "redeemed", "error"}}
  /\ \A n \in Names : identity[n].by # NoCaller /\ ~identity[n].committed
       => caller[identity[n].by].step \notin Answers
  /\ \A c \in Callers : At(c, "revoked") =>
       /\ invitation[caller[c].id].revoked
       /\ invitation[caller[c].id].redeemedBy = NoCaller
  /\ \A group \in (SUBSET Callers) \ {{}} :
       \E c \in group : WaitsFor(c) \cap group = {}
=============================================================================
