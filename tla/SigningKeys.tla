---------------------------- MODULE SigningKeys ----------------------------
(***************************************************************************)
(* Rotation of the key that signs Registry tokens.  Two processes sign:    *)
(* the control plane (registerRegistryRoutes of app/controlplane/app.go)   *)
(* and the worker (New of app/worker/app.go); each reads the private key   *)
(* file when it starts.  Distribution reads the trust bundle (jwks.json)   *)
(* when it starts and verifies tokens as RS256Verifier does.               *)
(*                                                                         *)
(* The operator follows the order of docs/registry-authentication.md:253:  *)
(* publish the new public key and restart Distribution, then install the   *)
(* private key, and retire the old public key once nobody signs with it    *)
(* and TTL plus skew have passed.  By mistake the operator may install a   *)
(* stray private key, one that is in no bundle.  Any process may crash and *)
(* be restarted at any moment.                                             *)
(***************************************************************************)
EXTENDS Integers

CONSTANTS
  SigningKeySet,  (* the key pairs of the rotation                         *)
  Strays,         (* key pairs that are never published                    *)
  FirstKey,       (* the key the system was installed with                 *)
  NotRunning,     (* the signer of a process that is down                  *)
  TokenTTL,
  ClockSkew,      (* signer and verifier clocks differ by at most this     *)
  MaxHour         (* bound of the clock                                    *)

ASSUME SigningAssumption ==
  /\ FirstKey \in SigningKeySet /\ SigningKeySet \cap Strays = {}
  /\ NotRunning \notin SigningKeySet \cup Strays
  /\ TokenTTL \in Nat \ {0} /\ ClockSkew \in Nat /\ MaxHour \in Nat

Processes == {"control-plane", "worker"}
AnyKey == SigningKeySet \cup Strays

VARIABLES
  keyFile,     (* the private key file                                     *)
  bundle,      (* the key IDs in jwks.json                                 *)
  retired,     (* the keys taken out of it: they are never used again      *)
  trusted,     (* the keys the running Distribution has loaded             *)
  signer,      (* per process: the key it signs with                       *)
  starting,    (* the key a starting control plane has read, if any        *)
  minted,      (* the last token of each process and key                   *)
  hour,        (* the signers' clock                                       *)
  drift        (* how far Distribution's clock is ahead of it              *)

keyVars == <<keyFile, bundle, retired, trusted, signer, starting, minted, hour, drift>>

Minted == [by : Processes, kid : AnyKey, iat : Nat, nbf : Int, exp : Nat]

SigningTypeOK ==
  /\ keyFile \in AnyKey
  /\ bundle \subseteq SigningKeySet /\ retired \subseteq SigningKeySet
  /\ trusted \subseteq SigningKeySet
  /\ signer \in [Processes -> AnyKey \cup {NotRunning}]
  /\ starting \in AnyKey \cup {NotRunning}
  /\ minted \subseteq Minted
  /\ hour \in 0 .. MaxHour /\ drift \in -ClockSkew .. ClockSkew

SigningInit ==
  /\ keyFile = FirstKey /\ bundle = {FirstKey} /\ retired = {} /\ trusted = {FirstKey}
  /\ signer = [p \in Processes |-> FirstKey]
  /\ starting = NotRunning /\ minted = {} /\ hour = 0
  /\ drift \in -ClockSkew .. ClockSkew

(***************************************************************************)
(* The operator.                                                           *)
(***************************************************************************)
PublishKey(k) ==
  /\ k \notin bundle \cup retired
  /\ bundle' = bundle \cup {k}
  /\ UNCHANGED <<keyFile, retired, trusted, signer, starting, minted, hour, drift>>

InstallKey(k) ==
  /\ k # keyFile
  /\ k \in Strays \/ k \in bundle \cap trusted
  /\ keyFile' = k
  /\ UNCHANGED <<bundle, retired, trusted, signer, starting, minted, hour, drift>>

Retire(k) ==
  /\ k \in bundle /\ k # keyFile
  /\ \A p \in Processes : signer[p] # k
  /\ \A t \in minted : t.kid = k => hour >= t.iat + TokenTTL + ClockSkew
  /\ bundle' = bundle \ {k} /\ retired' = retired \cup {k}
  /\ UNCHANGED <<keyFile, trusted, signer, starting, minted, hour, drift>>

RestartDistribution ==
  /\ trusted # bundle
  /\ trusted' = bundle
  /\ UNCHANGED <<keyFile, bundle, retired, signer, starting, minted, hour, drift>>

Crash(p) ==
  /\ signer[p] # NotRunning
  /\ signer' = [signer EXCEPT ![p] = NotRunning]
  /\ UNCHANGED <<keyFile, bundle, retired, trusted, starting, minted, hour, drift>>

(***************************************************************************)
(* A starting control plane reads its key, then the bundle, and refuses to *)
(* start when the key is not in it.  The worker reads only the key.        *)
(***************************************************************************)
ReadKey ==
  /\ signer["control-plane"] = NotRunning /\ starting = NotRunning
  /\ starting' = keyFile
  /\ UNCHANGED <<keyFile, bundle, retired, trusted, signer, minted, hour, drift>>

(* Variant: a control plane that starts with whatever key it finds.        *)
CheckNothing ==
  /\ starting # NotRunning
  /\ signer' = [signer EXCEPT !["control-plane"] = starting]
  /\ starting' = NotRunning
  /\ UNCHANGED <<keyFile, bundle, retired, trusted, minted, hour, drift>>

CheckTrust ==
  /\ starting # NotRunning
  /\ signer' = IF starting \in bundle
               THEN [signer EXCEPT !["control-plane"] = starting] ELSE signer
  /\ starting' = NotRunning
  /\ UNCHANGED <<keyFile, bundle, retired, trusted, minted, hour, drift>>

StartWorker ==
  /\ signer["worker"] = NotRunning
  /\ signer' = [signer EXCEPT !["worker"] = keyFile]
  /\ UNCHANGED <<keyFile, bundle, retired, trusted, starting, minted, hour, drift>>

(***************************************************************************)
(* Tokens.  The last one of each process and key is kept: it expires after *)
(* the others, and is the first one to be too new for a verifier.          *)
(***************************************************************************)
Claims(p) == [by |-> p, kid |-> signer[p], iat |-> hour,
              nbf |-> hour - ClockSkew, exp |-> hour + TokenTTL]

Mint(p) ==
  /\ signer[p] # NotRunning
  /\ minted' = {t \in minted : t.by # p \/ t.kid # signer[p]} \cup {Claims(p)}
  /\ UNCHANGED <<keyFile, bundle, retired, trusted, signer, starting, hour, drift>>

Pass ==
  /\ hour < MaxHour
  /\ hour' = hour + 1
  /\ minted' = {t \in minted : hour' < t.exp + ClockSkew}
  /\ UNCHANGED <<keyFile, bundle, retired, trusted, signer, starting, drift>>

VerifierNow == hour + drift
Expired(t) == VerifierNow >= t.exp

Verifies(t) ==
  /\ t.kid \in trusted
  /\ ~Expired(t)
  /\ VerifierNow + ClockSkew >= t.nbf
  /\ VerifierNow + ClockSkew >= t.iat

SigningNext ==
  \/ \E k \in SigningKeySet : PublishKey(k) \/ Retire(k)
  \/ \E k \in AnyKey : InstallKey(k)
  \/ RestartDistribution \/ ReadKey \/ CheckTrust \/ StartWorker \/ Pass
  \/ \E p \in Processes : Crash(p) \/ Mint(p)

SigningSpec == SigningInit /\ [][SigningNext]_keyVars

(* Whatever crashes during a rotation, and whatever stray key is installed *)
(* by mistake, Distribution accepts every token of the control plane until *)
(* it expires, and every token the worker signed with a published key.     *)
TokensAccepted ==
  \A t \in minted :
    (t.by = "control-plane" \/ t.kid \in SigningKeySet) /\ ~Expired(t)
      => Verifies(t)
=============================================================================
