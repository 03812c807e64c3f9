------------------------------ MODULE KeyFiles ------------------------------
(***************************************************************************)
(* registry-keygen (cmd/registry-keygen/main.go): the command that makes a *)
(* key pair, its trust bundle and the event token, or validates the ones   *)
(* it finds.  Runs may overlap (two containers starting), crash between    *)
(* any two system calls, and the operator may remove the directory.        *)
(*                                                                         *)
(* A file is the run that made it and whether its contents are written: an *)
(* exclusive open leaves it empty until the write.  The pair of a run is   *)
(* named by the run, for each run generates a key of its own.              *)
(***************************************************************************)
EXTENDS Naturals

CONSTANTS KeygenRuns, MaxRemovals

Files == {"private.pem", "jwks.json", "event-token"}
NoRun == "none"

ASSUME KeygenAssumption == NoRun \notin KeygenRuns /\ MaxRemovals \in Nat

Absent == [by |-> NoRun, full |-> FALSE]
File == [by : KeygenRuns, full : BOOLEAN] \cup {Absent}

VARIABLES
  directory,   (* whether the output directory exists                      *)
  disk,        (* its files                                                *)
  step,        (* per run: where it is                                     *)
  seen,        (* per run: the files its Stat calls found                  *)
  private,     (* per run: the private key it has read or generated        *)
  removals     (* how often the directory was removed, and since which     *)
               (* removal each run is running                              *)

keygenVars == <<directory, disk, step, seen, private, removals>>

Steps == {"start", "jwks?", "compare", "mkdir", "open private.pem",
          "write private.pem", "open jwks.json", "write jwks.json",
          "event?", "open event-token", "write event-token",
          "ready", "failed"}

KeygenTypeOK ==
  /\ directory \in BOOLEAN
  /\ disk \in [Files -> File]
  /\ step \in [KeygenRuns -> Steps]
  /\ seen \in [KeygenRuns -> SUBSET Files]
  /\ private \in [KeygenRuns -> KeygenRuns \cup {NoRun}]
  /\ removals \in [KeygenRuns \cup {NoRun} -> 0 .. MaxRemovals]

KeygenInit ==
  /\ directory = FALSE
  /\ disk = [f \in Files |-> Absent]
  /\ step = [r \in KeygenRuns |-> "start"]
  /\ seen = [r \in KeygenRuns |-> {}]
  /\ private = [r \in KeygenRuns |-> NoRun]
  /\ removals = [r \in KeygenRuns \cup {NoRun} |-> 0]

OnDisk(f) == disk[f] # Absent

Goto(r, s) == step' = [step EXCEPT ![r] = s]

(* ensureDevelopmentKeys: two Stat calls, then the three cases.            *)
StatPrivate(r) ==
  /\ step[r] = "start"
  /\ seen' = [seen EXCEPT ![r] = {f \in {"private.pem"} : OnDisk(f)}]
  /\ removals' = [removals EXCEPT ![r] = removals[NoRun]]
  /\ Goto(r, "jwks?")
  /\ UNCHANGED <<directory, disk, private>>

StatJWKS(r) ==
  /\ step[r] = "jwks?"
  /\ seen' = [seen EXCEPT ![r] = @ \cup {f \in {"jwks.json"} : OnDisk(f)}]
  /\ CASE seen'[r] = {}                           -> Goto(r, "mkdir")
       [] seen'[r] = {"private.pem", "jwks.json"} -> Goto(r, "compare")
       [] OTHER                                   -> Goto(r, "failed")
  /\ UNCHANGED <<directory, disk, private, removals>>

(* validateExistingPair: the private key is read, then the bundle; an      *)
(* empty or missing file does not parse.                                   *)
ReadPrivate(r) ==
  /\ step[r] = "compare" /\ private[r] = NoRun
  /\ IF disk["private.pem"].full
     THEN private' = [private EXCEPT ![r] = disk["private.pem"].by] /\ UNCHANGED step
     ELSE Goto(r, "failed") /\ UNCHANGED private
  /\ UNCHANGED <<directory, disk, seen, removals>>

ReadJWKS(r) ==
  /\ step[r] = "compare" /\ private[r] # NoRun
  /\ IF disk["jwks.json"] = [by |-> private[r], full |-> TRUE]
     THEN Goto(r, "event?") ELSE Goto(r, "failed")
  /\ UNCHANGED <<directory, disk, seen, private, removals>>

(* generateDevelopmentKeys.                                                *)
MakeDirectory(r) ==
  /\ step[r] = "mkdir"
  /\ directory' = TRUE
  /\ private' = [private EXCEPT ![r] = r]
  /\ Goto(r, "open private.pem")
  /\ UNCHANGED <<disk, seen, removals>>

(* Variant: an open that does not insist on creating the file.             *)
CanCreateOver(f) == directory

(* writeExclusive: O_CREATE|O_EXCL, and then the write; a file that was    *)
(* removed in between is written to no one's sight.                        *)
CanCreate(f) == directory /\ ~OnDisk(f)

OpenFile(r, f, write) ==
  /\ IF CanCreate(f)
     THEN /\ disk' = [disk EXCEPT ![f] = [by |-> r, full |-> FALSE]]
          /\ Goto(r, write)
     ELSE Goto(r, "failed") /\ UNCHANGED disk
  /\ UNCHANGED <<directory, seen, private, removals>>

WriteFile(r, f, next) ==
  /\ disk' = IF disk[f].by = r
             THEN [disk EXCEPT ![f] = [by |-> r, full |-> TRUE]] ELSE disk
  /\ Goto(r, next)
  /\ UNCHANGED <<directory, seen, private, removals>>

WritePrivate(r) ==
  \/ step[r] = "open private.pem" /\ OpenFile(r, "private.pem", "write private.pem")
  \/ step[r] = "write private.pem" /\ WriteFile(r, "private.pem", "open jwks.json")

WriteJWKS(r) ==
  \/ step[r] = "open jwks.json" /\ OpenFile(r, "jwks.json", "write jwks.json")
  \/ step[r] = "write jwks.json" /\ WriteFile(r, "jwks.json", "event?")

(* ensureEventToken.                                                       *)
FindEventToken(r) ==
  /\ step[r] = "event?"
  /\ CASE ~OnDisk("event-token")    -> Goto(r, "open event-token")
       [] disk["event-token"].full  -> Goto(r, "ready")
       [] OTHER                     -> Goto(r, "failed")
  /\ UNCHANGED <<directory, disk, seen, private, removals>>

WriteEventToken(r) ==
  \/ step[r] = "open event-token" /\ OpenFile(r, "event-token", "write event-token")
  \/ step[r] = "write event-token" /\ WriteFile(r, "event-token", "ready")

(* A run that is killed is started again as another one, by the operator.  *)
Kill(r) ==
  /\ step[r] \notin {"start", "ready", "failed"}
  /\ Goto(r, "failed")
  /\ UNCHANGED <<directory, disk, seen, private, removals>>

RemoveDirectory ==
  /\ directory /\ removals[NoRun] < MaxRemovals
  /\ directory' = FALSE
  /\ disk' = [f \in Files |-> Absent]
  /\ removals' = [removals EXCEPT ![NoRun] = @ + 1]
  /\ UNCHANGED <<step, seen, private>>

KeygenNext ==
  \/ \E r \in KeygenRuns :
       \/ StatPrivate(r) \/ StatJWKS(r) \/ ReadPrivate(r) \/ ReadJWKS(r)
       \/ MakeDirectory(r) \/ WritePrivate(r) \/ WriteJWKS(r)
       \/ FindEventToken(r) \/ WriteEventToken(r) \/ Kill(r)
  \/ RemoveDirectory

KeygenSpec == KeygenInit /\ [][KeygenNext]_keygenVars

(* Once a run has reported the material ready, private.pem, jwks.json and  *)
(* event-token are complete and the bundle trusts the key, whatever other  *)
(* runs do or did before they were killed, unless the directory was        *)
(* removed since the run began.                                            *)
ReadyMeansPair ==
  \A r \in KeygenRuns :
    step[r] = "ready" /\ removals[r] = removals[NoRun] =>
      /\ \A f \in Files : disk[f].full
      /\ disk["private.pem"].by = disk["jwks.json"].by
=============================================================================
