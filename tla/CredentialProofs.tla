-------------------------- MODULE CredentialProofs --------------------------
(***************************************************************************)
(* Proofs about modules KeyFiles, SigningKeys, Invitations, Sessions and   *)
(* LoginLimit: for any runs of the key generator, any keys, lifetimes and  *)
(* clock differences, and any number of callers, names, invitations, tabs, *)
(* tokens, attempts and buckets.                                           *)
(***************************************************************************)
EXTENDS Invitations, Sessions, KeyFiles, SigningKeys, LoginLimit,
        FiniteSetTheorems, TLAPS

(* A run that began after the last removal of the directory relies on what *)
(* it has found or made since.                                             *)
Since(r) == removals[r] = removals[NoRun]

Whole(f) == disk[f].full

PairMade ==
  /\ Whole("private.pem") /\ Whole("jwks.json")
  /\ disk["private.pem"].by = disk["jwks.json"].by

RunOK(r) ==
  /\ step[r] \in {"start", "jwks?"} => private[r] = NoRun
  /\ removals[r] <= removals[NoRun]
  /\ step[r] # "start" /\ Since(r) =>
       /\ step[r] = "compare" /\ private[r] # NoRun =>
            disk["private.pem"] = [by |-> private[r], full |-> TRUE]
       /\ step[r] = "write private.pem" => disk["private.pem"].by = r
       /\ step[r] \in {"open jwks.json", "write jwks.json"} =>
            disk["private.pem"] = [by |-> r, full |-> TRUE]
       /\ step[r] = "write jwks.json" => disk["jwks.json"].by = r
       /\ step[r] \in {"event?", "open event-token", "write event-token",
                       "ready"} => PairMade
       /\ step[r] = "write event-token" => disk["event-token"].by = r
       /\ step[r] = "ready" => Whole("event-token")

KeygenInv == KeygenTypeOK /\ \A r \in KeygenRuns : RunOK(r)

LEMMA FileParts ==
  ASSUME NEW x \in File
  PROVE  /\ x.by \in KeygenRuns \cup {NoRun} /\ x.full \in BOOLEAN
         /\ x = [by |-> x.by, full |-> x.full]
         /\ x.by # NoRun => x.by \in KeygenRuns /\ x # Absent
         /\ x.full => x # Absent
  <1>1. CASE x \in [by : KeygenRuns, full : BOOLEAN]
    BY <1>1, KeygenAssumption DEF Absent
  <1>2. CASE x = Absent
    BY <1>2 DEF Absent
  <1>3. QED
    BY <1>1, <1>2 DEF File

LEMMA KeygenStart == KeygenInit => KeygenInv
  <1> SUFFICES ASSUME KeygenInit PROVE KeygenInv
    OBVIOUS
  <1>1. 0 \in 0 .. MaxRemovals
    BY KeygenAssumption
  <1>2. Absent \in File
    BY DEF File
  <1>3. KeygenTypeOK
    BY <1>1, <1>2 DEF KeygenInit, KeygenTypeOK, Steps
  <1>4. ASSUME NEW r \in KeygenRuns PROVE RunOK(r)
    <2>1. /\ step[r] = "start" /\ private[r] = NoRun
          /\ removals[r] = 0 /\ removals[NoRun] = 0
      BY DEF KeygenInit
    <2>2. QED
      BY <2>1 DEF RunOK
  <1>5. QED
    BY <1>3, <1>4 DEF KeygenInv

(* Unless the directory is removed, a file keeps its maker, and what is    *)
(* written stays written.                                                  *)
DiskGrows ==
  \A f \in Files : disk[f] # Absent =>
    disk'[f].by = disk[f].by /\ (disk[f].full => disk'[f].full)

(* The runs beside the one that moves. *)
LEMMA OtherRun ==
  ASSUME KeygenInv, KeygenTypeOK', DiskGrows, NEW r \in KeygenRuns,
         step'[r] = step[r], private'[r] = private[r],
         removals'[r] = removals[r], removals'[NoRun] = removals[NoRun]
  PROVE  RunOK(r)'
  <1>1. RunOK(r) /\ KeygenTypeOK
    BY DEF KeygenInv
  <1>2. "private.pem" \in Files /\ "jwks.json" \in Files
        /\ "event-token" \in Files
    BY DEF Files
  <1>3. \A f \in Files : disk[f].full =>
          disk'[f] = disk[f] /\ disk'[f].full
    <2>1. \A f \in Files : disk[f].full =>
            /\ disk'[f].by = disk[f].by /\ disk'[f].full
            /\ disk[f] = [by |-> disk[f].by, full |-> TRUE]
      BY <1>1, FileParts DEF DiskGrows, KeygenTypeOK
    <2>2. \A f \in Files : disk'[f] = [by |-> disk'[f].by, full |-> disk'[f].full]
                           /\ disk'[f].full \in BOOLEAN
      BY FileParts DEF KeygenTypeOK
    <2>3. QED
      BY <2>1, <2>2
  <1>4. \A f \in Files : disk[f].by = r => disk'[f].by = r
    BY <1>1, FileParts, KeygenAssumption DEF DiskGrows, KeygenTypeOK
  <1>5. \A f \in Files : \A m : disk[f] = [by |-> m, full |-> TRUE] => disk[f].full
    OBVIOUS
  <1>6. QED
    BY <1>1, <1>2, <1>3, <1>4, <1>5 DEF RunOK, Since, PairMade, Whole

(* The record of the run that moves is all right, and nothing else is lost. *)
Advances(r) ==
  /\ KeygenTypeOK' /\ RunOK(r)' /\ DiskGrows
  /\ \A s \in KeygenRuns \ {r} :
       /\ step'[s] = step[s] /\ private'[s] = private[s]
       /\ removals'[s] = removals[s]
  /\ removals'[NoRun] = removals[NoRun]

LEMMA RunAdvances ==
  ASSUME KeygenInv, NEW r \in KeygenRuns, Advances(r)
  PROVE  KeygenInv'
BY OtherRun DEF Advances, KeygenInv

LEMMA NoRunType ==
  ASSUME KeygenTypeOK
  PROVE  /\ removals[NoRun] \in 0 .. MaxRemovals
         /\ \A r \in KeygenRuns : removals[r] \in 0 .. MaxRemovals /\ r # NoRun
BY KeygenAssumption DEF KeygenTypeOK

(* Whatever it finds, a run goes to a step. *)
LEMMA GotoType ==
  ASSUME KeygenTypeOK, NEW r \in KeygenRuns, NEW s \in Steps, Goto(r, s)
  PROVE  /\ step' \in [KeygenRuns -> Steps] /\ step'[r] = s
         /\ \A q \in KeygenRuns \ {r} : step'[q] = step[q]
BY DEF KeygenTypeOK, Goto

LEMMA SameDisk == disk' = disk => DiskGrows
BY DEF DiskGrows

LEMMA Stats ==
  ASSUME KeygenInv, NEW r \in KeygenRuns, StatPrivate(r) \/ StatJWKS(r)
  PROVE  Advances(r)
  <1>1. KeygenTypeOK /\ RunOK(r)
    BY DEF KeygenInv
  <1>2. CASE StatPrivate(r)
    <2>1. /\ step' \in [KeygenRuns -> Steps] /\ step'[r] = "jwks?"
          /\ \A q \in KeygenRuns \ {r} : step'[q] = step[q]
      BY <1>1, <1>2, GotoType DEF StatPrivate, Steps
    <2>2. {f \in {"private.pem"} : OnDisk(f)} \in SUBSET Files
      BY DEF Files
    <2>3. /\ removals' \in [KeygenRuns \cup {NoRun} -> 0 .. MaxRemovals]
          /\ removals'[r] = removals[NoRun]
          /\ removals'[NoRun] = removals[NoRun]
          /\ \A q \in KeygenRuns \ {r} : removals'[q] = removals[q]
      BY <1>1, <1>2, NoRunType DEF StatPrivate, KeygenTypeOK
    <2>4. KeygenTypeOK'
      BY <1>1, <1>2, <2>1, <2>2, <2>3 DEF StatPrivate, KeygenTypeOK
    <2>5. RunOK(r)'
      BY <1>1, <1>2, <2>1, <2>3, NoRunType DEF StatPrivate, RunOK
    <2>6. QED
      BY <1>2, <2>1, <2>3, <2>4, <2>5, SameDisk DEF StatPrivate, Advances
  <1>3. CASE StatJWKS(r)
    <2>1. PICK s \in {"mkdir", "compare", "failed"} : Goto(r, s)
      BY <1>3 DEF StatJWKS
    <2>2. /\ step' \in [KeygenRuns -> Steps] /\ step'[r] = s
          /\ \A q \in KeygenRuns \ {r} : step'[q] = step[q]
      BY <1>1, <2>1, GotoType DEF Steps
    <2>3. seen' \in [KeygenRuns -> SUBSET Files]
      BY <1>1, <1>3 DEF StatJWKS, KeygenTypeOK, Files
    <2>4. KeygenTypeOK'
      BY <1>1, <1>3, <2>2, <2>3 DEF StatJWKS, KeygenTypeOK
    <2>5. RunOK(r)'
      BY <1>1, <1>3, <2>2 DEF StatJWKS, RunOK
    <2>6. QED
      BY <1>3, <2>2, <2>4, <2>5, SameDisk DEF StatJWKS, Advances
  <1>4. QED
    BY <1>2, <1>3

LEMMA Reads ==
  ASSUME KeygenInv, NEW r \in KeygenRuns,
         ReadPrivate(r) \/ ReadJWKS(r) \/ MakeDirectory(r) \/ Kill(r)
         \/ FindEventToken(r)
  PROVE  Advances(r)
  <1>1. KeygenTypeOK /\ RunOK(r)
    BY DEF KeygenInv
  <1>2. /\ disk["private.pem"] \in File /\ disk["jwks.json"] \in File
        /\ disk["event-token"] \in File
    BY <1>1 DEF KeygenTypeOK, Files
  <1>3. CASE ReadPrivate(r) /\ disk["private.pem"].full
    <2>1. /\ disk["private.pem"].by \in KeygenRuns \cup {NoRun}
          /\ disk["private.pem"]
               = [by |-> disk["private.pem"].by, full |-> TRUE]
      BY <1>2, <1>3, FileParts
    <2>2. /\ private' \in [KeygenRuns -> KeygenRuns \cup {NoRun}]
          /\ private'[r] = disk["private.pem"].by
          /\ \A q \in KeygenRuns \ {r} : private'[q] = private[q]
      BY <1>1, <1>3, <2>1 DEF ReadPrivate, KeygenTypeOK
    <2>3. KeygenTypeOK'
      BY <1>1, <1>3, <2>2 DEF ReadPrivate, KeygenTypeOK
    <2>4. RunOK(r)'
      BY <1>1, <1>3, <2>1, <2>2 DEF ReadPrivate, RunOK, Since
    <2>5. QED
      BY <1>3, <2>2, <2>3, <2>4, SameDisk DEF ReadPrivate, Advances
  <1>4. CASE ReadJWKS(r) /\ disk["jwks.json"] = [by |-> private[r], full |-> TRUE]
    <2>1. /\ step' \in [KeygenRuns -> Steps] /\ step'[r] = "event?"
          /\ \A q \in KeygenRuns \ {r} : step'[q] = step[q]
      BY <1>1, <1>4, GotoType DEF ReadJWKS, Steps
    <2>2. KeygenTypeOK'
      BY <1>1, <1>4, <2>1 DEF ReadJWKS, KeygenTypeOK
    <2>3. Since(r) => PairMade
      BY <1>1, <1>4 DEF ReadJWKS, RunOK, PairMade, Whole
    <2>4. RunOK(r)'
      BY <1>1, <1>4, <2>1, <2>3 DEF ReadJWKS, RunOK, Since, PairMade, Whole
    <2>5. QED
      BY <1>4, <2>1, <2>2, <2>4, SameDisk DEF ReadJWKS, Advances
  <1>5. CASE MakeDirectory(r)
    <2>1. /\ step' \in [KeygenRuns -> Steps] /\ step'[r] = "open private.pem"
          /\ \A q \in KeygenRuns \ {r} : step'[q] = step[q]
      BY <1>1, <1>5, GotoType DEF MakeDirectory, Steps
    <2>2. KeygenTypeOK'
      BY <1>1, <1>5, <2>1 DEF MakeDirectory, KeygenTypeOK
    <2>3. RunOK(r)'
      BY <1>1, <1>5, <2>1 DEF MakeDirectory, RunOK
    <2>4. \A q \in KeygenRuns \ {r} : private'[q] = private[q]
      BY <1>1, <1>5 DEF MakeDirectory, KeygenTypeOK
    <2>5. QED
      BY <1>5, <2>1, <2>2, <2>3, <2>4, SameDisk DEF MakeDirectory, Advances
  <1>6. CASE FindEventToken(r)
    <2>1. PICK s \in {"open event-token", "ready", "failed"} :
            Goto(r, s) /\ (s = "ready" => disk["event-token"].full)
      BY <1>2, <1>6, FileParts DEF FindEventToken, OnDisk
    <2>2. /\ step' \in [KeygenRuns -> Steps] /\ step'[r] = s
          /\ \A q \in KeygenRuns \ {r} : step'[q] = step[q]
      BY <1>1, <2>1, GotoType DEF Steps
    <2>3. KeygenTypeOK'
      BY <1>1, <1>6, <2>2 DEF FindEventToken, KeygenTypeOK
    <2>4. RunOK(r)'
      BY <1>1, <1>6, <2>1, <2>2
         DEF FindEventToken, RunOK, Since, PairMade, Whole
    <2>5. QED
      BY <1>6, <2>2, <2>3, <2>4, SameDisk DEF FindEventToken, Advances
  <1>7. CASE \/ Kill(r)
             \/ ReadPrivate(r) /\ ~disk["private.pem"].full
             \/ ReadJWKS(r) /\ disk["jwks.json"] # [by |-> private[r], full |-> TRUE]
    <2>1. /\ Goto(r, "failed") /\ disk' = disk
          /\ UNCHANGED <<directory, seen, private, removals>>
      BY <1>7 DEF Kill, ReadPrivate, ReadJWKS
    <2>2. /\ step' \in [KeygenRuns -> Steps] /\ step'[r] = "failed"
          /\ \A q \in KeygenRuns \ {r} : step'[q] = step[q]
      BY <1>1, <2>1, GotoType DEF Steps
    <2>3. KeygenTypeOK'
      BY <1>1, <2>1, <2>2 DEF KeygenTypeOK
    <2>4. RunOK(r)'
      BY <1>1, <2>1, <2>2 DEF RunOK
    <2>5. QED
      BY <2>1, <2>2, <2>3, <2>4, SameDisk DEF Advances
  <1>8. QED
    BY <1>3, <1>4, <1>5, <1>6, <1>7

(* What the two system calls of writeExclusive do. *)
Opened(r, f, write) ==
  /\ disk' \in [Files -> File] /\ DiskGrows
  /\ step' \in [KeygenRuns -> Steps]
  /\ \A q \in KeygenRuns \ {r} : step'[q] = step[q]
  /\ \/ step'[r] = "failed" /\ disk' = disk
     \/ /\ step'[r] = write /\ disk'[f].by = r
        /\ \A g \in Files \ {f} : disk'[g] = disk[g]
  /\ UNCHANGED <<directory, seen, private, removals>>

Written(r, f, next) ==
  /\ disk' \in [Files -> File] /\ DiskGrows
  /\ step' \in [KeygenRuns -> Steps]
  /\ \A q \in KeygenRuns \ {r} : step'[q] = step[q]
  /\ step'[r] = next
  /\ disk[f].by = r => disk'[f] = [by |-> r, full |-> TRUE]
  /\ \A g \in Files \ {f} : disk'[g] = disk[g]
  /\ UNCHANGED <<directory, seen, private, removals>>

LEMMA OpenStep ==
  ASSUME KeygenInv, NEW r \in KeygenRuns, NEW f \in Files, NEW write \in Steps,
         OpenFile(r, f, write)
  PROVE  Opened(r, f, write)
  <1>1. KeygenTypeOK
    BY DEF KeygenInv
  <1>2. CASE CanCreate(f)
    <2>1. disk' = [disk EXCEPT ![f] = [by |-> r, full |-> FALSE]]
          /\ Goto(r, write)
      BY <1>2 DEF OpenFile
    <2>2. [by |-> r, full |-> FALSE] \in File
      BY DEF File
    <2>3. /\ disk' \in [Files -> File] /\ disk'[f].by = r
          /\ \A g \in Files \ {f} : disk'[g] = disk[g]
      BY <1>1, <2>1, <2>2 DEF KeygenTypeOK
    <2>4. DiskGrows
      BY <1>2, <2>3 DEF DiskGrows, CanCreate, OnDisk
    <2>5. QED
      BY <1>1, <2>1, <2>3, <2>4, GotoType DEF OpenFile, Opened
  <1>3. CASE ~CanCreate(f)
    <2>1. disk' = disk /\ Goto(r, "failed") /\ "failed" \in Steps
      BY <1>3 DEF OpenFile, Steps
    <2>2. QED
      BY <1>1, <2>1, GotoType, SameDisk
         DEF OpenFile, KeygenTypeOK, Opened
  <1>4. QED
    BY <1>2, <1>3

LEMMA WriteStep ==
  ASSUME KeygenInv, NEW r \in KeygenRuns, NEW f \in Files, NEW next \in Steps,
         WriteFile(r, f, next)
  PROVE  Written(r, f, next)
  <1>1. KeygenTypeOK /\ Goto(r, next)
    BY DEF KeygenInv, WriteFile
  <1>2. CASE disk[f].by = r
    <2>3. [by |-> r, full |-> TRUE] \in File
      BY DEF File
    <2>4. disk' = [disk EXCEPT ![f] = [by |-> r, full |-> TRUE]]
      BY <1>2 DEF WriteFile
    <2>5. /\ disk' \in [Files -> File]
          /\ disk'[f] = [by |-> r, full |-> TRUE]
          /\ \A g \in Files \ {f} : disk'[g] = disk[g]
      BY <1>1, <2>3, <2>4 DEF KeygenTypeOK
    <2>6. DiskGrows
      BY <1>2, <2>5 DEF DiskGrows
    <2>7. QED
      BY <1>1, <1>2, <2>5, <2>6, GotoType DEF WriteFile, Written
  <1>3. CASE disk[f].by # r
    <2>1. disk' = disk
      BY <1>3 DEF WriteFile
    <2>2. QED
      BY <1>1, <1>3, <2>1, GotoType, SameDisk
         DEF WriteFile, KeygenTypeOK, Written
  <1>4. QED
    BY <1>2, <1>3

LEMMA Writes ==
  ASSUME KeygenInv, NEW r \in KeygenRuns,
         WritePrivate(r) \/ WriteJWKS(r) \/ WriteEventToken(r)
  PROVE  Advances(r)
  <1>1. KeygenTypeOK /\ RunOK(r)
    BY DEF KeygenInv
  <1>2. /\ "private.pem" \in Files /\ "jwks.json" \in Files
        /\ "event-token" \in Files
        /\ {"write private.pem", "open jwks.json", "write jwks.json", "event?",
            "write event-token", "ready"} \subseteq Steps
    BY DEF Files, Steps
  <1>3. CASE step[r] = "open private.pem"
             /\ OpenFile(r, "private.pem", "write private.pem")
    <2>1. Opened(r, "private.pem", "write private.pem")
      BY <1>2, <1>3, OpenStep
    <2>2. RunOK(r)'
      BY <1>1, <1>2, <1>3, <2>1 DEF Opened, RunOK, Since
    <2>3. QED
      BY <1>1, <1>2, <1>3, <2>1, <2>2 DEF Opened, Advances, KeygenTypeOK
  <1>4. CASE step[r] = "write private.pem"
             /\ WriteFile(r, "private.pem", "open jwks.json")
    <2>1. Written(r, "private.pem", "open jwks.json")
      BY <1>2, <1>4, WriteStep
    <2>2. RunOK(r)'
      BY <1>1, <1>2, <1>4, <2>1 DEF Written, RunOK, Since
    <2>3. QED
      BY <1>1, <1>2, <1>4, <2>1, <2>2 DEF Written, Advances, KeygenTypeOK
  <1>5. CASE step[r] = "open jwks.json"
             /\ OpenFile(r, "jwks.json", "write jwks.json")
    <2>1. Opened(r, "jwks.json", "write jwks.json")
      BY <1>2, <1>5, OpenStep
    <2>2. RunOK(r)'
      BY <1>1, <1>2, <1>5, <2>1 DEF Opened, RunOK, Since
    <2>3. QED
      BY <1>1, <1>2, <1>5, <2>1, <2>2 DEF Opened, Advances, KeygenTypeOK
  <1>6. CASE step[r] = "write jwks.json"
             /\ WriteFile(r, "jwks.json", "event?")
    <2>1. Written(r, "jwks.json", "event?")
      BY <1>2, <1>6, WriteStep
    <2>2. ASSUME Since(r) PROVE PairMade'
      <3>1. /\ disk["private.pem"] = [by |-> r, full |-> TRUE]
            /\ disk["jwks.json"].by = r
        BY <1>1, <1>6, <2>2 DEF RunOK
      <3>2. /\ disk'["private.pem"] = [by |-> r, full |-> TRUE]
            /\ disk'["jwks.json"] = [by |-> r, full |-> TRUE]
        BY <1>2, <2>1, <3>1 DEF Written
      <3>3. QED
        BY <3>2 DEF PairMade, Whole
    <2>3. RunOK(r)'
      BY <1>1, <1>2, <1>6, <2>1, <2>2 DEF Written, RunOK, Since
    <2>4. QED
      BY <1>1, <1>2, <1>6, <2>1, <2>3 DEF Written, Advances, KeygenTypeOK
  <1>7. CASE step[r] = "open event-token"
             /\ OpenFile(r, "event-token", "write event-token")
    <2>1. Opened(r, "event-token", "write event-token")
      BY <1>2, <1>7, OpenStep
    <2>2. Since(r) => PairMade'
      BY <1>1, <1>2, <1>7, <2>1 DEF Opened, RunOK, PairMade, Whole
    <2>3. RunOK(r)'
      BY <1>1, <1>2, <1>7, <2>1, <2>2 DEF Opened, RunOK, Since
    <2>4. QED
      BY <1>1, <1>2, <1>7, <2>1, <2>3 DEF Opened, Advances, KeygenTypeOK
  <1>8. CASE step[r] = "write event-token"
             /\ WriteFile(r, "event-token", "ready")
    <2>1. Written(r, "event-token", "ready")
      BY <1>2, <1>8, WriteStep
    <2>2. ASSUME Since(r) PROVE PairMade' /\ Whole("event-token")'
      <3>1. PairMade /\ disk["event-token"].by = r
        BY <1>1, <1>8, <2>2 DEF RunOK
      <3>2. /\ disk'["private.pem"] = disk["private.pem"]
            /\ disk'["jwks.json"] = disk["jwks.json"]
            /\ disk'["event-token"] = [by |-> r, full |-> TRUE]
        BY <1>2, <2>1, <3>1 DEF Written
      <3>3. QED
        BY <3>1, <3>2 DEF PairMade, Whole
    <2>3. RunOK(r)'
      BY <1>1, <1>2, <1>8, <2>1, <2>2 DEF Written, RunOK, Since
    <2>4. QED
      BY <1>1, <1>2, <1>8, <2>1, <2>3 DEF Written, Advances, KeygenTypeOK
  <1>9. QED
    BY <1>3, <1>4, <1>5, <1>6, <1>7, <1>8
       DEF WritePrivate, WriteJWKS, WriteEventToken

(* After a removal every run has begun before it. *)
LEMMA Removal == KeygenInv /\ RemoveDirectory => KeygenInv'
  <1> SUFFICES ASSUME KeygenInv, RemoveDirectory PROVE KeygenInv'
    OBVIOUS
  <1>1. KeygenTypeOK
    BY DEF KeygenInv
  <1>2. /\ removals' \in [KeygenRuns \cup {NoRun} -> 0 .. MaxRemovals]
        /\ removals'[NoRun] = removals[NoRun] + 1
        /\ \A r \in KeygenRuns : removals'[r] = removals[r]
    BY <1>1, NoRunType, KeygenAssumption DEF RemoveDirectory, KeygenTypeOK
  <1>3. Absent \in File
    BY DEF File
  <1>4. KeygenTypeOK'
    BY <1>1, <1>2, <1>3 DEF RemoveDirectory, KeygenTypeOK
  <1>5. ASSUME NEW r \in KeygenRuns PROVE RunOK(r)'
    <2>1. removals[r] \in Nat /\ removals[NoRun] \in Nat
      BY <1>1, KeygenAssumption DEF KeygenTypeOK
    <2>2. RunOK(r)
      BY DEF KeygenInv
    <2>3. removals[r] <= removals[NoRun]
      BY <2>2 DEF RunOK
    <2>4. removals'[r] <= removals'[NoRun] /\ removals'[r] # removals'[NoRun]
      BY <1>2, <2>1, <2>3
    <2>5. step'[r] = step[r] /\ private'[r] = private[r] /\ ~Since(r)'
      BY <2>4 DEF Since, RemoveDirectory
    <2>6. QED
      BY <2>2, <2>4, <2>5 DEF RunOK
  <1>6. QED
    BY <1>4, <1>5 DEF KeygenInv

LEMMA KeygenStep == KeygenInv /\ [KeygenNext]_keygenVars => KeygenInv'
  <1> SUFFICES ASSUME KeygenInv, [KeygenNext]_keygenVars PROVE KeygenInv'
    OBVIOUS
  <1>1. CASE UNCHANGED keygenVars
    BY <1>1 DEF keygenVars, KeygenInv, KeygenTypeOK, RunOK, Since, PairMade,
                Whole
  <1>2. QED
    BY <1>1, Stats, Reads, Writes, RunAdvances, Removal DEF KeygenNext

LEMMA KeygenInvariance == KeygenSpec => []KeygenInv
BY KeygenStart, KeygenStep, PTL DEF KeygenSpec

(***************************************************************************)
(* However many generator runs overlap, and wherever they are killed: once *)
(* one of them reports ready, all files are whole and the bundle belongs   *)
(* to the private key, unless the directory was removed meanwhile.         *)
(***************************************************************************)
THEOREM ReadyPair == KeygenSpec => []ReadyMeansPair
  <1>1. KeygenInv => ReadyMeansPair
    BY DEF KeygenInv, RunOK, ReadyMeansPair, Since, PairMade, Whole, Files
  <1>2. QED
    BY <1>1, KeygenInvariance, PTL

(* Every variable of the generator keeps its type. *)
THEOREM KeygenTypes == KeygenSpec => []KeygenTypeOK
BY KeygenInvariance, PTL DEF KeygenInv

-----------------------------------------------------------------------------
(* A key that may be used: a stray one, or one that both the bundle and    *)
(* the running Distribution have.                                          *)
Usable(k) == k \in Strays \/ k \in bundle \cap trusted

(* Whatever a token's key has become since, it verifies or has expired.    *)
TokenOK(t) ==
  /\ t.iat <= hour /\ t.nbf = t.iat - ClockSkew /\ t.exp = t.iat + TokenTTL
  /\ t.by = "control-plane" => t.kid \in SigningKeySet
  /\ t.kid \in SigningKeySet => t.kid \in bundle \cap trusted \/ Expired(t)

SigningInv ==
  /\ SigningTypeOK
  /\ bundle \cap retired = {}
  /\ Usable(keyFile)
  /\ \A p \in Processes : signer[p] # NotRunning => Usable(signer[p])
  /\ signer["control-plane"] # NotRunning => signer["control-plane"] \in SigningKeySet
  /\ starting # NotRunning => Usable(starting) \/ starting \in retired
  /\ \A t \in minted : TokenOK(t)

LEMMA SigningStart == SigningInit => SigningInv
BY SigningAssumption
   DEF SigningInit, SigningInv, SigningTypeOK, Usable, AnyKey, Processes

(* A step that leaves the keys, the trust and the clock alone disturbs no  *)
(* token.                                                                  *)
LEMMA TokensKept ==
  ASSUME SigningInv, UNCHANGED <<hour, drift, bundle, trusted>>
  PROVE  \A t \in minted : TokenOK(t)'
BY DEF SigningInv, TokenOK, Expired, VerifierNow

LEMMA OperatorKeeps ==
  ASSUME SigningInv,
         \/ \E k \in SigningKeySet : PublishKey(k)
         \/ \E k \in AnyKey : InstallKey(k)
         \/ RestartDistribution
  PROVE  SigningInv'
  <1>1. CASE \E k \in SigningKeySet : PublishKey(k)
    BY <1>1 DEF PublishKey, SigningInv, SigningTypeOK, Usable, TokenOK,
                Expired, VerifierNow
  <1>2. CASE \E k \in AnyKey : InstallKey(k)
    <2>1. PICK k \in AnyKey : InstallKey(k)
      BY <1>2
    <2>2. /\ keyFile' = k /\ Usable(k)
          /\ UNCHANGED <<bundle, retired, trusted, signer, starting, minted,
                         hour, drift>>
      BY <2>1 DEF InstallKey, Usable
    <2>3. \A t \in minted : TokenOK(t)'
      BY <2>2, TokensKept
    <2>4. QED
      BY <2>2, <2>3 DEF SigningInv, SigningTypeOK, Usable
  <1>3. CASE RestartDistribution
    BY <1>3 DEF RestartDistribution, SigningInv, SigningTypeOK, Usable,
                TokenOK, Expired, VerifierNow
  <1>4. QED
    BY <1>1, <1>2, <1>3

(* A key is retired only when its tokens have expired for every verifier.  *)
LEMMA RetireKeeps ==
  ASSUME SigningInv, NEW k \in SigningKeySet, Retire(k)
  PROVE  SigningInv'
  <1>1. /\ k \in bundle /\ k # keyFile
        /\ \A p \in Processes : signer[p] # k
        /\ \A t \in minted : t.kid = k => hour >= t.iat + TokenTTL + ClockSkew
        /\ bundle' = bundle \ {k} /\ retired' = retired \cup {k}
        /\ UNCHANGED <<keyFile, trusted, signer, starting, minted, hour, drift>>
    BY DEF Retire
  <1>2. k \notin Strays
    BY SigningAssumption
  <1>3. ASSUME NEW t \in minted PROVE TokenOK(t)'
    <2>1. TokenOK(t)
      BY DEF SigningInv
    <2>2. CASE t.kid = k
      <3>1. hour >= t.iat + TokenTTL + ClockSkew
        BY <1>1, <2>2
      <3>2. /\ hour \in Int /\ drift \in Int /\ drift >= -ClockSkew
            /\ t.iat \in Int /\ TokenTTL \in Int /\ ClockSkew \in Int
        BY SigningAssumption DEF SigningInv, SigningTypeOK, Minted
      <3>3. t.exp = t.iat + TokenTTL
        BY <2>1 DEF TokenOK
      <3>4. hour + drift >= t.exp
        BY <3>1, <3>2, <3>3
      <3>5. Expired(t)'
        BY <1>1, <3>4 DEF Expired, VerifierNow
      <3>6. QED
        BY <1>1, <2>1, <3>5 DEF TokenOK
    <2>3. CASE t.kid # k
      BY <1>1, <2>1, <2>3 DEF TokenOK, Expired, VerifierNow
    <2>4. QED
      BY <2>2, <2>3
  <1>4. SigningTypeOK'
    BY <1>1 DEF SigningInv, SigningTypeOK
  <1>5. QED
    BY <1>1, <1>2, <1>3, <1>4 DEF SigningInv, Usable

LEMMA ProcessesKeep ==
  ASSUME SigningInv,
         ReadKey \/ CheckTrust \/ StartWorker \/ \E p \in Processes : Crash(p)
  PROVE  SigningInv'
  <1>1. UNCHANGED <<keyFile, bundle, retired, trusted, minted, hour, drift>>
    BY DEF ReadKey, CheckTrust, StartWorker, Crash
  <1>2. \A t \in minted : TokenOK(t)'
    BY <1>1, TokensKept
  <1>3. CASE ReadKey
    BY <1>1, <1>2, <1>3 DEF ReadKey, SigningInv, SigningTypeOK, Usable
  <1>4. CASE CheckTrust
    <2>1. starting \in bundle => Usable(starting) /\ starting \in SigningKeySet
      BY <1>4, SigningAssumption
         DEF SigningInv, SigningTypeOK, Usable, CheckTrust
    <2>2. QED
      BY <1>1, <1>2, <1>4, <2>1
         DEF CheckTrust, SigningInv, SigningTypeOK, Usable, Processes, AnyKey
  <1>5. CASE StartWorker
    BY <1>1, <1>2, <1>5
       DEF StartWorker, SigningInv, SigningTypeOK, Usable, Processes, AnyKey
  <1>6. CASE \E p \in Processes : Crash(p)
    BY <1>1, <1>2, <1>6
       DEF Crash, SigningInv, SigningTypeOK, Usable, Processes, AnyKey
  <1>7. QED
    BY <1>3, <1>4, <1>5, <1>6

LEMMA MintKeeps ==
  ASSUME SigningInv, NEW p \in Processes, Mint(p)
  PROVE  SigningInv'
  <1>1. /\ signer[p] # NotRunning
        /\ UNCHANGED <<keyFile, bundle, retired, trusted, signer, starting,
                       hour, drift>>
        /\ minted' \subseteq minted \cup {Claims(p)}
    BY DEF Mint
  <1>2. /\ signer[p] \in AnyKey /\ Usable(signer[p])
        /\ hour \in Nat /\ TokenTTL \in Nat /\ ClockSkew \in Nat
        /\ p = "control-plane" => signer[p] \in SigningKeySet
    BY <1>1, SigningAssumption DEF SigningInv, SigningTypeOK
  <1>3. Claims(p) \in Minted
    BY <1>2 DEF Claims, Minted
  <1>4. TokenOK(Claims(p))
    BY <1>2, SigningAssumption DEF TokenOK, Claims, Usable
  <1>5. \A t \in minted' : TokenOK(t)
    BY <1>1, <1>4 DEF SigningInv
  <1>6. \A t \in minted' : TokenOK(t)'
    BY <1>1, <1>5 DEF TokenOK, Expired, VerifierNow
  <1>7. QED
    BY <1>1, <1>3, <1>6 DEF SigningInv, SigningTypeOK, Usable

LEMMA PassKeeps == SigningInv /\ Pass => SigningInv'
  <1> SUFFICES ASSUME SigningInv, Pass PROVE SigningInv'
    OBVIOUS
  <1>1. /\ hour < MaxHour /\ hour' = hour + 1 /\ minted' \subseteq minted
        /\ UNCHANGED <<keyFile, bundle, retired, trusted, signer, starting, drift>>
    BY DEF Pass
  <1>2. /\ hour \in Nat /\ hour' \in 0 .. MaxHour
        /\ drift \in Int
        /\ \A t \in minted : t.iat \in Nat /\ t.exp \in Nat
    BY <1>1, SigningAssumption DEF SigningInv, SigningTypeOK, Minted
  <1>3. ASSUME NEW t \in minted' PROVE TokenOK(t)'
    <2>1. TokenOK(t) /\ t \in minted
      BY <1>1 DEF SigningInv
    <2>2. t.iat <= hour' /\ (Expired(t) => Expired(t)')
      BY <1>1, <1>2, <2>1 DEF TokenOK, Expired, VerifierNow
    <2>3. QED
      BY <1>1, <2>1, <2>2 DEF TokenOK
  <1>4. QED
    BY <1>1, <1>2, <1>3 DEF SigningInv, SigningTypeOK, Usable

LEMMA SigningStep == SigningInv /\ [SigningNext]_keyVars => SigningInv'
  <1> SUFFICES ASSUME SigningInv, [SigningNext]_keyVars PROVE SigningInv'
    OBVIOUS
  <1>1. CASE UNCHANGED keyVars
    BY <1>1 DEF keyVars, SigningInv, SigningTypeOK, Usable, TokenOK, Expired,
                VerifierNow
  <1>2. QED
    BY <1>1, OperatorKeeps, RetireKeeps, ProcessesKeep, MintKeeps, PassKeeps
       DEF SigningNext

(***************************************************************************)
(* However long a rotation takes, whatever crashes meanwhile and whatever  *)
(* stray key is installed: no token that the control plane signed, and     *)
(* none the worker signed with a published key, is refused before it       *)
(* expires.                                                                *)
(***************************************************************************)
THEOREM TokensNeverRefused == SigningSpec => []TokensAccepted
  <1>1. SigningInv => TokensAccepted
    <2> SUFFICES ASSUME SigningInv, NEW t \in minted, ~Expired(t),
                        t.by = "control-plane" \/ t.kid \in SigningKeySet
                 PROVE  Verifies(t)
      BY DEF TokensAccepted
    <2>1. TokenOK(t)
      BY DEF SigningInv
    <2>2. t.kid \in trusted
      BY <2>1 DEF TokenOK
    <2>3. /\ hour \in Int /\ drift \in Int /\ drift >= -ClockSkew
          /\ ClockSkew \in Nat /\ t.iat \in Int
      BY SigningAssumption DEF SigningInv, SigningTypeOK, Minted
    <2>4. t.nbf <= t.iat /\ t.iat <= hour
      BY <2>1, <2>3 DEF TokenOK
    <2>5. QED
      BY <2>1, <2>2, <2>3, <2>4 DEF TokenOK, Verifies, VerifierNow
  <1>2. SigningSpec => []SigningInv
    BY SigningStart, SigningStep, PTL DEF SigningSpec
  <1>3. QED
    BY <1>1, <1>2, PTL

-----------------------------------------------------------------------------
InvitationRow == [redeemedBy : Callers \cup {NoCaller}, revoked : BOOLEAN,
                  expired : BOOLEAN]
Identity == [by : Callers \cup {NoCaller}, committed : BOOLEAN]
Inserted == {"namespace", "mark", "commit", "unanswered"}
Pending == {"commit", "unanswered"}            (* its rows can be committed *)
Settled == {"committed", "redeemed", "error"}  (* its rows may have been    *)
CallerSteps == {"idle", "user", "namespace", "mark", "commit", "unanswered",
                "committed", "revoke", "look"} \cup Answers
CallerState == [step : CallerSteps, name : Names, id : InvitationIds]

(* The row of a name is its inserter's, whose transaction is at a later    *)
(* statement or has committed.                                             *)
IdentityOK(n) ==
  LET c == identity[n].by IN
  IF c = NoCaller THEN ~identity[n].committed
  ELSE /\ caller[c].name = n
       /\ identity[n].committed =>
            /\ caller[c].step \in Settled
            /\ invitation[caller[c].id].redeemedBy = c
       /\ ~identity[n].committed => caller[c].step \in Inserted

(* An invitation is locked by the one transaction that is about to commit, *)
(* and stays redeemable until then, but for its expiry.                    *)
RowOK(i) ==
  /\ rowLock[i] # NoCaller =>
       /\ caller[rowLock[i]].step \in Pending /\ caller[rowLock[i]].id = i
       /\ invitation[i].redeemedBy = NoCaller /\ ~invitation[i].revoked
  /\ invitation[i].redeemedBy # NoCaller =>
       /\ caller[invitation[i].redeemedBy].step \in Settled
       /\ caller[invitation[i].redeemedBy].id = i
       /\ LET n == caller[invitation[i].redeemedBy].name IN
          identity[n].committed /\ identity[n].by = invitation[i].redeemedBy
       /\ ~invitation[i].revoked

CallerOK(c) ==
  /\ caller[c].step \in Inserted \cup {"committed", "redeemed"} =>
       identity[caller[c].name].by = c
  /\ caller[c].step \in {"committed", "redeemed"} =>
       identity[caller[c].name].committed
  /\ caller[c].step \in Pending => rowLock[caller[c].id] = c
  /\ At(c, "revoked") => invitation[caller[c].id].revoked

InvitationInv ==
  /\ InvitationTypeOK
  /\ \A n \in Names : IdentityOK(n)
  /\ \A i \in InvitationIds : RowOK(i)
  /\ \A c \in Callers : CallerOK(c)

LEMMA Types ==
  InvitationTypeOK <=>
    /\ invitation \in [InvitationIds -> InvitationRow]
    /\ identity \in [Names -> Identity]
    /\ rowLock \in [InvitationIds -> Callers \cup {NoCaller}]
    /\ caller \in [Callers -> CallerState]
BY DEF InvitationTypeOK, InvitationRow, Identity, CallerState, CallerSteps

LEMMA InvitationStart == InvitationInit => InvitationInv
  <1> SUFFICES ASSUME InvitationInit PROVE InvitationInv
    OBVIOUS
  <1>1. /\ (CHOOSE n \in Names : TRUE) \in Names
        /\ (CHOOSE i \in InvitationIds : TRUE) \in InvitationIds
    BY InvitationAssumption
  <1>2. Resting \in CallerState /\ Resting.step = "idle"
    BY <1>1 DEF Resting, CallerState, CallerSteps
  <1>3. Fresh \in InvitationRow /\ NoIdentity \in Identity
    BY DEF Fresh, InvitationRow, NoIdentity, Identity
  <1>4. InvitationTypeOK
    BY <1>2, <1>3, Types DEF InvitationInit
  <1>5. QED
    BY <1>2, <1>4, InvitationAssumption
       DEF InvitationInit, InvitationInv, IdentityOK, RowOK, CallerOK, At,
           Fresh, NoIdentity, Inserted, Pending, Settled

-----------------------------------------------------------------------------
(* The step of a caller, and nothing else of it, changes.                  *)
LEMMA GoFields ==
  ASSUME InvitationTypeOK, NEW c \in Callers, NEW s \in CallerSteps, Go(c, s)
  PROVE  /\ caller' \in [Callers -> CallerState]
         /\ At(c, s)' /\ caller'[c].name = caller[c].name
         /\ caller'[c].id = caller[c].id
         /\ \A d \in Callers \ {c} : caller'[d] = caller[d]
BY Types DEF Go, At, CallerState

(* A transaction that has not committed takes back what it did: nobody     *)
(* relied on it.                                                           *)
LEMMA RolledBackKeeps ==
  ASSUME InvitationInv, NEW c \in Callers,
         NEW a \in {"conflict", "invalid", "error"},
         caller[c].step \in {"user", "namespace", "mark", "commit", "unanswered"},
         RolledBack(c, a)
  PROVE  InvitationInv'
  <1>1. InvitationTypeOK /\ a \in CallerSteps
    BY DEF InvitationInv, CallerSteps, Answers
  <1>2. /\ caller' \in [Callers -> CallerState]
        /\ At(c, a)' /\ caller'[c].name = caller[c].name
        /\ caller'[c].id = caller[c].id
        /\ \A d \in Callers \ {c} : caller'[d] = caller[d]
    BY <1>1, GoFields DEF RolledBack
  <1>3. /\ \A n \in Names :
             /\ identity[n].by = c /\ ~identity[n].committed =>
                  identity'[n] = NoIdentity
             /\ ~(identity[n].by = c /\ ~identity[n].committed) =>
                  identity'[n] = identity[n]
        /\ \A i \in InvitationIds :
             /\ rowLock[i] = c => rowLock'[i] = NoCaller
             /\ rowLock[i] # c => rowLock'[i] = rowLock[i]
        /\ invitation' = invitation
    BY DEF RolledBack
  <1>4. InvitationTypeOK'
    <2>1. NoIdentity \in Identity
      BY DEF NoIdentity, Identity
    <2>2. identity' \in [Names -> Identity]
      BY <1>1, <2>1, Types DEF RolledBack
    <2>3. rowLock' \in [InvitationIds -> Callers \cup {NoCaller}]
      BY <1>1, Types DEF RolledBack
    <2>4. QED
      BY <1>1, <1>2, <1>3, <2>2, <2>3
         DEF InvitationTypeOK, InvitationRow, Identity, CallerState, CallerSteps
  <1>5. ASSUME NEW n \in Names PROVE IdentityOK(n)'
    <2>1. IdentityOK(n) /\ identity[n] \in Identity
      BY <1>1, Types DEF InvitationInv
    <2>2. CASE identity[n].by = c
      <3>1. ~identity[n].committed
        BY <2>1, <2>2, InvitationAssumption DEF IdentityOK, Settled
      <3>2. identity'[n] = NoIdentity
        BY <1>3, <2>2, <3>1
      <3>3. QED
        BY <3>2 DEF IdentityOK, NoIdentity
    <2>3. CASE identity[n].by # c
      <3>1. identity'[n] = identity[n]
        BY <1>3, <2>3
      <3>2. identity[n].by # NoCaller => caller'[identity[n].by] = caller[identity[n].by]
        BY <1>2, <2>1, <2>3 DEF Identity
      <3>3. QED
        BY <1>3, <2>1, <3>1, <3>2 DEF IdentityOK
    <2>4. QED
      BY <2>2, <2>3
  <1>6. ASSUME NEW i \in InvitationIds PROVE RowOK(i)'
    <2>1. RowOK(i) /\ rowLock[i] \in Callers \cup {NoCaller}
          /\ invitation[i].redeemedBy \in Callers \cup {NoCaller}
      BY <1>1, Types DEF InvitationInv, InvitationRow
    <2>2. invitation[i].redeemedBy # c
      BY <2>1, InvitationAssumption DEF RowOK, Settled
    <2>3. invitation[i].redeemedBy # NoCaller =>
            LET n == caller[invitation[i].redeemedBy].name IN
            identity'[n] = identity[n]
      BY <1>1, <1>3, <2>1, <2>2, Types DEF RowOK, CallerState
    <2>4. QED
      BY <1>2, <1>3, <2>1, <2>2, <2>3 DEF RowOK
  <1>7. ASSUME NEW d \in Callers PROVE CallerOK(d)'
    <2>1. CallerOK(d) /\ caller[d].name \in Names /\ caller[d].id \in InvitationIds
      BY <1>1, Types DEF InvitationInv, CallerState
    <2>2. CASE d = c
      BY <1>2, <2>2 DEF CallerOK, At, Inserted, Pending, Settled
    <2>3. CASE d # c
      <3>1. caller'[d] = caller[d]
        BY <1>2, <2>3
      <3>2. identity[caller[d].name].by = d =>
              identity'[caller[d].name] = identity[caller[d].name]
        BY <1>3, <2>1, <2>3
      <3>3. rowLock[caller[d].id] = d =>
              rowLock'[caller[d].id] = rowLock[caller[d].id]
        BY <1>3, <2>1, <2>3
      <3>4. QED
        BY <1>3, <2>1, <3>1, <3>2, <3>3
           DEF CallerOK, At, Inserted, Pending, Settled
    <2>4. QED
      BY <2>2, <2>3
  <1>8. QED
    BY <1>4, <1>5, <1>6, <1>7 DEF InvitationInv

(***************************************************************************)
(* Steps of a caller that change no row: from a step at which nothing is   *)
(* inserted or known to another such one.                                  *)
(***************************************************************************)
LEMMA CallerMoves ==
  ASSUME InvitationInv, NEW c \in Callers, InvitationTypeOK',
         caller[c].step \in {"idle", "user", "revoke", "look"},
         UNCHANGED <<invitation, identity, rowLock>>,
         \A d \in Callers \ {c} : caller'[d] = caller[d],
         caller'[c].step \in {"user", "revoke", "look", "revoked", "invalid", "error"},
         At(c, "revoked")' => invitation[caller'[c].id].revoked
  PROVE  InvitationInv'
  <1>1. \A n \in Names : IdentityOK(n) /\ identity[n].by # c
                          /\ identity[n].by \in Callers \cup {NoCaller}
    BY InvitationAssumption, Types
       DEF InvitationInv, IdentityOK, At, Inserted, Pending, Settled, Identity
  <1>2. ASSUME NEW n \in Names PROVE IdentityOK(n)'
    BY <1>1 DEF IdentityOK, At, Settled
  <1>3. \A i \in InvitationIds :
          /\ RowOK(i) /\ rowLock[i] # c /\ invitation[i].redeemedBy # c
          /\ rowLock[i] \in Callers \cup {NoCaller}
          /\ invitation[i].redeemedBy \in Callers \cup {NoCaller}
    BY InvitationAssumption, Types
       DEF InvitationInv, RowOK, At, Pending, Settled, InvitationRow
  <1>4. ASSUME NEW i \in InvitationIds PROVE RowOK(i)'
    BY <1>3 DEF RowOK, At, Pending, Settled
  <1>5. ASSUME NEW d \in Callers PROVE CallerOK(d)'
    <2>1. CASE d = c
      BY <2>1 DEF CallerOK, At, Inserted, Pending, Settled
    <2>2. CASE d # c
      BY <2>2 DEF InvitationInv, CallerOK, At, Inserted, Pending
    <2>3. QED
      BY <2>1, <2>2
  <1>6. QED
    BY <1>2, <1>4, <1>5 DEF InvitationInv

LEMMA StartsKeep ==
  ASSUME InvitationInv, NEW c \in Callers, NEW i \in InvitationIds,
         StartRevoke(c, i) \/ \E n \in Names : StartRedeem(c, n, i)
  PROVE  InvitationInv'
  <1>1. caller \in [Callers -> CallerState] /\ InvitationTypeOK
    BY Types DEF InvitationInv
  <1>2. CASE StartRevoke(c, i)
    <2>1. PICK new : new = [caller[c] EXCEPT !.step = "revoke", !.id = i]
      OBVIOUS
    <2>2. new \in CallerState /\ new.step = "revoke"
      BY <1>1, <2>1 DEF CallerState, CallerSteps
    <2>3. caller' = [caller EXCEPT ![c] = new]
      BY <1>2, <2>1 DEF StartRevoke
    <2>4. /\ caller' \in [Callers -> CallerState] /\ caller'[c] = new
          /\ \A d \in Callers \ {c} : caller'[d] = caller[d]
      BY <1>1, <2>2, <2>3
    <2>5. InvitationTypeOK'
      BY <1>1, <1>2, <2>4
         DEF StartRevoke, InvitationTypeOK, CallerState, CallerSteps
    <2>6. QED
      BY <1>2, <2>2, <2>4, <2>5, CallerMoves DEF StartRevoke, At
  <1>3. CASE \E n \in Names : StartRedeem(c, n, i)
    <2>1. PICK n \in Names : StartRedeem(c, n, i)
      BY <1>3
    <2>2. PICK new : new = [step |-> "user", name |-> n, id |-> i]
      OBVIOUS
    <2>3. new \in CallerState /\ new.step = "user"
      BY <2>2 DEF CallerState, CallerSteps
    <2>4. /\ caller' \in [Callers -> CallerState] /\ caller'[c] = new
          /\ \A d \in Callers \ {c} : caller'[d] = caller[d]
      BY <1>1, <2>1, <2>2, <2>3 DEF StartRedeem
    <2>5. InvitationTypeOK'
      BY <1>1, <2>1, <2>4
         DEF StartRedeem, InvitationTypeOK, CallerState, CallerSteps
    <2>6. QED
      BY <2>1, <2>3, <2>4, <2>5, CallerMoves DEF StartRedeem, At
  <1>4. QED
    BY <1>2, <1>3

(* The user's row goes to the caller who finds none. *)
LEMMA InsertKeeps ==
  ASSUME InvitationInv, NEW c \in Callers, InsertUser(c)
  PROVE  InvitationInv'
  <1> DEFINE n == caller[c].name
  <1>1. /\ InvitationTypeOK /\ caller[c] \in CallerState /\ n \in Names
        /\ identity \in [Names -> Identity]
    BY Types DEF InvitationInv, CallerState
  <1>2. At(c, "user")
    BY DEF InsertUser
  <1>3. CASE RolledBack(c, "conflict")
    BY <1>2, <1>3, RolledBackKeeps DEF At
  <1>4. CASE /\ identity[n] = NoIdentity
             /\ identity' = [identity EXCEPT ![n] = [by |-> c, committed |-> FALSE]]
             /\ Go(c, "namespace")
             /\ UNCHANGED <<invitation, rowLock>>
    <2>1. /\ caller' \in [Callers -> CallerState]
          /\ At(c, "namespace")' /\ caller'[c].name = n
          /\ caller'[c].id = caller[c].id
          /\ \A d \in Callers \ {c} : caller'[d] = caller[d]
      BY <1>1, <1>4, GoFields DEF CallerSteps
    <2>2. [by |-> c, committed |-> FALSE] \in Identity
      BY DEF Identity
    <2>3. /\ identity' \in [Names -> Identity]
          /\ identity'[n] = [by |-> c, committed |-> FALSE]
          /\ \A k \in Names \ {n} : identity'[k] = identity[k]
      BY <1>1, <1>4, <2>2
    <2>4. InvitationTypeOK'
      BY <1>1, <1>4, <2>1, <2>3
         DEF InvitationTypeOK, Identity, CallerState, CallerSteps
    <2>5. identity[n].by = NoCaller
      BY <1>4 DEF NoIdentity
    <2> HIDE DEF n
    <2>6. ASSUME NEW k \in Names PROVE IdentityOK(k)'
      <3>1. CASE k = n
        BY <2>1, <2>3, <3>1 DEF IdentityOK, At, Inserted, Pending, Settled
      <3>2. CASE k # n
        <4>1. IdentityOK(k) /\ identity[k].by \in Callers \cup {NoCaller}
          BY <1>1 DEF InvitationInv, Identity
        <4>2. identity[k].by # c
          BY <1>2, <4>1, InvitationAssumption
             DEF IdentityOK, At, Inserted, Pending, Settled
        <4>3. identity'[k] = identity[k]
          BY <2>3, <3>2
        <4>4. QED
          BY <1>4, <2>1, <4>1, <4>2, <4>3 DEF IdentityOK
      <3>3. QED
        BY <3>1, <3>2
    <2>7. ASSUME NEW i \in InvitationIds PROVE RowOK(i)'
      <3>1. /\ RowOK(i) /\ rowLock[i] \in Callers \cup {NoCaller}
            /\ invitation[i].redeemedBy \in Callers \cup {NoCaller}
        BY Types DEF InvitationInv, InvitationRow
      <3>2. rowLock[i] # c /\ invitation[i].redeemedBy # c
        BY <1>2, <3>1, InvitationAssumption DEF RowOK, At, Pending, Settled
      <3>3. invitation[i].redeemedBy # NoCaller =>
              LET k == caller[invitation[i].redeemedBy].name IN
              identity'[k] = identity[k]
        <4>1. SUFFICES ASSUME invitation[i].redeemedBy # NoCaller
                       PROVE  LET k == caller[invitation[i].redeemedBy].name IN
                              identity'[k] = identity[k]
          OBVIOUS
        <4>2. PICK d \in Callers : d = invitation[i].redeemedBy
          BY <3>1, <4>1
        <4>3. caller[d].name \in Names /\ identity[caller[d].name].by = d
          BY <3>1, <4>1, <4>2, Types DEF RowOK, InvitationInv, CallerState
        <4>4. caller[d].name # n
          BY <2>5, <4>3, InvitationAssumption
        <4>5. QED
          BY <2>3, <4>2, <4>3, <4>4
      <3>4. QED
        BY <1>4, <2>1, <3>1, <3>2, <3>3 DEF RowOK
    <2>8. ASSUME NEW d \in Callers PROVE CallerOK(d)'
      <3>1. CASE d = c
        BY <2>1, <2>3, <3>1 DEF CallerOK, At, Inserted, Pending, n
      <3>2. CASE d # c
        <4>1. CallerOK(d) /\ caller[d].name \in Names
          BY Types DEF InvitationInv, CallerState
        <4>2. identity[caller[d].name].by = d =>
                identity'[caller[d].name] = identity[caller[d].name]
          BY <2>3, <2>5, <4>1, InvitationAssumption
        <4>3. QED
          BY <1>4, <2>1, <3>2, <4>1, <4>2
             DEF CallerOK, At, Inserted, Pending, Settled
      <3>3. QED
        BY <3>1, <3>2
    <2>9. QED
      BY <2>4, <2>6, <2>7, <2>8 DEF InvitationInv
  <1>5. QED
    BY <1>3, <1>4 DEF InsertUser

(* A transaction goes on: its rows are kept, and so is its lock if it has  *)
(* one.                                                                    *)
LEMMA NamespaceKeeps ==
  ASSUME InvitationInv, NEW c \in Callers, InsertNamespace(c)
  PROVE  InvitationInv'
  <1>1. InvitationTypeOK /\ At(c, "namespace")
    BY DEF InvitationInv, InsertNamespace
  <1>2. CASE RolledBack(c, "conflict")
    BY <1>1, <1>2, RolledBackKeeps DEF At
  <1>3. CASE Go(c, "mark") /\ UNCHANGED <<invitation, identity, rowLock>>
    <2>1. /\ caller' \in [Callers -> CallerState]
          /\ At(c, "mark")' /\ caller'[c].name = caller[c].name
          /\ caller'[c].id = caller[c].id
          /\ \A d \in Callers \ {c} : caller'[d] = caller[d]
      BY <1>1, <1>3, GoFields DEF CallerSteps
    <2>2. InvitationTypeOK'
      BY <1>1, <1>3, <2>1 DEF InvitationTypeOK, CallerState, CallerSteps
    <2>3. ASSUME NEW k \in Names PROVE IdentityOK(k)'
      <3>1. IdentityOK(k) /\ identity[k].by \in Callers \cup {NoCaller}
        BY Types DEF InvitationInv, Identity
      <3>2. QED
        BY <1>1, <1>3, <2>1, <3>1 DEF IdentityOK, At, Inserted, Pending, Settled
    <2>4. ASSUME NEW i \in InvitationIds PROVE RowOK(i)'
      <3>1. /\ RowOK(i) /\ rowLock[i] \in Callers \cup {NoCaller}
            /\ invitation[i].redeemedBy \in Callers \cup {NoCaller}
        BY Types DEF InvitationInv, InvitationRow
      <3>2. rowLock[i] # c /\ invitation[i].redeemedBy # c
        BY <1>1, <3>1, InvitationAssumption DEF RowOK, At, Pending, Settled
      <3>3. QED
        BY <1>3, <2>1, <3>1, <3>2 DEF RowOK, At, Pending, Settled
    <2>5. ASSUME NEW d \in Callers PROVE CallerOK(d)'
      BY <1>1, <1>3, <2>1
         DEF InvitationInv, CallerOK, At, Inserted, Pending, Settled
    <2>6. QED
      BY <2>2, <2>3, <2>4, <2>5 DEF InvitationInv
  <1>4. QED
    BY <1>2, <1>3 DEF InsertNamespace

(* The row is locked only if it is redeemable. *)
LEMMA MarkKeeps ==
  ASSUME InvitationInv, NEW c \in Callers, MarkRedeemed(c)
  PROVE  InvitationInv'
  <1> DEFINE i == caller[c].id
  <1>1. /\ InvitationTypeOK /\ At(c, "mark") /\ i \in InvitationIds
        /\ rowLock[i] = NoCaller
    BY Types DEF InvitationInv, MarkRedeemed, CallerState
  <1>2. CASE RolledBack(c, "invalid")
    BY <1>1, <1>2, RolledBackKeeps DEF At
  <1>3. CASE /\ Redeemable(i) /\ rowLock' = [rowLock EXCEPT ![i] = c]
             /\ Go(c, "commit") /\ UNCHANGED <<invitation, identity>>
    <2>1. /\ caller' \in [Callers -> CallerState]
          /\ At(c, "commit")' /\ caller'[c].name = caller[c].name
          /\ caller'[c].id = i
          /\ \A d \in Callers \ {c} : caller'[d] = caller[d]
      BY <1>1, <1>3, GoFields DEF CallerSteps
    <2>2. /\ rowLock' \in [InvitationIds -> Callers \cup {NoCaller}]
          /\ rowLock'[i] = c
          /\ \A j \in InvitationIds \ {i} : rowLock'[j] = rowLock[j]
      BY <1>1, <1>3, Types
    <2> HIDE DEF i
    <2>3. InvitationTypeOK'
      BY <1>1, <1>3, <2>1, <2>2 DEF InvitationTypeOK, CallerState, CallerSteps
    <2>4. ASSUME NEW k \in Names PROVE IdentityOK(k)'
      <3>1. IdentityOK(k) /\ identity[k].by \in Callers \cup {NoCaller}
        BY Types DEF InvitationInv, Identity
      <3>2. QED
        BY <1>1, <1>3, <2>1, <3>1 DEF IdentityOK, At, Inserted, Pending, Settled
    <2>5. ASSUME NEW j \in InvitationIds PROVE RowOK(j)'
      <3>1. /\ RowOK(j) /\ rowLock[j] \in Callers \cup {NoCaller}
            /\ invitation[j].redeemedBy \in Callers \cup {NoCaller}
        BY Types DEF InvitationInv, InvitationRow
      <3>2. rowLock[j] # c /\ invitation[j].redeemedBy # c
        BY <1>1, <3>1, InvitationAssumption DEF RowOK, At, Pending, Settled
      <3>3. CASE j = i
        BY <1>3, <2>1, <2>2, <3>3, InvitationAssumption
           DEF RowOK, At, Pending, Settled, Redeemable
      <3>4. CASE j # i
        BY <1>3, <2>1, <2>2, <3>1, <3>2, <3>4 DEF RowOK, At, Pending, Settled
      <3>5. QED
        BY <3>3, <3>4
    <2>6. ASSUME NEW d \in Callers PROVE CallerOK(d)'
      <3>1. CallerOK(d) /\ caller[d].id \in InvitationIds
        BY Types DEF InvitationInv, CallerState
      <3>2. CASE d = c
        BY <1>1, <1>3, <2>1, <2>2, <3>1, <3>2
           DEF CallerOK, At, Inserted, Pending, Settled
      <3>3. CASE d # c
        <4>1. rowLock[caller[d].id] = d => rowLock'[caller[d].id] = d
          BY <1>1, <2>2, <3>1, InvitationAssumption
        <4>2. QED
          BY <1>3, <2>1, <3>1, <3>3, <4>1
             DEF CallerOK, At, Inserted, Pending, Settled
      <3>4. QED
        BY <3>2, <3>3
    <2>7. QED
      BY <2>3, <2>4, <2>5, <2>6 DEF InvitationInv
  <1>4. QED
    BY <1>2, <1>3 DEF MarkRedeemed

LEMMA CommitKeeps ==
  ASSUME InvitationInv, NEW c \in Callers, CommitRedeem(c)
  PROVE  InvitationInv'
  <1>1. PICK i : i = caller[c].id
    OBVIOUS
  <1>2. PICK n : n = caller[c].name
    OBVIOUS
  <1>3. /\ InvitationTypeOK /\ caller[c].step \in Pending
        /\ i \in InvitationIds /\ n \in Names
        /\ invitation \in [InvitationIds -> InvitationRow]
        /\ identity \in [Names -> Identity]
        /\ rowLock \in [InvitationIds -> Callers \cup {NoCaller}]
    BY <1>1, <1>2, Types
       DEF InvitationInv, CommitRedeem, CallerState, At, Pending
  <1>4. PICK next \in {"committed", "error"} : Go(c, next)
    BY DEF CommitRedeem
  <1>5. /\ invitation' = [invitation EXCEPT ![i].redeemedBy = c]
        /\ identity' = [identity EXCEPT ![n] = [by |-> c, committed |-> TRUE]]
        /\ rowLock' = [rowLock EXCEPT ![i] = NoCaller]
    BY <1>1, <1>2 DEF CommitRedeem
  <1>6. /\ caller' \in [Callers -> CallerState] /\ caller'[c].step = next
        /\ caller'[c].name = n /\ caller'[c].id = i
        /\ \A d \in Callers \ {c} : caller'[d] = caller[d]
    <2>1. next \in CallerSteps
      BY DEF CallerSteps, Answers
    <2>2. QED
      BY <1>1, <1>2, <1>3, <1>4, <2>1, GoFields DEF At
  <1>7. /\ invitation' \in [InvitationIds -> InvitationRow]
        /\ invitation'[i].redeemedBy = c
        /\ invitation'[i].revoked <=> invitation[i].revoked
        /\ \A j \in InvitationIds \ {i} : invitation'[j] = invitation[j]
    BY <1>3, <1>5 DEF InvitationRow
  <1>8. /\ identity' \in [Names -> Identity]
        /\ identity'[n].by = c /\ identity'[n].committed
        /\ \A k \in Names \ {n} : identity'[k] = identity[k]
    <2>1. [by |-> c, committed |-> TRUE] \in Identity
      BY DEF Identity
    <2>2. QED
      BY <1>3, <1>5, <2>1
  <1>9. /\ rowLock' \in [InvitationIds -> Callers \cup {NoCaller}]
        /\ rowLock'[i] = NoCaller
        /\ \A j \in InvitationIds \ {i} : rowLock'[j] = rowLock[j]
    BY <1>3, <1>5
  <1>10. InvitationTypeOK'
    BY <1>6, <1>7, <1>8, <1>9
       DEF InvitationTypeOK, InvitationRow, Identity, CallerState, CallerSteps
  <1>11. /\ rowLock[i] = c /\ identity[n].by = c
         /\ invitation[i].redeemedBy = NoCaller /\ ~invitation[i].revoked
    <2>1. CallerOK(c) /\ RowOK(i)
      BY <1>3 DEF InvitationInv
    <2>2. rowLock[i] = c /\ identity[n].by = c
      BY <1>1, <1>2, <1>3, <2>1 DEF CallerOK, Inserted, Pending
    <2>3. QED
      BY <2>1, <2>2, InvitationAssumption DEF RowOK
  <1>12. ASSUME NEW d \in Callers \ {c}
         PROVE  /\ caller'[d] = caller[d]
                /\ caller[d].id \in InvitationIds /\ caller[d].name \in Names
                /\ identity[caller[d].name].by = d =>
                     identity'[caller[d].name] = identity[caller[d].name]
                /\ invitation[caller[d].id].redeemedBy = d =>
                     invitation'[caller[d].id].redeemedBy = d
    <2>1. caller[d].id \in InvitationIds /\ caller[d].name \in Names
      BY Types DEF InvitationInv, CallerState
    <2>2. d # NoCaller
      BY InvitationAssumption
    <2>3. QED
      BY <1>6, <1>7, <1>8, <1>11, <2>1, <2>2
  <1>13. ASSUME NEW k \in Names PROVE IdentityOK(k)'
    <2>1. CASE k = n
      BY <1>6, <1>7, <1>8, <2>1, InvitationAssumption DEF IdentityOK, Settled
    <2>2. CASE k # n
      <3>1. IdentityOK(k) /\ identity[k].by \in Callers \cup {NoCaller}
        BY <1>3 DEF InvitationInv, Identity
      <3>2. identity[k].by # c /\ identity'[k] = identity[k]
        BY <1>2, <1>8, <2>2, <3>1, InvitationAssumption DEF IdentityOK
      <3>3. QED
        BY <1>12, <3>1, <3>2 DEF IdentityOK
    <2>3. QED
      BY <2>1, <2>2
  <1>14. ASSUME NEW j \in InvitationIds PROVE RowOK(j)'
    <2>1. CASE j = i
      BY <1>6, <1>7, <1>8, <1>9, <1>11, <2>1 DEF RowOK, Settled
    <2>2. CASE j # i
      <3>1. /\ RowOK(j) /\ rowLock[j] \in Callers \cup {NoCaller}
            /\ invitation[j].redeemedBy \in Callers \cup {NoCaller}
        BY <1>3 DEF InvitationInv, InvitationRow
      <3>2. rowLock[j] # c /\ invitation[j].redeemedBy # c
        BY <1>1, <2>2, <3>1, InvitationAssumption DEF RowOK
      <3>3. invitation'[j] = invitation[j] /\ rowLock'[j] = rowLock[j]
        BY <1>7, <1>9, <2>2
      <3>4. QED
        BY <1>12, <3>1, <3>2, <3>3 DEF RowOK
    <2>3. QED
      BY <2>1, <2>2
  <1>15. ASSUME NEW d \in Callers PROVE CallerOK(d)'
    <2>1. CASE d = c
      BY <1>4, <1>6, <1>8, <2>1 DEF CallerOK, At, Inserted, Pending
    <2>2. CASE d # c
      <3>1. CallerOK(d)
        BY DEF InvitationInv
      <3>2. /\ rowLock[caller[d].id] = d => rowLock'[caller[d].id] = d
            /\ invitation[caller[d].id].revoked =>
                 invitation'[caller[d].id].revoked
        BY <1>7, <1>9, <1>11, <1>12, <2>2
      <3>3. QED
        BY <1>12, <2>2, <3>1, <3>2 DEF CallerOK, At, Inserted, Pending
    <2>3. QED
      BY <2>1, <2>2
  <1>16. QED
    BY <1>10, <1>13, <1>14, <1>15 DEF InvitationInv

(* An acknowledgement arrives, or is lost.                                 *)
LEMMA ReplyKeeps ==
  ASSUME InvitationInv, NEW c \in Callers, RedeemAnswered(c) \/ LoseReply(c)
  PROVE  InvitationInv'
  <1>1. /\ InvitationTypeOK /\ UNCHANGED <<invitation, identity, rowLock>>
    BY DEF InvitationInv, RedeemAnswered, LoseReply
  <1>2. PICK next \in {"redeemed", "unanswered", "error"} :
          /\ Go(c, next)
          /\ next = "unanswered" => At(c, "commit")
          /\ next # "unanswered" => At(c, "committed")
    BY DEF RedeemAnswered, LoseReply
  <1>3. next \in CallerSteps
    BY DEF CallerSteps, Answers
  <1>4. /\ caller' \in [Callers -> CallerState] /\ caller'[c].step = next
        /\ caller'[c].name = caller[c].name /\ caller'[c].id = caller[c].id
        /\ \A d \in Callers \ {c} : caller'[d] = caller[d]
    BY <1>1, <1>2, <1>3, GoFields DEF At
  <1>5. /\ caller[c].step \in Pending => caller'[c].step \in Pending
        /\ caller[c].step \in Settled => caller'[c].step \in Settled
        /\ caller[c].step \in Inserted => caller'[c].step \in Inserted
        /\ caller'[c].step \in Pending => caller[c].step \in Pending
        /\ caller'[c].step \in Inserted \cup {"committed", "redeemed"} =>
             caller[c].step \in Inserted \cup {"committed", "redeemed"}
        /\ caller'[c].step \in {"committed", "redeemed"} =>
             caller[c].step \in {"committed", "redeemed"}
        /\ caller'[c].step # "revoked"
    BY <1>2, <1>4 DEF At, Pending, Settled, Inserted
  <1>6. InvitationTypeOK'
    BY <1>1, <1>4 DEF InvitationTypeOK, CallerState, CallerSteps
  <1>7. ASSUME NEW d \in Callers
        PROVE  /\ caller'[d].name = caller[d].name /\ caller'[d].id = caller[d].id
               /\ caller[d].step \in Pending => caller'[d].step \in Pending
               /\ caller[d].step \in Settled => caller'[d].step \in Settled
               /\ caller[d].step \in Inserted => caller'[d].step \in Inserted
    BY <1>4, <1>5
  <1>8. ASSUME NEW k \in Names PROVE IdentityOK(k)'
    <2>1. IdentityOK(k) /\ identity[k].by \in Callers \cup {NoCaller}
      BY Types DEF InvitationInv, Identity
    <2>2. QED
      BY <1>1, <1>7, <2>1 DEF IdentityOK
  <1>9. ASSUME NEW j \in InvitationIds PROVE RowOK(j)'
    <2>1. /\ RowOK(j) /\ rowLock[j] \in Callers \cup {NoCaller}
          /\ invitation[j].redeemedBy \in Callers \cup {NoCaller}
      BY Types DEF InvitationInv, InvitationRow
    <2>2. QED
      BY <1>1, <1>7, <2>1 DEF RowOK
  <1>10. ASSUME NEW d \in Callers PROVE CallerOK(d)'
    <2>1. CallerOK(d)
      BY DEF InvitationInv
    <2>2. CASE d = c
      BY <1>1, <1>4, <1>5, <2>1, <2>2 DEF CallerOK, At
    <2>3. CASE d # c
      BY <1>1, <1>4, <2>1, <2>3 DEF CallerOK, At
    <2>4. QED
      BY <2>2, <2>3
  <1>11. QED
    BY <1>6, <1>8, <1>9, <1>10 DEF InvitationInv

(***************************************************************************)
(* An invitation that no transaction holds is revoked, or any one expires. *)
(***************************************************************************)
LEMMA RevokeKeeps ==
  ASSUME InvitationInv, NEW c \in Callers, RevokeRow(c) \/ LookAtRevoked(c)
                                               \/ RevokeFails(c)
  PROVE  InvitationInv'
  <1>1. PICK i : i = caller[c].id
    OBVIOUS
  <1>2. /\ InvitationTypeOK /\ i \in InvitationIds
        /\ invitation \in [InvitationIds -> InvitationRow]
        /\ UNCHANGED <<identity, rowLock>>
    BY <1>1, Types
       DEF InvitationInv, RevokeRow, LookAtRevoked, RevokeFails, CallerState
  <1>3. ASSUME NEW s \in {"revoked", "error"}, Go(c, s),
               At(c, "revoke"), Revocable(i), rowLock[i] = NoCaller,
               invitation' = [invitation EXCEPT ![i].revoked = TRUE]
        PROVE  InvitationInv'
    <2>1. /\ caller' \in [Callers -> CallerState]
          /\ caller'[c].step = s /\ caller'[c].id = i
          /\ \A d \in Callers \ {c} : caller'[d] = caller[d]
      <3>1. s \in CallerSteps
        BY DEF CallerSteps, Answers
      <3>2. QED
        BY <1>1, <1>2, <1>3, <3>1, GoFields DEF At
    <2>2. /\ invitation' \in [InvitationIds -> InvitationRow]
          /\ invitation'[i].revoked
          /\ invitation'[i].redeemedBy = invitation[i].redeemedBy
          /\ \A j \in InvitationIds \ {i} : invitation'[j] = invitation[j]
      BY <1>2, <1>3 DEF InvitationRow
    <2>3. InvitationTypeOK'
      BY <1>2, <2>1, <2>2
         DEF InvitationTypeOK, InvitationRow, CallerState, CallerSteps
    <2>4. ASSUME NEW k \in Names PROVE IdentityOK(k)'
      <3>0. \A d \in Callers : invitation'[caller[d].id].redeemedBy
                                  = invitation[caller[d].id].redeemedBy
        BY <1>2, <2>2, Types DEF InvitationInv, CallerState
      <3>1. IdentityOK(k) /\ identity[k].by \in Callers \cup {NoCaller}
        BY Types DEF InvitationInv, Identity
      <3>2. QED
        BY <1>2, <1>3, <2>1, <2>2, <3>1, <3>0, InvitationAssumption
           DEF IdentityOK, At, Inserted, Settled
    <2>5. ASSUME NEW j \in InvitationIds PROVE RowOK(j)'
      <3>1. /\ RowOK(j) /\ rowLock[j] \in Callers \cup {NoCaller}
            /\ invitation[j].redeemedBy \in Callers \cup {NoCaller}
        BY Types DEF InvitationInv, InvitationRow
      <3>2. rowLock[j] # c /\ invitation[j].redeemedBy # c
        BY <1>3, <3>1, InvitationAssumption DEF RowOK, At, Pending, Settled
      <3>3. CASE j = i
        BY <1>2, <1>3, <2>2, <3>3 DEF RowOK, Revocable
      <3>4. CASE j # i
        BY <1>2, <2>1, <2>2, <3>1, <3>2, <3>4 DEF RowOK, At, Pending, Settled
      <3>5. QED
        BY <3>3, <3>4
    <2>6. ASSUME NEW d \in Callers PROVE CallerOK(d)'
      <3>1. CallerOK(d) /\ caller[d].id \in InvitationIds
        BY Types DEF InvitationInv, CallerState
      <3>2. \A j \in InvitationIds :
              /\ invitation'[j].redeemedBy = invitation[j].redeemedBy
              /\ invitation[j].revoked => invitation'[j].revoked
        BY <1>2, <2>2
      <3>3. CASE d = c
        BY <2>1, <2>2, <3>3 DEF CallerOK, At, Inserted, Pending, Settled
      <3>4. CASE d # c
        BY <1>2, <2>1, <3>1, <3>2, <3>4
           DEF CallerOK, At, Inserted, Pending, Settled
      <3>5. QED
        BY <3>3, <3>4
    <2>7. QED
      BY <2>3, <2>4, <2>5, <2>6 DEF InvitationInv
  <1>4. ASSUME NEW s \in {"look", "revoked", "invalid", "error"},
               caller[c].step \in {"revoke", "look"},
               Go(c, s), invitation' = invitation,
               s = "revoked" => invitation[i].revoked
        PROVE  InvitationInv'
    <2>1. s \in CallerSteps
      BY DEF CallerSteps, Answers
    <2>2. /\ caller' \in [Callers -> CallerState]
          /\ At(c, s)' /\ caller'[c].id = i
          /\ \A d \in Callers \ {c} : caller'[d] = caller[d]
      BY <1>1, <1>2, <1>4, <2>1, GoFields
    <2>3. InvitationTypeOK'
      BY <1>2, <1>4, <2>2 DEF InvitationTypeOK, CallerState, CallerSteps
    <2>4. QED
      BY <1>2, <1>4, <2>2, <2>3, CallerMoves DEF At
  <1>5. CASE At(c, "revoke") /\ Go(c, "look") /\ UNCHANGED invitation
    BY <1>4, <1>5 DEF At
  <1>6. CASE LookAtRevoked(c)
    BY <1>1, <1>4, <1>6 DEF LookAtRevoked, At
  <1>7. CASE RevokeFails(c)
    BY <1>2, <1>4, <1>7 DEF RevokeFails, At
  <1>8. QED
    BY <1>1, <1>3, <1>5, <1>6, <1>7 DEF RevokeRow

LEMMA ExpireKeeps ==
  ASSUME InvitationInv, NEW i \in InvitationIds, Expire(i)
  PROVE  InvitationInv'
  <1>1. /\ InvitationTypeOK
        /\ invitation \in [InvitationIds -> InvitationRow]
        /\ invitation' = [invitation EXCEPT ![i].expired = TRUE]
        /\ UNCHANGED <<identity, rowLock, caller>>
    BY Types DEF InvitationInv, Expire
  <1>2. /\ invitation' \in [InvitationIds -> InvitationRow]
        /\ \A j \in InvitationIds :
             /\ invitation'[j].redeemedBy = invitation[j].redeemedBy
             /\ invitation'[j].revoked <=> invitation[j].revoked
    BY <1>1 DEF InvitationRow
  <1>3. InvitationTypeOK'
    BY <1>1, <1>2 DEF InvitationTypeOK, InvitationRow
  <1>4. ASSUME NEW k \in Names PROVE IdentityOK(k)'
    <2>1. /\ IdentityOK(k) /\ identity[k].by \in Callers \cup {NoCaller}
          /\ \A d \in Callers : caller[d].id \in InvitationIds
      BY Types DEF InvitationInv, Identity, CallerState
    <2>2. QED
      BY <1>1, <1>2, <2>1 DEF IdentityOK
  <1>5. ASSUME NEW j \in InvitationIds PROVE RowOK(j)'
    BY <1>1, <1>2 DEF InvitationInv, RowOK
  <1>6. ASSUME NEW d \in Callers PROVE CallerOK(d)'
    <2>1. CallerOK(d) /\ caller[d].id \in InvitationIds
      BY Types DEF InvitationInv, CallerState
    <2>2. QED
      BY <1>1, <1>2, <2>1 DEF CallerOK, At, Inserted, Pending
  <1>7. QED
    BY <1>3, <1>4, <1>5, <1>6 DEF InvitationInv

LEMMA InvitationStep ==
  InvitationInv /\ [InvitationNext]_invitationVars => InvitationInv'
  <1> SUFFICES ASSUME InvitationInv, [InvitationNext]_invitationVars
               PROVE  InvitationInv'
    OBVIOUS
  <1>1. CASE UNCHANGED invitationVars
    BY <1>1 DEF invitationVars, InvitationInv, InvitationTypeOK, IdentityOK,
                RowOK, CallerOK, At
  <1>2. ASSUME NEW c \in Callers, RedeemFails(c) PROVE InvitationInv'
    BY <1>2, RolledBackKeeps DEF RedeemFails
  <1>3. QED
    BY <1>1, <1>2, StartsKeep, InsertKeeps, NamespaceKeeps, MarkKeeps,
       CommitKeeps, ReplyKeeps, RevokeKeeps, ExpireKeeps DEF InvitationNext

(***************************************************************************)
(* Whoever redeems and revokes at once, wherever a transaction fails and   *)
(* whichever reply is lost: the committed users are exactly those whom the *)
(* invitations name; whoever was told to have redeemed is one of them, and *)
(* whoever was told otherwise without an error is not; nothing is half     *)
(* done; a revocation that was reported holds; and no group of callers, of *)
(* whatever size, waits for itself.                                        *)
(***************************************************************************)
THEOREM InvitationsAreExact == InvitationSpec => []InvitationsExact
  <1>1. InvitationInv => InvitationsExact
    <2> SUFFICES ASSUME InvitationInv PROVE InvitationsExact
      OBVIOUS
    <2> DEFINE users == {identity[n].by : n \in {m \in Names : identity[m].committed}}
    <2>1. /\ \A n \in Names : IdentityOK(n) /\ identity[n].by \in Callers \cup {NoCaller}
          /\ \A i \in InvitationIds :
                /\ RowOK(i)
                /\ invitation[i].redeemedBy \in Callers \cup {NoCaller}
                /\ rowLock[i] \in Callers \cup {NoCaller}
          /\ \A c \in Callers : /\ CallerOK(c) /\ caller[c].name \in Names
                                 /\ caller[c].id \in InvitationIds
      BY Types DEF InvitationInv, Identity, InvitationRow, CallerState
    <2>2. /\ users \subseteq {c \in Callers :
                caller[c].step \in {"committed", "redeemed", "error"}}
          /\ users = {invitation[i].redeemedBy : i \in InvitationIds} \ {NoCaller}
          /\ {c \in Callers : At(c, "redeemed")} \subseteq users
      <3>1. ASSUME NEW n \in Names, identity[n].committed
            PROVE  /\ identity[n].by \in Callers
                   /\ caller[identity[n].by].step \in Settled
                   /\ invitation[caller[identity[n].by].id].redeemedBy = identity[n].by
        BY <2>1, <3>1 DEF IdentityOK
      <3>2. ASSUME NEW i \in InvitationIds, invitation[i].redeemedBy # NoCaller
            PROVE  invitation[i].redeemedBy \in users
        <4> DEFINE m == caller[invitation[i].redeemedBy].name
        <4>1. m \in Names /\ identity[m].committed
              /\ identity[m].by = invitation[i].redeemedBy
          BY <2>1, <3>2 DEF RowOK
        <4> HIDE DEF m
        <4>2. QED
          BY <4>1
      <3>3. ASSUME NEW c \in Callers, At(c, "redeemed") PROVE c \in users
        <4> DEFINE m == caller[c].name
        <4>1. m \in Names /\ identity[m].committed /\ identity[m].by = c
          BY <2>1, <3>3 DEF CallerOK, At
        <4> HIDE DEF m
        <4>2. QED
          BY <4>1
      <3>4. \A c \in users : /\ c \in Callers /\ caller[c].step \in Settled
                             /\ invitation[caller[c].id].redeemedBy = c
        BY <3>1
      <3> HIDE DEF users
      <3>5. users \subseteq {invitation[i].redeemedBy : i \in InvitationIds} \ {NoCaller}
        <4> SUFFICES ASSUME NEW c \in users
                     PROVE  c \in {invitation[i].redeemedBy : i \in InvitationIds} \ {NoCaller}
          OBVIOUS
        <4>1. caller[c].id \in InvitationIds /\ c # NoCaller
              /\ invitation[caller[c].id].redeemedBy = c
          BY <2>1, <3>4, InvitationAssumption
        <4>2. QED
          BY <4>1
      <3>6. {invitation[i].redeemedBy : i \in InvitationIds} \ {NoCaller} \subseteq users
        BY <3>2
      <3>7. QED
        BY <3>3, <3>4, <3>5, <3>6, Zenon DEF Settled
    <2>3. ASSUME NEW n \in Names, identity[n].by # NoCaller, ~identity[n].committed
          PROVE  caller[identity[n].by].step \notin Answers
      BY <2>1, <2>3 DEF IdentityOK, Inserted, Answers
    <2>4. ASSUME NEW c \in Callers, At(c, "revoked")
          PROVE  /\ invitation[caller[c].id].revoked
                 /\ invitation[caller[c].id].redeemedBy = NoCaller
      BY <2>1, <2>4 DEF CallerOK, RowOK
    (* Whoever is waited for has inserted a name, and then waits, if at all, *)
    (* for one that is about to commit and waits for nobody.                 *)
    <2>5. ASSUME NEW group \in (SUBSET Callers) \ {{}}
          PROVE  \E c \in group : WaitsFor(c) \cap group = {}
      <3> SUFFICES ASSUME ~ \E c \in group : WaitsFor(c) \cap group = {}
                   PROVE  FALSE
        OBVIOUS
      <3>0. ASSUME NEW c \in group PROVE \E d \in group : d \in WaitsFor(c)
        <4>1. WaitsFor(c) \cap group # {}
          OBVIOUS
        <4>2. QED
          BY <4>1
      <3>1. group \subseteq Callers /\ group # {}
        OBVIOUS
      <3>2. ASSUME NEW c \in group, NEW d \in group, d \in WaitsFor(c),
                   At(c, "mark") \/ At(c, "revoke")
            PROVE  FALSE
        <4>1. rowLock[caller[c].id] = d /\ d \in Callers /\ c \in Callers
          BY <3>1, <3>2 DEF WaitsFor, At
        <4>2. caller[d].step \in Pending
          BY <2>1, <4>1, InvitationAssumption DEF RowOK
        <4>3. WaitsFor(d) = {}
          BY <4>2 DEF WaitsFor, At, Pending
        <4>4. QED
          BY <3>0, <4>3
      <3>3. PICK c \in group : TRUE
        BY <3>1
      <3>4. PICK d \in group : d \in WaitsFor(c)
        BY <3>0
      <3>5. At(c, "user") /\ identity[caller[c].name].by = d
            /\ ~identity[caller[c].name].committed
        BY <3>2, <3>4 DEF WaitsFor
      <3>6. caller[d].step \in Inserted
        <4>1. c \in Callers /\ d \in Callers
          BY <3>1
        <4>2. QED
          BY <2>1, <3>5, <4>1, InvitationAssumption DEF IdentityOK
      <3>7. At(d, "mark") \/ WaitsFor(d) = {}
        BY <3>6 DEF WaitsFor, At, Inserted
      <3>8. QED
        BY <3>0, <3>2, <3>7
    <2>6. \A group \in (SUBSET Callers) \ {{}} :
            \E c \in group : WaitsFor(c) \cap group = {}
      BY <2>5
    <2>7. QED
      BY <2>2, <2>3, <2>4, <2>6, Zenon DEF InvitationsExact
  <1>2. InvitationSpec => []InvitationInv
    BY InvitationStart, InvitationStep, PTL DEF InvitationSpec
  <1>3. QED
    BY <1>1, <1>2, PTL

----------------------------------------------------------------------------
(* A login has drawn its token and not yet inserted the session.           *)
Drawn(c) == tab[c].step = "login" /\ tab[c].read

Asking(c) == tab[c].step \in {"me", "bye"}

(* What a request has seen of its session, and what it concludes from it,  *)
(* is backed by the history of the session since the request began.        *)
SeenOK(c) ==
  Asking(c) =>
    /\ Valid(tab[c].token) => tab[c].lived
    /\ ~Valid(tab[c].token) => tab[c].died
    /\ tab[c].read =>
         /\ tab[c].row = NoRow => tab[c].token \notin Tokens
         /\ tab[c].row # NoRow =>
              /\ tab[c].token \in Tokens
              /\ tab[c].row.expires = sessions[tab[c].token].expires
         /\ tab[c].row # NoRow /\ tab[c].row.revoked = Unrevoked
            /\ minute < tab[c].row.expires => tab[c].lived
         /\ tab[c].row.revoked # Unrevoked => tab[c].died

AnswerOK(c) ==
  /\ tab[c].answer # "none" => Asking(c)
  /\ tab[c].step = "me" =>
       /\ tab[c].answer = "user" => tab[c].lived
       /\ tab[c].answer = "unauthenticated" => tab[c].died
  /\ tab[c].step = "bye" /\ tab[c].answer # "none" /\ tab[c].token \in Tokens
       => sessions[tab[c].token].revoked # Unrevoked

(* Only the token of a login under way has no session yet, and nobody else *)
(* has that token.                                                         *)
TabTokenOK(c) ==
  /\ ~Drawn(c) /\ tab[c].token \in Tokens => Exists(tab[c].token)
  /\ Drawn(c) =>
       /\ tab[c].token \in Tokens /\ ~Exists(tab[c].token)
       /\ tab[c].row.expires > 0
       /\ \A d \in Tabs \ {c} : tab[d].token # tab[c].token

TabOK(c) == SeenOK(c) /\ AnswerOK(c) /\ TabTokenOK(c)

SessionInv ==
  /\ SessionTypeOK
  /\ cookie \in Tokens => Exists(cookie)
  /\ \A t \in farewells : Exists(t) /\ sessions[t].revoked # Unrevoked
  /\ \A c \in Tabs : TabOK(c)

LEMMA Rows ==
  /\ NoRow \in SessionRow /\ Unrevoked \in Nat /\ NoRow.expires = 0
  /\ NoRow.revoked = Unrevoked
BY SessionAssumption DEF NoRow, SessionRow, Unrevoked

LEMMA QuietFields ==
  /\ Quiet \in Request /\ Quiet.step = "idle" /\ Quiet.token = NoToken
  /\ ~Quiet.read /\ ~Quiet.lived /\ ~Quiet.died /\ Quiet.answer = "none"
BY Rows DEF Quiet, Request

LEMMA SessionStart == SessionInit => SessionInv
  <1> SUFFICES ASSUME SessionInit PROVE SessionInv
    OBVIOUS
  <1>1. SessionTypeOK
    BY QuietFields, SessionAssumption DEF SessionInit, SessionTypeOK
  <1>2. ASSUME NEW c \in Tabs PROVE TabOK(c)
    BY QuietFields, SessionAssumption
       DEF SessionInit, TabOK, SeenOK, AnswerOK, TabTokenOK, Asking, Drawn
  <1>3. QED
    BY <1>1, <1>2, SessionAssumption DEF SessionInit, SessionInv

(***************************************************************************)
(* A tab that moves, while the clock and the rows stand still: the others  *)
(* keep what they have.                                                    *)
(***************************************************************************)
LEMMA OneTab ==
  ASSUME SessionInv, NEW c \in Tabs, NEW new \in Request,
         tab' = [tab EXCEPT ![c] = new], UNCHANGED <<minute, sessions>>,
         ~(new.step = "login" /\ new.read),
         SeenOK(c)', AnswerOK(c)', new.token \in Tokens => Exists(new.token)
  PROVE  (\A d \in Tabs : TabOK(d)') /\ tab' \in [Tabs -> Request]
  <1>1. /\ tab' \in [Tabs -> Request] /\ tab'[c] = new
        /\ \A d \in Tabs \ {c} : tab'[d] = tab[d]
    BY DEF SessionInv, SessionTypeOK
  <1>2. \A t : Exists(t)' <=> Exists(t)
    BY DEF Exists
  <1>3. TabOK(c)'
    BY <1>1, <1>2 DEF TabOK, TabTokenOK, Drawn
  <1>4. ASSUME NEW d \in Tabs \ {c} PROVE TabOK(d)'
    <2>1. TabOK(d) /\ tab'[d] = tab[d]
      BY <1>1 DEF SessionInv
    <2>2. SeenOK(d)'
      BY <2>1 DEF TabOK, SeenOK, Asking, Valid, ValidIn
    <2>3. AnswerOK(d)'
      BY <2>1 DEF TabOK, AnswerOK, Asking
    <2>4. TabTokenOK(d)'
      <3>1. Drawn(d) => new.token # tab[d].token
        BY <2>1 DEF TabOK, TabTokenOK
      <3>2. QED
        BY <1>1, <1>2, <2>1, <3>1 DEF TabOK, TabTokenOK, Drawn
    <2>5. QED
      BY <2>2, <2>3, <2>4 DEF TabOK
  <1>5. QED
    BY <1>1, <1>3, <1>4

(* A call that is over leaves nothing behind. *)
LEMMA QuietKeeps ==
  ASSUME SessionInv, NEW c \in Tabs,
         tab' = [tab EXCEPT ![c] = Quiet], UNCHANGED <<minute, sessions>>
  PROVE  (\A d \in Tabs : TabOK(d)') /\ tab' \in [Tabs -> Request]
  <1>1. tab'[c] = Quiet
    BY DEF SessionInv, SessionTypeOK
  <1>2. SeenOK(c)' /\ AnswerOK(c)'
    BY <1>1, QuietFields DEF SeenOK, AnswerOK, Asking
  <1>3. QED
    BY <1>2, QuietFields, OneTab, SessionAssumption

LEMMA EndsKeep ==
  ASSUME SessionInv, NEW c \in Tabs,
         CallFails(c) \/ MeAnswered(c) \/ LogoutAnswered(c)
  PROVE  SessionInv'
  <1>1. tab' = [tab EXCEPT ![c] = Quiet] /\ UNCHANGED <<minute, sessions>>
    BY DEF CallFails, MeAnswered, LogoutAnswered
  <1>2. (\A d \in Tabs : TabOK(d)') /\ tab' \in [Tabs -> Request]
    BY <1>1, QuietKeeps
  <1>3. \A t : Exists(t)' <=> Exists(t)
    BY <1>1 DEF Exists
  <1>4. CASE LogoutAnswered(c)
    <2>1. ASSUME tab[c].token \in Tokens
          PROVE  /\ Exists(tab[c].token)
                 /\ sessions[tab[c].token].revoked # Unrevoked
      BY <1>4, <2>1
         DEF SessionInv, TabOK, TabTokenOK, AnswerOK, Drawn, LogoutAnswered
    <2>2. /\ cookie' = NoToken
          /\ farewells' = farewells \cup ({tab[c].token} \cap Tokens)
      BY <1>4 DEF LogoutAnswered
    <2>3. SessionTypeOK'
      BY <1>1, <1>2, <2>2 DEF SessionInv, SessionTypeOK
    <2>4. \A t \in farewells' : Exists(t)' /\ sessions'[t].revoked # Unrevoked
      BY <1>1, <1>3, <2>1, <2>2 DEF SessionInv
    <2>5. QED
      BY <1>2, <2>2, <2>3, <2>4, SessionAssumption DEF SessionInv
  <1>5. CASE CallFails(c) \/ MeAnswered(c)
    <2>1. UNCHANGED <<cookie, farewells>>
      BY <1>5 DEF CallFails, MeAnswered
    <2>2. SessionTypeOK'
      BY <1>1, <1>2, <2>1 DEF SessionInv, SessionTypeOK
    <2>3. QED
      BY <1>1, <1>2, <1>3, <2>1, <2>2 DEF SessionInv
  <1>6. QED
    BY <1>4, <1>5

(* The rest of the invariant, when a tab moves and rows do not. *)
LEMMA RestKept ==
  ASSUME SessionInv, UNCHANGED <<minute, sessions, cookie, farewells>>,
         \A d \in Tabs : TabOK(d)', tab' \in [Tabs -> Request]
  PROVE  SessionInv'
BY DEF SessionInv, SessionTypeOK, Exists

LEMMA BeginKeeps ==
  ASSUME SessionInv, NEW c \in Tabs, NEW s \in {"login", "me", "bye"},
         BeginCall(c, s)
  PROVE  SessionInv'
  <1>1. PICK new : new = [Quiet EXCEPT !.step = s, !.token = cookie,
                                       !.lived = Valid(cookie), !.died = ~Valid(cookie)]
    OBVIOUS
  <1>2. tab' = [tab EXCEPT ![c] = new]
        /\ UNCHANGED <<minute, sessions, cookie, farewells>>
    BY <1>1 DEF BeginCall
  <1>3. cookie \in Tokens \cup {NoToken} /\ Valid(cookie) \in BOOLEAN
    BY DEF SessionInv, SessionTypeOK, Valid, ValidIn
  <1>4. /\ new.step = s /\ new.token = cookie /\ ~new.read /\ new.answer = "none"
        /\ Valid(cookie) => new.lived
        /\ ~Valid(cookie) => new.died
    BY <1>1, QuietFields, <1>3 DEF Request
  <1>5. new \in Request
    BY <1>1, QuietFields, <1>3 DEF Request
  <1>6. tab'[c] = new
    BY <1>2 DEF SessionInv, SessionTypeOK
  <1>7. SeenOK(c)' /\ AnswerOK(c)'
    BY <1>2, <1>4, <1>6 DEF SeenOK, AnswerOK, Asking, Valid, ValidIn
  <1>8. new.token \in Tokens => Exists(new.token)
    BY <1>4 DEF SessionInv
  <1>9. (\A d \in Tabs : TabOK(d)') /\ tab' \in [Tabs -> Request]
    BY <1>2, <1>4, <1>5, <1>7, <1>8, OneTab
  <1>10. QED
    BY <1>2, <1>9, RestKept

LEMMA FindKeeps ==
  ASSUME SessionInv, NEW c \in Tabs, FindSession(c)
  PROVE  SessionInv'
  <1>1. PICK row : row = IF Exists(tab[c].token) THEN sessions[tab[c].token] ELSE NoRow
    OBVIOUS
  <1>2. PICK new : new = [tab[c] EXCEPT !.read = TRUE, !.row = row]
    OBVIOUS
  <1>3. /\ tab' = [tab EXCEPT ![c] = new] /\ Asking(c) /\ tab[c].answer = "none"
        /\ UNCHANGED <<minute, sessions, cookie, farewells>>
    BY <1>1, <1>2 DEF FindSession, Asking
  <1>4. tab[c] \in Request /\ TabOK(c) /\ minute \in Nat
        /\ sessions \in [Tokens -> SessionRow \cup {NoRow}]
    BY DEF SessionInv, SessionTypeOK
  <1>5. row \in SessionRow \cup {NoRow}
    BY <1>1, <1>4 DEF Exists
  <1>6. new \in Request
    BY <1>2, <1>4, <1>5 DEF Request
  <1>7. /\ new.step = tab[c].step /\ new.token = tab[c].token /\ new.row = row
        /\ new.answer = "none" /\ new.read
        /\ new.lived <=> tab[c].lived
        /\ new.died <=> tab[c].died
    BY <1>2, <1>3, <1>4, <1>5 DEF Request
  <1>8. tab'[c] = new
    BY <1>3 DEF SessionInv, SessionTypeOK
  <1>9. tab[c].token \in Tokens => Exists(tab[c].token)
    BY <1>3, <1>4 DEF TabOK, TabTokenOK, Drawn, Asking
  <1>10. SeenOK(c)'
    <2>1. CASE tab[c].token \in Tokens
      <3>1. row = sessions[tab[c].token] /\ row # NoRow
        BY <1>1, <1>9, <2>1 DEF Exists
      <3>2. /\ row.revoked = Unrevoked /\ minute < row.expires => Valid(tab[c].token)
            /\ row.revoked # Unrevoked => ~Valid(tab[c].token)
        BY <2>1, <3>1 DEF Valid, ValidIn
      <3>3. Valid(tab[c].token)' <=> Valid(tab[c].token)'
        OBVIOUS
      <3>4. QED
        BY <1>3, <1>4, <1>7, <1>8, <2>1, <3>1, <3>2
           DEF SeenOK, TabOK, Asking, Valid, ValidIn
    <2>2. CASE tab[c].token \notin Tokens
      <3>1. row = NoRow /\ NoRow.revoked = Unrevoked
        BY <1>1, <2>2, Rows DEF Exists
      <3>2. QED
        BY <1>3, <1>4, <1>7, <1>8, <2>2, <3>1
           DEF SeenOK, TabOK, Asking, Valid, ValidIn
    <2>3. QED
      BY <2>1, <2>2
  <1>11. AnswerOK(c)'
    BY <1>3, <1>7, <1>8 DEF AnswerOK, Asking
  <1>12. (\A d \in Tabs : TabOK(d)') /\ tab' \in [Tabs -> Request]
    BY <1>3, <1>6, <1>7, <1>9, <1>10, <1>11, OneTab DEF Asking
  <1>13. QED
    BY <1>3, <1>12, RestKept

(* The answer follows from the row that was read and the clock now. *)
LEMMA AuthenticateKeeps ==
  ASSUME SessionInv, NEW c \in Tabs, Authenticate(c)
  PROVE  SessionInv'
  <1>1. PICK answer : answer = IF Live(tab[c].row) THEN "user" ELSE "unauthenticated"
    OBVIOUS
  <1>2. PICK new : new = [tab[c] EXCEPT !.answer = answer]
    OBVIOUS
  <1>3. /\ tab' = [tab EXCEPT ![c] = new]
        /\ tab[c].step = "me" /\ tab[c].read
        /\ UNCHANGED <<minute, sessions, cookie, farewells>>
    BY <1>1, <1>2 DEF Authenticate
  <1>4. tab[c] \in Request /\ TabOK(c)
    BY DEF SessionInv, SessionTypeOK
  <1>5. new \in Request
    BY <1>1, <1>2, <1>4 DEF Request
  <1>6. /\ new.step = "me" /\ new.token = tab[c].token /\ new.row = tab[c].row
        /\ new.answer = answer
        /\ new.read <=> tab[c].read
        /\ new.lived <=> tab[c].lived
        /\ new.died <=> tab[c].died
    BY <1>2, <1>3, <1>4 DEF Request
  <1>7. tab'[c] = new
    BY <1>3 DEF SessionInv, SessionTypeOK
  <1>8. SeenOK(c)'
    BY <1>3, <1>4, <1>6, <1>7 DEF TabOK, SeenOK, Asking, Valid, ValidIn
  <1>9. /\ Live(tab[c].row) => tab[c].lived
        /\ ~Live(tab[c].row) => tab[c].died
    <2>1. SeenOK(c) /\ Asking(c)
      BY <1>3, <1>4 DEF TabOK, Asking
    <2>2. Live(tab[c].row) => tab[c].lived
      BY <1>3, <2>1 DEF SeenOK, Live
    <2>3. ASSUME tab[c].row = NoRow PROVE tab[c].died
      BY <1>3, <2>1, <2>3 DEF SeenOK, Valid, ValidIn
    <2>4. ASSUME tab[c].row # NoRow, ~(minute < tab[c].row.expires)
          PROVE  tab[c].died
      BY <1>3, <2>1, <2>4 DEF SeenOK, Valid, ValidIn
    <2>5. tab[c].row.revoked # Unrevoked => tab[c].died
      BY <1>3, <2>1 DEF SeenOK
    <2>6. QED
      BY <2>2, <2>3, <2>4, <2>5 DEF Live
  <1>10. AnswerOK(c)'
    BY <1>1, <1>6, <1>7, <1>9 DEF AnswerOK, Asking
  <1>11. new.token \in Tokens => Exists(new.token)
    BY <1>3, <1>4, <1>6 DEF TabOK, TabTokenOK, Drawn
  <1>12. (\A d \in Tabs : TabOK(d)') /\ tab' \in [Tabs -> Request]
    BY <1>3, <1>5, <1>6, <1>8, <1>10, <1>11, OneTab
  <1>13. QED
    BY <1>3, <1>12, RestKept

LEMMA DrawKeeps ==
  ASSUME SessionInv, NEW c \in Tabs, NEW t \in Tokens, DrawToken(c, t)
  PROVE  SessionInv'
  <1>1. PICK row : row = [expires |-> minute + SessionTTL, revoked |-> Unrevoked]
    OBVIOUS
  <1>2. PICK new : new = [tab[c] EXCEPT !.read = TRUE, !.token = t, !.row = row]
    OBVIOUS
  <1>3. /\ tab' = [tab EXCEPT ![c] = new] /\ tab[c].step = "login"
        /\ ~Exists(t) /\ \A d \in Tabs : tab[d].token # t
        /\ UNCHANGED <<minute, sessions, cookie, farewells>>
    BY <1>1, <1>2 DEF DrawToken
  <1>4. tab[c] \in Request /\ TabOK(c) /\ minute \in Nat
    BY DEF SessionInv, SessionTypeOK
  <1>5. row \in SessionRow /\ row.expires > 0
    BY <1>1, <1>4, SessionAssumption DEF SessionRow, Unrevoked
  <1>6. new \in Request
    BY <1>2, <1>4, <1>5 DEF Request
  <1>7. /\ new.step = "login" /\ new.token = t /\ new.row = row /\ new.read
        /\ new.answer = "none"
    BY <1>2, <1>3, <1>4 DEF Request, TabOK, AnswerOK, Asking
  <1>8. /\ tab' \in [Tabs -> Request] /\ tab'[c] = new
        /\ \A d \in Tabs \ {c} : tab'[d] = tab[d]
    BY <1>3, <1>6 DEF SessionInv, SessionTypeOK
  <1>9. \A u : Exists(u)' <=> Exists(u)
    BY <1>3 DEF Exists
  <1>10. TabOK(c)'
    BY <1>3, <1>5, <1>7, <1>8, <1>9
       DEF TabOK, SeenOK, AnswerOK, TabTokenOK, Asking, Drawn
  <1>11. ASSUME NEW d \in Tabs \ {c} PROVE TabOK(d)'
    <2>1. TabOK(d) /\ tab'[d] = tab[d]
      BY <1>8 DEF SessionInv
    <2>2. SeenOK(d)'
      BY <1>3, <2>1 DEF TabOK, SeenOK, Asking, Valid, ValidIn
    <2>3. AnswerOK(d)'
      BY <1>3, <2>1 DEF TabOK, AnswerOK, Asking
    <2>4. TabTokenOK(d)'
      BY <1>3, <1>7, <1>8, <1>9, <2>1 DEF TabOK, TabTokenOK, Drawn
    <2>5. QED
      BY <2>2, <2>3, <2>4 DEF TabOK
  <1>12. QED
    BY <1>3, <1>8, <1>10, <1>11, RestKept

(* A session appears under a token that no request and no cookie has. *)
LEMMA CreateKeeps ==
  ASSUME SessionInv, NEW c \in Tabs, CreateSession(c)
  PROVE  SessionInv'
  <1>1. PICK t : t = tab[c].token
    OBVIOUS
  <1>2. PICK row : row = tab[c].row
    OBVIOUS
  <1>3. /\ sessions' = [sessions EXCEPT ![t] = row] /\ cookie' \in {cookie, t}
        /\ tab' = [tab EXCEPT ![c] = Quiet] /\ UNCHANGED <<minute, farewells>>
    BY <1>1, <1>2 DEF CreateSession
  <1>4. /\ t \in Tokens /\ ~Exists(t) /\ row.expires > 0
        /\ \A d \in Tabs \ {c} : tab[d].token # t
    BY <1>1, <1>2 DEF CreateSession, SessionInv, TabOK, TabTokenOK, Drawn
  <1>5. /\ sessions \in [Tokens -> SessionRow \cup {NoRow}]
        /\ row \in SessionRow \cup {NoRow}
    BY <1>2 DEF SessionInv, SessionTypeOK, Request
  <1>6. /\ sessions' \in [Tokens -> SessionRow \cup {NoRow}]
        /\ sessions'[t] = row
        /\ \A u \in Tokens \ {t} : sessions'[u] = sessions[u]
    BY <1>3, <1>4, <1>5
  <1>7. Exists(t)' /\ \A u \in Tokens \ {t} : Exists(u)' <=> Exists(u)
    BY <1>4, <1>6, Rows DEF Exists
  <1>8. /\ tab' \in [Tabs -> Request] /\ tab'[c] = Quiet
        /\ \A d \in Tabs \ {c} : tab'[d] = tab[d]
    BY <1>3, QuietFields DEF SessionInv, SessionTypeOK
  <1>9. TabOK(c)'
    BY <1>8, QuietFields, SessionAssumption
       DEF TabOK, SeenOK, AnswerOK, TabTokenOK, Asking, Drawn
  <1>10. ASSUME NEW d \in Tabs \ {c} PROVE TabOK(d)'
    <2>1. TabOK(d) /\ tab'[d] = tab[d] /\ tab[d].token # t
      BY <1>4, <1>8 DEF SessionInv
    <2>2. tab[d].token \in Tokens =>
            sessions'[tab[d].token] = sessions[tab[d].token]
      BY <1>6, <2>1
    <2>3. Valid(tab[d].token)' <=> Valid(tab[d].token)
      BY <1>3, <2>1, <2>2 DEF Valid, ValidIn
    <2>4. SeenOK(d)'
      BY <1>3, <2>1, <2>2, <2>3 DEF TabOK, SeenOK, Asking
    <2>5. AnswerOK(d)'
      BY <2>1, <2>2 DEF TabOK, AnswerOK, Asking
    <2>6. TabTokenOK(d)'
      <3>1. \A e \in Tabs \ {d} : tab[d].token \in Tokens
              /\ tab[e].token # tab[d].token => tab'[e].token # tab[d].token
        BY <1>8, QuietFields, SessionAssumption
      <3>2. QED
        BY <1>7, <2>1, <3>1 DEF TabOK, TabTokenOK, Drawn
    <2>7. QED
      BY <2>4, <2>5, <2>6 DEF TabOK
  <1>11. (cookie \in Tokens => Exists(cookie))'
    <2>1. CASE cookie' = t
      BY <1>7, <2>1 DEF Exists
    <2>2. CASE cookie' = cookie /\ cookie # t
      BY <1>6, <2>2 DEF SessionInv, Exists
    <2>3. QED
      BY <1>3, <2>1, <2>2
  <1>12. ASSUME NEW u \in farewells'
         PROVE  Exists(u)' /\ sessions'[u].revoked # Unrevoked
    <2>1. u \in Tokens /\ Exists(u) /\ sessions[u].revoked # Unrevoked
      BY <1>3 DEF SessionInv, SessionTypeOK
    <2>2. u # t
      BY <1>4, <2>1
    <2>3. QED
      BY <1>6, <2>1, <2>2 DEF Exists
  <1>13. SessionTypeOK'
    BY <1>3, <1>4, <1>6, <1>8 DEF SessionInv, SessionTypeOK
  <1>14. QED
    BY <1>9, <1>10, <1>11, <1>12, <1>13 DEF SessionInv

(* The history of a request, after the rows or the clock have changed. *)
LEMMA WatchedFields ==
  ASSUME tab \in [Tabs -> Request], NEW rows, NEW now, NEW d \in Tabs
  PROVE  LET w == Watched(rows, now)[d] IN
         /\ w \in Request
         /\ w.step = tab[d].step /\ w.token = tab[d].token
         /\ w.row = tab[d].row /\ w.answer = tab[d].answer
         /\ w.read <=> tab[d].read
         /\ w.lived <=> tab[d].lived \/ ValidIn(rows, now, tab[d].token)
         /\ w.died <=> tab[d].died \/ ~ValidIn(rows, now, tab[d].token)
  <1>1. /\ ValidIn(rows, now, tab[d].token) \in BOOLEAN
        /\ tab[d] \in Request
    BY DEF ValidIn
  <1>2. Watched(rows, now)[d] =
          [tab[d] EXCEPT !.lived = @ \/ ValidIn(rows, now, tab[d].token),
                         !.died = @ \/ ~ValidIn(rows, now, tab[d].token)]
    BY DEF Watched
  <1>3. PICK x \in Request : x = tab[d]
    BY <1>1
  <1>4. PICK v \in BOOLEAN : v <=> ValidIn(rows, now, tab[d].token)
    BY <1>1
  <1>5. PICK w : w = [x EXCEPT !.lived = @ \/ v, !.died = @ \/ ~v]
    OBVIOUS
  <1>6. /\ w \in Request
        /\ w.step = x.step /\ w.token = x.token
        /\ w.row = x.row /\ w.answer = x.answer
        /\ w.read <=> x.read
        /\ w.lived <=> x.lived \/ v
        /\ w.died <=> x.died \/ ~v
    <2>1. /\ w.step = x.step /\ w.token = x.token
          /\ w.row = x.row /\ w.answer = x.answer
      BY <1>5 DEF Request
    <2>2. w.read <=> x.read
      BY <1>5 DEF Request
    <2>3. w.lived <=> x.lived \/ v
      BY <1>5 DEF Request
    <2>4. w.died <=> x.died \/ ~v
      BY <1>5 DEF Request
    <2>5. w \in Request
      BY <1>5 DEF Request
    <2>6. QED
      BY <2>1, <2>2, <2>3, <2>4, <2>5
  <1>7. Watched(rows, now)[d] = w
    BY <1>2, <1>3, <1>4, <1>5
  <1>8. QED
    BY <1>3, <1>4, <1>6, <1>7

LEMMA MinuteKeeps == SessionInv /\ Minute => SessionInv'
  <1> SUFFICES ASSUME SessionInv, Minute PROVE SessionInv'
    OBVIOUS
  <1>1. /\ minute' = minute + 1 /\ minute' \in 0 .. MaxMinute /\ minute \in Nat
        /\ tab' = Watched(sessions, minute') /\ tab \in [Tabs -> Request]
        /\ UNCHANGED <<sessions, cookie, farewells>>
    BY SessionAssumption DEF Minute, SessionInv, SessionTypeOK
  <1>2. ASSUME NEW d \in Tabs
        PROVE  /\ tab'[d] \in Request
               /\ tab'[d].step = tab[d].step /\ tab'[d].token = tab[d].token
               /\ tab'[d].row = tab[d].row /\ tab'[d].answer = tab[d].answer
               /\ tab'[d].read <=> tab[d].read
               /\ tab'[d].lived <=> tab[d].lived \/ Valid(tab[d].token)'
               /\ tab'[d].died <=> tab[d].died \/ ~Valid(tab[d].token)'
    BY <1>1, WatchedFields DEF Valid, ValidIn
  <1>3. tab' \in [Tabs -> Request]
    BY <1>1, <1>2 DEF Watched
  <1>4. \A t : Exists(t)' <=> Exists(t)
    BY <1>1 DEF Exists
  <1>5. ASSUME NEW d \in Tabs PROVE TabOK(d)'
    <2>1. TabOK(d) /\ tab[d] \in Request
      BY <1>1 DEF SessionInv
    <2>2. SeenOK(d)'
      <3>1. tab[d].row.expires \in Nat
        BY <2>1, Rows DEF Request, SessionRow
      <3>2. QED
        BY <1>1, <1>2, <2>1, <3>1 DEF TabOK, SeenOK, Asking
    <2>3. AnswerOK(d)'
      BY <1>1, <1>2, <2>1 DEF TabOK, AnswerOK, Asking
    <2>4. TabTokenOK(d)'
      BY <1>1, <1>2, <1>4, <2>1 DEF TabOK, TabTokenOK, Drawn
    <2>5. QED
      BY <2>2, <2>3, <2>4 DEF TabOK
  <1>6. SessionTypeOK'
    BY <1>1, <1>3 DEF SessionInv, SessionTypeOK
  <1>7. QED
    BY <1>1, <1>4, <1>5, <1>6 DEF SessionInv

(***************************************************************************)
(* A logout leaves the session revoked, whoever revoked it; the requests   *)
(* that had read its row before have that in their history.                *)
(***************************************************************************)
LEMMA LogoutKeeps ==
  ASSUME SessionInv, NEW c \in Tabs, Logout(c)
  PROVE  SessionInv'
  <1>1. PICK t : t = tab[c].token
    OBVIOUS
  <1>2. PICK w : w = Watched(sessions', minute)
    OBVIOUS
  <1>3. /\ tab[c].step = "bye" /\ tab[c].read /\ tab[c].answer = "none"
        /\ sessions' = IF tab[c].row # NoRow /\ NotYetRevoked(t)
                       THEN [sessions EXCEPT ![t].revoked = minute] ELSE sessions
        /\ tab' = [w EXCEPT ![c].answer = "unauthenticated"]
        /\ UNCHANGED <<minute, cookie, farewells>>
    BY <1>1, <1>2 DEF Logout
  <1>4. /\ sessions \in [Tokens -> SessionRow \cup {NoRow}]
        /\ tab \in [Tabs -> Request] /\ minute \in 0 .. MaxMinute
        /\ TabOK(c)
    BY DEF SessionInv, SessionTypeOK
  <1>5. minute \in 0 .. Unrevoked /\ minute # Unrevoked
    BY <1>4, SessionAssumption DEF Unrevoked
  <1>6. /\ tab[c].row # NoRow => t \in Tokens
        /\ tab[c].row = NoRow => t \notin Tokens
        /\ t \in Tokens => Exists(t)
    BY <1>1, <1>3, <1>4 DEF TabOK, SeenOK, TabTokenOK, Asking, Drawn
  <1>7. /\ sessions' \in [Tokens -> SessionRow \cup {NoRow}]
        /\ \A u \in Tokens :
             /\ sessions'[u].expires = sessions[u].expires
             /\ sessions[u].revoked # Unrevoked => sessions'[u].revoked # Unrevoked
             /\ Exists(u)' <=> Exists(u)
             /\ u # t => sessions'[u] = sessions[u]
        /\ t \in Tokens => sessions'[t].revoked # Unrevoked
    <2>1. CASE tab[c].row # NoRow /\ NotYetRevoked(t)
      <3>1. /\ t \in Tokens /\ Exists(t)
            /\ sessions' = [sessions EXCEPT ![t].revoked = minute]
        BY <1>3, <1>6, <2>1
      <3>2. SessionRow \cup {NoRow} = SessionRow
        BY Rows
      <3>3. PICK new : new = [sessions[t] EXCEPT !.revoked = minute]
        OBVIOUS
      <3>4. sessions[t] \in SessionRow
        BY <1>4, <3>1, <3>2
      <3>5. /\ new \in SessionRow /\ new.expires = sessions[t].expires
            /\ new.revoked # Unrevoked
        BY <1>5, <3>3, <3>4 DEF SessionRow
      <3>6. new # NoRow
        BY <3>5, Rows
      <3>7. /\ sessions' \in [Tokens -> SessionRow] /\ sessions'[t] = new
            /\ \A u \in Tokens \ {t} : sessions'[u] = sessions[u]
        BY <1>4, <3>1, <3>2, <3>3, <3>5
      <3>8. QED
        BY <3>1, <3>5, <3>6, <3>7 DEF Exists
    <2>2. CASE tab[c].row = NoRow \/ ~NotYetRevoked(t)
      BY <1>3, <1>4, <1>6, <2>2 DEF Exists, NotYetRevoked
    <2>3. QED
      BY <2>1, <2>2
  <1>8. ASSUME NEW d \in Tabs
        PROVE  /\ w[d] \in Request
               /\ w[d].step = tab[d].step /\ w[d].token = tab[d].token
               /\ w[d].row = tab[d].row /\ w[d].answer = tab[d].answer
               /\ w[d].read <=> tab[d].read
               /\ w[d].lived <=>
                    tab[d].lived \/ ValidIn(sessions', minute, tab[d].token)
               /\ w[d].died <=>
                    tab[d].died \/ ~ValidIn(sessions', minute, tab[d].token)
    BY <1>2, <1>4, WatchedFields
  <1>9. w \in [Tabs -> Request]
    BY <1>2, <1>8 DEF Watched
  <1>10. PICK new : new = [w[c] EXCEPT !.answer = "unauthenticated"]
    OBVIOUS
  <1>11. /\ new \in Request /\ new.answer = "unauthenticated"
         /\ new.step = w[c].step /\ new.token = w[c].token
         /\ new.row = w[c].row
         /\ new.read <=> w[c].read
         /\ new.lived <=> w[c].lived
         /\ new.died <=> w[c].died
    BY <1>9, <1>10 DEF Request
  <1>12. /\ tab' \in [Tabs -> Request] /\ tab'[c] = new
         /\ \A d \in Tabs \ {c} : tab'[d] = w[d]
    BY <1>3, <1>9, <1>10, <1>11
  <1>13. ASSUME NEW d \in Tabs
         PROVE  /\ tab'[d].step = tab[d].step /\ tab'[d].token = tab[d].token
                /\ tab'[d].row = tab[d].row
                /\ tab'[d].read <=> tab[d].read
                /\ tab'[d].lived <=> tab[d].lived \/ Valid(tab[d].token)'
                /\ tab'[d].died <=> tab[d].died \/ ~Valid(tab[d].token)'
                /\ d # c => tab'[d].answer = tab[d].answer
    <2>1. CASE d = c
      <3>1. /\ tab'[d].step = w[d].step /\ tab'[d].token = w[d].token
            /\ tab'[d].row = w[d].row
            /\ tab'[d].read <=> w[d].read
            /\ tab'[d].lived <=> w[d].lived
            /\ tab'[d].died <=> w[d].died
        BY <1>11, <1>12, <2>1
      <3>2. Valid(tab[d].token)' <=> ValidIn(sessions', minute, tab[d].token)
        BY <1>3, <1>8, <3>1 DEF Valid
      <3>3. QED
        BY <1>8, <2>1, <3>1, <3>2
    <2>2. CASE d # c
      BY <1>3, <1>8, <1>12, <2>2 DEF Valid
    <2>3. QED
      BY <2>1, <2>2
  <1>14. ASSUME NEW d \in Tabs PROVE TabOK(d)'
    <2>1. TabOK(d)
      BY DEF SessionInv
    <2>2. SeenOK(d)'
      BY <1>3, <1>7, <1>13, <2>1 DEF TabOK, SeenOK, Asking
    <2>3. AnswerOK(d)'
      <3>1. CASE d = c
        BY <1>1, <1>3, <1>7, <1>11, <1>12, <1>13, <3>1 DEF AnswerOK, Asking
      <3>2. CASE d # c
        BY <1>7, <1>13, <2>1, <3>2 DEF TabOK, AnswerOK, Asking
      <3>3. QED
        BY <3>1, <3>2
    <2>4. TabTokenOK(d)'
      BY <1>7, <1>13, <2>1 DEF TabOK, TabTokenOK, Drawn
    <2>5. QED
      BY <2>2, <2>3, <2>4 DEF TabOK
  <1>15. (cookie \in Tokens => Exists(cookie))'
    BY <1>3, <1>7 DEF SessionInv
  <1>16. ASSUME NEW u \in farewells'
         PROVE  Exists(u)' /\ sessions'[u].revoked # Unrevoked
    BY <1>3, <1>7 DEF SessionInv, SessionTypeOK
  <1>17. SessionTypeOK'
    BY <1>3, <1>7, <1>12 DEF SessionInv, SessionTypeOK
  <1>18. QED
    BY <1>14, <1>15, <1>16, <1>17 DEF SessionInv

LEMMA SessionStep == SessionInv /\ [SessionNext]_sessionVars => SessionInv'
  <1> SUFFICES ASSUME SessionInv, [SessionNext]_sessionVars PROVE SessionInv'
    OBVIOUS
  <1>1. CASE UNCHANGED sessionVars
    BY <1>1 DEF sessionVars, SessionInv, SessionTypeOK, TabOK, SeenOK,
                AnswerOK, TabTokenOK, Asking, Drawn, Exists, Valid, ValidIn
  <1>2. QED
    BY <1>1, BeginKeeps, DrawKeeps, CreateKeeps, EndsKeep, FindKeeps,
       AuthenticateKeeps, LogoutKeeps, MinuteKeeps DEF SessionNext

(***************************************************************************)
(* Whatever the tabs of a browser do at once: a request is answered with   *)
(* the user only if its session was valid while it ran, is refused only if *)
(* it was not, and a session whose logout was answered never comes back.   *)
(***************************************************************************)
THEOREM SessionsTruthful == SessionSpec => []AuthenticatedTruly
  <1>1. SessionInv => AuthenticatedTruly
    <2> SUFFICES ASSUME SessionInv PROVE AuthenticatedTruly
      OBVIOUS
    <2>1. \A c \in Tabs : AnswerOK(c)
      BY DEF SessionInv, TabOK
    <2>2. \A t \in farewells : ~Valid(t)
      BY DEF SessionInv, Valid, ValidIn
    <2>3. QED
      BY <2>1, <2>2 DEF AuthenticatedTruly, AnswerOK
  <1>2. SessionSpec => []SessionInv
    BY SessionStart, SessionStep, PTL DEF SessionSpec
  <1>3. QED
    BY <1>1, <1>2, PTL

-----------------------------------------------------------------------------
(* LoginLimit: the table of buckets.                                       *)
LEMMA FewerBuckets ==
  ASSUME IsFiniteSet(DOMAIN entries), Cardinality(DOMAIN entries) <= MaxBuckets, NEW S
  PROVE  /\ DOMAIN Without(S) = DOMAIN entries \ S
         /\ IsFiniteSet(DOMAIN Without(S))
         /\ Cardinality(DOMAIN Without(S)) <= MaxBuckets
  <1>1. DOMAIN Without(S) = DOMAIN entries \ S
    BY DEF Without, Restrict
  <1>2. /\ IsFiniteSet(DOMAIN entries \ S)
        /\ Cardinality(DOMAIN entries \ S) <= Cardinality(DOMAIN entries)
    BY FS_Subset
  <1>3. MaxBuckets \in Nat /\ Cardinality(DOMAIN entries) \in Nat
        /\ Cardinality(DOMAIN entries \ S) \in Nat
    BY <1>2, FS_CardinalityType, LimitAssumption
  <1>4. QED
    BY <1>1, <1>2, <1>3

(* Allow counts an attempt only if its two buckets fit, sweeps or not.     *)
LEMMA BucketsFit ==
  ASSUME NEW p \in Attempts, NEW table, IsFiniteSet(DOMAIN table), Fits(p, table)
  PROVE  /\ IsFiniteSet(DOMAIN Counted(p, table))
         /\ Cardinality(DOMAIN Counted(p, table)) <= MaxBuckets
  <1>1. PICK keys : keys = {attempt[p].account, attempt[p].origin}
    OBVIOUS
  <1>2. DOMAIN Counted(p, table) = DOMAIN table \cup keys
    BY <1>1 DEF Counted
  <1>3. IsFiniteSet(keys)
    <2>1. keys = {attempt[p].account} \cup {attempt[p].origin}
      BY <1>1
    <2>2. IsFiniteSet({attempt[p].account}) /\ IsFiniteSet({attempt[p].origin})
      BY FS_Singleton
    <2>3. QED
      BY <2>1, <2>2, FS_Union
  <1>4. IsFiniteSet(DOMAIN table \cup keys)
    BY <1>3, FS_Union
  <1>5. QED
    BY <1>1, <1>2, <1>4 DEF Fits

(* A store of fixed size serves any number of names: whatever names and    *)
(* clients are tried, the limiter's table never outgrows MaxBuckets        *)
(* (MemoryLoginLimiter's maxEntries).                                      *)
THEOREM TableNeverOutgrown == LimitSpec => []TableBounded
  <1> DEFINE Small == IsFiniteSet(DOMAIN entries) /\ TableBounded
  <1>1. LimitInit => Small
    <2>1. SUFFICES ASSUME LimitInit PROVE Small
      OBVIOUS
    <2>2. DOMAIN entries = {}
      BY <2>1 DEF LimitInit
    <2>3. QED
      BY <2>2, FS_EmptySet, LimitAssumption DEF TableBounded
  <1>2. Small /\ [LimitNext]_limitVars => Small'
    <2> SUFFICES ASSUME Small, [LimitNext]_limitVars PROVE Small'
      OBVIOUS
    <2>1. ASSUME NEW S, entries' = Without(S) PROVE Small'
      BY <2>1, FewerBuckets DEF TableBounded
    <2>2. ASSUME entries' = entries PROVE Small'
      BY <2>2 DEF TableBounded
    <2>3. ASSUME NEW p \in Attempts, Allow(p) PROVE Small'
      <3>1. PICK after : after = AfterLoop(p)
        OBVIOUS
      <3>2. PICK swept : swept = Without(Overdue(attempt[p].now))
        OBVIOUS
      <3>3. \/ entries' = after
            \/ entries' = swept
            \/ \E table \in {after, swept} : Fits(p, table) /\ entries' = Counted(p, table)
        BY <2>3, <3>1, <3>2 DEF Allow, Refuse
      <3>4. CASE entries' = after \/ entries' = swept
        BY <2>1, <3>1, <3>2, <3>4 DEF AfterLoop
      <3>5. CASE \E table \in {after, swept} : Fits(p, table) /\ entries' = Counted(p, table)
        <4>1. PICK table \in {after, swept} : Fits(p, table) /\ entries' = Counted(p, table)
          BY <3>5
        <4>2. IsFiniteSet(DOMAIN after) /\ IsFiniteSet(DOMAIN swept)
          BY <3>1, <3>2, FewerBuckets DEF AfterLoop, TableBounded
        <4>3. QED
          BY <4>1, <4>2, BucketsFit DEF TableBounded
      <3>6. QED
        BY <3>3, <3>4, <3>5
    <2>4. ASSUME NEW p \in Attempts, RightPassword(p) PROVE Small'
      BY <2>1, <2>4 DEF RightPassword
    <2>5. ASSUME NEW p \in Attempts,
                 \/ \E a \in UserNames, o \in Origins : Arrive(p, a, o)
                 \/ TakeSlot(p) \/ WrongPassword(p)
          PROVE  Small'
      BY <2>2, <2>5 DEF Arrive, TakeSlot, WrongPassword
    <2>6. CASE Second \/ UNCHANGED limitVars
      BY <2>2, <2>6 DEF Second, limitVars
    <2>7. QED
      BY <2>3, <2>4, <2>5, <2>6 DEF LimitNext
  <1>3. QED
    BY <1>1, <1>2, PTL DEF LimitSpec

(* The sliding window of LoginLimit, from its fixed ones.                  *)

(* What the last seconds may have admitted to a bucket of limit l whose    *)
(* window e is open at time t, where n counts by age: while that window    *)
(* may be the second, or the third, that these seconds have seen.          *)
WindowOpen(n, t, e, l) ==
  \A a \in Ages :
    /\ n[a] <= e.attempts + 2 * l - 1
    /\ t + LimitWindow > e.started + 2 * MaxDelay + a => n[a] <= e.attempts + l - 1
    /\ t > e.started + MaxDelay + a => n[a] <= e.attempts - 1

(* And while it has none: what the next may join.                          *)
WindowNone(n, l) ==
  \A a \in Ages :
    /\ n[a] <= 2 * l - 1
    /\ a + MaxDelay < LimitWindow => n[a] <= l - 1

BucketOK(b) ==
  /\ b \in DOMAIN entries => /\ entries[b].started <= second
                             /\ WindowOpen(recent[b], second, entries[b], Limit(b))
  /\ b \notin DOMAIN entries => WindowNone(recent[b], Limit(b))

(* The clock does not run away from an attempt that waits for the mutex.   *)
ClockOK(p) ==
  attempt[p].step = "clocked" =>
    attempt[p].now <= second /\ second <= attempt[p].now + MaxDelay

WindowInv ==
  /\ LimitTypeOK
  /\ \A p \in Attempts : ClockOK(p)
  /\ \A b \in Buckets : BucketOK(b)

LEMMA WindowEnds ==
  ASSUME NEW l \in Nat \ {0}, NEW n \in [Ages -> Nat], NEW t \in Nat, NEW e,
         e.started \in Nat, e.attempts \in 1 .. l,
         WindowOpen(n, t, e, l), t >= e.started + LimitWindow
  PROVE  WindowNone(n, l)
  <1>1. ASSUME NEW a \in Ages
        PROVE  /\ n[a] <= 2 * l - 1
               /\ a + MaxDelay < LimitWindow => n[a] <= l - 1
    <2>1. /\ t + LimitWindow > e.started + 2 * MaxDelay + a => n[a] <= e.attempts + l - 1
          /\ t > e.started + MaxDelay + a => n[a] <= e.attempts - 1
      BY <1>1 DEF WindowOpen
    <2>2. /\ a \in Nat /\ a < LimitWindow /\ n[a] \in Nat
          /\ LimitWindow \in Nat /\ MaxDelay \in Nat /\ 2 * MaxDelay <= LimitWindow
      BY <1>1, LimitAssumption DEF Ages
    <2>3. t + LimitWindow > e.started + 2 * MaxDelay + a
      BY <2>2
    <2>4. a + MaxDelay < LimitWindow => t > e.started + MaxDelay + a
      BY <2>2
    <2>5. QED
      BY <2>1, <2>2, <2>3, <2>4
  <1>2. QED
    BY <1>1 DEF WindowNone

LEMMA WindowStarts ==
  ASSUME NEW l \in Nat \ {0}, NEW n \in [Ages -> Nat], NEW t \in Nat, NEW s \in Nat,
         NEW e, e.started = s, e.attempts = 1,
         WindowNone(n, l), s <= t, t <= s + MaxDelay
  PROVE  WindowOpen([a \in Ages |-> n[a] + 1], t, e, l)
  <1>1. ASSUME NEW a \in Ages
        PROVE  /\ n[a] + 1 <= 1 + 2 * l - 1
               /\ t + LimitWindow > s + 2 * MaxDelay + a => n[a] + 1 <= 1 + l - 1
               /\ ~(t > s + MaxDelay + a)
    <2>1. /\ n[a] <= 2 * l - 1
          /\ a + MaxDelay < LimitWindow => n[a] <= l - 1
      BY <1>1 DEF WindowNone
    <2>2. /\ a \in Nat /\ n[a] \in Nat
          /\ LimitWindow \in Nat /\ MaxDelay \in Nat
      BY <1>1, LimitAssumption DEF Ages
    <2>3. QED
      BY <2>1, <2>2
  <1>2. QED
    BY <1>1 DEF WindowOpen

LEMMA WindowCounts ==
  ASSUME NEW l \in Nat \ {0}, NEW n \in [Ages -> Nat], NEW t \in Nat,
         NEW d, NEW e, e.started = d.started, e.attempts = d.attempts + 1,
         d.started \in Nat, d.attempts \in Nat, WindowOpen(n, t, d, l)
  PROVE  WindowOpen([a \in Ages |-> n[a] + 1], t, e, l)
  <1>1. ASSUME NEW a \in Ages
        PROVE  /\ n[a] + 1 <= e.attempts + 2 * l - 1
               /\ t + LimitWindow > d.started + 2 * MaxDelay + a =>
                    n[a] + 1 <= e.attempts + l - 1
               /\ t > d.started + MaxDelay + a => n[a] + 1 <= e.attempts - 1
    <2>1. /\ n[a] <= d.attempts + 2 * l - 1
          /\ t + LimitWindow > d.started + 2 * MaxDelay + a => n[a] <= d.attempts + l - 1
          /\ t > d.started + MaxDelay + a => n[a] <= d.attempts - 1
      BY <1>1 DEF WindowOpen
    <2>2. n[a] \in Nat
      BY <1>1
    <2>3. QED
      BY <2>1, <2>2
  <1>2. QED
    BY <1>1 DEF WindowOpen

(* A second later the count of an age is that of one second less. *)
Aged(n) == [a \in Ages |-> IF a = 0 THEN 0 ELSE n[a - 1]]

LEMMA WindowAges ==
  ASSUME NEW l \in Nat \ {0}, NEW n \in [Ages -> Nat], NEW t \in Nat, NEW e,
         e.started \in Nat, e.attempts \in Nat \ {0}
  PROVE  /\ Aged(n) \in [Ages -> Nat]
         /\ WindowOpen(n, t, e, l) => WindowOpen(Aged(n), t + 1, e, l)
         /\ WindowNone(n, l) => WindowNone(Aged(n), l)
  <1>1. ASSUME NEW a \in Ages
        PROVE  \/ a = 0 /\ Aged(n)[a] = 0
               \/ a - 1 \in Ages /\ Aged(n)[a] = n[a - 1] /\ a # 0
    BY LimitAssumption DEF Aged, Ages
  <1>2. Aged(n) \in [Ages -> Nat]
    BY <1>1 DEF Aged
  <1>3. ASSUME WindowOpen(n, t, e, l), NEW a \in Ages
        PROVE  /\ Aged(n)[a] <= e.attempts + 2 * l - 1
               /\ t + 1 + LimitWindow > e.started + 2 * MaxDelay + a =>
                    Aged(n)[a] <= e.attempts + l - 1
               /\ t + 1 > e.started + MaxDelay + a => Aged(n)[a] <= e.attempts - 1
    <2>1. CASE a = 0 /\ Aged(n)[a] = 0
      BY <2>1
    <2>2. CASE a - 1 \in Ages /\ Aged(n)[a] = n[a - 1] /\ a # 0
      <3>1. /\ n[a - 1] <= e.attempts + 2 * l - 1
            /\ t + LimitWindow > e.started + 2 * MaxDelay + (a - 1) =>
                 n[a - 1] <= e.attempts + l - 1
            /\ t > e.started + MaxDelay + (a - 1) => n[a - 1] <= e.attempts - 1
        BY <1>3, <2>2 DEF WindowOpen
      <3>2. a \in Nat /\ LimitWindow \in Nat /\ MaxDelay \in Nat
        BY LimitAssumption DEF Ages
      <3>3. QED
        BY <2>2, <3>1, <3>2
    <2>3. QED
      BY <1>1, <2>1, <2>2
  <1>4. ASSUME WindowNone(n, l), NEW a \in Ages
        PROVE  /\ Aged(n)[a] <= 2 * l - 1
               /\ a + MaxDelay < LimitWindow => Aged(n)[a] <= l - 1
    <2>1. CASE a = 0 /\ Aged(n)[a] = 0
      BY <2>1
    <2>2. CASE a - 1 \in Ages /\ Aged(n)[a] = n[a - 1] /\ a # 0
      <3>1. /\ n[a - 1] <= 2 * l - 1
            /\ (a - 1) + MaxDelay < LimitWindow => n[a - 1] <= l - 1
        BY <1>4, <2>2 DEF WindowNone
      <3>2. a \in Nat /\ LimitWindow \in Nat /\ MaxDelay \in Nat
        BY LimitAssumption DEF Ages
      <3>3. QED
        BY <2>2, <3>1, <3>2
    <2>3. QED
      BY <1>1, <2>1, <2>2
  <1>5. QED
    BY <1>2, <1>3, <1>4 DEF WindowOpen, WindowNone

LEMMA LimitType ==
  ASSUME NEW b \in Buckets
  PROVE  Limit(b) \in Nat \ {0}
BY LimitAssumption DEF Limit

LEMMA UnstartedType ==
  /\ Unstarted \in [step : {"idle", "clocked", "slot", "verify"}, account : UserNames,
                    origin : Origins, now : 0 .. MaxSecond]
  /\ Unstarted.step = "idle"
BY LimitAssumption DEF Unstarted

LEMMA WindowStart == LimitInit => WindowInv
  <1> SUFFICES ASSUME LimitInit PROVE WindowInv
    OBVIOUS
  <1>1. /\ second = 0 /\ entries = [b \in {} |-> 0] /\ DOMAIN entries = {}
        /\ attempt = [p \in Attempts |-> Unstarted]
        /\ recent = [b \in Buckets |-> [a \in Ages |-> 0]]
    BY DEF LimitInit
  <1>2. ASSUME NEW b \in Buckets PROVE BucketOK(b)
    <2>1. Limit(b) \in Nat \ {0} /\ recent[b] = [a \in Ages |-> 0]
      BY <1>1, <1>2, LimitType
    <2>2. \A a \in Ages : recent[b][a] = 0
      BY <2>1
    <2>3. WindowNone(recent[b], Limit(b))
      BY <2>1, <2>2 DEF WindowNone
    <2>4. QED
      BY <1>1, <2>3 DEF BucketOK
  <1>3. LimitTypeOK
    BY <1>1, UnstartedType, LimitAssumption DEF LimitTypeOK
  <1>4. \A p \in Attempts : ClockOK(p)
    BY <1>1 DEF ClockOK, Unstarted
  <1>5. QED
    BY <1>2, <1>3, <1>4 DEF WindowInv

(* The table without some of its windows, all of them over for an attempt  *)
(* with this reading of the clock.                                         *)
Swept(table, now) ==
  /\ DOMAIN table \subseteq DOMAIN entries
  /\ \A b \in DOMAIN table : table[b] = entries[b]
  /\ \A b \in DOMAIN entries \ DOMAIN table : Over(b, now)

LEMMA SweptBuckets ==
  ASSUME WindowInv, NEW table, NEW now \in Nat, now <= second, Swept(table, now)
  PROVE  /\ \A b \in DOMAIN table :
              /\ table[b] \in [started : 0 .. MaxSecond, attempts : 1 .. Limit(b)]
              /\ table[b].started <= second
              /\ WindowOpen(recent[b], second, table[b], Limit(b))
         /\ \A b \in Buckets \ DOMAIN table : WindowNone(recent[b], Limit(b))
         /\ DOMAIN table \subseteq Buckets
  <1>1. LimitTypeOK /\ second \in Nat
    BY LimitAssumption DEF WindowInv, LimitTypeOK
  <1>2. ASSUME NEW b \in DOMAIN table
        PROVE  /\ table[b] \in [started : 0 .. MaxSecond, attempts : 1 .. Limit(b)]
               /\ table[b].started <= second
               /\ WindowOpen(recent[b], second, table[b], Limit(b))
    BY <1>1, <1>2 DEF WindowInv, BucketOK, Swept, LimitTypeOK
  <1>3. ASSUME NEW b \in Buckets \ DOMAIN table
        PROVE  WindowNone(recent[b], Limit(b))
    <2>1. CASE b \notin DOMAIN entries
      BY <1>3, <2>1 DEF WindowInv, BucketOK
    <2>2. CASE b \in DOMAIN entries
      <3>1. /\ WindowOpen(recent[b], second, entries[b], Limit(b))
            /\ Over(b, now)
        BY <1>3, <2>2 DEF WindowInv, BucketOK, Swept
      <3>2. /\ entries[b] \in [started : 0 .. MaxSecond, attempts : 1 .. Limit(b)]
            /\ recent[b] \in [Ages -> Nat]
        BY <1>1, <1>3, <2>2 DEF LimitTypeOK
      <3>3. /\ entries[b].started \in Nat /\ entries[b].attempts \in 1 .. Limit(b)
        BY <3>2, LimitAssumption
      <3>4. second >= entries[b].started + LimitWindow
        BY <1>1, <3>1, <3>3, LimitAssumption DEF Over
      <3>5. Limit(b) \in Nat \ {0}
        BY <1>3, LimitType
      <3>6. QED
        BY <1>1, <3>1, <3>2, <3>3, <3>4, <3>5, WindowEnds
    <2>3. QED
      BY <2>1, <2>2
  <1>4. DOMAIN table \subseteq Buckets
    BY <1>1 DEF LimitTypeOK, Swept
  <1>5. QED
    BY <1>2, <1>3, <1>4

(* Buckets that Allow leaves as they are.                                  *)
LEMMA WithoutSwept ==
  ASSUME NEW S, NEW now, \A b \in S \cap DOMAIN entries : Over(b, now)
  PROVE  Swept(Without(S), now)
BY DEF Swept, Without, Restrict

LEMMA AllowKeepsWindows ==
  ASSUME WindowInv, NEW p \in Attempts, Allow(p)
  PROVE  WindowInv'
  <1> DEFINE r == attempt[p]
  <1>1. LimitTypeOK /\ second \in Nat
    BY LimitAssumption DEF WindowInv, LimitTypeOK
  <1>2. /\ r.step = "clocked" /\ r.account \in UserNames /\ r.origin \in Origins
        /\ r.now \in Nat /\ r.now \in 0 .. MaxSecond
        /\ r.now <= second /\ second <= r.now + MaxDelay
    BY <1>1, LimitAssumption DEF Allow, WindowInv, ClockOK, LimitTypeOK
  <1>3. Swept(AfterLoop(p), r.now) /\ Swept(Without(Overdue(r.now)), r.now)
    BY WithoutSwept DEF AfterLoop, Overdue
  <1>4. /\ r.account \in Buckets /\ r.origin \in Buckets
    BY <1>2 DEF Buckets
  <1>5. second' = second
    BY DEF Allow, Refuse
  <1>6. PICK table : /\ Swept(table, r.now)
                     /\ \/ Refuse(p, table)
                        \/ /\ ~Spent(r.account, r.now) /\ ~Spent(r.origin, r.now)
                           /\ table \in {AfterLoop(p), Without(Overdue(r.now))}
                           /\ entries' = Counted(p, table)
                           /\ attempt' = [attempt EXCEPT ![p].step = "slot"]
                           /\ recent' = [b \in Buckets |->
                                IF b \in {r.account, r.origin}
                                THEN [a \in Ages |-> recent[b][a] + 1] ELSE recent[b]]
    BY <1>3 DEF Allow
  <1>7. /\ \A b \in DOMAIN table :
             /\ table[b] \in [started : 0 .. MaxSecond, attempts : 1 .. Limit(b)]
             /\ table[b].started <= second
             /\ WindowOpen(recent[b], second, table[b], Limit(b))
        /\ \A b \in Buckets \ DOMAIN table : WindowNone(recent[b], Limit(b))
        /\ DOMAIN table \subseteq Buckets
    BY <1>2, <1>6, SweptBuckets
  <1>8. CASE Refuse(p, table)
    <2>1. /\ entries' = table /\ recent' = recent
          /\ attempt' = [attempt EXCEPT ![p] = Unstarted]
      BY <1>8 DEF Refuse
    <2>2. ASSUME NEW b \in Buckets PROVE BucketOK(b)'
      BY <1>5, <1>7, <2>1, <2>2 DEF BucketOK, Limit
    <2>3. LimitTypeOK'
      <3>1. attempt' \in [Attempts -> [step : {"idle", "clocked", "slot", "verify"},
                            account : UserNames, origin : Origins, now : 0 .. MaxSecond]]
        BY <1>1, <2>1, UnstartedType DEF LimitTypeOK
      <3>2. QED
        BY <1>1, <1>5, <1>7, <2>1, <3>1 DEF LimitTypeOK, Limit
    <2>4. \A q \in Attempts : ClockOK(q)'
      BY <1>1, <1>5, <2>1, UnstartedType DEF ClockOK, WindowInv, LimitTypeOK
    <2>5. QED
      BY <2>2, <2>3, <2>4 DEF WindowInv
  <1>9. CASE /\ ~Spent(r.account, r.now) /\ ~Spent(r.origin, r.now)
             /\ table \in {AfterLoop(p), Without(Overdue(r.now))}
             /\ entries' = Counted(p, table)
             /\ attempt' = [attempt EXCEPT ![p].step = "slot"]
             /\ recent' = [b \in Buckets |->
                  IF b \in {r.account, r.origin}
                  THEN [a \in Ages |-> recent[b][a] + 1] ELSE recent[b]]
    <2>1. PICK keys : keys = {r.account, r.origin}
      OBVIOUS
    <2>2. /\ DOMAIN entries' = DOMAIN table \cup keys
          /\ \A b \in DOMAIN entries' :
               entries'[b] = IF b \notin keys THEN table[b]
                             ELSE IF b \in DOMAIN table
                             THEN [table[b] EXCEPT !.attempts = @ + 1]
                             ELSE [started |-> r.now, attempts |-> 1]
      BY <1>9, <2>1 DEF Counted
    <2>3. keys \subseteq Buckets
      BY <1>4, <2>1
    <2>4. ASSUME NEW b \in keys \cap DOMAIN table
          PROVE  table[b].attempts < Limit(b)
      <3>1. b \in DOMAIN entries /\ table[b] = entries[b] /\ ~Spent(b, r.now)
        BY <1>6, <1>9, <2>1 DEF Swept
      <3>2. ~Over(b, r.now)
        <4>1. Examined(p) = keys
          BY <1>9, <2>1 DEF Examined
        <4>2. DOMAIN AfterLoop(p) = DOMAIN entries \ {c \in keys \cap DOMAIN entries : Over(c, r.now)}
          BY <4>1 DEF AfterLoop, Without, Restrict
        <4>3. DOMAIN Without(Overdue(r.now)) = DOMAIN entries \ {c \in DOMAIN entries : Over(c, r.now)}
          BY DEF Overdue, Without, Restrict
        <4>4. QED
          BY <1>9, <3>1, <4>2, <4>3
      <3>3. /\ table[b].attempts \in 1 .. Limit(b) /\ Limit(b) \in Nat \ {0}
        BY <1>7, <2>3, LimitType
      <3>4. QED
        BY <3>1, <3>2, <3>3 DEF Spent
    <2>5. ASSUME NEW b \in DOMAIN entries'
          PROVE  /\ entries'[b] \in [started : 0 .. MaxSecond, attempts : 1 .. Limit(b)]
                 /\ entries'[b].started <= second
                 /\ WindowOpen(recent'[b], second, entries'[b], Limit(b))
      <3>1. b \in Buckets /\ Limit(b) \in Nat \ {0} /\ recent[b] \in [Ages -> Nat]
        BY <1>1, <1>7, <2>2, <2>3, LimitType DEF LimitTypeOK
      <3>2. CASE b \notin keys
        BY <1>7, <1>9, <2>1, <2>2, <3>1, <3>2
      <3>3. CASE b \in keys /\ b \in DOMAIN table
        <4>1. PICK e : e = [table[b] EXCEPT !.attempts = @ + 1]
          OBVIOUS
        <4>2. table[b] \in [started : 0 .. MaxSecond, attempts : 1 .. Limit(b)]
          BY <1>7, <3>3
        <4>3. /\ e.started = table[b].started /\ e.attempts = table[b].attempts + 1
              /\ e \in [started : 0 .. MaxSecond, attempts : 1 .. Limit(b)]
          <5>1. table[b].attempts + 1 \in 1 .. Limit(b)
            BY <2>4, <3>1, <3>3, <4>2
          <5>2. QED
            BY <4>1, <4>2, <5>1
        <4>4. entries'[b] = e
          BY <2>2, <3>3, <4>1
        <4>5. recent'[b] = [a \in Ages |-> recent[b][a] + 1]
          BY <1>9, <2>1, <3>1, <3>3
        <4>6. table[b].started \in Nat /\ table[b].attempts \in Nat
          BY <4>2, <3>1, LimitAssumption
        <4>7. WindowOpen(recent[b], second, table[b], Limit(b)) /\ table[b].started <= second
          BY <1>7, <3>3
        <4>8. WindowOpen(recent'[b], second, e, Limit(b))
          BY <1>1, <3>1, <4>3, <4>5, <4>6, <4>7, WindowCounts
        <4>9. QED
          BY <4>3, <4>4, <4>7, <4>8
      <3>4. CASE b \in keys /\ b \notin DOMAIN table
        <4>1. PICK e : e = [started |-> r.now, attempts |-> 1]
          OBVIOUS
        <4>2. /\ e.started = r.now /\ e.attempts = 1
              /\ e \in [started : 0 .. MaxSecond, attempts : 1 .. Limit(b)]
          BY <1>2, <3>1, <4>1
        <4>3. entries'[b] = e
          BY <2>2, <3>4, <4>1
        <4>4. recent'[b] = [a \in Ages |-> recent[b][a] + 1]
          BY <1>9, <2>1, <3>1, <3>4
        <4>5. WindowNone(recent[b], Limit(b))
          BY <1>7, <3>1, <3>4
        <4>6. WindowOpen(recent'[b], second, e, Limit(b))
          BY <1>1, <1>2, <3>1, <4>2, <4>4, <4>5, WindowStarts
        <4>7. QED
          BY <1>2, <4>2, <4>3, <4>6
      <3>5. QED
        BY <3>2, <3>3, <3>4
    <2>6. ASSUME NEW b \in Buckets PROVE BucketOK(b)'
      <3>1. CASE b \in DOMAIN entries'
        BY <1>5, <2>5, <3>1 DEF BucketOK, Limit
      <3>2. CASE b \notin DOMAIN entries'
        <4>1. b \notin keys /\ b \notin DOMAIN table
          BY <2>2, <3>2
        <4>2. recent'[b] = recent[b]
          BY <1>9, <2>1, <4>1
        <4>3. QED
          BY <1>7, <3>2, <4>1, <4>2 DEF BucketOK, Limit
      <3>3. QED
        BY <3>1, <3>2
    <2>7. LimitTypeOK'
      <3>1. attempt' \in [Attempts -> [step : {"idle", "clocked", "slot", "verify"},
                            account : UserNames, origin : Origins, now : 0 .. MaxSecond]]
        BY <1>1, <1>9 DEF LimitTypeOK
      <3>2. recent' \in [Buckets -> [Ages -> Nat]]
        <4>1. ASSUME NEW b \in Buckets PROVE recent'[b] \in [Ages -> Nat]
          <5>1. recent[b] \in [Ages -> Nat]
            BY <1>1 DEF LimitTypeOK
          <5>2. recent'[b] = [a \in Ages |-> recent[b][a] + 1] \/ recent'[b] = recent[b]
            BY <1>9
          <5>3. QED
            BY <5>1, <5>2
        <4>2. QED
          BY <1>9, <4>1
      <3>3. DOMAIN entries' \subseteq Buckets
        BY <1>7, <2>2, <2>3
      <3>4. QED
        BY <1>1, <1>5, <2>5, <3>1, <3>2, <3>3 DEF LimitTypeOK, Limit
    <2>8. ASSUME NEW q \in Attempts PROVE ClockOK(q)'
      <3>1. attempt'[q] = attempt[q] \/ attempt'[q].step = "slot"
        BY <1>1, <1>9 DEF LimitTypeOK
      <3>2. QED
        BY <1>5, <3>1 DEF ClockOK, WindowInv
    <2>9. QED
      BY <2>6, <2>7, <2>8 DEF WindowInv
  <1>10. QED
    BY <1>6, <1>8, <1>9

LEMMA SuccessKeepsWindows ==
  ASSUME WindowInv, NEW p \in Attempts, RightPassword(p)
  PROVE  WindowInv'
  <1>1. LimitTypeOK
    BY DEF WindowInv
  <1>2. PICK c \in UserNames : c = attempt[p].account
    BY <1>1 DEF LimitTypeOK
  <1>3. /\ DOMAIN entries' = DOMAIN entries \ {c}
        /\ \A b \in DOMAIN entries \ {c} : entries'[b] = entries[b]
        /\ attempt' = [attempt EXCEPT ![p] = Unstarted]
        /\ recent' = [recent EXCEPT ![c] = [a \in Ages |-> 0]]
        /\ second' = second
    BY <1>2 DEF RightPassword, Without, Restrict, Cleared
  <1>4. c \in Buckets
    BY DEF Buckets
  <1>5. /\ recent' \in [Buckets -> [Ages -> Nat]]
        /\ recent'[c] = [a \in Ages |-> 0]
        /\ \A b \in Buckets \ {c} : recent'[b] = recent[b]
    BY <1>1, <1>3, <1>4 DEF LimitTypeOK
  <1>6. ASSUME NEW b \in Buckets PROVE BucketOK(b)'
    <2>1. CASE b = c
      <3>1. Limit(b) \in Nat \ {0} /\ \A a \in Ages : recent'[b][a] = 0
        BY <1>5, <1>6, <2>1, LimitType
      <3>2. WindowNone(recent'[b], Limit(b))
        BY <3>1 DEF WindowNone
      <3>3. QED
        BY <1>3, <2>1, <3>2 DEF BucketOK, Limit
    <2>2. CASE b # c
      BY <1>3, <1>5, <1>6, <2>2 DEF WindowInv, BucketOK, Limit
    <2>3. QED
      BY <2>1, <2>2
  <1>7. LimitTypeOK'
    <2>1. attempt' \in [Attempts -> [step : {"idle", "clocked", "slot", "verify"},
                          account : UserNames, origin : Origins, now : 0 .. MaxSecond]]
      BY <1>1, <1>3, UnstartedType DEF LimitTypeOK
    <2>2. QED
      BY <1>1, <1>3, <1>5, <2>1 DEF LimitTypeOK, Limit
  <1>8. ASSUME NEW q \in Attempts PROVE ClockOK(q)'
    <2>1. attempt'[q] = attempt[q] \/ attempt'[q].step = "idle"
      BY <1>1, <1>3, UnstartedType DEF LimitTypeOK
    <2>2. QED
      BY <1>3, <2>1 DEF ClockOK, WindowInv
  <1>9. QED
    BY <1>6, <1>7, <1>8 DEF WindowInv

LEMMA SecondKeepsWindows == WindowInv /\ Second => WindowInv'
  <1> SUFFICES ASSUME WindowInv, Second PROVE WindowInv'
    OBVIOUS
  <1>1. /\ LimitTypeOK /\ second \in Nat /\ second' = second + 1
        /\ second' \in 0 .. MaxSecond
        /\ entries' = entries /\ attempt' = attempt
        /\ recent' = [b \in Buckets |-> Aged(recent[b])]
    BY LimitAssumption DEF WindowInv, LimitTypeOK, Second, Aged
  <1>2. ASSUME NEW b \in Buckets
        PROVE  BucketOK(b)' /\ recent'[b] \in [Ages -> Nat]
    <2>1. /\ recent[b] \in [Ages -> Nat] /\ recent'[b] = Aged(recent[b])
          /\ Limit(b) \in Nat \ {0} /\ BucketOK(b)
      BY <1>1, LimitType DEF LimitTypeOK, WindowInv
    <2>2. CASE b \in DOMAIN entries
      <3>1. /\ entries[b] \in [started : 0 .. MaxSecond, attempts : 1 .. Limit(b)]
            /\ entries[b].started <= second
            /\ WindowOpen(recent[b], second, entries[b], Limit(b))
        BY <1>1, <2>1, <2>2 DEF LimitTypeOK, BucketOK
      <3>2. entries[b].started \in Nat /\ entries[b].attempts \in Nat \ {0}
        BY <2>1, <3>1, LimitAssumption
      <3>3. /\ recent'[b] \in [Ages -> Nat]
            /\ WindowOpen(recent'[b], second + 1, entries[b], Limit(b))
        BY <1>1, <2>1, <3>1, <3>2, WindowAges
      <3>4. entries[b].started <= second + 1
        BY <1>1, <3>1, <3>2
      <3>5. QED
        BY <1>1, <2>2, <3>3, <3>4 DEF BucketOK, Limit
    <2>3. CASE b \notin DOMAIN entries
      <3>1. PICK e : e = [started |-> 0, attempts |-> 1]
        OBVIOUS
      <3>2. e.started \in Nat /\ e.attempts \in Nat \ {0}
        BY <3>1
      <3>3. WindowNone(recent[b], Limit(b))
        BY <2>1, <2>3 DEF BucketOK
      <3>4. /\ recent'[b] \in [Ages -> Nat]
            /\ WindowNone(recent'[b], Limit(b))
        BY <1>1, <2>1, <3>2, <3>3, WindowAges
      <3>5. QED
        BY <1>1, <2>3, <3>4 DEF BucketOK, Limit
    <2>4. QED
      BY <2>2, <2>3
  <1>3. LimitTypeOK'
    BY <1>1, <1>2 DEF LimitTypeOK, Limit
  <1>4. ASSUME NEW q \in Attempts PROVE ClockOK(q)'
    <2>1. /\ attempt[q].now \in Nat
          /\ attempt[q].step = "clocked" =>
               /\ attempt[q].now <= second
               /\ second < attempt[q].now + MaxDelay
      BY <1>1, LimitAssumption DEF Second, WindowInv, ClockOK, LimitTypeOK
    <2>2. MaxDelay \in Nat
      BY LimitAssumption
    <2>3. QED
      BY <1>1, <2>1, <2>2 DEF ClockOK
  <1>5. QED
    BY <1>2, <1>3, <1>4 DEF WindowInv

(* The steps that only move an attempt. *)
LEMMA AttemptKeepsWindows ==
  ASSUME WindowInv, NEW p \in Attempts,
         \/ \E a \in UserNames, o \in Origins : Arrive(p, a, o)
         \/ TakeSlot(p) \/ WrongPassword(p)
  PROVE  WindowInv'
  <1>1. LimitTypeOK /\ UNCHANGED <<second, entries, recent>> /\ second \in Nat
    BY LimitAssumption
       DEF WindowInv, Arrive, TakeSlot, WrongPassword, LimitTypeOK
  <1>2. PICK new : /\ attempt' = [attempt EXCEPT ![p] = new]
                   /\ new \in [step : {"idle", "clocked", "slot", "verify"},
                               account : UserNames, origin : Origins, now : 0 .. MaxSecond]
                   /\ new.step = "clocked" => new.now = second
    <2>1. CASE \E a \in UserNames, o \in Origins : Arrive(p, a, o)
      BY <1>1, <2>1 DEF Arrive, LimitTypeOK
    <2>2. CASE attempt' = [attempt EXCEPT ![p] = Unstarted]
      BY <2>2, UnstartedType
    <2>3. CASE attempt' = [attempt EXCEPT ![p].step = "verify"]
      <3>1. PICK x : x = [attempt[p] EXCEPT !.step = "verify"]
        OBVIOUS
      <3>2. x \in [step : {"idle", "clocked", "slot", "verify"}, account : UserNames,
                   origin : Origins, now : 0 .. MaxSecond] /\ x.step = "verify"
        BY <1>1, <3>1 DEF LimitTypeOK
      <3>3. attempt' = [attempt EXCEPT ![p] = x]
        BY <1>1, <2>3, <3>1 DEF LimitTypeOK
      <3>4. QED
        BY <3>2, <3>3
    <2>4. QED
      BY <2>1, <2>2, <2>3 DEF TakeSlot, WrongPassword
  <1>3. LimitTypeOK'
    BY <1>1, <1>2 DEF LimitTypeOK, Limit
  <1>4. \A b \in Buckets : BucketOK(b)'
    BY <1>1 DEF WindowInv, BucketOK, Limit
  <1>5. ASSUME NEW q \in Attempts PROVE ClockOK(q)'
    <2>1. CASE q = p
      <3>1. attempt'[q] = new /\ second' = second /\ MaxDelay \in Nat
        BY <1>1, <1>2, <2>1, LimitAssumption DEF LimitTypeOK
      <3>2. QED
        BY <1>1, <1>2, <3>1 DEF ClockOK
    <2>2. CASE q # p
      BY <1>1, <1>2, <2>2 DEF ClockOK, WindowInv, LimitTypeOK
    <2>3. QED
      BY <2>1, <2>2
  <1>6. QED
    BY <1>3, <1>4, <1>5 DEF WindowInv

LEMMA WindowStep == WindowInv /\ [LimitNext]_limitVars => WindowInv'
  <1> SUFFICES ASSUME WindowInv, [LimitNext]_limitVars PROVE WindowInv'
    OBVIOUS
  <1>1. CASE UNCHANGED limitVars
    BY <1>1 DEF limitVars, WindowInv, LimitTypeOK, ClockOK, BucketOK, Limit
  <1>2. QED
    BY <1>1, AllowKeepsWindows, SuccessKeepsWindows, SecondKeepsWindows,
       AttemptKeepsWindows DEF LimitNext

(* No limit of fixed windows is a limit of sliding ones, and an attempt    *)
(* may use a reading of the clock that has passed.  Still, if it waits for *)
(* the mutex at most half a window: no client gets three times its limit   *)
(* into any window's time, however often it succeeds, and no account since *)
(* its last success; and the table never outgrows MaxBuckets.              *)
THEOREM LoginLimitsHold == LimitSpec => []LimitsHold
  <1>1. ASSUME WindowInv PROVE AttemptsBounded
    <2>1. ASSUME NEW b \in Buckets PROVE recent[b][LimitWindow - 1] < 3 * Limit(b)
      <3>1. /\ LimitWindow - 1 \in Ages /\ Limit(b) \in Nat \ {0}
            /\ recent[b] \in [Ages -> Nat] /\ BucketOK(b)
        BY <1>1, <2>1, LimitType, LimitAssumption
           DEF WindowInv, LimitTypeOK, Ages
      <3>2. recent[b][LimitWindow - 1] \in Nat
        BY <3>1
      <3>3. CASE b \in DOMAIN entries
        <4>1. /\ entries[b].attempts \in 1 .. Limit(b)
              /\ recent[b][LimitWindow - 1] <= entries[b].attempts + 2 * Limit(b) - 1
          BY <1>1, <3>1, <3>3 DEF WindowInv, LimitTypeOK, BucketOK, WindowOpen
        <4>2. QED
          BY <3>1, <3>2, <4>1
      <3>4. CASE b \notin DOMAIN entries
        <4>1. recent[b][LimitWindow - 1] <= 2 * Limit(b) - 1
          BY <3>1, <3>4 DEF BucketOK, WindowNone
        <4>2. QED
          BY <3>1, <3>2, <4>1
      <3>5. QED
        BY <3>3, <3>4
    <2>2. QED
      BY <2>1 DEF AttemptsBounded
  <1>2. LimitSpec => []WindowInv
    BY WindowStart, WindowStep, PTL DEF LimitSpec
  <1>3. TableBounded /\ AttemptsBounded => LimitsHold
    BY DEF LimitsHold
  <1>4. QED
    BY <1>1, <1>2, <1>3, TableNeverOutgrown, PTL
=============================================================================
