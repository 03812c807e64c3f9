------------------------ MODULE MCTrustVerification -------------------------
(***************************************************************************)
(* Small instances of TrustVerification for TLC.  All that the module can  *)
(* do at once is too much; each of three scenarios leaves something out.   *)
(***************************************************************************)
EXTENDS TrustVerification, FiniteSetsExt

CONSTANTS alice, bob     (* signers *)

VARIABLE scenario        (* which of the three this is *)

(* A version may keep its predecessor's signer, or replace him. *)
SomeOffers == {{alice}, {bob}}

Starts == MapThenSumSet(LAMBDA w : job[w].attempts, Workflows)

(* The reader, until its answer, beside two starts: of one workflow and of *)
(* another, or an attempt and its retry or takeover.                       *)
Reading ==
  /\ reader.step # "done"
  /\ Next
  /\ ~PeriodicRepair /\ Starts' <= 2

(* Every start of both workflows, late executions beside newer attempts    *)
(* and burials, without a reader.                                          *)
Retrying == Next /\ ~PeriodicRepair /\ UNCHANGED reader

(* The periodic repair beside the eager one, two starts, no reader.        *)
Repairing == Next /\ Starts' <= 2 /\ UNCHANGED reader

AnswersInit == scenario \in {"reading", "retrying", "repairing"} /\ Init

AnswersNext ==
  /\ \/ scenario = "reading" /\ Reading
     \/ scenario = "retrying" /\ Retrying
     \/ scenario = "repairing" /\ Repairing
  /\ UNCHANGED scenario

AnswersSpec == AnswersInit /\ [][AnswersNext]_<<scenario, vars>>
=============================================================================
