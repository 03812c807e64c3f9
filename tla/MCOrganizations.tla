--------------------------- MODULE MCOrganizations --------------------------
(* Small instances of Organizations for TLC. *)
EXTENDS Organizations, TLC

CONSTANTS alice, bob, carol

(* The users other than the creator, and the requests, are alike. *)
Symmetric == Permutations(Users \ {Creator}) \cup Permutations(Requests)
=============================================================================
