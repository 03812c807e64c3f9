--------------------------- MODULE MCNotifications --------------------------
(***************************************************************************)
(* Two instances of RegistryNotifications in one: events in any order, of  *)
(* pushes that need not agree, and events first sent in the order of their *)
(* pushes, which then keep the tags as the registry has them.              *)
(***************************************************************************)
EXTENDS MCRegistryNotifications

InOrder == INSTANCE RegistryNotifications WITH
  Uploads <- IndexedUploads, MaxPushes <- 4, MaxBatch <- 2

VARIABLE inOrder     (* which of the two this is *)

NotificationsInit == inOrder \in BOOLEAN /\ Init

NotificationsNext ==
  /\ IF inOrder THEN InOrder!Next /\ orderly' ELSE Next
  /\ UNCHANGED inOrder

NotificationsSpec ==
  NotificationsInit /\ [][NotificationsNext]_<<inOrder, vars>>
=============================================================================
