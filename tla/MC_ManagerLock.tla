---------------------------- MODULE MC_ManagerLock ----------------------------
(***************************************************************************)
(* ManagerLock instantiated for TLC: the miner, the importer and two RPC  *)
(* handlers, so that readers overlap each other and the writers.          *)
(***************************************************************************)
EXTENDS ManagerLock

=============================================================================
