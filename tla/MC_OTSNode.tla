----------------------------- MODULE MC_OTSNode -----------------------------
(***************************************************************************)
(* OTSNode instantiated for TLC: one honest producer with an OTS client,  *)
(* no faulty producer and no look-alike events (OTSChain's runs cover     *)
(* those), a persistence interval of 2 so that persisted and unpersisted *)
(* blocks alternate, and one restart.                                     *)
(***************************************************************************)
EXTENDS OTSNode

=============================================================================
