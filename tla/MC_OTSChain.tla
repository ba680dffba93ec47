---------------------------- MODULE MC_OTSChain ----------------------------
(***************************************************************************)
(* OTSChain instantiated for TLC: two honest producers (one with an OTS   *)
(* client, one without) and one faulty producer; one RUID; the cache and  *)
(* the persistence interval shrunk so that eviction and persistence both  *)
(* happen within MaxBlock blocks.                                          *)
(***************************************************************************)
EXTENDS OTSChain

\* Look-alike events emitted by a contract other than the registry, one
\* per event the engine reads.
MC_ForgedLogs ==
    {[addr |-> OtherContract, sig |-> "OTSSubmitted", topic |-> ZeroHash,
      digest |-> BadDigest, btc |-> ZeroHash, start |-> 0, end |-> 0],
     [addr |-> OtherContract, sig |-> "OTSConfirmed", topic |-> ZeroHash,
      digest |-> ZeroHash, btc |-> FakeBtc, start |-> 0, end |-> 0],
     [addr |-> OtherContract, sig |-> "Anchored", topic |-> ZeroHash,
      digest |-> ZeroHash, btc |-> ZeroHash, start |-> 0, end |-> 0]}

=============================================================================
