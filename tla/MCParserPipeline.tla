-------------------------- MODULE MCParserPipeline --------------------------
(***************************************************************************)
(* A small deployment: two Solana transactions that render, one that does  *)
(* not, one the converter panics on and one whose payload does not         *)
(* serialize, a chain of the proto enum without a converter and a number   *)
(* that is no chain at all.                                                *)
(***************************************************************************)
EXTENDS ParserPipeline, TLC

MCChains == {"solana", "bitcoin", "bogus"}
MCProtoChains == {"solana", "bitcoin"}
MCRegistered == {"solana"}
MCTxs == {"", "tx1", "tx2", "garbage", "crash", "odd"}
MCRenderings == {"json1", "json2"}
MCConvert ==
  [ct \in MCRegistered \X MCTxs |->
     CASE ct[2] = "tx1" -> "json1"
       [] ct[2] = "tx2" -> "json2"
       [] ct[2] \in {"", "garbage"} -> BadTx
       [] ct[2] = "crash" -> Panics
       [] ct[2] = "odd" -> Unserializable]

MCPhases == {"WaitingForQuorumShards", "QuorumKeyProvisioned"}

Parse(chain, tx) == [kind |-> "parse", chain |-> chain, tx |-> tx]

(* Every request.                                                          *)
MCAllRequests ==
  {Parse("solana", t) : t \in MCTxs}
    \cup {Parse("bitcoin", "tx1"), Parse("bogus", "tx1")}
    \cup [kind: {"health", "readiness", "liveness", "otherService", "enclave"}]

(* A transaction that takes the app down, next to others.                  *)
MCPanickingRequests ==
  {Parse("solana", "crash"), Parse("solana", "tx1")}

(* Nothing tells one key from another.                                     *)
MCSymmetry == Permutations(Keys)

MCProvisioned == {"QuorumKeyProvisioned"}
=============================================================================
