-------------------------- MODULE TronTransactions --------------------------
(***************************************************************************)
(* Tron transactions of up to two contracts: transfers, transfers that do  *)
(* not decode, other contracts, and contracts without parameter; and one   *)
(* contract with times before, at and after the ends of the calendar.      *)
(***************************************************************************)
EXTENDS Integers, Sequences

TronNames == INSTANCE TronConversion WITH
  raw <- <<>>, outcome <- <<>>, Raws <- {}, Earliest <- 0, Latest <- 0

Transfer(from, to, n) ==
  [is |-> "transfer", owner_address |-> from, to_address |-> to, amount |-> n]

Contract(type, url, decoded) ==
  [type |-> type,
   parameter |-> [is |-> "some", type_url |-> url, decoded |-> decoded]]

TronContracts ==
  {Contract("Transfer", TronNames!TransferUrl, Transfer(from, to, n)) :
     from \in {"41a1", "41b2"}, to \in {"41b2", "00ff"}, n \in {-1, 0, 5}}
  \cup {Contract("Vote", TronNames!TransferUrl, Transfer("41a1", "41b2", 5)),
        Contract("Transfer", TronNames!TransferUrl, TronNames!NoTransfer),
        Contract("Trigger", "protocol.TriggerSmartContract", TronNames!NoTransfer),
        Contract("Vote", "protocol.VoteWitnessContract", TronNames!NoTransfer),
        [type |-> "Transfer", parameter |-> TronNames!NoParameter]}

Raw(t, e, fee, contracts) ==
  [timestamp |-> t, expiration |-> e, fee_limit |-> fee, ref_block_bytes |-> "1f2e",
   ref_block_hash |-> "c0de", contract |-> contracts]

MCRaws ==
  {Raw(1500, 2500, 7, cs) : cs \in UNION {[1..n -> TronContracts] : n \in 0..2}}
  \cup {Raw(t, e, fee, <<>>) :
          t \in {-1, 0, 1, 1500, 1700, 9000, 9001}, e \in {0, 1700, 9001}, fee \in {0, 7}}
=============================================================================
