------------------------- MODULE MCChainConversion --------------------------
(***************************************************************************)
(* The chains over their families of transactions.  The presets of Sui are *)
(* asked in one order and in its reverse: any two of them in either order. *)
(***************************************************************************)
EXTENDS ChainConversion, SolanaMessages, SuiPrograms, TronTransactions

Protocols == INSTANCE SuiProtocols

MCPrograms ==
  Calls(FunctionsOf("cetus", Protocols!CETUS_CONFIG)
          \cup FunctionsOf("suilend", Protocols!SUILEND_CONFIG)
          \cup FunctionsOf("momentum", Protocols!MOMENTUM_CONFIG))
  \cup CoinPrograms \cup {NotProgrammable}

MCOrders == {<<"cetus", "momentum", "sui_native_staking", "suilend">>,
             <<"suilend", "sui_native_staking", "momentum", "cetus">>}

(* A type as a number: the transaction is turned down before it is read.   *)
MCUnconvertible == {p \in CoinPrograms : p.commands = <<[command |-> "Other"]>>}
=============================================================================
