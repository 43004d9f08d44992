------------------------- MODULE MCSolanaConversion -------------------------
(***************************************************************************)
(* Solana conversion alone, over the messages of SolanaMessages.           *)
(***************************************************************************)
EXTENDS SolanaConversion, SolanaMessages
=============================================================================
