------------------------ MODULE MCConverterRegistry -------------------------
(***************************************************************************)
(* Three chains and one that is Custom, each with any converter or none;   *)
(* bytes that are a Solana or a Tron transaction, both, or neither; texts  *)
(* of them in every encoding, among them those that are mistaken.          *)
(***************************************************************************)
EXTENDS ConverterRegistry

MCByteses == {"", "sol", "old", "tron", "both", "junk"}
MCTxs == {"v0", "legacy", "tron1", "tron2"}

MCDecodes ==
  [f \in Formats |-> [b \in MCByteses |->
     CASE f = "VersionedTransaction" /\ b \in {"sol", "both"} -> "v0"
       [] f = "Transaction" /\ b \in {"sol", "old"} -> "legacy"
       [] f = "transaction::Raw" /\ b = "tron" -> "tron1"
       [] f = "transaction::Raw" /\ b \in {"", "both"} -> "tron2"
       [] OTHER -> Bad]]

MCPayloads == {<<"Solana", "v0">>, <<"Tron", "tron1">>, <<"Tron", "tron2">>}

(* The legacy transaction does not convert, tron2 has characters that must *)
(* not be shown.                                                           *)
MCShows ==
  [ct \in (Converters \ {"Unspecified"}) \X MCTxs |->
     IF ct \in MCPayloads THEN ct ELSE Bad]

TextOf(meant, digits, zeroX, hex, base64) ==
  [meant |-> meant, digits |-> digits, zeroX |-> zeroX, hex |-> hex, base64 |-> base64]

MCEmptyText == TextOf("hex", TRUE, FALSE, "", "")
Spelled == TextOf("base64", FALSE, FALSE, Bad, "junk")

MCTexts ==
  {MCEmptyText, Spelled}
    \cup UNION {{TextOf("hex", TRUE, FALSE, b, x), TextOf("0x", FALSE, TRUE, b, x),
                 TextOf("base64", TRUE, FALSE, x, b), TextOf("base64", FALSE, TRUE, x, b),
                 TextOf("base64", FALSE, FALSE, Bad, b)} :
                  b \in {"sol", "old", "tron", "both"}, x \in {"both"}}

MCUnprintable == {<<"Tron", "tron2">>, Unspecified(Spelled)}
=============================================================================
