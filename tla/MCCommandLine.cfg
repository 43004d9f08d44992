SPECIFICATION CliSpec
CONSTANTS
  Texts <- MCTexts
  Byteses <- MCByteses
  EmptyText <- MCEmptyText
  Txs <- MCTxs
  Decodes <- MCDecodes
  Shows <- MCShows
  Payloads <- MCPayloads
  Unprintable <- MCUnprintable
  Chains = {"Solana", "Tron", "Unspecified", "bridge"}
  Bad = Bad
  Nothing = Nothing
  Names = {"solana", "tron", "aptos"}
  Outputs = {"json", "text", "human", "yaml"}
  Fields <- MCFields
  Depth <- MCDepth
  Drawings <- MCDrawings
  Absent = Absent
\* A process that printed its answer has ended.
CHECK_DEADLOCK FALSE
INVARIANTS
  DetectsWhatConverts
  ReadAsMeant
  TreeCanBeReadBack
  CondensedWithinFull
