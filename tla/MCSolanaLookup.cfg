SPECIFICATION Spec
CONSTANTS
  Messages <- MCMessages
  Compared <- MCCompared
  ParserRejects <- MCParserRejects
  System = "system"
  Jupiter = "jupiter"
  ComputeBudget = "budget"
  AssociatedTokenAccount = "ata"
  StakePool = "pool"
  SystemInstruction <- MCSystemInstruction
  ComputeBudgetInstruction <- MCComputeBudgetInstruction
  StakePoolInstruction <- MCStakePoolInstruction
  Tokens <- MCTokens
  Truncated <- MCTruncated
  NoKeyThere = "Unknown"
  Token = "token"
  TokenTransfer <- MCTokenTransfer
CHECK_DEADLOCK FALSE
INVARIANT NamedInPlace
