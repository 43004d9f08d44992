SPECIFICATION Spec
CONSTANTS
  Messages <- MCMessages
  Compared <- MCCompared
  ParserRejects <- MCParserRejects
  System = "system"
  Jupiter = "jupiter"
  ComputeBudget = "budget"
  AssociatedTokenAccount = "ata"
  StakePool = "pool"
  SystemInstruction <- MCSystemInstruction
  ComputeBudgetInstruction <- MCComputeBudgetInstruction
  StakePoolInstruction <- MCStakePoolInstruction
  Tokens <- MCTokens
  Truncated <- MCTruncated
  NoKeyThere = "Unknown"
  Token = "token"
  TokenTransfer <- MCTokenTransfer
  Bare = {"u64"}
  Programs <- MCPrograms
  Orders <- MCOrders
  Unconvertible <- MCUnconvertible
  Raws <- MCRaws
  Earliest = 0
  Latest = 9000
CHECK_DEADLOCK FALSE
INVARIANTS
  ConsistentNeverPanics
  EveryInstructionShown
  NamedUpToLookup
  SwapAsEncoded
  SameScreenSameInstructions
  AccountsAsTheRuntimeReadsThem
  OrderIndependent
  CallsShownInOrder
  SwapUnits
  TransferAmounts
  StakeAndRepayAmounts
  WellFormedNeverPanics
  SameScreenSameTransfers
