SPECIFICATION Spec
CONSTANTS
  Transactions <- MCTransactions
  Wires <- MCWires
  NoChain = NoChain
  Listed <- MCListed
  NoAddress = NoAddress
  NoFee = NoFee
  Garbled = Garbled
  I64Max = 5
  ChronoMax = 4
  NoTx = NoTx
CHECK_DEADLOCK FALSE
INVARIANT InputsBelongToCommands
