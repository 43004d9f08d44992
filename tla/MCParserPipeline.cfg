SPECIFICATION Spec
CONSTANTS
  Calls = {c1, c2}
  Requests <- MCAllRequests
  Chains <- MCChains
  ProtoChains <- MCProtoChains
  Registered <- MCRegistered
  Txs <- MCTxs
  EmptyTx = ""
  Renderings <- MCRenderings
  Convert <- MCConvert
  BadTx = BadTx
  Unserializable = Unserializable
  Panics = Panics
  Keys = {k1, k2}
  NoKey = NoKey
  Phases <- MCPhases
  NoRequest = NoRequest
  NoReply = NoReply
  Nobody = Nobody
SYMMETRY MCSymmetry
INVARIANTS
  TypeOK
  AnswersAreOwn
  BlameIsOwn
  HistogramsCountAnswers
PROPERTIES
  RepliesAreFresh
  ServesAsPromised
