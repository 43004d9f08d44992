SPECIFICATION FairSpec
CONSTANTS
  Calls = {c1, c2, c3}
  Requests <- MCPanickingRequests
  Chains <- MCChains
  ProtoChains <- MCProtoChains
  Registered <- MCRegistered
  Txs <- MCTxs
  EmptyTx = ""
  Renderings <- MCRenderings
  Convert <- MCConvert
  BadTx = BadTx
  Unserializable = Unserializable
  Panics = Panics
  Keys = {k1}
  NoKey = NoKey
  Phases <- MCProvisioned
  NoRequest = NoRequest
  NoReply = NoReply
  Nobody = Nobody
PROPERTIES
  EveryCallAnswered
