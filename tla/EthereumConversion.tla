------------------------- MODULE EthereumConversion -------------------------
(***************************************************************************)
(* How an Ethereum transaction becomes a screen (visualsign-ethereum):     *)
(* decode_transaction_bytes reads the typed or legacy encoding,            *)
(* to_visual_sign_payload refuses the types it does not know, and          *)
(* convert_to_visual_sign_payload lays out one row per part of the         *)
(* transaction, its input data shown by the ERC-20 visualizer, by the      *)
(* Universal Router visualizer or raw.  What has the same screen is, to    *)
(* the one who signs it, the same transaction.                             *)
(***************************************************************************)
EXTENDS Filters

CONSTANTS
  Transactions, \* the TypedTransactions considered
  Wires,        \* the byte strings considered, up to what tells them apart
  NoChain,      \* a legacy transaction without a chain id
  Listed,       \* the chain ids get_chain_name has a name for
  NoAddress,    \* a transaction that creates a contract
  NoFee,        \* a transaction type without a priority fee
  Garbled,      \* bytes that do not decode
  I64Max,       \* the greatest i64
  ChronoMax,    \* the last second chrono has a date for
  NoTx          \* nothing was decoded

ASSUME DeadlineAssumption == ChronoMax \in Nat /\ I64Max \in Nat /\ ChronoMax < I64Max
ASSUME NoTxAssumption == NoTx \notin Transactions
ASSUME ListedAssumption == NoChain \notin Listed

(* The input data of a transaction: none, or a call with the arguments     *)
(* its function declares, if they decode.                                  *)
EmptyInput == [fn |-> "none"]

HasArguments(fn, a) ==
  CASE fn = "transfer" -> a = [to |-> a.to, amount |-> a.amount]
    [] fn = "transferFrom" -> a = [from |-> a.from, to |-> a.to, amount |-> a.amount]
    [] fn = "approve" -> a = [spender |-> a.spender, amount |-> a.amount]
    [] fn = "balanceOf" -> a = [account |-> a.account]
    [] fn = "allowance" -> a = [owner |-> a.owner, spender |-> a.spender]
    [] fn \in {"name", "symbol", "decimals", "totalSupply"} -> a = <<>>
    [] fn = "execute" ->
         /\ a = [commands |-> a.commands, inputs |-> a.inputs, deadline |-> a.deadline]
         /\ a.commands \in Seq(0..255)
         /\ a.inputs \in Seq({a.inputs[i] : i \in DOMAIN a.inputs})
         /\ a.deadline \in Nat
    [] OTHER -> TRUE

IsInput(i) ==
  \/ i = EmptyInput
  \/ /\ i = [fn |-> i.fn, args |-> i.args, unread |-> i.unread]
     /\ i.args = Garbled \/ HasArguments(i.fn, i.args)

(* A transaction has these parts; a legacy one has no priority fee.        *)
ASSUME TransactionsAssumption ==
  \A t \in Transactions :
    /\ t = [type |-> t.type, chain |-> t.chain, to |-> t.to, value |-> t.value,
            gas_limit |-> t.gas_limit, gas_price |-> t.gas_price, priority |-> t.priority,
            nonce |-> t.nonce, access_list |-> t.access_list, input |-> t.input]
    /\ IsInput(t.input)
    /\ t.type = "legacy" => t.priority = NoFee
    /\ t.type = "eip1559" => t.priority # NoFee

(* A body that decodes is a transaction of the type its decoder makes:     *)
(* TxEip1559::decode after the type byte, TxLegacy::decode on a list.      *)
ASSUME WiresAssumption ==
  \A w \in Wires :
    /\ w.first \in Int
    /\ w.body # Garbled /\ (w.first = 2 \/ w.first >= 192) =>
         /\ w.body \in Transactions
         /\ w.body.type = IF w.first = 2 THEN "eip1559" ELSE "legacy"

VARIABLES
  source,           \* what the converter is given: a string of bytes, or a
                    \* transaction that is decoded already
  decode_transfers, \* VisualSignOptions::decode_transfers
  tx,               \* the transaction decoded from it
  outcome           \* what the caller gets

vars == <<source, decode_transfers, tx, outcome>>

Pending == [is |-> "pending"]
Error(e) == [is |-> "error", error |-> e]
Payload(rows) == [is |-> "payload", rows |-> rows]

-----------------------------------------------------------------------------
(* Bytes.  A wire is its first byte, what TxEip1559::decode or             *)
(* TxLegacy::decode makes of the rest, and whether that leaves bytes over. *)

EmptyWire == [first |-> -1, body |-> Garbled, trailing |-> FALSE]

Eip2930 == 1
Eip1559 == 2
Eip4844 == 3
Eip7702 == 4

Body(w) ==
  IF w.body = Garbled THEN Error("FailedToDecodeTransaction")
  ELSE [is |-> "transaction", tx |-> w.body]

(* A mutant of decode_transaction_bytes: bytes left over are not looked at. *)
DecodeIgnoringTail(w) ==
  IF w.first = Eip1559 \/ w.first >= 192 THEN Body(w)
  ELSE Error("FailedToDecodeTransaction")

decode_transaction_bytes(w) ==
  LET decoded ==
        CASE w.first < 0 \/ w.first = 0 \/ w.first \in 128..191 ->
               Error("FailedToDecodeTransaction")
          [] w.first = Eip1559 -> Body(w)
          [] w.first \in {Eip2930, Eip4844, Eip7702} ->
               Error("UnsupportedTransactionType")
          [] w.first \in 5..127 -> Error("FailedToDecodeTransaction")
          [] w.first >= 192 -> Body(w)
  IN  IF decoded.is = "transaction" /\ w.trailing
      THEN Error("UnexpectedTrailingData")
      ELSE decoded

-----------------------------------------------------------------------------
(* Input data.  A call is the function its selector names, the arguments   *)
(* abi_decode finds, or Garbled, and the bytes of it abi_decode passes     *)
(* over: it does not validate, so there may be some.                       *)

(* The preview of an ERC-20 call: its title, the arguments its subtitle    *)
(* names, in the order of the sentence, and the rows behind it.            *)
Preview(title, subtitle, details) ==
  [label |-> "ERC20", title |-> title, subtitle |-> subtitle, details |-> details]

Transfer(call) ==
  Preview("ERC20_Transfer", <<call.amount, call.to>>,
          <<<<"Recipient", call.to>>, <<"Amount", call.amount>>>>)

TransferFrom(call) ==
  Preview("ERC20_TransferFrom", <<call.amount, call.from, call.to>>,
          <<<<"Sender", call.from>>, <<"Recipient", call.to>>,
            <<"Amount", call.amount>>>>)

Approve(call) ==
  Preview("ERC20_Approve", <<call.spender, call.amount>>,
          <<<<"Spender", call.spender>>, <<"Amount", call.amount>>>>)

BalanceOf(call) ==
  Preview("ERC20_BalanceOf", <<call.account>>, <<<<"Account", call.account>>>>)

Allowance(call) ==
  Preview("ERC20_Allowance", <<call.spender, call.owner>>,
          <<<<"Owner", call.owner>>, <<"Spender", call.spender>>>>)

(* name, symbol, decimals and totalSupply have no arguments.               *)
Query(title) == Preview(title, <<>>, <<>>)

Erc20Functions ==
  {"transfer", "transferFrom", "approve", "balanceOf", "allowance", "name", "symbol",
   "decimals", "totalSupply"}

IsErc20(input) == input.fn \in Erc20Functions /\ input.args # Garbled

Erc20Row(input) ==
  CASE input.fn = "transfer" -> Transfer(input.args)
    [] input.fn = "transferFrom" -> TransferFrom(input.args)
    [] input.fn = "approve" -> Approve(input.args)
    [] input.fn = "balanceOf" -> BalanceOf(input.args)
    [] input.fn = "allowance" -> Allowance(input.args)
    [] input.fn = "name" -> Query("ERC20_Name")
    [] input.fn = "symbol" -> Query("ERC20_Symbol")
    [] input.fn = "decimals" -> Query("ERC20_Decimals")
    [] input.fn = "totalSupply" -> Query("ERC20_TotalSupply")

(* The bytes that are a Command.                                           *)
Command == (0..6) \cup (8..14) \cup (16..20) \cup {33}

map_commands(raw) == Filter(raw, Command)

NoInput == "None"

(* A mutant of CommandRows: the inputs are taken from the second on.       *)
CommandRowsOffByOne(call) ==
  LET mapped == map_commands(call.commands)
  IN  [i \in 1..Len(mapped) |->
         [command |-> mapped[i],
          input |-> IF i + 1 <= Len(call.inputs) THEN call.inputs[i + 1] ELSE NoInput]]

CommandRows(call) ==
  LET mapped == map_commands(call.commands)
  IN  [i \in 1..Len(mapped) |->
         [command |-> mapped[i],
          input |-> IF i <= Len(call.inputs) THEN call.inputs[i] ELSE NoInput]]

HasDate(deadline) == deadline > 0 /\ deadline <= ChronoMax
DeadlineRow(call) == IF HasDate(call.deadline) THEN <<call.deadline>> ELSE <<>>

(* A deadline that is no i64 makes the visualizer give up.                 *)
IsRouter(input) ==
  /\ input.fn = "execute"
  /\ input.args # Garbled
  /\ input.args.deadline <= I64Max

RouterRow(input) ==
  [label |-> "Universal_Router", commands |-> CommandRows(input.args),
   deadline |-> DeadlineRow(input.args)]

(* A mutant of InputRows: a call to the router is taken for shown whether  *)
(* or not the visualizer could show it.                                    *)
InputRowsOrNothing(input, transfers) ==
  CASE input = EmptyInput -> <<>>
    [] transfers /\ IsErc20(input) -> <<Erc20Row(input)>>
    [] IsRouter(input) -> <<RouterRow(input)>>
    [] input.fn = "execute" /\ ~IsRouter(input) -> <<>>
    [] OTHER -> <<[label |-> "Input_Data", hex |-> input]>>

VisualizedRows(input, transfers) ==
  (IF transfers /\ IsErc20(input) THEN <<Erc20Row(input)>> ELSE <<>>)
    \o (IF IsRouter(input) THEN <<RouterRow(input)>> ELSE <<>>)

InputRows(input, transfers) ==
  LET rows == VisualizedRows(input, transfers)
  IN  CASE input = EmptyInput -> <<>>
        [] input # EmptyInput /\ rows # <<>> -> rows
        [] input # EmptyInput /\ rows = <<>> ->
             <<[label |-> "Input_Data", hex |-> input]>>

-----------------------------------------------------------------------------
(* The table's names differ from one another and from the two texts for a  *)
(* chain that is not in it.                                                *)
get_chain_name(chain) ==
  CASE chain = NoChain -> <<"Unknown_Network">>
    [] chain \in Listed -> <<"named", chain>>
    [] OTHER -> <<"Unknown_Network_Chain_ID", chain>>

(* A row is its label, in which _ stands for a blank, and its value.       *)
Row(label, value) == [label |-> label, value |-> value]

ToRow(t) == IF t.to = NoAddress THEN <<>> ELSE <<Row("To", t.to)>>
PriorityRow(t) ==
  IF t.priority = NoFee THEN <<>>
  ELSE <<Row("Max_Priority_Fee_Per_Gas", t.priority)>>

(* The rows of the payload; amounts are shown exactly (format_ether and    *)
(* format_gwei cut off zeros only).                                        *)
convert_to_visual_sign_payload(t, transfers) ==
  <<Row("Network", get_chain_name(t.chain))>>
    \o ToRow(t)
    \o <<Row("Value", t.value), Row("Gas_Limit", t.gas_limit),
         Row("Gas_Price", t.gas_price)>>
    \o PriorityRow(t)
    \o <<Row("Nonce", t.nonce)>>
    \o InputRows(t.input, transfers)

IsSupported(t) == t.type \in {"legacy", "eip1559"}

-----------------------------------------------------------------------------
Init ==
  /\ source \in [is: {"bytes"}, wire: Wires] \cup [is: {"typed"}, tx: Transactions]
  /\ decode_transfers \in BOOLEAN
  /\ tx = NoTx
  /\ outcome = Pending

(* EthereumTransactionWrapper::from_string                                 *)
FromString ==
  /\ source.is = "bytes"
  /\ tx = NoTx
  /\ outcome = Pending
  /\ LET decoded == decode_transaction_bytes(source.wire)
     IN  IF decoded.is = "error"
         THEN outcome' = decoded /\ UNCHANGED tx
         ELSE tx' = decoded.tx /\ UNCHANGED outcome
  /\ UNCHANGED <<source, decode_transfers>>

(* EthereumTransactionWrapper::new, for callers that have a transaction.   *)
New ==
  /\ source.is = "typed"
  /\ tx = NoTx
  /\ tx' = source.tx
  /\ UNCHANGED <<source, decode_transfers, outcome>>

to_visual_sign_payload ==
  /\ tx # NoTx
  /\ outcome = Pending
  /\ outcome' = IF IsSupported(tx)
                THEN Payload(convert_to_visual_sign_payload(tx, decode_transfers))
                ELSE Error("Unsupported_transaction_type")
  /\ UNCHANGED <<source, decode_transfers, tx>>

Next == FromString \/ New \/ to_visual_sign_payload

Spec == Init /\ [][Next]_vars

-----------------------------------------------------------------------------
(* Every variable keeps to the values the code gives it: in particular a   *)
(* payload is only ever made of a transaction, and an error has none of    *)
(* its rows.                                                               *)
TypeOK ==
  /\ decode_transfers \in BOOLEAN
  /\ tx \in Transactions \cup {NoTx}
  /\ outcome.is \in {"pending", "error", "payload"}
  /\ outcome.is = "payload" => tx \in Transactions

(* A call to the router that is shown whole: every command is known, has   *)
(* one input, and the deadline has a date.                                 *)
Legible(input) ==
  IsRouter(input) =>
    /\ \A i \in DOMAIN input.args.commands : input.args.commands[i] \in Command
    /\ Len(input.args.inputs) = Len(input.args.commands)
    /\ HasDate(input.args.deadline)

(* A transaction but for what no row shows: its access list, and what      *)
(* abi_decode passed over if a visualizer showed its input.                *)
OnScreen(t) ==
  [t EXCEPT !.access_list = {},
            !.input = IF VisualizedRows(@, decode_transfers) = <<>> THEN @
                      ELSE [fn |-> @.fn, args |-> @.args]]

(* No two transactions have the same screen, whichever visualizer showed   *)
(* them: what was signed can be read off it.  Three things are not on it,  *)
(* the two OnScreen leaves out and what of a call to the router is not     *)
(* Legible (convert_to_visual_sign_payload).                               *)
SameScreenSameTransaction ==
  outcome.is = "payload" /\ Legible(tx.input) =>
    \A u \in Transactions :
      /\ IsSupported(u)
      /\ Legible(u.input)
      /\ outcome.rows = convert_to_visual_sign_payload(u, decode_transfers)
      => OnScreen(u) = OnScreen(tx)

(* A payload shows the whole of the bytes it was asked for: they are one   *)
(* transaction of a supported type with nothing behind it.                 *)
NothingLeftOver ==
  outcome.is = "payload" /\ source.is = "bytes" =>
    /\ ~source.wire.trailing
    /\ source.wire.body = tx
    /\ tx.type = IF source.wire.first = Eip1559 THEN "eip1559" ELSE "legacy"

RouterCommands ==
  IF outcome.is = "payload" /\ outcome.rows[Len(outcome.rows)].label = "Universal_Router"
  THEN outcome.rows[Len(outcome.rows)].commands ELSE <<>>

(* As far as the commands are known, row i of a router call shows its i-th *)
(* command with its i-th input (UniswapV4Visualizer::visualize_tx_commands).*)
CommandsPairedUpToUnknown ==
  LET shown == RouterCommands
      call == tx.input.args
  IN  shown # <<>> =>
        \A i \in DOMAIN call.commands :
          (\A j \in 1..i : call.commands[j] \in Command) =>
            /\ i \in DOMAIN shown
            /\ shown[i].command = call.commands[i]
            /\ shown[i].input = IF i \in DOMAIN call.inputs THEN call.inputs[i]
                                                          ELSE NoInput

(* "inputs: An array of byte strings containing abi encoded inputs for     *)
(* each command" (the interface in uniswap.rs): a command is shown with    *)
(* the input that stands where the command does.                           *)
InputsBelongToCommands ==
  LET shown == RouterCommands
      call == tx.input.args
  IN  \A i \in DOMAIN shown :
        \E j \in DOMAIN call.commands :
          /\ shown[i].command = call.commands[j]
          /\ shown[i].input = IF j \in DOMAIN call.inputs THEN call.inputs[j]
                                                        ELSE NoInput
=============================================================================
