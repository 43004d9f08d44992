----------------------- MODULE EthereumConversionProofs -----------------------
(***************************************************************************)
(* What decode_transaction_bytes promises of the bytes behind a screen,    *)
(* and the screen of what is signed, for any transactions and byte strings.*)
(***************************************************************************)
EXTENDS EthereumConversion, SequenceFacts

(* The transaction of a conversion from bytes is the whole of the bytes,   *)
(* whatever becomes of it later.                                           *)
WholeWire ==
  source.is = "bytes" /\ tx # NoTx =>
    /\ ~source.wire.trailing
    /\ source.wire.body = tx
    /\ tx.type = IF source.wire.first = Eip1559 THEN "eip1559" ELSE "legacy"

SourceOK ==
  /\ source.is \in {"bytes", "typed"}
  /\ source.is = "bytes" => source.wire \in Wires
  /\ source.is = "typed" => source.tx \in Transactions

(* A payload is the screen of the transaction.                             *)
PayloadShowsTx ==
  outcome.is = "payload" =>
    /\ tx # NoTx
    /\ IsSupported(tx)
    /\ outcome.rows = convert_to_visual_sign_payload(tx, decode_transfers)

IInv == TypeOK /\ SourceOK /\ WholeWire /\ PayloadShowsTx

(* decode_transaction_bytes returns an error or the transaction the bytes  *)
(* encode; never with bytes left over, never of a type the first byte does *)
(* not announce.                                                           *)
LEMMA DecodesWhole ==
  ASSUME NEW w \in Wires
  PROVE  LET d == decode_transaction_bytes(w)
         IN  \/ d.is = "error"
             \/ /\ d.is = "transaction"
                /\ d.tx \in Transactions
                /\ ~w.trailing
                /\ w.body = d.tx
                /\ d.tx.type = IF w.first = Eip1559 THEN "eip1559" ELSE "legacy"
<1> DEFINE d == decode_transaction_bytes(w)
<1>1. w.first \in Int
  BY WiresAssumption
<1>2. \A e : Error(e).is = "error"
  BY DEF Error
<1>3. CASE w.first = 2 \/ w.first >= 192
  <2>1. CASE w.body = Garbled
    BY <1>1, <1>2, <1>3, <2>1 DEF decode_transaction_bytes, Body, Error, Eip1559, Eip2930, Eip4844, Eip7702
  <2>2. CASE w.body # Garbled
    <3>1. Body(w) = [is |-> "transaction", tx |-> w.body]
      BY <2>2 DEF Body
    <3>2. d = IF w.trailing THEN Error("UnexpectedTrailingData") ELSE Body(w)
      BY <1>1, <1>3, <3>1 DEF decode_transaction_bytes, Eip1559, Eip2930, Eip4844, Eip7702
    <3> QED
      BY <1>2, <1>3, <2>2, <3>1, <3>2, WiresAssumption DEF Eip1559
  <2> QED
    BY <2>1, <2>2
<1>4. CASE ~(w.first = 2 \/ w.first >= 192)
  <2>1. d.is = "error"
    BY <1>1, <1>4 DEF decode_transaction_bytes, Error, Eip1559, Eip2930, Eip4844, Eip7702
  <2> QED
    BY <2>1
<1> QED
  BY <1>3, <1>4

(* Nothing is decoded or shown initially.                                  *)
LEMMA InitIInv == Init => IInv
  BY DEF Init, IInv, TypeOK, SourceOK, WholeWire, PayloadShowsTx, Pending

(* Parsing and converting keep the invariant.                              *)
LEMMA NextIInv == IInv /\ [Next]_vars => IInv'
<1> SUFFICES ASSUME IInv, [Next]_vars PROVE IInv'
    OBVIOUS
<1> USE DEF IInv, TypeOK, SourceOK, WholeWire, PayloadShowsTx
<1>1. CASE FromString
  <2> DEFINE d == decode_transaction_bytes(source.wire)
  <2>1. /\ source.is = "bytes" /\ source.wire \in Wires /\ outcome = Pending
        /\ source' = source /\ decode_transfers' = decode_transfers
        /\ \/ d.is = "error" /\ outcome' = d /\ tx' = tx
           \/ d.is # "error" /\ tx' = d.tx /\ outcome' = outcome
    BY <1>1 DEF FromString
  <2>2. CASE d.is = "error"
    BY <1>1, <2>1, <2>2 DEF FromString
  <2>3. CASE d.is # "error"
    BY <2>1, <2>3, DecodesWhole, NoTxAssumption DEF Pending
  <2> QED
    BY <2>2, <2>3
<1>2. CASE New
  BY <1>2, NoTxAssumption DEF New
<1>3. CASE to_visual_sign_payload
  <2>1. tx # NoTx /\ UNCHANGED <<source, decode_transfers, tx>>
    BY <1>3 DEF to_visual_sign_payload
  <2>2. CASE IsSupported(tx)
    <3>1. outcome' = Payload(convert_to_visual_sign_payload(tx, decode_transfers))
      BY <1>3, <2>2 DEF to_visual_sign_payload
    <3>2. outcome'.is = "payload" /\ outcome'.rows = convert_to_visual_sign_payload(tx, decode_transfers)
      BY <3>1 DEF Payload
    <3>3. IsSupported(tx)' /\ convert_to_visual_sign_payload(tx, decode_transfers)'
                                = convert_to_visual_sign_payload(tx, decode_transfers)
      BY <2>1, <2>2
    <3> QED
      BY <2>1, <3>2, <3>3
  <2>3. CASE ~IsSupported(tx)
    <3>1. outcome'.is = "error"
      BY <1>3, <2>3 DEF to_visual_sign_payload, Error
    <3> QED
      BY <2>1, <3>1
  <2> QED
    BY <2>2, <2>3
<1>4. CASE UNCHANGED vars
  BY <1>4 DEF vars
<1> QED
  BY <1>1, <1>2, <1>3, <1>4 DEF Next

(* The invariant holds throughout a conversion.                            *)
THEOREM Invariant == Spec => []IInv
<1>1. Init => IInv
  BY InitIInv
<1>2. IInv /\ [Next]_vars => IInv'
  BY NextIInv
<1> QED
  BY <1>1, <1>2, PTL DEF Spec

(* A payload is made of a decoded transaction, an error of none.           *)
THEOREM TypeCorrect == Spec => []TypeOK
<1>1. IInv => TypeOK
  BY DEF IInv
<1> QED
  BY <1>1, Invariant, PTL

(* A payload made of bytes shows one transaction that is all of the bytes: *)
(* the check for trailing data in decode_transaction_bytes is enough.      *)
THEOREM WholeBytesShown == Spec => []NothingLeftOver
<1>1. IInv => NothingLeftOver
  BY DEF IInv, WholeWire, PayloadShowsTx, NothingLeftOver
<1> QED
  BY <1>1, Invariant, PTL

-----------------------------------------------------------------------------
(* No call is one of ERC-20 and one of the router; which of them it is     *)
(* decides its row.                                                        *)
LEMMA InputCases ==
  ASSUME NEW i, NEW transfers \in BOOLEAN
  PROVE  \/ /\ i = EmptyInput
            /\ InputRows(i, transfers) = <<>>
         \/ /\ i # EmptyInput /\ transfers /\ IsErc20(i)
            /\ VisualizedRows(i, transfers) # <<>>
            /\ InputRows(i, transfers) = <<Erc20Row(i)>>
         \/ /\ i # EmptyInput /\ ~(transfers /\ IsErc20(i)) /\ IsRouter(i)
            /\ VisualizedRows(i, transfers) # <<>>
            /\ InputRows(i, transfers) = <<RouterRow(i)>>
         \/ /\ i # EmptyInput /\ ~(transfers /\ IsErc20(i)) /\ ~IsRouter(i)
            /\ VisualizedRows(i, transfers) = <<>>
            /\ InputRows(i, transfers) = <<[label |-> "Input_Data", hex |-> i]>>
<1>0. ASSUME NEW x PROVE <<x>> \o <<>> = <<x>> /\ <<>> \o <<x>> = <<x>> /\ <<x>> # <<>>
  OBVIOUS
<1>1. <<>> \o <<>> = <<>>
  OBVIOUS
<1>2. CASE transfers /\ IsErc20(i)
  <2>1. ~IsRouter(i)
    BY <1>2 DEF IsErc20, IsRouter, Erc20Functions
  <2>2. VisualizedRows(i, transfers) = <<Erc20Row(i)>>
    BY <1>0, <1>2, <2>1, Zenon DEF VisualizedRows
  <2> QED
    BY <1>0, <1>2, <2>2, Zenon DEF InputRows
<1>3. CASE ~(transfers /\ IsErc20(i)) /\ IsRouter(i)
  <2>2. VisualizedRows(i, transfers) = <<RouterRow(i)>>
    BY <1>0, <1>3, Zenon DEF VisualizedRows
  <2> QED
    BY <1>0, <1>3, <2>2, Zenon DEF InputRows
<1>4. CASE ~(transfers /\ IsErc20(i)) /\ ~IsRouter(i)
  <2>2. VisualizedRows(i, transfers) = <<>>
    BY <1>1, <1>4, Zenon DEF VisualizedRows
  <2> QED
    BY <1>4, <2>2, Zenon DEF InputRows
<1> QED
  BY <1>2, <1>3, <1>4

(* The number of rows for the address, the fee and the input data.         *)
Tos(t) == IF t.to = NoAddress THEN 0 ELSE 1
Fees(t) == IF t.priority = NoFee THEN 0 ELSE 1

(* Where the parts of a transaction are on its screen.                     *)
LEMMA ScreenParts ==
  ASSUME NEW t, NEW transfers \in BOOLEAN
  PROVE  LET r == convert_to_visual_sign_payload(t, transfers)
             o == InputRows(t.input, transfers)
         IN  /\ Tos(t) \in {0, 1} /\ Fees(t) \in {0, 1} /\ Len(o) \in {0, 1}
             /\ o = IF Len(o) = 1 THEN <<o[1]>> ELSE <<>>
             /\ Len(r) = Tos(t) + Fees(t) + Len(o) + 5
             /\ r[1] = Row("Network", get_chain_name(t.chain))
             /\ Tos(t) = 1 => r[2] = Row("To", t.to)
             /\ r[Tos(t) + 2] = Row("Value", t.value)
             /\ r[Tos(t) + 3] = Row("Gas_Limit", t.gas_limit)
             /\ r[Tos(t) + 4] = Row("Gas_Price", t.gas_price)
             /\ Fees(t) = 1 => r[Tos(t) + 5] = Row("Max_Priority_Fee_Per_Gas", t.priority)
             /\ r[Tos(t) + Fees(t) + 5] = Row("Nonce", t.nonce)
             /\ Len(o) = 1 => r[Tos(t) + Fees(t) + 6] = o[1]
<1> DEFINE r == convert_to_visual_sign_payload(t, transfers)
           o == InputRows(t.input, transfers)
           p == ToRow(t)
           q == PriorityRow(t)
<1>1. /\ p = <<Row("To", t.to)>> \/ p = <<>>
      /\ Len(p) = Tos(t)
      /\ Tos(t) = 1 => p = <<Row("To", t.to)>>
  BY DEF ToRow, Tos
<1>2. /\ q = <<Row("Max_Priority_Fee_Per_Gas", t.priority)>> \/ q = <<>>
      /\ Len(q) = Fees(t)
      /\ Fees(t) = 1 => q = <<Row("Max_Priority_Fee_Per_Gas", t.priority)>>
  BY DEF PriorityRow, Fees
<1>3. PICK x : o = <<x>> \/ o = <<>>
  BY InputCases
<1>4. r = <<Row("Network", get_chain_name(t.chain))>> \o p
            \o <<Row("Value", t.value), Row("Gas_Limit", t.gas_limit), Row("Gas_Price", t.gas_price)>>
            \o q \o <<Row("Nonce", t.nonce)>> \o o
  BY DEF convert_to_visual_sign_payload
<1> HIDE DEF r, o, p, q
<1>5. /\ Len(p) \in {0, 1} /\ Len(q) \in {0, 1} /\ Len(o) \in {0, 1}
      /\ Len(r) = Len(p) + Len(q) + Len(o) + 5
      /\ r[1] = Row("Network", get_chain_name(t.chain))
      /\ Len(p) = 1 => r[2] = p[1]
      /\ r[Len(p) + 2] = Row("Value", t.value)
      /\ r[Len(p) + 3] = Row("Gas_Limit", t.gas_limit)
      /\ r[Len(p) + 4] = Row("Gas_Price", t.gas_price)
      /\ Len(q) = 1 => r[Len(p) + 5] = q[1]
      /\ r[Len(p) + Len(q) + 5] = Row("Nonce", t.nonce)
      /\ Len(o) = 1 => r[Len(p) + Len(q) + 6] = o[1]
  <2> DEFINE network == Row("Network", get_chain_name(t.chain))
             value == Row("Value", t.value)
             limit == Row("Gas_Limit", t.gas_limit)
             price == Row("Gas_Price", t.gas_price)
             nonce == Row("Nonce", t.nonce)
             to == Row("To", t.to)
             fee == Row("Max_Priority_Fee_Per_Gas", t.priority)
  <2>1. r = <<network>> \o p \o <<value, limit, price>> \o q \o <<nonce>> \o o
    BY <1>4
  <2>2. /\ p = <<to>> \/ p = <<>>
        /\ q = <<fee>> \/ q = <<>>
    BY <1>1, <1>2
  <2> HIDE DEF network, value, limit, price, nonce, to, fee
  <2>3. /\ Len(p) \in {0, 1} /\ Len(q) \in {0, 1} /\ Len(o) \in {0, 1}
        /\ Len(r) = Len(p) + Len(q) + Len(o) + 5
        /\ r[1] = network
        /\ Len(p) = 1 => r[2] = p[1]
        /\ r[Len(p) + 2] = value
        /\ r[Len(p) + 3] = limit
        /\ r[Len(p) + 4] = price
        /\ Len(q) = 1 => r[Len(p) + 5] = q[1]
        /\ r[Len(p) + Len(q) + 5] = nonce
        /\ Len(o) = 1 => r[Len(p) + Len(q) + 6] = o[1]
    BY <1>3, <2>1, <2>2
  <2> QED
    BY <2>3 DEF network, value, limit, price, nonce
<1>6. o = IF Len(o) = 1 THEN <<o[1]>> ELSE <<>>
  BY <1>3
<1>7. /\ Tos(t) = 1 => p[1] = Row("To", t.to)
      /\ Fees(t) = 1 => q[1] = Row("Max_Priority_Fee_Per_Gas", t.priority)
  BY <1>1, <1>2
<1> QED
  BY <1>1, <1>2, <1>5, <1>6, <1>7 DEF r, o

(* Two screens that are equal show the same parts.                         *)
LEMMA SameRowsSameParts ==
  ASSUME NEW t, NEW u, NEW transfers \in BOOLEAN,
         convert_to_visual_sign_payload(t, transfers) = convert_to_visual_sign_payload(u, transfers)
  PROVE  /\ get_chain_name(t.chain) = get_chain_name(u.chain)
         /\ t.to = u.to /\ t.value = u.value
         /\ t.gas_limit = u.gas_limit /\ t.gas_price = u.gas_price
         /\ t.priority = u.priority /\ t.nonce = u.nonce
         /\ InputRows(t.input, transfers) = InputRows(u.input, transfers)
<1> DEFINE r == convert_to_visual_sign_payload(t, transfers)
           o == InputRows(t.input, transfers)
           w == InputRows(u.input, transfers)
<1>0. ASSUME NEW l, NEW v PROVE Row(l, v).label = l /\ Row(l, v).value = v
  BY DEF Row
<1>1. /\ Tos(t) \in {0, 1} /\ Fees(t) \in {0, 1} /\ Len(o) \in {0, 1}
      /\ o = IF Len(o) = 1 THEN <<o[1]>> ELSE <<>>
      /\ Len(r) = Tos(t) + Fees(t) + Len(o) + 5
      /\ r[1] = Row("Network", get_chain_name(t.chain))
      /\ Tos(t) = 1 => r[2] = Row("To", t.to)
      /\ r[Tos(t) + 2] = Row("Value", t.value)
      /\ r[Tos(t) + 3] = Row("Gas_Limit", t.gas_limit)
      /\ r[Tos(t) + 4] = Row("Gas_Price", t.gas_price)
      /\ Fees(t) = 1 => r[Tos(t) + 5] = Row("Max_Priority_Fee_Per_Gas", t.priority)
      /\ r[Tos(t) + Fees(t) + 5] = Row("Nonce", t.nonce)
      /\ Len(o) = 1 => r[Tos(t) + Fees(t) + 6] = o[1]
  BY ScreenParts
<1>2. /\ Tos(u) \in {0, 1} /\ Fees(u) \in {0, 1} /\ Len(w) \in {0, 1}
      /\ w = IF Len(w) = 1 THEN <<w[1]>> ELSE <<>>
      /\ Len(r) = Tos(u) + Fees(u) + Len(w) + 5
      /\ r[1] = Row("Network", get_chain_name(u.chain))
      /\ Tos(u) = 1 => r[2] = Row("To", u.to)
      /\ r[Tos(u) + 2] = Row("Value", u.value)
      /\ r[Tos(u) + 3] = Row("Gas_Limit", u.gas_limit)
      /\ r[Tos(u) + 4] = Row("Gas_Price", u.gas_price)
      /\ Fees(u) = 1 => r[Tos(u) + 5] = Row("Max_Priority_Fee_Per_Gas", u.priority)
      /\ r[Tos(u) + Fees(u) + 5] = Row("Nonce", u.nonce)
      /\ Len(w) = 1 => r[Tos(u) + Fees(u) + 6] = w[1]
  <2>1. convert_to_visual_sign_payload(u, transfers) = r
    OBVIOUS
  <2> QED
    BY <2>1, ScreenParts
<1> HIDE DEF r, o, w
<1>3. Tos(t) = Tos(u)
  <2>1. Tos(t) = 1 => r[2].label = "To"
    BY <1>0, <1>1
  <2>2. Tos(t) = 0 => r[2].label = "Value"
    BY <1>0, <1>1
  <2>3. Tos(u) = 1 => r[2].label = "To"
    BY <1>0, <1>2
  <2>4. Tos(u) = 0 => r[2].label = "Value"
    BY <1>0, <1>2
  <2> QED
    BY <1>1, <1>2, <2>1, <2>2, <2>3, <2>4
<1>4. Fees(t) = Fees(u)
  <2>1. Fees(t) = 1 => r[Tos(t) + 5].label = "Max_Priority_Fee_Per_Gas"
    BY <1>0, <1>1
  <2>2. Fees(t) = 0 => r[Tos(t) + 5].label = "Nonce"
    BY <1>0, <1>1
  <2>3. Fees(u) = 1 => r[Tos(t) + 5].label = "Max_Priority_Fee_Per_Gas"
    BY <1>0, <1>2, <1>3
  <2>4. Fees(u) = 0 => r[Tos(t) + 5].label = "Nonce"
    BY <1>0, <1>2, <1>3
  <2> QED
    BY <1>1, <1>2, <2>1, <2>2, <2>3, <2>4
<1>5. /\ get_chain_name(t.chain) = get_chain_name(u.chain)
      /\ t.value = u.value /\ t.gas_limit = u.gas_limit /\ t.gas_price = u.gas_price
      /\ t.nonce = u.nonce
  BY <1>0, <1>1, <1>2, <1>3, <1>4
<1>6. t.to = u.to
  BY <1>0, <1>1, <1>2, <1>3 DEF Tos
<1>7. t.priority = u.priority
  <2>1. CASE Fees(t) = 1
    <3>1. /\ r[Tos(t) + 5] = Row("Max_Priority_Fee_Per_Gas", t.priority)
          /\ r[Tos(t) + 5] = Row("Max_Priority_Fee_Per_Gas", u.priority)
      BY <1>1, <1>2, <1>3, <1>4, <2>1
    <3> QED
      BY <1>0, <3>1
  <2>2. CASE Fees(t) = 0
    BY <1>4, <2>2 DEF Fees
  <2> QED
    BY <1>1, <2>1, <2>2
<1>8. o = w
  <2>1. Len(o) = Len(w)
    BY <1>1, <1>2, <1>3, <1>4
  <2>2. Len(o) = 1 => o[1] = w[1]
    BY <1>1, <1>2, <1>3, <1>4, <2>1
  <2> QED
    BY <1>1, <1>2, <2>1, <2>2, Zenon
<1> QED
  BY <1>5, <1>6, <1>7, <1>8 DEF o, w

-----------------------------------------------------------------------------
(* The title of an ERC-20 preview tells the function, its subtitle or its  *)
(* details the arguments (Transfer, TransferFrom, ..., Query).             *)
LEMMA SameErc20RowSameCall ==
  ASSUME NEW i, NEW j, IsErc20(i), IsErc20(j), Erc20Row(i) = Erc20Row(j),
         HasArguments(i.fn, i.args), HasArguments(j.fn, j.args)
  PROVE  i.fn = j.fn /\ i.args = j.args
<1> DEFINE a == i.args
           b == j.args
           r == Erc20Row(i)
<1> USE DEF Preview
<1>1. i.fn \in Erc20Functions /\ j.fn \in Erc20Functions /\ r = Erc20Row(j)
  BY DEF IsErc20
<1>2. ASSUME NEW k, k.fn \in Erc20Functions
      PROVE  Erc20Row(k).title =
               CASE k.fn = "transfer" -> "ERC20_Transfer"
                 [] k.fn = "transferFrom" -> "ERC20_TransferFrom"
                 [] k.fn = "approve" -> "ERC20_Approve"
                 [] k.fn = "balanceOf" -> "ERC20_BalanceOf"
                 [] k.fn = "allowance" -> "ERC20_Allowance"
                 [] k.fn = "name" -> "ERC20_Name"
                 [] k.fn = "symbol" -> "ERC20_Symbol"
                 [] k.fn = "decimals" -> "ERC20_Decimals"
                 [] k.fn = "totalSupply" -> "ERC20_TotalSupply"
  BY <1>2 DEF Erc20Functions, Erc20Row, Transfer, TransferFrom, Approve, BalanceOf, Allowance, Query
<1>3. i.fn = j.fn
  BY <1>1, <1>2 DEF Erc20Functions
<1>4. CASE i.fn = "transfer"
  <2>1. r.subtitle = <<a.amount, a.to>> /\ r.subtitle = <<b.amount, b.to>>
    BY <1>1, <1>3, <1>4 DEF Erc20Row, Transfer
  <2>2. a = [to |-> a.to, amount |-> a.amount] /\ b = [to |-> b.to, amount |-> b.amount]
    BY <1>3, <1>4 DEF HasArguments
  <2>3. a.amount = b.amount /\ a.to = b.to
    BY <2>1
  <2> QED
    BY <1>3, <2>2, <2>3, Zenon
<1>5. CASE i.fn = "transferFrom"
  <2>1. r.subtitle = <<a.amount, a.from, a.to>> /\ r.subtitle = <<b.amount, b.from, b.to>>
    BY <1>1, <1>3, <1>5 DEF Erc20Row, TransferFrom
  <2>2. /\ a = [from |-> a.from, to |-> a.to, amount |-> a.amount]
        /\ b = [from |-> b.from, to |-> b.to, amount |-> b.amount]
    BY <1>3, <1>5 DEF HasArguments
  <2>3. a.amount = b.amount /\ a.from = b.from /\ a.to = b.to
    BY <2>1
  <2> QED
    BY <1>3, <2>2, <2>3, Zenon
<1>6. CASE i.fn = "approve"
  <2>1. r.subtitle = <<a.spender, a.amount>> /\ r.subtitle = <<b.spender, b.amount>>
    BY <1>1, <1>3, <1>6 DEF Erc20Row, Approve
  <2>2. a = [spender |-> a.spender, amount |-> a.amount] /\ b = [spender |-> b.spender, amount |-> b.amount]
    BY <1>3, <1>6 DEF HasArguments
  <2>3. a.spender = b.spender /\ a.amount = b.amount
    BY <2>1
  <2> QED
    BY <1>3, <2>2, <2>3, Zenon
<1>7. CASE i.fn = "balanceOf"
  <2>1. r.subtitle = <<a.account>> /\ r.subtitle = <<b.account>>
    BY <1>1, <1>3, <1>7 DEF Erc20Row, BalanceOf
  <2>2. a = [account |-> a.account] /\ b = [account |-> b.account]
    BY <1>3, <1>7 DEF HasArguments
  <2>3. a.account = b.account
    BY <2>1
  <2> QED
    BY <1>3, <2>2, <2>3, Zenon
<1>8. CASE i.fn = "allowance"
  <2>1. r.subtitle = <<a.spender, a.owner>> /\ r.subtitle = <<b.spender, b.owner>>
    BY <1>1, <1>3, <1>8 DEF Erc20Row, Allowance
  <2>2. a = [owner |-> a.owner, spender |-> a.spender] /\ b = [owner |-> b.owner, spender |-> b.spender]
    BY <1>3, <1>8 DEF HasArguments
  <2>3. a.spender = b.spender /\ a.owner = b.owner
    BY <2>1
  <2> QED
    BY <1>3, <2>2, <2>3, Zenon
<1>9. CASE i.fn \in {"name", "symbol", "decimals", "totalSupply"}
  <2>1. a = <<>> /\ b = <<>>
    BY <1>3, <1>9 DEF HasArguments
  <2> QED
    BY <1>3, <2>1, Zenon
<1> QED
  BY <1>1, <1>4, <1>5, <1>6, <1>7, <1>8, <1>9 DEF Erc20Functions

(* A call to the router is what its row shows, if it is Legible: the rows  *)
(* are its commands with their inputs and the deadline.                    *)
LEMMA SameRouterRowSameCall ==
  ASSUME NEW i, NEW j, IsRouter(i), IsRouter(j), RouterRow(i) = RouterRow(j),
         HasArguments(i.fn, i.args), HasArguments(j.fn, j.args), Legible(i), Legible(j)
  PROVE  i.fn = j.fn /\ i.args = j.args
<1> DEFINE Rows(a) == [n \in 1..Len(a.commands) |-> [command |-> a.commands[n], input |-> a.inputs[n]]]
<1>1. ASSUME NEW k, IsRouter(k), HasArguments(k.fn, k.args), Legible(k)
      PROVE  /\ k.fn = "execute"
             /\ k.args = [commands |-> k.args.commands, inputs |-> k.args.inputs, deadline |-> k.args.deadline]
             /\ k.args.commands \in Seq(0..255)
             /\ k.args.inputs \in Seq({k.args.inputs[n] : n \in DOMAIN k.args.inputs})
             /\ Len(k.args.inputs) = Len(k.args.commands)
             /\ RouterRow(k).commands = Rows(k.args)
             /\ RouterRow(k).deadline = <<k.args.deadline>>
  <2> DEFINE a == k.args
  <2>1. /\ k.fn = "execute"
        /\ a = [commands |-> a.commands, inputs |-> a.inputs, deadline |-> a.deadline]
        /\ a.commands \in Seq(0..255)
        /\ a.inputs \in Seq({a.inputs[n] : n \in DOMAIN a.inputs})
    BY <1>1 DEF IsRouter, HasArguments
  <2>2. /\ \A n \in DOMAIN a.commands : a.commands[n] \in Command
        /\ Len(a.inputs) = Len(a.commands)
        /\ HasDate(a.deadline)
    BY <1>1 DEF Legible
  <2>3. map_commands(a.commands) = a.commands
    <3>1. \A n \in 1..Len(a.commands) : a.commands[n] \in Command
      BY <2>1, <2>2
    <3> QED
      BY <2>1, <3>1, FilterAll DEF map_commands
  <2>4. CommandRows(a) = Rows(a)
    <3> HIDE DEF a
    <3> QED
      BY <2>1, <2>2, <2>3 DEF CommandRows
  <2>5. DeadlineRow(a) = <<a.deadline>>
    BY <2>2 DEF DeadlineRow
  <2> QED
    BY <2>1, <2>2, <2>4, <2>5 DEF RouterRow
<1> DEFINE a == i.args
           b == j.args
<1> HIDE DEF Rows
<1>2. Rows(a) = Rows(b) /\ <<a.deadline>> = <<b.deadline>>
  BY <1>1, Zenon
<1>3. /\ a.commands \in Seq(0..255) /\ b.commands \in Seq(0..255)
      /\ a.inputs \in Seq({a.inputs[n] : n \in DOMAIN a.inputs})
      /\ b.inputs \in Seq({b.inputs[n] : n \in DOMAIN b.inputs})
      /\ Len(a.inputs) = Len(a.commands)
      /\ Len(b.inputs) = Len(b.commands)
  BY <1>1, Zenon
<1>4. /\ a = [commands |-> a.commands, inputs |-> a.inputs, deadline |-> a.deadline]
      /\ b = [commands |-> b.commands, inputs |-> b.inputs, deadline |-> b.deadline]
  BY <1>1
<1> HIDE DEF a, b
<1>5. Len(a.commands) = Len(b.commands)
  <2>1. 1..Len(a.commands) = 1..Len(b.commands)
    BY <1>2 DEF Rows
  <2> QED
    BY <1>3, <2>1
<1>6. ASSUME NEW n \in 1..Len(a.commands)
      PROVE  a.commands[n] = b.commands[n] /\ a.inputs[n] = b.inputs[n]
  <2>1. /\ Rows(a)[n] = [command |-> a.commands[n], input |-> a.inputs[n]]
        /\ Rows(b)[n] = [command |-> b.commands[n], input |-> b.inputs[n]]
    BY <1>5 DEF Rows
  <2> QED
    BY <1>2, <2>1
<1>7. ASSUME NEW S, NEW T, NEW p \in Seq(S), NEW q \in Seq(T), Len(p) = Len(q),
             \A n \in 1..Len(p) : p[n] = q[n]
      PROVE  p = q
  BY <1>7
<1>8. a.commands = b.commands /\ a.inputs = b.inputs
  <2>1. /\ Len(a.inputs) = Len(b.inputs)
        /\ \A n \in 1..Len(a.inputs) : a.inputs[n] = b.inputs[n]
    BY <1>3, <1>5, <1>6, Zenon
  <2>2. \A n \in 1..Len(a.commands) : a.commands[n] = b.commands[n]
    BY <1>6
  <2>3. PICK S, T : a.inputs \in Seq(S) /\ b.inputs \in Seq(T)
    BY <1>3, Zenon
  <2>4. a.inputs = b.inputs
    BY <1>7, <2>1, <2>3
  <2>5. a.commands \in Seq(0..255) /\ b.commands \in Seq(0..255)
    BY <1>3, Zenon
  <2>6. a.commands = b.commands
    BY <1>5, <1>7, <2>2, <2>5
  <2> QED
    BY <2>4, <2>6
<1>9. a.deadline = b.deadline
  BY <1>2
<1>10. a = b
  BY <1>4, <1>8, <1>9, Zenon
<1> QED
  BY <1>1, <1>10 DEF a, b

(* A transaction's input but for what abi_decode passed over.              *)
Shown(i, transfers) ==
  IF VisualizedRows(i, transfers) = <<>> THEN i ELSE [fn |-> i.fn, args |-> i.args]

(* Inputs with the same rows are the same, but for what is not shown.  The *)
(* label of the row tells which visualizer made it.                        *)
LEMMA SameInputRowsSameInput ==
  ASSUME NEW i, NEW j, NEW transfers \in BOOLEAN, IsInput(i), IsInput(j),
         Legible(i), Legible(j), InputRows(i, transfers) = InputRows(j, transfers)
  PROVE  Shown(i, transfers) = Shown(j, transfers)
<1> DEFINE Data(k) == [label |-> "Input_Data", hex |-> k]
<1>1. ASSUME NEW k, IsInput(k), k # EmptyInput, IsErc20(k) \/ IsRouter(k)
      PROVE  HasArguments(k.fn, k.args)
  BY <1>1 DEF IsInput, IsErc20, IsRouter
<1>2. ASSUME NEW x, NEW y, <<x>> = <<y>> PROVE x = y
  BY <1>2
<1>3. ASSUME NEW k PROVE Data(k).label = "Input_Data" /\ RouterRow(k).label = "Universal_Router"
                           /\ Data(k).hex = k
  BY DEF RouterRow
<1>4. ASSUME NEW k, IsErc20(k) PROVE Erc20Row(k).label = "ERC20"
  BY <1>4 DEF IsErc20, Erc20Functions, Erc20Row, Preview, Transfer, TransferFrom, Approve,
              BalanceOf, Allowance, Query
<1>5. \A x : <<x>> # <<>>
  OBVIOUS
<1> HIDE DEF Data
<1>6. ASSUME NEW k
      PROVE  \/ k = EmptyInput /\ InputRows(k, transfers) = <<>>
             \/ /\ k # EmptyInput /\ IsErc20(k)
                /\ VisualizedRows(k, transfers) # <<>>
                /\ InputRows(k, transfers) = <<Erc20Row(k)>>
             \/ /\ k # EmptyInput /\ IsRouter(k)
                /\ VisualizedRows(k, transfers) # <<>>
                /\ InputRows(k, transfers) = <<RouterRow(k)>>
             \/ /\ k # EmptyInput
                /\ VisualizedRows(k, transfers) = <<>>
                /\ InputRows(k, transfers) = <<Data(k)>>
  BY InputCases DEF Data
<1>7. CASE i = EmptyInput
  <2>1. InputRows(i, transfers) = <<>>
    BY <1>7, Zenon DEF InputRows
  <2>2. j = EmptyInput
    BY <1>5, <1>6, <2>1, Zenon
  <2> QED
    BY <1>7, <2>2
<1>8. CASE /\ i # EmptyInput /\ IsErc20(i)
           /\ VisualizedRows(i, transfers) # <<>>
           /\ InputRows(i, transfers) = <<Erc20Row(i)>>
  <2>1. PICK x : InputRows(i, transfers) = <<x>> /\ x = Erc20Row(i)
    BY <1>8
  <2>2. x.label = "ERC20"
    BY <1>4, <1>8, <2>1
  <2>3. x # RouterRow(j) /\ x # Data(j)
    BY <1>3, <2>2
  <2>4. /\ j # EmptyInput /\ IsErc20(j)
        /\ VisualizedRows(j, transfers) # <<>>
        /\ Erc20Row(i) = Erc20Row(j)
    BY <1>2, <1>5, <1>6, <2>1, <2>3, Zenon
  <2>5. i.fn = j.fn /\ i.args = j.args
    BY <1>1, <1>8, <2>4, SameErc20RowSameCall, Zenon
  <2> QED
    BY <1>8, <2>4, <2>5, Zenon DEF Shown
<1>9. CASE /\ i # EmptyInput /\ IsRouter(i)
           /\ VisualizedRows(i, transfers) # <<>>
           /\ InputRows(i, transfers) = <<RouterRow(i)>>
  <2>1. PICK x : InputRows(i, transfers) = <<x>> /\ x = RouterRow(i)
    BY <1>9
  <2>2. x.label = "Universal_Router"
    BY <1>3, <2>1
  <2>3. (IsErc20(j) => x # Erc20Row(j)) /\ x # Data(j)
    BY <1>3, <1>4, <2>2
  <2>4. /\ j # EmptyInput /\ IsRouter(j)
        /\ VisualizedRows(j, transfers) # <<>>
        /\ RouterRow(i) = RouterRow(j)
    BY <1>2, <1>5, <1>6, <2>1, <2>3, Zenon
  <2>5. i.fn = j.fn /\ i.args = j.args
    BY <1>1, <1>9, <2>4, SameRouterRowSameCall, Zenon
  <2> QED
    BY <1>9, <2>4, <2>5, Zenon DEF Shown
<1>10. CASE /\ i # EmptyInput
            /\ VisualizedRows(i, transfers) = <<>>
            /\ InputRows(i, transfers) = <<Data(i)>>
  <2>1. PICK x : InputRows(i, transfers) = <<x>> /\ x = Data(i)
    BY <1>10
  <2>2. (IsErc20(j) => x # Erc20Row(j)) /\ x # RouterRow(j)
    BY <1>3, <1>4, <2>1
  <2>3. Data(i) = Data(j)
    BY <1>2, <1>5, <1>6, <2>1, <2>2, Zenon
  <2>4. i = j
    BY <1>3, <2>3, Zenon
  <2> QED
    BY <2>4
<1> QED
  BY <1>6, <1>7, <1>8, <1>9, <1>10, Zenon

(* A transaction is told by what its screen shows.                         *)
LEMMA SameRowsSameTransaction ==
  ASSUME TypeOK, NEW t \in Transactions, NEW u \in Transactions, IsSupported(t), IsSupported(u),
         Legible(t.input), Legible(u.input),
         convert_to_visual_sign_payload(t, decode_transfers)
           = convert_to_visual_sign_payload(u, decode_transfers)
  PROVE  OnScreen(u) = OnScreen(t)
<1> DEFINE Screen(x) ==
             [type |-> x.type, chain |-> x.chain, to |-> x.to, value |-> x.value,
              gas_limit |-> x.gas_limit, gas_price |-> x.gas_price, priority |-> x.priority,
              nonce |-> x.nonce, access_list |-> {}, input |-> Shown(x.input, decode_transfers)]
<1>0. decode_transfers \in BOOLEAN
  BY DEF TypeOK
<1>1. /\ get_chain_name(t.chain) = get_chain_name(u.chain)
      /\ t.to = u.to /\ t.value = u.value
      /\ t.gas_limit = u.gas_limit /\ t.gas_price = u.gas_price
      /\ t.priority = u.priority /\ t.nonce = u.nonce
      /\ InputRows(t.input, decode_transfers) = InputRows(u.input, decode_transfers)
  BY <1>0, SameRowsSameParts
<1>2. t.chain = u.chain
  BY <1>1, ListedAssumption DEF get_chain_name
<1>3. t.type = u.type
  BY <1>1, TransactionsAssumption DEF IsSupported
<1>4. IsInput(t.input) /\ IsInput(u.input)
  BY TransactionsAssumption
<1>5. Shown(t.input, decode_transfers) = Shown(u.input, decode_transfers)
  BY <1>0, <1>1, <1>4, SameInputRowsSameInput, Zenon
<1>6. ASSUME NEW x \in Transactions PROVE OnScreen(x) = Screen(x)
  <2>1. x = [type |-> x.type, chain |-> x.chain, to |-> x.to, value |-> x.value,
             gas_limit |-> x.gas_limit, gas_price |-> x.gas_price, priority |-> x.priority,
             nonce |-> x.nonce, access_list |-> x.access_list, input |-> x.input]
    BY TransactionsAssumption
  <2>2. OnScreen(x) = [x EXCEPT !.access_list = {}, !.input = Shown(@, decode_transfers)]
    BY DEF OnScreen, Shown
  <2> QED
    BY <2>1, <2>2
<1>7. Screen(t) = Screen(u)
  BY <1>1, <1>2, <1>3, <1>5, Zenon
<1> QED
  BY <1>6, <1>7, Zenon

(* What was signed can be read off the screen, for any transactions: no    *)
(* two have the same screen unless they differ in what no row shows        *)
(* (convert_to_visual_sign_payload and the visualizers it calls).          *)
THEOREM ScreenTellsTransaction == Spec => []SameScreenSameTransaction
<1>1. IInv => SameScreenSameTransaction
  <2> SUFFICES ASSUME IInv, outcome.is = "payload", Legible(tx.input),
                      NEW u \in Transactions, IsSupported(u), Legible(u.input),
                      outcome.rows = convert_to_visual_sign_payload(u, decode_transfers)
               PROVE  OnScreen(u) = OnScreen(tx)
    BY DEF SameScreenSameTransaction
  <2>1. tx \in Transactions /\ IsSupported(tx) /\ TypeOK
        /\ outcome.rows = convert_to_visual_sign_payload(tx, decode_transfers)
    BY DEF IInv, TypeOK, PayloadShowsTx
  <2> QED
    BY <2>1, SameRowsSameTransaction, Zenon
<1> QED
  BY <1>1, Invariant, PTL

(* As far as its commands are known, a router call is shown command by     *)
(* command with the input of each (CommandRows).                           *)
LEMMA PairedUpToUnknown ==
  ASSUME NEW k, IsRouter(k), HasArguments(k.fn, k.args),
         NEW n \in DOMAIN k.args.commands, \A m \in 1..n : k.args.commands[m] \in Command
  PROVE  LET shown == RouterRow(k).commands
         IN  /\ n \in DOMAIN shown
             /\ shown[n].command = k.args.commands[n]
             /\ shown[n].input = IF n \in DOMAIN k.args.inputs THEN k.args.inputs[n] ELSE NoInput
<1> DEFINE a == k.args
           f == map_commands(a.commands)
           shown == RouterRow(k).commands
<1>1. a.commands \in Seq(0..255) /\ \E S : a.inputs \in Seq(S)
  BY DEF IsRouter, HasArguments
<1>2. shown = [i \in 1..Len(f) |-> [command |-> f[i],
                                   input |-> IF i <= Len(a.inputs) THEN a.inputs[i] ELSE NoInput]]
  BY DEF RouterRow, CommandRows
<1>3. n \in 0..Len(a.commands) /\ n \in 1..Len(a.commands) /\ n \in 1..n
  BY <1>1
<1>4. f \in Seq(0..255) /\ n <= Len(f) /\ \A i \in 1..n : f[i] = a.commands[i]
  BY <1>1, <1>3, FilterPrefix DEF map_commands
<1>5. f[n] = a.commands[n] /\ n \in 1..Len(f)
  BY <1>3, <1>4
<1>6. n \in DOMAIN a.inputs <=> n <= Len(a.inputs)
  BY <1>1, <1>3
<1> HIDE DEF f, shown
<1>7. /\ n \in DOMAIN shown
      /\ shown[n] = [command |-> f[n], input |-> IF n <= Len(a.inputs) THEN a.inputs[n] ELSE NoInput]
  BY <1>2, <1>5
<1> QED
  BY <1>5, <1>6, <1>7 DEF shown

(* The last row of a screen is the router's only if the router made it.    *)
LEMMA RouterRowIsLast ==
  ASSUME NEW t, NEW transfers \in BOOLEAN,
         LET r == convert_to_visual_sign_payload(t, transfers)
         IN  r[Len(r)].label = "Universal_Router"
  PROVE  LET r == convert_to_visual_sign_payload(t, transfers)
         IN  t.input # EmptyInput /\ IsRouter(t.input) /\ r[Len(r)] = RouterRow(t.input)
<1> DEFINE r == convert_to_visual_sign_payload(t, transfers)
           o == InputRows(t.input, transfers)
<1>1. /\ Tos(t) \in {0, 1} /\ Fees(t) \in {0, 1} /\ Len(o) \in {0, 1}
      /\ Len(r) = Tos(t) + Fees(t) + Len(o) + 5
      /\ r[Tos(t) + Fees(t) + 5] = Row("Nonce", t.nonce)
      /\ Len(o) = 1 => r[Tos(t) + Fees(t) + 6] = o[1]
  BY ScreenParts
<1>2. r[Len(r)].label = "Universal_Router"
  OBVIOUS
<1> HIDE DEF r
<1>3. Len(o) = 1
  <2>1. Len(o) = 0 => r[Len(r)] = Row("Nonce", t.nonce)
    BY <1>1
  <2> QED
    BY <1>1, <1>2, <2>1 DEF Row
<1>4. r[Len(r)] = o[1]
  BY <1>1, <1>3
<1>5. CASE o = <<>>
  BY <1>3, <1>5
<1>6. CASE t.input # EmptyInput /\ IsErc20(t.input) /\ o = <<Erc20Row(t.input)>>
  <2>1. Erc20Row(t.input).label = "ERC20"
    BY <1>6 DEF IsErc20, Erc20Functions, Erc20Row, Preview, Transfer, TransferFrom, Approve,
                BalanceOf, Allowance, Query
  <2>2. o[1] = Erc20Row(t.input)
    BY <1>6
  <2> QED
    BY <1>2, <1>4, <2>1, <2>2
<1>7. CASE t.input # EmptyInput /\ IsRouter(t.input) /\ o = <<RouterRow(t.input)>>
  <2>1. o[1] = RouterRow(t.input)
    BY <1>7
  <2> QED
    BY <1>4, <1>7, <2>1 DEF r
<1>8. CASE o = <<[label |-> "Input_Data", hex |-> t.input]>>
  <2>1. o[1].label = "Input_Data"
    BY <1>8
  <2> QED
    BY <1>2, <1>4, <2>1
<1> QED
  BY <1>5, <1>6, <1>7, <1>8, InputCases, Zenon

(* The commands of a router call are shown in their places with their own  *)
(* inputs up to the first unknown one, for any call: what goes wrong behind *)
(* it, in map_commands, starts there and nowhere earlier.                  *)
THEOREM CommandsShownUpToUnknown == Spec => []CommandsPairedUpToUnknown
<1>1. IInv => CommandsPairedUpToUnknown
  <2> SUFFICES ASSUME IInv, RouterCommands # <<>>, NEW n \in DOMAIN tx.input.args.commands,
                      \A m \in 1..n : tx.input.args.commands[m] \in Command
               PROVE  /\ n \in DOMAIN RouterCommands
                      /\ RouterCommands[n].command = tx.input.args.commands[n]
                      /\ RouterCommands[n].input = IF n \in DOMAIN tx.input.args.inputs
                                                   THEN tx.input.args.inputs[n] ELSE NoInput
    BY DEF CommandsPairedUpToUnknown
  <2> DEFINE r == outcome.rows
  <2>1. /\ outcome.is = "payload" /\ r[Len(r)].label = "Universal_Router"
        /\ RouterCommands = r[Len(r)].commands
    BY Zenon DEF RouterCommands
  <2>2. /\ tx \in Transactions /\ decode_transfers \in BOOLEAN
        /\ r = convert_to_visual_sign_payload(tx, decode_transfers)
    BY <2>1 DEF IInv, TypeOK, PayloadShowsTx
  <2>3. tx.input # EmptyInput /\ IsRouter(tx.input) /\ r[Len(r)] = RouterRow(tx.input)
    BY <2>1, <2>2, RouterRowIsLast
  <2>4. HasArguments(tx.input.fn, tx.input.args)
    BY <2>2, <2>3, TransactionsAssumption DEF IsInput, IsRouter
  <2> QED
    BY <2>1, <2>3, <2>4, PairedUpToUnknown
<1> QED
  BY <1>1, Invariant, PTL
=============================================================================
