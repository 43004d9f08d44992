------------------------ MODULE MCEthereumConversion ------------------------
(***************************************************************************)
(* Transactions that differ in one part at a time and in several, calls to *)
(* every ERC-20 function, and all calls to the router of up to three       *)
(* commands, known, unknown and flagged (bit 7 set), with up to three      *)
(* inputs.                                                                 *)
(***************************************************************************)
EXTENDS EthereumConversion

MCListed == {1, 10}

Bounded(S, n) == UNION {[1..k -> S] : k \in 0..n}

Execute(commands, inputs, deadline) ==
  [fn |-> "execute",
   args |-> [commands |-> commands, inputs |-> inputs, deadline |-> deadline],
   unread |-> ""]

RouterCalls ==
  {Execute(c, SubSeq(<<"in1", "in2", "in3">>, 1, n), 3) :
     c \in Bounded({0, 5, 7, 133}, 3), n \in 0..3}
    \cup {Execute(<<0, 5>>, i, 3) : i \in Bounded({"in1", "in2"}, 2)}
    \cup {Execute(<<5>>, <<"in1">>, d) : d \in 0..6}

Who == {"ann", "bob"}
HowMuch == {"5", "7"}

Erc20Arguments ==
  [transfer     |-> [to: Who, amount: HowMuch],
   transferFrom |-> [from: Who, to: Who, amount: HowMuch],
   approve      |-> [spender: Who, amount: HowMuch],
   balanceOf    |-> [account: Who],
   allowance    |-> [owner: Who, spender: Who]]

Erc20Calls ==
  UNION {[fn: {f}, args: Erc20Arguments[f], unread: {""}] : f \in DOMAIN Erc20Arguments}
    \cup [fn: {"name", "symbol", "decimals", "totalSupply"}, args: {<<>>}, unread: {""}]

Inputs ==
  RouterCalls
    \cup Erc20Calls
    \cup {EmptyInput}
    \cup {[Execute(<<5>>, <<"in1">>, d) EXCEPT !.unread = "more"] : d \in {3, 6}}
    \cup {[fn |-> "decimals", args |-> <<>>, unread |-> "more"]}
    \cup {[fn |-> f, args |-> Garbled, unread |-> ""] : f \in {"execute", "transfer", "name"}}
    \cup {[fn |-> "unknown", args |-> a, unread |-> ""] : a \in {"x", "y"}}

Tx(type, chain, to, value, gas, priority, nonce, access, input) ==
  [type |-> type, chain |-> chain, to |-> to, value |-> value,
   gas_limit |-> gas, gas_price |-> gas, priority |-> priority,
   nonce |-> nonce, access_list |-> access, input |-> input]

Legacies ==
  {Tx("legacy", c, to, v, g, NoFee, n, {}, i) :
     c \in {NoChain, 1, 10, 99}, to \in {NoAddress, "ann", "bob"}, v \in {"0", "1"},
     g \in {"0", "1"}, n \in {"0", "1"}, i \in {EmptyInput, [fn |-> "name", args |-> <<>>, unread |-> ""]}}

Eip1559s ==
  {Tx("eip1559", c, to, "0", "1", p, n, {}, EmptyInput) :
     c \in {1, 99}, to \in {NoAddress, "ann"}, p \in {"0", "1"}, n \in {"0", "1"}}
    \cup {Tx("eip1559", 1, "ann", "0", "1", "0", "0", {"slot"}, EmptyInput)}
    \cup {Tx("eip1559", 1, "router", "0", "1", "0", "0", {}, i) : i \in Inputs}

Unsupported ==
  {Tx(type, 1, "ann", "0", "1", NoFee, "0", {}, EmptyInput) :
     type \in {"eip2930", "eip4844", "eip7702"}}

MCTransactions == Legacies \cup Eip1559s \cup Unsupported

(* What decodes to a transaction begins with its type, or is a list of     *)
(* nine elements at least.                                                 *)
Encodings(first) ==
  CASE first = Eip1559 -> {t \in MCTransactions : t.type = "eip1559"}
    [] first \in {201, 248} -> {t \in MCTransactions : t.type = "legacy"}
    [] OTHER -> {}

MCWires ==
  {EmptyWire}
    \cup UNION {[first: {b}, body: Encodings(b) \cup {Garbled}, trailing: BOOLEAN] :
                  b \in {0, 1, 2, 3, 4, 5, 127, 128, 191, 192, 201, 248, 255}}
=============================================================================
