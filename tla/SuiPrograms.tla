---------------------------- MODULE SuiPrograms -----------------------------
(***************************************************************************)
(* Two families of Sui programs.  Calls: every function a preset declares, *)
(* with the arguments it takes, in both directions of its flags, and with  *)
(* one of them missing, of another type, an object or a result.  Coins:    *)
(* splits and merges of the gas coin, an object or each other, and then a  *)
(* transfer, a stake or a repayment, with results that exist, results that *)
(* come later and arguments of the wrong kind.                             *)
(***************************************************************************)
EXTENDS Integers, Sequences

Object(id) == [is |-> "object", id |-> id]
Pure(bytes, value) == [is |-> "pure", type |-> "none", bytes |-> bytes, value |-> value]
Typed(bytes, value) == [is |-> "pure", type |-> bytes, bytes |-> bytes, value |-> value]

GasCoin == [arg |-> "GasCoin"]
Input(i) == [arg |-> "Input", index |-> i]
Result(i) == [arg |-> "Result", index |-> i]
NestedResult(i, j) == [arg |-> "NestedResult", index |-> i, nested |-> j]

MoveCall(p, m, f, types, args) ==
  [command |-> "MoveCall", package |-> p, module |-> m, function |-> f,
   types |-> types, arguments |-> args]
SplitCoins(coin, amounts) == [command |-> "SplitCoins", coin |-> coin, amounts |-> amounts]
MergeCoins(coin, coins) == [command |-> "MergeCoins", coin |-> coin, coins |-> coins]
TransferObjects(objects, to) ==
  [command |-> "TransferObjects", objects |-> objects, receiver |-> to]

Program(inputs, commands) ==
  [kind |-> "ProgrammableTransaction", inputs |-> inputs, commands |-> commands]

-----------------------------------------------------------------------------
(* What the functions take: o an object, b a bool, 4, 8 and 16 numbers.    *)
Signature(p, m, f) ==
  CASE m = "pool_script" /\ f \in {"swap_a2b", "swap_b2a"} ->
         <<"o", "o", "o", "b", "8", "8", "16">>
    [] \/ m = "pool_script" /\ f \in {"swap_a2b_with_partner", "swap_b2a_with_partner"}
       \/ m = "pool_script_v2" /\ f \in {"swap_a2b", "swap_b2a"} ->
         <<"o", "o", "o", "o", "b", "8", "8", "16">>
    [] f \in {"swap_a2b_with_partner", "swap_b2a_with_partner"} ->
         <<"o", "o", "o", "o", "o", "b", "8", "8", "16">>
    [] m = "pool_script" /\ f = "close_position" -> <<"o", "o", "o", "8", "8">>
    [] m = "pool_script" /\ f = "remove_liquidity" -> <<"o", "o", "o", "16", "8", "8">>
    [] m = "liquidity" /\ f = "remove_liquidity" -> <<"o", "o", "16", "8", "8">>
    [] f \in {"open_position_with_liquidity_with_all",
              "open_position_with_liquidity_by_fix_coin"} ->
         <<"o", "o", "4", "4", "o", "o", "8", "8", "b">>
    [] f = "add_liquidity_by_fix_coin" -> <<"o", "o", "o", "o", "o", "8", "8", "b">>
    [] f = "swap" -> <<"o", "o", "o", "o", "b", "b", "8", "16", "b">>
    [] f = "check_coin_threshold" -> <<"o", "8">>
    [] f \in {"borrow_request", "withdraw_ctokens", "repay"} -> <<"o", "8", "o", "o", "8">>
    [] f \in {"claim_rewards", "claim_rewards_and_deposit"} ->
         <<"o", "o", "o", "8", "8", "b", "8">>
    [] p = "suilend" -> <<"o", "8">>
    [] f = "add_liquidity" -> <<"o", "o", "o", "o", "8", "8">>
    [] f = "flash_swap" -> <<"o", "b", "b", "8", "16">>
    [] OTHER -> <<"o", "o", "o">>

(* The inputs stand in the reverse order of the arguments.                 *)
InputFor(kind, k, flag) ==
  CASE kind = "o" -> Object(<<"o0", "o1", "o2", "o3", "o4", "o5">>[k])
    [] kind = "b" -> Pure("bool", flag)
    [] kind = "4" -> Pure("u32", 40 + k)
    [] kind = "8" -> Pure("u64", 1024 + k)
    [] kind = "16" -> Pure("u128", 70 + k)

Inputs(kinds, flag) ==
  [k \in DOMAIN kinds |-> InputFor(kinds[Len(kinds) + 1 - k], Len(kinds) + 1 - k, flag)]
InOrder(kinds) == [k \in DOMAIN kinds |-> Input(Len(kinds) - k)]

Coins3 == <<"USDC", "SUI", "CETUS">>

(* The functions of a package, from its configuration, and one that is of  *)
(* no module but another's.                                                *)
FunctionsOf(p, config) ==
  UNION {{<<p, m, f>> : f \in config[m] \cup {"swap_a2b", "repay"}} : m \in DOMAIN config}

Calls(functions) ==
  UNION {LET kinds == Signature(f[1], f[2], f[3])
             call(types, args) == <<MoveCall(f[1], f[2], f[3], types, args)>>
         IN  {Program(Inputs(kinds, flag), call(types, InOrder(kinds))) :
                flag \in 0..2, types \in {Coins3, <<"SUI">>, <<"u64", "USDC">>}}
             \cup {Program(Inputs(kinds, 1), call(Coins3, [InOrder(kinds) EXCEPT ![k] = a])) :
                     k \in DOMAIN kinds,
                     a \in {Input(0), Input(Len(kinds) - 1), Input(9), Result(0), GasCoin}}
             \cup {Program(Inputs(kinds, 1), call(Coins3, SubSeq(InOrder(kinds), 1, n))) :
                     n \in 0..(Len(kinds) - 1)} :
           f \in functions}

-----------------------------------------------------------------------------
CoinInputs == <<Object("coin1"), Typed("u64", 5), Typed("u64", 7), Typed("address", 1001),
                Object("market"), Pure("u64", 2)>>

SplitsInto(amounts) ==
  {SplitCoins(c, a) : c \in {GasCoin, Input(0), Result(0), NestedResult(1, 0)}, a \in amounts}
OneOrTwo == {<<Input(1)>>, <<Input(1), Input(2)>>}
Splits == SplitsInto(OneOrTwo \cup {<<Input(2)>>, <<>>, <<Input(3)>>})
Merges == {MergeCoins(c, <<Result(0)>>) : c \in {GasCoin, Input(0)}}
Transfers ==
  {TransferObjects(o, to) :
     o \in {<<Result(0)>>, <<Result(1)>>, <<NestedResult(0, 1)>>, <<Input(0)>>, <<GasCoin>>,
            <<Result(0), Result(1)>>, <<Result(2)>>, <<Result(5)>>, <<Input(1)>>},
     to \in {Input(3), Input(0)}}
Stakes ==
  {MoveCall("sui_native_staking", "sui_system", "request_add_stake", <<>>, args) :
     args \in {<<>>, <<Input(4), Result(0), Input(3)>>, <<Input(4), Result(1), Input(3)>>,
               <<Input(4), NestedResult(0, 0), Input(3)>>, <<Input(4), Input(0), Input(3)>>,
               <<Input(4), Input(0), Input(2)>>}}
  \cup {MoveCall("sui_native_staking", "sui_system", "request_withdraw_stake", <<>>, <<>>)}
Repays ==
  {MoveCall("suilend", "lending_market", "repay", <<"MAIN", "SUI">>,
            <<Input(4), Input(5), Input(3), Input(3), a>>) :
     a \in {Result(0), NestedResult(0, 0), NestedResult(0, 1), NestedResult(1, 0),
            NestedResult(1, 1), Input(1)}}
Others ==
  {MoveCall("momentum", "trade", "flash_loan", <<>>, <<>>),
   MoveCall("elsewhere", "m", "swap_a2b", <<>>, <<>>),
   [command |-> "Other"]}

Uses == Transfers \cup Stakes \cup Repays

CoinPrograms ==
  {Program(CoinInputs, cs) : cs \in
     {<<c>> : c \in Splits \cup Uses \cup Others}
     \cup (Splits \X Uses) \cup (Uses \X Uses) \cup (Others \X Uses)
     \cup {<<s, t, u>> :
             s \in SplitsInto(OneOrTwo), t \in SplitsInto(OneOrTwo) \cup Merges, u \in Uses}}

NotProgrammable == [kind |-> "ChangeEpoch", inputs |-> <<>>, commands |-> <<>>]
=============================================================================
