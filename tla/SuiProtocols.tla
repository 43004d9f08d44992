---------------------------- MODULE SuiProtocols ----------------------------
(***************************************************************************)
(* The visualizers of protocols on Sui (visualsign-sui, presets): Cetus,   *)
(* Suilend and Momentum.  Each makes a row for a call of one of its        *)
(* functions.  It takes the numbers from the positions its configuration   *)
(* gives them, the pool or market from another, and the coins from the     *)
(* type arguments.  A row is its label and the fields behind it.  Left out *)
(* are the sender, which every row shows, the titles and summaries that    *)
(* repeat values of the fields in the same units (those of a transfer do   *)
(* not, and are modelled), what is only wording in the labels of fields,   *)
(* and how a value is written (a price limit of 0 as "None", a flag as     *)
(* words); _ stands for a blank.                                           *)
(*                                                                         *)
(* A program tx has inputs and commands, and an argument of a command is   *)
(* the gas coin, an input, or the result of a command.                     *)
(***************************************************************************)
EXTENDS Integers, Sequences

CONSTANT Bare  \* type arguments that are no struct types: they have no symbol

Error == [is |-> "error"]
Panic == [is |-> "panic"]
Rows(rows) == [is |-> "rows", rows |-> rows]

(* A Result: one value, or an error.                                       *)
Ok(v) == <<v>>
Err == <<>>

ItemAt(s, i) == IF i < Len(s) THEN Ok(s[i + 1]) ELSE Err

-----------------------------------------------------------------------------
(* Arguments (utils).                                                      *)

(* The same index for Input(i) as for Result(i).                           *)
parse_numeric_argument(arg) ==
  IF arg.arg \in {"Input", "Result"} THEN Ok(arg.index) ELSE Err

get_index(args, position) ==
  IF position < Len(args) THEN parse_numeric_argument(args[position + 1]) ELSE Err

(* The first index of a NestedResult.                                      *)
get_nested_result_value(args, position) ==
  LET arg == ItemAt(args, position)
  IN  IF arg = Err \/ arg[1].arg # "NestedResult" THEN Err ELSE Ok(arg[1].index)

InputOf(tx, index) == IF index = Err THEN Err ELSE ItemAt(tx.inputs, index[1])

(* Bytes whose type is not known are a bool by the first of them, and a    *)
(* number by their length.                                                 *)
PureNumber(pure, type) ==
  CASE pure.type # "none" -> IF pure.type = type THEN Ok(pure.value) ELSE Err
    [] pure.type = "none" /\ type = "bool" ->
         IF pure.value % 256 < 2 THEN Ok(pure.value % 256) ELSE Err
    [] pure.type = "none" /\ type # "bool" ->
         IF pure.bytes = type THEN Ok(pure.value) ELSE Err

decode_number(input, type) ==
  IF input = Err \/ input[1].is = "object" THEN Err ELSE PureNumber(input[1], type)

(* A generated getter: the argument at a position, as a number of a type.  *)
Getter(tx, call, position, type) ==
  decode_number(InputOf(tx, get_index(call.arguments, position)), type)

(* A mutant of get_object_value: the input at the position itself.         *)
ObjectAtPosition(tx, call, position) ==
  LET input == ItemAt(tx.inputs, position)
  IN  IF input = Err \/ input[1].is # "object" THEN Err ELSE Ok(input[1].id)

get_object_value(tx, call, position) ==
  LET input == InputOf(tx, get_index(call.arguments, position))
  IN  IF input = Err \/ input[1].is # "object" THEN Err ELSE Ok(input[1].id)

(* A type argument that is missing is unknown, one that is no struct type  *)
(* has an empty symbol.                                                    *)
TypeArg(call, i) == IF i < Len(call.types) THEN call.types[i + 1] ELSE "Unknown"
symbol(coin) == IF coin \in Bare THEN "" ELSE coin
base_unit_symbol(coin) == IF coin = "SUI" THEN "MIST" ELSE symbol(coin)

-----------------------------------------------------------------------------
(* Fields and rows.                                                        *)

Amount(label, value, unit) == [label |-> label, value |-> value, unit |-> unit]
Text(label, value) == Amount(label, value, "text")
Coin(label, coin) == Text(label, Ok(coin))

(* No row comes of a value that cannot be had, nor of an amount without a  *)
(* unit (create_amount_field).                                             *)
Row(label, fields) ==
  IF \E k \in DOMAIN fields : fields[k].value = Err \/ fields[k].unit = ""
  THEN Error
  ELSE Rows(<<[label |-> label, fields |-> fields]>>)

-----------------------------------------------------------------------------
(* Cetus.                                                                  *)

CetusPool(tx, call) == Text("Pool_Address", get_object_value(tx, call, 1))

PoolCoins(call) ==
  <<Coin("Pool_Coin_A", TypeArg(call, 0)), Coin("Pool_Coin_B", TypeArg(call, 1))>>

determine_input_output_coins(a2b, call) ==
  IF a2b THEN <<TypeArg(call, 0), TypeArg(call, 1)>>
         ELSE <<TypeArg(call, 1), TypeArg(call, 0)>>

(* A mutant of determine_primary_limit_labels: the limit is in the coin    *)
(* of the amount.                                                          *)
LimitInCoinOfAmount(input, output, by_amount_in) ==
  IF by_amount_in
  THEN <<"Amount_In", base_unit_symbol(input), "Min_Out", base_unit_symbol(input)>>
  ELSE <<"Amount_Out", base_unit_symbol(output), "Max_In", base_unit_symbol(output)>>

determine_primary_limit_labels(input, output, by_amount_in) ==
  IF by_amount_in
  THEN <<"Amount_In", base_unit_symbol(input), "Min_Out", base_unit_symbol(output)>>
  ELSE <<"Amount_Out", base_unit_symbol(output), "Max_In", base_unit_symbol(input)>>

SwapFields(coins, by_amount_in, amount, limit) ==
  LET p == determine_primary_limit_labels(coins[1], coins[2], by_amount_in = Ok(1))
  IN  <<Amount(p[1], IF by_amount_in = Err THEN Err ELSE amount, p[2]),
        Coin("Input_Coin", coins[1]),
        Amount(p[3], limit, p[4]),
        Coin("Output_Coin", coins[2])>>

(* The four ways to swap differ in where the numbers begin.                *)
render_swap_fields(tx, call, a2b, first) ==
  Row("CetusAMM_Swap_Command",
      <<CetusPool(tx, call)>>
      \o SwapFields(determine_input_output_coins(a2b, call),
                    Getter(tx, call, first, "bool"),
                    Getter(tx, call, first + 1, "u64"),
                    Getter(tx, call, first + 2, "u64"))
      \o <<Text("Sqrt_Price_Limit", Getter(tx, call, first + 3, "u128"))>>)

handle_swap_pool_script(tx, call, a2b) == render_swap_fields(tx, call, a2b, 3)
handle_swap_pool_script_with_partner(tx, call, a2b) == render_swap_fields(tx, call, a2b, 4)
handle_swap_v2(tx, call, a2b) == render_swap_fields(tx, call, a2b, 4)
handle_swap_v2_with_partner(tx, call, a2b) == render_swap_fields(tx, call, a2b, 5)

(* The router names no limit: it is shown as 0.                            *)
handle_router_swap(tx, call) ==
  LET a2b == Getter(tx, call, 4, "bool")
  IN  IF a2b = Err THEN Error
      ELSE Row("CetusAMM_Swap_Command",
             SwapFields(determine_input_output_coins(a2b = Ok(1), call),
                        Getter(tx, call, 5, "bool"), Getter(tx, call, 6, "u64"), Ok(0))
             \o <<Text("Sqrt_Price_Limit", Getter(tx, call, 7, "u128")),
                  Text("Use_All_Coin", Getter(tx, call, 8, "bool"))>>)

handle_check_coin_threshold(tx, call) ==
  Row("Cetus_Router_Check_Coin_Threshold",
      <<Coin("Coin", TypeArg(call, 0)),
        Amount("Threshold", Getter(tx, call, 1, "u64"), base_unit_symbol(TypeArg(call, 0)))>>)

handle_collect_reward(tx, call) ==
  Row("CetusAMM_Collect_Reward_Command",
      <<CetusPool(tx, call)>> \o PoolCoins(call) \o <<Coin("Reward_Coin", TypeArg(call, 2))>>)

handle_collect_fee(tx, call) ==
  Row("CetusAMM_Collect_Fee_Command", <<CetusPool(tx, call)>> \o PoolCoins(call))

MinOuts(tx, call, first) ==
  <<Amount("Min_Out_A", Getter(tx, call, first, "u64"), base_unit_symbol(TypeArg(call, 0))),
    Amount("Min_Out_B", Getter(tx, call, first + 1, "u64"), base_unit_symbol(TypeArg(call, 1)))>>

render_close_position(tx, call) ==
  Row("CetusAMM_Close_Position_Command",
      <<CetusPool(tx, call)>> \o PoolCoins(call) \o MinOuts(tx, call, 3))

render_remove_liquidity(tx, call) ==
  Row("CetusAMM_Remove_Liquidity_Command",
      <<CetusPool(tx, call)>> \o PoolCoins(call)
      \o <<Amount("Liquidity", Getter(tx, call, 3, "u128"), "RAW")>> \o MinOuts(tx, call, 4))

(* The amounts of both coins, and which of them is fixed.                  *)
FixedAmounts(tx, call, first) ==
  LET fix_a == Getter(tx, call, first + 2, "bool")
  IN  <<Text("Fix_Coin", IF fix_a = Err THEN Err
                         ELSE Ok(TypeArg(call, IF fix_a = Ok(1) THEN 0 ELSE 1))),
        Amount("Amount_A", Getter(tx, call, first, "u64"), base_unit_symbol(TypeArg(call, 0))),
        Amount("Amount_B", Getter(tx, call, first + 1, "u64"),
               base_unit_symbol(TypeArg(call, 1)))>>

handle_add_liquidity_by_fix_coin_v2(tx, call) ==
  Row("CetusAMM_Add_Liquidity_(Fix_Coin)_Command",
      <<CetusPool(tx, call)>> \o PoolCoins(call) \o FixedAmounts(tx, call, 5))

render_open_position_with_liquidity(tx, call) ==
  Row("CetusAMM_Open_Position_With_Liquidity_Command",
      <<CetusPool(tx, call)>> \o PoolCoins(call) \o FixedAmounts(tx, call, 6)
      \o <<Text("Tick_Lower_Index", Getter(tx, call, 2, "u32")),
           Text("Tick_Upper_Index", Getter(tx, call, 3, "u32"))>>)

handle_transfer_coin_to_sender(tx, call) ==
  Row("Cetus_Utils_Transfer_Coin_To_Sender", <<Coin("Coin", TypeArg(call, 0))>>)

CETUS_CONFIG ==
  [pool_script |-> {"swap_a2b", "swap_b2a", "swap_a2b_with_partner",
                    "swap_b2a_with_partner", "close_position", "remove_liquidity",
                    "open_position_with_liquidity_with_all"},
   pool_script_v2 |-> {"swap_a2b", "swap_b2a", "swap_a2b_with_partner",
                       "swap_b2a_with_partner", "add_liquidity_by_fix_coin",
                       "open_position_with_liquidity_by_fix_coin",
                       "collect_fee", "collect_reward"},
   pool_script_v3 |-> {"collect_fee", "collect_reward"},
   router |-> {"swap", "check_coin_threshold"},
   utils |-> {"transfer_coin_to_sender"}]

CetusVisualizer(tx, call) ==
  LET f == call.function
      old == call.module = "pool_script"
      a2b == f \in {"swap_a2b", "swap_a2b_with_partner"}
      partner == f \in {"swap_a2b_with_partner", "swap_b2a_with_partner"}
  IN  CASE f \in {"swap_a2b", "swap_b2a"} /\ old -> handle_swap_pool_script(tx, call, a2b)
        [] f \in {"swap_a2b", "swap_b2a"} /\ ~old -> handle_swap_v2(tx, call, a2b)
        [] partner /\ old -> handle_swap_pool_script_with_partner(tx, call, a2b)
        [] partner /\ ~old -> handle_swap_v2_with_partner(tx, call, a2b)
        [] f = "close_position" -> render_close_position(tx, call)
        [] f = "remove_liquidity" -> render_remove_liquidity(tx, call)
        [] f = "add_liquidity_by_fix_coin" -> handle_add_liquidity_by_fix_coin_v2(tx, call)
        [] f \in {"open_position_with_liquidity_with_all",
                  "open_position_with_liquidity_by_fix_coin"} ->
             render_open_position_with_liquidity(tx, call)
        [] f = "collect_fee" -> handle_collect_fee(tx, call)
        [] f = "collect_reward" -> handle_collect_reward(tx, call)
        [] f = "swap" -> handle_router_swap(tx, call)
        [] f = "check_coin_threshold" -> handle_check_coin_threshold(tx, call)
        [] f = "transfer_coin_to_sender" -> handle_transfer_coin_to_sender(tx, call)

-----------------------------------------------------------------------------
(* Suilend.  The type of the market comes first, the coin second.          *)

Market(tx, call) ==
  <<Text("Lending_Market", get_object_value(tx, call, 0)),
    Coin("Pool_Address", TypeArg(call, 0))>>

(* Most functions show, with the market, a coin and its reserve, or the    *)
(* reserve alone.                                                          *)
ReserveRow(tx, call, label) ==
  Row(label, Market(tx, call) \o <<Text("Reserve_Index", Getter(tx, call, 1, "u64"))>>)
CoinReserveRow(tx, call, label) ==
  Row(label, Market(tx, call) \o <<Coin("Coin", TypeArg(call, 1)),
                                   Text("Reserve_Index", Getter(tx, call, 1, "u64"))>>)

(* A loan and a withdrawal differ in the order of their last two fields.   *)
CoinAmount(tx, call) ==
  Amount("Amount", Getter(tx, call, 4, "u64"), symbol(TypeArg(call, 1)))

handle_borrow_request(tx, call) ==
  Row("Suilend_Borrow_Request",
      Market(tx, call) \o <<Coin("Coin", TypeArg(call, 1)),
                            Text("Reserve_Index", Getter(tx, call, 1, "u64")),
                            CoinAmount(tx, call)>>)
handle_withdraw_ctokens(tx, call) ==
  Row("Suilend_Withdraw_cTokens",
      Market(tx, call) \o <<Coin("Coin", TypeArg(call, 1)),
                            CoinAmount(tx, call),
                            Text("Reserve_Index", Getter(tx, call, 1, "u64"))>>)
handle_deposit_ctokens_into_obligation(tx, call) ==
  CoinReserveRow(tx, call, "Suilend_Deposit_cTokens")
handle_deposit_liquidity_and_mint_ctokens(tx, call) ==
  CoinReserveRow(tx, call, "Suilend_Deposit_Liquidity")
handle_fulfill_liquidity_request(tx, call) ==
  CoinReserveRow(tx, call, "Suilend_Fulfill_Liquidity")
handle_redeem_ctokens_and_withdraw_liquidity_request(tx, call) ==
  CoinReserveRow(tx, call, "Suilend_Redeem_cTokens")
handle_rebalance_staker(tx, call) == ReserveRow(tx, call, "Suilend_Rebalance_Staker")
handle_refresh_reserve_price(tx, call) ==
  ReserveRow(tx, call, "Suilend_Refresh_Reserve_Price")
handle_unstake_sui_from_staker(tx, call) ==
  ReserveRow(tx, call, "Suilend_Unstake_SUI")
handle_create_obligation(tx, call) ==
  Row("Suilend_Create_Obligation", Market(tx, call))

RewardIndexes(tx, call) ==
  <<Text("Reward_Reserve_Index", Getter(tx, call, 3, "u64")),
    Text("Reward_Index", Getter(tx, call, 4, "u64"))>>
RewardSide(tx, call) == <<Text("Reward_Side", Getter(tx, call, 5, "bool"))>>
RewardCoin(call) == <<Coin("Reward_Coin", TypeArg(call, 1))>>

handle_claim_rewards(tx, call) ==
  Row("Suilend_Claim_Rewards",
      Market(tx, call) \o RewardCoin(call) \o RewardIndexes(tx, call) \o RewardSide(tx, call))
handle_claim_rewards_and_deposit(tx, call) ==
  Row("Suilend_Claim_Rewards_and_Deposit_Command",
      Market(tx, call) \o RewardCoin(call) \o RewardSide(tx, call) \o RewardIndexes(tx, call)
      \o <<Text("Deposit_Reserve_Index", Getter(tx, call, 6, "u64"))>>)

(* The amount a SplitCoins takes off, if the argument is its first.        *)
FirstAmount(tx, command) ==
  decode_number(InputOf(tx, get_index(command.amounts, 0)), "u64")

(* Err stands for an error as well as for no amount: handle_repay makes    *)
(* the same of both.  Which of the command's results is repaid is not      *)
(* looked at.                                                              *)
get_repay_amount(tx, call) ==
  LET index == get_nested_result_value(call.arguments, 4)
      command == IF index = Err THEN Err ELSE ItemAt(tx.commands, index[1])
  IN  IF command = Err \/ command[1].command # "SplitCoins" THEN Err
      ELSE FirstAmount(tx, command[1])

handle_repay(tx, call) ==
  LET amount == get_repay_amount(tx, call)
  IN  Row("Suilend_Repay_Command",
          Market(tx, call)
          \o <<Coin("Coin", TypeArg(call, 1)),
               IF amount = Err THEN Text("Repay_Amount", Ok("N/A"))
               ELSE Amount("Repay_Amount", amount, symbol(TypeArg(call, 1))),
               Text("Reserve_Index", Getter(tx, call, 1, "u64"))>>)

SUILEND_CONFIG ==
  [lending_market |->
     {"borrow_request", "claim_rewards", "claim_rewards_and_deposit", "create_obligation",
      "deposit_ctokens_into_obligation", "deposit_liquidity_and_mint_ctokens",
      "fulfill_liquidity_request", "rebalance_staker",
      "redeem_ctokens_and_withdraw_liquidity_request", "refresh_reserve_price",
      "repay", "unstake_sui_from_staker", "withdraw_ctokens"}]

SuilendVisualizer(tx, call) ==
  LET f == call.function
  IN  CASE f = "borrow_request" -> handle_borrow_request(tx, call)
        [] f = "claim_rewards" -> handle_claim_rewards(tx, call)
        [] f = "repay" -> handle_repay(tx, call)
        [] f = "claim_rewards_and_deposit" -> handle_claim_rewards_and_deposit(tx, call)
        [] f = "create_obligation" -> handle_create_obligation(tx, call)
        [] f = "deposit_ctokens_into_obligation" ->
             handle_deposit_ctokens_into_obligation(tx, call)
        [] f = "deposit_liquidity_and_mint_ctokens" ->
             handle_deposit_liquidity_and_mint_ctokens(tx, call)
        [] f = "fulfill_liquidity_request" -> handle_fulfill_liquidity_request(tx, call)
        [] f = "rebalance_staker" -> handle_rebalance_staker(tx, call)
        [] f = "redeem_ctokens_and_withdraw_liquidity_request" ->
             handle_redeem_ctokens_and_withdraw_liquidity_request(tx, call)
        [] f = "refresh_reserve_price" -> handle_refresh_reserve_price(tx, call)
        [] f = "unstake_sui_from_staker" -> handle_unstake_sui_from_staker(tx, call)
        [] f = "withdraw_ctokens" -> handle_withdraw_ctokens(tx, call)

-----------------------------------------------------------------------------
(* Momentum.                                                               *)

MomentumPool(tx, call) == Text("Pool_Address", get_object_value(tx, call, 0))
Position(tx, call) == Text("Position", get_object_value(tx, call, 1))

MinAmounts(tx, call, first) ==
  <<Amount("Min_Amount_X", Getter(tx, call, first, "u64"), base_unit_symbol(TypeArg(call, 0))),
    Amount("Min_Amount_Y", Getter(tx, call, first + 1, "u64"),
           base_unit_symbol(TypeArg(call, 1)))>>

MomentumRemoveLiquidity(tx, call) ==
  Row("Momentum_Remove_Liquidity_Command",
      <<MomentumPool(tx, call), Position(tx, call)>> \o PoolCoins(call)
      \o <<Text("Liquidity", Getter(tx, call, 2, "u128"))>> \o MinAmounts(tx, call, 3))

MomentumClosePosition(tx, call) ==
  Row("Momentum_Close_Position_Command", <<Text("Position", get_object_value(tx, call, 0))>>)

MomentumAddLiquidity(tx, call) ==
  Row("Momentum_Add_Liquidity_Command",
      <<MomentumPool(tx, call)>> \o PoolCoins(call) \o MinAmounts(tx, call, 4))

MomentumOpenPosition(tx, call) ==
  Row("Momentum_Open_Position_Command", <<MomentumPool(tx, call)>> \o PoolCoins(call))

MomentumCollectFee(tx, call) ==
  Row("Momentum_Collect_Fee_Command",
      <<MomentumPool(tx, call), Position(tx, call)>> \o PoolCoins(call))

MomentumCollectReward(tx, call) ==
  Row("Momentum_Collect_Reward_Command",
      <<MomentumPool(tx, call), Position(tx, call)>> \o PoolCoins(call)
      \o <<Coin("Reward_Coin", TypeArg(call, 2))>>)

(* Neither the amount nor its direction is shown.                          *)
handle_trade_flash_swap(tx, call) ==
  Row("Momentum_Flash_Swap_Command",
      <<MomentumPool(tx, call)>> \o PoolCoins(call)
      \o <<Text("Sqrt_Price_Limit", Getter(tx, call, 4, "u128"))>>)

handle_trade_repay_flash_swap(tx, call) ==
  Row("Momentum_Repay_Flash_Swap_Command", <<MomentumPool(tx, call)>> \o PoolCoins(call))

handle_trade_swap_receipt_debts == Row("Momentum_Swap_Receipt_Debts_Command", <<>>)

MOMENTUM_CONFIG ==
  [collect |-> {"fee", "reward"},
   liquidity |-> {"remove_liquidity", "close_position", "add_liquidity", "open_position"},
   trade |-> {"flash_swap", "repay_flash_swap", "flash_loan", "repay_flash_loan",
              "swap_receipt_debts"}]

(* Flash loans are configured and left to do.                              *)
MomentumVisualizer(tx, call) ==
  LET f == call.function
  IN  CASE f = "remove_liquidity" -> MomentumRemoveLiquidity(tx, call)
        [] f = "close_position" -> MomentumClosePosition(tx, call)
        [] f = "add_liquidity" -> MomentumAddLiquidity(tx, call)
        [] f = "open_position" -> MomentumOpenPosition(tx, call)
        [] f = "fee" -> MomentumCollectFee(tx, call)
        [] f = "reward" -> MomentumCollectReward(tx, call)
        [] f = "flash_swap" -> handle_trade_flash_swap(tx, call)
        [] f = "repay_flash_swap" -> handle_trade_repay_flash_swap(tx, call)
        [] f = "swap_receipt_debts" -> handle_trade_swap_receipt_debts
        [] f \in {"flash_loan", "repay_flash_loan"} -> Panic
=============================================================================
