---------------------------- MODULE SuiConversion ----------------------------
(***************************************************************************)
(* How a Sui transaction becomes a screen (visualsign-sui, core, and the   *)
(* presets for transfers and staking): the network, a row for each object  *)
(* that is transferred if these are asked for, a row for each call of a    *)
(* configured function, and the details.  A command nothing is configured  *)
(* for has no row.  Which visualizer is asked first depends on the order   *)
(* in which the build found their directories.  Programs come from bcs     *)
(* and have passed no check: a result may be used before it is made.       *)
(***************************************************************************)
EXTENDS SuiProtocols, SequencesExt, Filters

CONSTANTS
  Programs,      \* the transactions considered
  Orders,        \* the orders of the directories under src/presets
  Unconvertible  \* those sui_json_rpc_types does not convert

VARIABLES
  program,          \* the transaction
  visualizers,      \* available_visualizers()
  decode_transfers, \* VisualSignOptions::decode_transfers
  checks,           \* the build panics when arithmetic overflows
  outcome           \* what the caller gets

vars == <<program, visualizers, decode_transfers, checks, outcome>>

Pending == [is |-> "pending"]

(* A collect over results: the first that is no rows is the outcome.       *)
Collect(results) ==
  LET failed == {k \in DOMAIN results : results[k].is # "rows"}
  IN  IF failed = {} THEN Rows(FlattenSeq([k \in DOMAIN results |-> results[k].rows]))
      ELSE results[CHOOSE k \in failed : \A j \in failed : k <= j]

-----------------------------------------------------------------------------
(* What bcs makes of a program: lists are sequences, inputs and results    *)
(* have numbers, and the id of an object is none of the words shown        *)
(* instead of one.                                                         *)

(* The arguments a command takes.                                          *)
Arguments(c) ==
  CASE c.command = "MoveCall" -> c.arguments
    [] c.command = "SplitCoins" -> <<c.coin>> \o c.amounts
    [] c.command = "MergeCoins" -> <<c.coin>> \o c.coins
    [] c.command = "TransferObjects" -> c.objects \o <<c.receiver>>
    [] OTHER -> <<>>

IsList(s) == s \in Seq(Range(s))

IsCommand(c) ==
  /\ \A k \in DOMAIN Arguments(c) :
       Arguments(c)[k].arg \in {"Input", "Result", "NestedResult"} =>
         Arguments(c)[k].index \in Nat
  /\ CASE c.command = "MoveCall" -> IsList(c.arguments)
       [] c.command = "SplitCoins" -> IsList(c.amounts)
       [] c.command = "MergeCoins" -> IsList(c.coins)
       [] c.command = "TransferObjects" -> IsList(c.objects)
       [] OTHER -> TRUE

IsProgram(tx) ==
  /\ IsList(tx.commands)
  /\ \A k \in DOMAIN tx.commands : IsCommand(tx.commands[k])
  /\ IsList(tx.inputs)
  /\ \A k \in DOMAIN tx.inputs :
       tx.inputs[k].is = "object" => tx.inputs[k].id \notin {"Sui", "Unknown"}

-----------------------------------------------------------------------------
(* Transfers (coin_transfer).                                              *)

address(input) ==
  IF input = Err \/ input[1].is = "object" \/ input[1].bytes # "address" THEN Err
  ELSE Ok(input[1].value)

resolve_receiver(tx, arg) == address(InputOf(tx, parse_numeric_argument(arg)))

IsResult(arg) == arg.arg \in {"Result", "NestedResult"}

(* A mutant of CommandOf: commands counted from one.                       *)
CommandAfter(tx, arg) == ItemAt(tx.commands, arg.index + 1)

CommandOf(tx, arg) == ItemAt(tx.commands, arg.index)
IsCoinCommand(command) == command # Err /\ command[1].command \in {"SplitCoins", "MergeCoins"}

(* The coin an object was split off or merged into, as far back as that    *)
(* goes.  A program has at most as many coin commands to go back through   *)
(* as it has commands, unless it goes around.                              *)
CoinOf(tx, arg) ==
  LET back[n \in 0..Len(tx.commands)] ==
        IF n = 0 THEN arg
        ELSE IF IsResult(back[n - 1]) /\ IsCoinCommand(CommandOf(tx, back[n - 1]))
             THEN CommandOf(tx, back[n - 1])[1].coin
             ELSE back[n - 1]
  IN  back[Len(tx.commands)]

GoesAround(tx, arg) ==
  LET coin == CoinOf(tx, arg) IN IsResult(coin) /\ IsCoinCommand(CommandOf(tx, coin))

(* What a coin is named: "Sui", an object, or an unknown one.              *)
resolve_object(tx, arg) ==
  LET coin == CoinOf(tx, arg)
  IN  CASE coin.arg = "GasCoin" -> Ok("Sui")
        [] coin.arg = "Input" ->
             LET input == InputOf(tx, Ok(coin.index))
             IN  IF input = Err \/ input[1].is # "object" THEN Err ELSE Ok(input[1].id)
        [] OTHER ->
             LET command == CommandOf(tx, coin)
             IN  IF command # Err /\ command[1].command = "MoveCall"
                 THEN Ok("Unknown") ELSE Err

(* The only amount of a SplitCoins, none ("N/A") for other commands.       *)
None == <<"N/A", "MIST">>

OnlyAmount(tx, command) ==
  IF command = Err THEN Err
  ELSE IF command[1].command = "SplitCoins" /\ Len(command[1].amounts) = 1
       THEN FirstAmount(tx, command[1]) ELSE None

(* A mutant of resolve_amount: a result of a SplitCoins is taken for the   *)
(* first, however many it has.                                             *)
FirstAmountOfAny(tx, arg) ==
  IF ~IsResult(arg) THEN None
  ELSE LET command == CommandOf(tx, arg)
       IN  IF command # Err /\ command[1].command = "SplitCoins"
           THEN FirstAmount(tx, command[1]) ELSE OnlyAmount(tx, command)

resolve_amount(tx, arg) ==
  IF arg.arg # "Result" THEN None ELSE OnlyAmount(tx, CommandOf(tx, arg))

AmountField(amount, unit) ==
  IF amount = None THEN Text("Amount", amount) ELSE Amount("Amount", amount, unit)

(* Besides the fields, the title and the summary of the condensed view     *)
(* give the amount: the title names a coin that is not Sui by its id, the  *)
(* summary says MIST of every coin.                                        *)
visualize_transfer_command(tx, receiver, arg) ==
  LET object == resolve_object(tx, arg)
      amount == resolve_amount(tx, arg)
      unit(other) == IF object = Ok("Sui") THEN "MIST" ELSE other
  IN  Row("Transfer_Command",
          <<Text("Asset_Object_ID", object), Text("To", receiver),
            AmountField(amount, unit("Unknown")),
            IF amount = None THEN Text("Title", Ok("Transfer_Command"))
                             ELSE Amount("Title", amount, unit("id")),
            Amount("Summary", IF amount = None THEN Ok("N/A") ELSE amount, "MIST")>>)

(* Every object is resolved before the first row is made.  For one that    *)
(* goes around, resolve_object calls itself until the stack overflows,     *)
(* which ends the process: Panic stands for that as well.                  *)
CoinTransferVisualizer(tx, command) ==
  LET receiver == resolve_receiver(tx, command.receiver)
      resolved == Collect([k \in DOMAIN command.objects |->
                    IF GoesAround(tx, command.objects[k]) THEN Panic
                    ELSE IF resolve_object(tx, command.objects[k]) = Err THEN Error
                    ELSE Rows(<<>>)])
  IN  IF receiver = Err THEN Error
      ELSE IF resolved.is # "rows" THEN resolved
      ELSE Collect([k \in DOMAIN command.objects |->
             visualize_transfer_command(tx, receiver, command.objects[k])])

-----------------------------------------------------------------------------
(* Staking (sui_native_staking).                                           *)

(* A mutant of get_stake_amount: the first of several amounts will do.     *)
StakeFirstAmount(tx, args) ==
  LET index == get_index(args, 1)
      command == IF index = Err THEN Err ELSE ItemAt(tx.commands, index[1])
  IN  IF command # Err /\ command[1].command = "SplitCoins"
      THEN FirstAmount(tx, command[1]) ELSE OnlyAmount(tx, command)

get_stake_amount(tx, args) ==
  LET index == get_index(args, 1)
  IN  OnlyAmount(tx, IF index = Err THEN Err ELSE ItemAt(tx.commands, index[1]))

get_stake_receiver(tx, args) == address(InputOf(tx, get_index(args, Len(args) - 1)))

OrElse(value, default) == IF value = Err THEN default ELSE value

(* The last of no arguments: the subtraction wraps, or panics.             *)
handle_add_stake(tx, call) ==
  IF call.arguments = <<>> /\ checks THEN Panic
  ELSE Row("Stake_Command",
           <<Text("Validator",
                  OrElse(IF call.arguments = <<>> THEN Err
                         ELSE get_stake_receiver(tx, call.arguments), Ok(0))),
             AmountField(OrElse(get_stake_amount(tx, call.arguments), None), "MIST")>>)

handle_withdraw_stake == Row("Withdraw_Command", <<>>)

NATIVE_STAKING_CONFIG == [sui_system |-> {"request_add_stake", "request_withdraw_stake"}]

SuiNativeStakingVisualizer(tx, call) ==
  IF call.function = "request_add_stake" THEN handle_add_stake(tx, call)
  ELSE handle_withdraw_stake

-----------------------------------------------------------------------------
(* Dispatch.                                                               *)

(* The directories under src/presets but coin_transfer, which the build    *)
(* leaves out.  They are found in any order.                               *)
Packages == {"cetus", "suilend", "momentum", "sui_native_staking"}
IsOrder(order) == order \in Seq(Packages) /\ Range(order) = Packages

ConfigOf(v) ==
  CASE v = "cetus" -> CETUS_CONFIG
    [] v = "suilend" -> SUILEND_CONFIG
    [] v = "momentum" -> MOMENTUM_CONFIG
    [] v = "sui_native_staking" -> NATIVE_STAKING_CONFIG

(* A mutant of can_handle: packages are not told apart.                    *)
CanHandleAnyPackage(v, command) ==
  /\ command.command = "MoveCall"
  /\ \E m \in DOMAIN ConfigOf(v) : command.function \in ConfigOf(v)[m]

(* A visualizer is configured for one package, which stands here under     *)
(* its name.                                                               *)
can_handle(v, command) ==
  /\ command.command = "MoveCall"
  /\ command.package = v
  /\ command.module \in DOMAIN ConfigOf(v)
  /\ command.function \in ConfigOf(v)[command.module]

visualize_tx_commands(v, tx, call) ==
  CASE v = "cetus" -> CetusVisualizer(tx, call)
    [] v = "suilend" -> SuilendVisualizer(tx, call)
    [] v = "momentum" -> MomentumVisualizer(tx, call)
    [] v = "sui_native_staking" -> SuiNativeStakingVisualizer(tx, call)

(* Nothing if no visualizer can handle the command.                        *)
visualize_with_any(order, tx, command) ==
  LET able == Filter(order, {v \in Range(order) : can_handle(v, command)})
  IN  IF able = <<>> THEN Rows(<<>>) ELSE visualize_tx_commands(able[1], tx, command)

decode_commands(order, tx) ==
  Collect([k \in DOMAIN tx.commands |-> visualize_with_any(order, tx, tx.commands[k])])

decode_transfers_of(tx) ==
  Collect([k \in DOMAIN tx.commands |->
    IF tx.commands[k].command = "TransferObjects"
    THEN CoinTransferVisualizer(tx, tx.commands[k]) ELSE Rows(<<>>)])

Network == Rows(<<[label |-> "Network", fields |-> <<>>]>>)
Details == Rows(<<[label |-> "Transaction_Details", fields |-> <<>>]>>)
Nothing == Rows(<<>>)

convert_to_visual_sign_payload(order, tx) ==
  IF tx \in Unconvertible THEN Error
  ELSE IF tx.kind # "ProgrammableTransaction" THEN Collect(<<Network, Details>>)
  ELSE Collect(<<Network, IF decode_transfers THEN decode_transfers_of(tx) ELSE Nothing,
                 decode_commands(order, tx), Details>>)

-----------------------------------------------------------------------------
Init ==
  /\ program \in Programs
  /\ visualizers \in Orders
  /\ decode_transfers \in BOOLEAN
  /\ checks \in BOOLEAN
  /\ outcome = Pending

Convert ==
  /\ outcome = Pending
  /\ outcome' = convert_to_visual_sign_payload(visualizers, program)
  /\ UNCHANGED <<program, visualizers, decode_transfers, checks>>

Next == Convert

Spec == Init /\ [][Next]_vars

-----------------------------------------------------------------------------
HasRows == outcome.is = "rows" /\ program.kind = "ProgrammableTransaction"

TransferRows == Filter(outcome.rows, {r \in Range(outcome.rows) : r.label = "Transfer_Command"})
CommandRows ==
  Filter(outcome.rows, {r \in Range(outcome.rows) :
    r.label \notin {"Network", "Transfer_Command", "Transaction_Details"}})

(* The calls of functions some preset declares, in their order.            *)
DeclaredCalls ==
  Filter(program.commands, {c \in Range(program.commands) :
    /\ c.command = "MoveCall"
    /\ c.package \in Packages
    /\ c.module \in DOMAIN ConfigOf(c.package)
    /\ c.function \in ConfigOf(c.package)[c.module]})

(* Whether all arguments are inputs.                                       *)
Plain(args) == \A k \in DOMAIN args : args[k].arg = "Input"

(* The numbers a command splits off are inputs.                            *)
PlainAmounts ==
  \A k \in DOMAIN program.commands :
    program.commands[k].command = "SplitCoins" => Plain(program.commands[k].amounts)

(* Every result that is used was made by a command before.                 *)
WellFormed ==
  \A k \in DOMAIN program.commands :
    LET args == Arguments(program.commands[k])
    IN  \A j \in DOMAIN args : IsResult(args[j]) => args[j].index < k - 1

(* The order in which the build finds the presets decides nothing: no two  *)
(* of them claim the same call.                                            *)
OrderIndependent ==
  outcome.is # "pending" =>
    \A order \in Orders : convert_to_visual_sign_payload(order, program) = outcome

(* Each declared call has its own row, in the order of the calls, and the  *)
(* pool, market or position a row names is one its own call was given (if  *)
(* that was given inputs only).                                            *)
CallsShownInOrder ==
  HasRows =>
    /\ Len(CommandRows) = Len(DeclaredCalls)
    /\ \A k \in DOMAIN CommandRows :
         LET call == DeclaredCalls[k]
             named == {"Lending_Market", "Position"}
                        \cup (IF call.package = "suilend" THEN {} ELSE {"Pool_Address"})
         IN  Plain(call.arguments) =>
               \A f \in DOMAIN CommandRows[k].fields :
                 CommandRows[k].fields[f].label \in named =>
                   \E a \in DOMAIN call.arguments :
                     /\ call.arguments[a].index < Len(program.inputs)
                     /\ program.inputs[call.arguments[a].index + 1].is = "object"
                     /\ CommandRows[k].fields[f].value =
                          Ok(program.inputs[call.arguments[a].index + 1].id)

(* In the row of a swap, what is paid is counted in the coin that goes in  *)
(* and what is received in the coin that comes out, and a swap from A to B *)
(* pays the pool's first coin.                                             *)
SwapUnits ==
  HasRows =>
    \A k \in DOMAIN CommandRows :
      CommandRows[k].label = "CetusAMM_Swap_Command" =>
        LET fields == CommandRows[k].fields
            call == DeclaredCalls[k]
            coin(label) == fields[CHOOSE f \in DOMAIN fields : fields[f].label = label].value[1]
        IN  /\ \A f \in DOMAIN fields :
                 /\ fields[f].label \in {"Amount_In", "Max_In"} =>
                      fields[f].unit = base_unit_symbol(coin("Input_Coin"))
                 /\ fields[f].label \in {"Amount_Out", "Min_Out"} =>
                      fields[f].unit = base_unit_symbol(coin("Output_Coin"))
            /\ \E f, g \in DOMAIN fields :
                 \/ fields[f].label = "Amount_In" /\ fields[g].label = "Min_Out"
                 \/ fields[f].label = "Amount_Out" /\ fields[g].label = "Max_In"
            /\ call.function \in {"swap_a2b", "swap_a2b_with_partner"} =>
                 /\ coin("Input_Coin") = TypeArg(call, 0)
                 /\ coin("Output_Coin") = TypeArg(call, 1)

(* The commands whose coin is the gas coin or comes of it: the least set   *)
(* that holds what follows from itself.                                    *)
OfGas(k) ==
  \A S \in SUBSET DOMAIN program.commands :
    (\A j \in DOMAIN program.commands :
       /\ program.commands[j].command \in {"SplitCoins", "MergeCoins"}
       /\ LET coin == program.commands[j].coin
          IN  coin.arg = "GasCoin" \/ (IsResult(coin) /\ coin.index + 1 \in S)
       => j \in S)
    => k \in S

(* The amount is what the k-th command splits off, and all it splits off.  *)
IsWholeSplit(amount, k) ==
  /\ program.commands[k].command = "SplitCoins"
  /\ Len(program.commands[k].amounts) = 1
  /\ program.inputs[program.commands[k].amounts[1].index + 1].value = amount

(* The amount is the part-th, from 0, of those the k-th command splits off. *)
IsPart(amount, k, part) ==
  /\ program.commands[k].command = "SplitCoins"
  /\ part < Len(program.commands[k].amounts)
  /\ program.inputs[program.commands[k].amounts[part + 1].index + 1].value = amount

(* The amount is that of the coin an argument stands for: the only one its *)
(* command splits off, or one of several.                                  *)
IsOfCoin(amount, arg) ==
  CASE arg.arg = "Result" -> IsWholeSplit(amount, arg.index + 1)
    [] arg.arg = "NestedResult" -> IsPart(amount, arg.index + 1, arg.nested)
    [] OTHER -> FALSE

(* If they are asked for, each object sent has a row, in order.  In a      *)
(* well-formed program the amounts in its field, its title and its summary *)
(* are one, that of the coin sent, which is all its command splits off;    *)
(* field and title are in MIST exactly if that splits the gas coin.  The   *)
(* summary is in MIST always, so that it agrees with the field in its unit *)
(* for these coins and contradicts it for all others.                      *)
TransferAmounts ==
  HasRows =>
    LET sent == FlattenSeq([k \in DOMAIN program.commands |->
                  IF program.commands[k].command = "TransferObjects"
                  THEN program.commands[k].objects ELSE <<>>])
    IN  /\ Len(TransferRows) = IF decode_transfers THEN Len(sent) ELSE 0
        /\ WellFormed /\ PlainAmounts =>
             \A k \in DOMAIN TransferRows :
               LET amount == TransferRows[k].fields[3]
                   title == TransferRows[k].fields[4]
                   summary == TransferRows[k].fields[5]
               IN  amount.unit # "text" =>
                     /\ sent[k].arg = "Result"
                     /\ IsOfCoin(amount.value[1], sent[k])
                     /\ title.value = amount.value
                     /\ summary.value = amount.value
                     /\ OfGas(sent[k].index + 1) <=> amount.unit = "MIST"
                     /\ OfGas(sent[k].index + 1) <=> title.unit = "MIST"
                     /\ OfGas(sent[k].index + 1) <=> summary.unit = amount.unit

(* What a stake is taken to be of: the input with some index is not told   *)
(* apart from the result of the command with that index.                   *)
StakedAs(arg) == IF arg.arg = "Input" THEN [arg |-> "Result", index |-> arg.index] ELSE arg

(* What a repayment is taken to be with: whichever coin of a split, the    *)
(* first.                                                                  *)
RepaidAs(arg) ==
  IF arg.arg = "NestedResult"
  THEN [arg |-> "NestedResult", index |-> arg.index, nested |-> 0] ELSE arg

(* In a well-formed program, an amount shown for a stake or a repayment is *)
(* that of the coin it is taken to be of.  That is the coin it has if the  *)
(* program stakes a result, or repays with the first coin of a split.  It  *)
(* is another if the program stakes an input (the amount is what the       *)
(* command with the input's index splits off) or repays with a later coin  *)
(* of a split (the amount is that of the first).                           *)
StakeAndRepayAmounts ==
  HasRows /\ WellFormed /\ PlainAmounts =>
    \A k \in DOMAIN CommandRows :
      LET args == DeclaredCalls[k].arguments
          fields == CommandRows[k].fields
      IN  /\ /\ CommandRows[k].label = "Stake_Command"
             /\ fields[2].unit # "text"
             => IsOfCoin(fields[2].value[1], StakedAs(args[2]))
          /\ /\ CommandRows[k].label = "Suilend_Repay_Command"
             /\ fields[4].unit # "text"
             => IsOfCoin(fields[4].value[1], RepaidAs(args[5]))

(* No well-formed program panics or goes around forever, unless it takes   *)
(* or repays a flash loan, or stakes without an argument.                  *)
WellFormedNeverPanics ==
  outcome = Panic /\ WellFormed =>
    \E k \in DOMAIN DeclaredCalls :
      \/ DeclaredCalls[k].function \in {"flash_loan", "repay_flash_loan"}
      \/ /\ DeclaredCalls[k].function = "request_add_stake"
         /\ DeclaredCalls[k].arguments = <<>>
=============================================================================
