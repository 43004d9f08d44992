--------------------------- MODULE SolanaPresets ----------------------------
(***************************************************************************)
(* The visualizers of Solana instructions (visualsign-solana, presets):    *)
(* one for each program that is known, and unknown_program, the last, for  *)
(* the others.  Each turns an instruction down or makes a preview of it: a *)
(* title, a condensed and an expanded list of rows.  Data are bytes and a  *)
(* number that is cut out of them is its bytes; what bincode and borsh     *)
(* decode is external.  A program whose data a visualizer does not decode  *)
(* is an error, not an unknown program.  In labels and texts _ stands for  *)
(* a blank.                                                                *)
(***************************************************************************)
EXTENDS Integers, Sequences

CONSTANTS
  System, Jupiter, ComputeBudget, AssociatedTokenAccount, StakePool, \* the programs
  SystemInstruction,        \* the data bincode decodes, and as what
  ComputeBudgetInstruction, \* the data borsh decodes, and as what
  StakePoolInstruction,     \* the same for the stake pool
  Tokens,                   \* the mints in the token table, and their names
  Truncated,                \* the first and last four characters of an address
  NoKeyThere                \* "Unknown": a position with no account

Rejected == [is |-> "rejected"]
Preview(title, condensed, expanded) ==
  [is |-> "preview", title |-> title, condensed |-> condensed, expanded |-> expanded]

(* The account at a position counted from zero, as the code counts it.     *)
HasAccount(i, p) == p < Len(i.accounts)

(* A mutant of AccountAt: positions are counted from the last.             *)
AccountFromTheEnd(i, p) ==
  IF HasAccount(i, p) THEN i.accounts[Len(i.accounts) - p] ELSE NoKeyThere

AccountAt(i, p) == IF HasAccount(i, p) THEN i.accounts[p + 1] ELSE NoKeyThere

-----------------------------------------------------------------------------
(* The system program: a transfer shows what is sent, not between whom.    *)
TransferPreview(i, args) ==
  LET text == <<"Transfer", args.lamports, "lamports">>
  IN  Preview(text,
              << <<"Instruction", text>> >>,
              << <<"Program_ID", i.program>>,
                 <<"Transfer_Amount", args.lamports>>,
                 <<"Raw_Data", i.data>> >>)

CreateAccountPreview(i, args) ==
  Preview(<<"Create_Account">>,
          << <<"Action", <<"Create_Account">> >>, <<"Space", args.space>>, <<"Rent", args.lamports>> >>,
          << <<"Action", <<"Create_Account">> >>,
             <<"New_Account", AccountAt(i, 1)>>,
             <<"Payer", AccountAt(i, 0)>>,
             <<"Space_(bytes)", args.space>>,
             <<"Rent_(lamports)", args.lamports>>,
             <<"Owner_Program", args.owner>>,
             <<"Program", "System_Program">> >>)

(* Any other instruction of the system: its label, which may name an       *)
(* argument, and all it has.                                               *)
system_instruction_label(args) == <<args.name, args.labelled>>

OtherSystemPreview(args) ==
  LET name == system_instruction_label(args)
  IN  Preview(name,
              << <<"Action", name>>, <<"Program", "System_Program">> >>,
              << <<"Action", name>>, <<"Program", "System_Program">>,
                 <<"Instruction_Data", args>> >>)

(* What bincode makes of data has the fields of its variant: of those not  *)
(* shown as they are, the creation of an account has these.                *)
IsSystemInstruction(args) ==
  args.name = "CreateAccount" =>
    args = [name |-> args.name, lamports |-> args.lamports, space |-> args.space,
            owner |-> args.owner]

SystemVisualizer(i) ==
  IF i.data \notin DOMAIN SystemInstruction THEN Rejected
  ELSE LET args == SystemInstruction[i.data]
       IN  CASE args.name = "Transfer" -> TransferPreview(i, args)
             [] args.name = "CreateAccount" -> CreateAccountPreview(i, args)
             [] OTHER -> OtherSystemPreview(args)

-----------------------------------------------------------------------------
(* The compute budget: one row with the number, by kind.                   *)
NumberLabel == [RequestHeapFrame |-> "Heap_Frame_Size",
                SetComputeUnitLimit |-> "Compute_Unit_Limit",
                SetComputeUnitPrice |-> "Price_per_Compute_Unit",
                SetLoadedAccountsDataSizeLimit |-> "Data_Size_Limit"]

(* What borsh makes of data names one of these, or nothing it does.        *)
IsComputeBudgetInstruction(args) == args.name = "Unused" \/ args.name \in DOMAIN NumberLabel

create_compute_budget_expanded_fields(i, args) ==
  << <<"Program_ID", i.program>> >>
    \o (IF args.name = "Unused" THEN <<>> ELSE << <<NumberLabel[args.name], args.number>> >>)
    \o << <<"Raw_Data", i.data>> >>

format_compute_budget_instruction(args) ==
  IF args.name = "Unused" THEN <<"Unused_Compute_Budget_Instruction">>
  ELSE <<args.name, args.number>>

ComputeBudgetVisualizer(i) ==
  IF i.data \notin DOMAIN ComputeBudgetInstruction THEN Rejected
  ELSE LET args == ComputeBudgetInstruction[i.data]
           text == format_compute_budget_instruction(args)
       IN  Preview(text, << <<"Instruction", text>> >>,
                   create_compute_budget_expanded_fields(i, args))

-----------------------------------------------------------------------------
(* Token accounts: only the first byte is looked at.                       *)
parse_ata_instruction(data) ==
  IF data # <<>> /\ data[1] \in 0..2
  THEN <<"Create_Associated_Token_Account",
         "Create_Associated_Token_Account_(Idempotent)",
         "Recover_Nested_Associated_Token_Account">>[data[1] + 1]
  ELSE "Unknown_ATA_instruction"

AssociatedTokenAccountVisualizer(i) ==
  LET text == parse_ata_instruction(i.data)
  IN  IF text = "Unknown_ATA_instruction" THEN Rejected
      ELSE Preview(<<text>>, << <<"Instruction", <<text>> >> >>,
                   << <<"Program_ID", i.program>>, <<"Instruction", <<text>> >> >>)

(* Stake pools: the name of the instruction, without its arguments.        *)
StakepoolVisualizer(i) ==
  IF i.data \notin DOMAIN StakePoolInstruction THEN Rejected
  ELSE LET name == StakePoolInstruction[i.data].name
       IN  Preview(<<name>>, << <<"Instruction", <<name>> >> >>,
                   << <<"Stake_Pool_Instruction", name>> >>)

-----------------------------------------------------------------------------
(* Jupiter swaps.  The numbers are the last 19 bytes, whatever is before.  *)
Discriminators ==
  << <<229, 23, 203, 151, 122, 227, 173, 42>>,
     <<75, 215, 223, 168, 12, 208, 182, 42>>,
     <<58, 242, 170, 174, 47, 182, 212, 42>> >>
RouteNames == <<"Jupiter_Swap", "Jupiter_Exact_Out_Route", "Jupiter_Shared_Accounts_Route">>

Routes(data) == {k \in 1..3 : SubSeq(data, 1, 8) = Discriminators[k]}

(* A mutant of the next: the amounts change places.                        *)
AmountsSwapped(data) ==
  LET n == Len(data)
  IN  [in_amount |-> SubSeq(data, n - 10, n - 3), out_amount |-> SubSeq(data, n - 18, n - 11),
       slippage_bps |-> SubSeq(data, n - 2, n - 1), platform_fee_bps |-> data[n]]

parse_amounts_and_slippage_from_data(data) ==
  LET n == Len(data)
  IN  [in_amount |-> SubSeq(data, n - 18, n - 11), out_amount |-> SubSeq(data, n - 10, n - 3),
       slippage_bps |-> SubSeq(data, n - 2, n - 1), platform_fee_bps |-> data[n]]

(* A mint that is not in the table is called by its truncated address.     *)
get_token_info(address) ==
  IF address \in DOMAIN Tokens
  THEN [address |-> address, symbol |-> Tokens[address].symbol, name |-> Tokens[address].name]
  ELSE [address |-> address, symbol |-> Truncated[address],
        name |-> <<"Unknown_Token", Truncated[address]>>]

(* The token given is the first account, the token received the sixth.     *)
TokenAt(i, p) == IF HasAccount(i, p) THEN << get_token_info(AccountAt(i, p)) >> ELSE <<>>

SymbolOf(token) == IF token = <<>> THEN NoKeyThere ELSE token[1].symbol
AmountOf(token, n) == IF token = <<>> THEN <<>> ELSE n

format_jupiter_swap_instruction(i, name, in_token, out_token) ==
  LET args == parse_amounts_and_slippage_from_data(i.data)
  IN  <<name, AmountOf(in_token, args.in_amount), SymbolOf(in_token),
        AmountOf(out_token, args.out_amount), SymbolOf(out_token),
        args.slippage_bps>>
      \o (IF args.platform_fee_bps > 0 THEN <<args.platform_fee_bps>> ELSE <<>>)

(* A mutant of the next: the address of the token received is not shown.   *)
ExpandedWithoutAddress(i, in_token, out_token) ==
  LET args == parse_amounts_and_slippage_from_data(i.data)
      token(side, info, n) ==
        IF info = <<>> THEN <<>>
        ELSE << <<side \o "_Token", info[1].symbol>>, <<n[1], n[2]>> >>
  IN  << <<"Program_ID", i.program>> >>
      \o token("Input", in_token, <<"Input_Amount", args.in_amount>>)
      \o token("Output", out_token, <<"Quoted_Output_Amount", args.out_amount>>)
      \o << <<"Slippage", args.slippage_bps>>, <<"Platform_Fee", args.platform_fee_bps>>,
            <<"Raw_Data", i.data>> >>

(* The address of the token given is not shown, that of the one received   *)
(* is; a platform fee of zero is not shown.                                *)
create_jupiter_swap_expanded_fields(i, in_token, out_token) ==
  LET args == parse_amounts_and_slippage_from_data(i.data)
  IN  << <<"Program_ID", i.program>> >>
      \o (IF in_token = <<>> THEN <<>>
          ELSE << <<"Input_Token", in_token[1].symbol>>,
                  <<"Input_Amount", args.in_amount>>,
                  <<"Input_Token_Name", in_token[1].name>> >>)
      \o (IF out_token = <<>> THEN <<>>
          ELSE << <<"Output_Token", out_token[1].symbol>>,
                  <<"Quoted_Output_Amount", args.out_amount>>,
                  <<"Output_Token_Name", out_token[1].name>>,
                  <<"Output_Token_Address", out_token[1].address>> >>)
      \o << <<"Slippage", args.slippage_bps>> >>
      \o (IF args.platform_fee_bps > 0 THEN << <<"Platform_Fee", args.platform_fee_bps>> >>
          ELSE <<>>)
      \o << <<"Raw_Data", i.data>> >>

UnknownJupiter(i) ==
  LET text == <<"Jupiter:_Unknown_Instruction">>
  IN  Preview(text, << <<"Instruction", text>> >>,
              << <<"Program_ID", i.program>>,
                 <<"Status", "Unknown_Jupiter_instruction_type">>,
                 <<"Raw_Data", i.data>> >>)

JupiterSwapVisualizer(i) ==
  IF Len(i.data) < 8 THEN Rejected
  ELSE IF Routes(i.data) = {} THEN UnknownJupiter(i)
  ELSE IF Len(i.data) < 19 THEN Rejected
  ELSE LET in_token == TokenAt(i, 0)
           out_token == TokenAt(i, 5)
           name == RouteNames[CHOOSE k \in Routes(i.data) : TRUE]
           text == format_jupiter_swap_instruction(i, name, in_token, out_token)
       IN  Preview(text, << <<"Instruction", text>> >>,
                   create_jupiter_swap_expanded_fields(i, in_token, out_token))

-----------------------------------------------------------------------------
UnknownProgramVisualizer(i) ==
  Preview(<<i.program>>, << <<"Program", i.program>> >>,
          << <<"Program_ID", i.program>>, <<"Instruction_Data", i.data>> >>)

(* visualize_with_any: the visualizer whose config has the program.        *)
VisualizeInstruction(i) ==
  CASE i.program = System -> SystemVisualizer(i)
    [] i.program = Jupiter -> JupiterSwapVisualizer(i)
    [] i.program = ComputeBudget -> ComputeBudgetVisualizer(i)
    [] i.program = AssociatedTokenAccount -> AssociatedTokenAccountVisualizer(i)
    [] i.program = StakePool -> StakepoolVisualizer(i)
    [] OTHER -> UnknownProgramVisualizer(i)
=============================================================================
