--------------------------- MODULE SolanaMessages ---------------------------
(***************************************************************************)
(* Four families of messages: every header over up to four keys; one       *)
(* instruction with any program and any two accounts, in the message, from *)
(* a lookup table or from nowhere, or two instructions; Jupiter swaps      *)
(* whose six accounts come from the message or from a table; and one       *)
(* instruction of each preset with data that decode, or do not, or stop at *)
(* a boundary.                                                             *)
(***************************************************************************)
EXTENDS Integers, Sequences, TLC

Bounded(S, n) == UNION {[1..k -> S] : k \in 0..n}

Message(version, keys, header, lookups, instructions) ==
  [version |-> version, account_keys |-> keys,
   required_signatures |-> header[1], readonly_signed |-> header[2],
   readonly_unsigned |-> header[3],
   address_table_lookups |-> lookups, instructions |-> instructions]

Versions == {"legacy", "v0"}
OneTable == <<[table |-> "table1", writable |-> <<7>>, readonly |-> <<>>]>>
Lookups(version) == IF version = "v0" THEN {<<>>, OneTable} ELSE {<<>>}

Keys4 == <<"ann", "system", "bob", "other">>

Headers ==
  {Message(v, SubSeq(Keys4, 1, n), h, <<>>, <<>>) :
     v \in Versions, n \in 0..4, h \in (0..5) \X (0..3) \X (0..3)}

(* What bincode and borsh decode; bincode does not mind bytes behind it.   *)
CreateData == <<0, 9, 1>>
NoData == <<255>>

MCSystemInstruction ==
  CreateData :> [name |-> "CreateAccount", lamports |-> 9, space |-> 1, owner |-> "other"]
  @@ <<0, 9, 2>> :> [name |-> "CreateAccount", lamports |-> 9, space |-> 2, owner |-> "other"]
  @@ <<2, 9>> :> [name |-> "Transfer", lamports |-> 9]
  @@ <<2, 9, 7>> :> [name |-> "Transfer", lamports |-> 9]
  @@ <<1, 1>> :> [name |-> "Assign", labelled |-> "bob", owner |-> "bob"]
  @@ <<1, 2>> :> [name |-> "Assign", labelled |-> "other", owner |-> "other"]
  @@ <<3, 1>> :> [name |-> "CreateAccountWithSeed", labelled |-> "bob", seed |-> 1]
  @@ <<3, 2>> :> [name |-> "CreateAccountWithSeed", labelled |-> "bob", seed |-> 2]

MCComputeBudgetInstruction ==
  <<0>> :> [name |-> "Unused"]
  @@ <<1, 5>> :> [name |-> "RequestHeapFrame", number |-> 5]
  @@ <<2, 5>> :> [name |-> "SetComputeUnitLimit", number |-> 5]
  @@ <<3, 5>> :> [name |-> "SetComputeUnitPrice", number |-> 5]
  @@ <<3, 6>> :> [name |-> "SetComputeUnitPrice", number |-> 6]
  @@ <<4, 5>> :> [name |-> "SetLoadedAccountsDataSizeLimit", number |-> 5]

MCStakePoolInstruction ==
  <<12, 1>> :> [name |-> "Set_Fee"] @@ <<12, 2>> :> [name |-> "Set_Fee"]
  @@ <<14, 5>> :> [name |-> "Deposit_SOL"]

MCTokenTransfer == <<3, 4>> :> 4 @@ <<3, 5>> :> 5

Instruction(p, a, d) == [program |-> p, accounts |-> a, data |-> d]

SingleInstructions ==
  {<<Instruction(p, a, d)>> :
     p \in 0..4, a \in Bounded(0..4, 2), d \in {CreateData, <<2, 9>>, NoData}}

PairedInstructions ==
  Bounded({Instruction(p, a, d) :
             p \in {1, 3, 4}, a \in {<<0, 2>>, <<4, 2, 0>>}, d \in {CreateData, NoData}}, 2)

WithInstructions ==
  UNION {{Message(v, Keys4, <<1, 0, 1>>, l, is) :
            l \in Lookups(v), is \in SingleInstructions \cup PairedInstructions} :
           v \in Versions}

(* The discriminators of the three kinds of swap, and one of neither.      *)
Route == <<229, 23, 203, 151, 122, 227, 173, 42>>
ExactOutRoute == <<75, 215, 223, 168, 12, 208, 182, 42>>
SharedAccountsRoute == <<58, 242, 170, 174, 47, 182, 212, 42>>
NoRoute == <<1, 2, 3, 4, 5, 6, 7, 8>>

Number(n, width) == [k \in 1..width |-> IF k = 1 THEN n ELSE 0]
SwapArgs(in, out, slippage, fee) ==
  Number(in, 8) \o Number(out, 8) \o Number(slippage, 2) \o <<fee>>

Keys8 == <<"ann", "jupiter", "mint1", "mint2", "pool", "vault", "bob", "mint3">>

Swaps ==
  UNION {{Message(v, Keys8, <<1, 0, 2>>, l, <<Instruction(1, a, d)>>) :
            l \in Lookups(v),
            d \in {Route \o SwapArgs(5, 6, 7, 0), NoRoute},
            a \in {<<2, 4, 5, 6, 0, 3>>, <<2, 4, 8, 6, 0, 3>>, <<8, 4, 5, 6, 0, 3>>,
                   <<2, 8, 5, 6, 0, 3, 7>>, <<2, 4, 5, 6, 0, 8, 7>>, <<2, 4, 5>>}} :
           v \in Versions}

SwapDatas ==
  {Route \o <<9>> \o SwapArgs(i, o, s, f) :
     i \in {5, 6}, o \in {6, 7}, s \in {7}, f \in {0, 1}}
  \cup {d \o SwapArgs(5, 6, 7, 0) : d \in {Route, ExactOutRoute, SharedAccountsRoute}}
  \cup {NoRoute, SubSeq(Route, 1, 7), Route,
        SubSeq(Route \o Number(5, 20), 1, 18), SubSeq(Route \o Number(5, 20), 1, 19)}

Keys11 == <<"ann", "system", "budget", "ata", "pool", "jupiter", "other",
            "usdc", "mint1", "mint3", "token">>

DatasOf ==
  <<DOMAIN MCSystemInstruction \cup {NoData},
    DOMAIN MCComputeBudgetInstruction \cup {NoData},
    {<<>>, <<0>>, <<0, 7>>, <<1>>, <<2>>, <<3>>},
    DOMAIN MCStakePoolInstruction \cup {NoData},
    SwapDatas,
    {<<>>, <<0>>, <<2, 9>>},
    {}, {}, {},
    DOMAIN MCTokenTransfer \cup {NoData}>>

(* Of the tokens, one is in the table, two begin and end alike.            *)
MCCompared ==
  UNION {{Message("legacy", Keys11, <<1, 0, 1>>, <<>>, <<Instruction(p, a, d)>>) :
            d \in DatasOf[p],
            a \in {<<0>>, <<7, 8, 0, 0, 0, 9>>, <<8, 7, 0, 0, 0, 9>>, <<7, 0, 0, 0, 0, 8>>}} :
           p \in DOMAIN DatasOf}

MCMessages == Headers \cup WithInstructions \cup Swaps \cup MCCompared

MCTokens == ("usdc" :> [symbol |-> "USDC", name |-> <<"USD_Coin">>])

MCTruncated ==
  [a \in {"ann", "bob", "other", "pool", "vault", "system", "jupiter", "mint1", "mint2",
          "mint3"} |-> IF a \in {"mint1", "mint3"} THEN "min...int" ELSE a]

MCParserRejects ==
  {m \in WithInstructions : Len(m.instructions) = 2 /\ m.instructions[1].program = 3}
=============================================================================
